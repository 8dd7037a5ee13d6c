---------------------------- MODULE ReadSideProofs ----------------------------
(***************************************************************************)
(* Theorems about what is read: the tiers behind lfp_smart                 *)
(* (StorageTiers) and the queries over the tables (FundingQueries), for    *)
(* any widths, ages and schedules, any contracts, rates and requests.      *)
(*                                                                         *)
(* No sample is lost: a policy knows every bucket its window has not       *)
(* reached as changed, and keeps the ones it has reached, unless a later   *)
(* run found their raw rows gone.  The borders of lfp_smart cut by the     *)
(* start of a bucket, so a sample in a bucket that a border cuts is older  *)
(* than the border for one layer and younger for the next; this is the     *)
(* only way for a sample to be shown twice if every layer is as long as    *)
(* the widest bucket.  The layers of migration 005 are hours and days      *)
(* long, the widest bucket an hour.                                        *)
(*                                                                         *)
(* A client that pages is given every pair because the rows above a rank   *)
(* are on the pages before it, whatever order ties come in; the endpoints  *)
(* agree because a total is linear in the rates and additive in the points *)
(* (SumsScale, SumsJoin); sums stay on show because a contract is never    *)
(* more than one settlement behind.                                        *)
(***************************************************************************)
EXTENDS StorageTiers, FundingQueries, FiniteSetTheorems, WellFoundedInduction, TLAPS

-----------------------------------------------------------------------------
(* The tiers. *)

LayersAreLong == \A j \in Tiers, k \in Tiers : Width[k] <= Oldest[j] - Newest(j)

\* What changed is made of buckets of the samples there have been.
InvalidInv == \A j \in Tiers : invalid[j] \subseteq {TimeBucket(j, t) : t \in 0..tick}

TierInv == TierTypeOK /\ InvalidInv

-----------------------------------------------------------------------------
(* Buckets. *)

LEMMA BucketHoldsItsTick ==
  ASSUME NEW j \in Tiers, NEW t \in Nat
  PROVE  /\ TimeBucket(j, t) \in 0..t
         /\ t < TimeBucket(j, t) + Width[j]
<1>1. Width[j] \in Nat \ {0}
  BY TierAssumption DEF TierAssumption
<1>2. t % Width[j] \in 0..(Width[j] - 1)
  BY <1>1
<1>3. t % Width[j] <= t
  BY <1>1
<1> QED
  BY <1>1, <1>2, <1>3 DEF TimeBucket

-----------------------------------------------------------------------------
(* Types. *)

LEMMA TierInvInit == TierInit => TierInv
  BY TierAssumption
  DEF TierAssumption, TierInit, TierInv, TierTypeOK, InvalidInv

LEMMA SampleKeepsTierInv == TierInv /\ Sample => TierInv'
<1> SUFFICES ASSUME TierInv, Sample
             PROVE  TierInv'
  OBVIOUS
<1>1. tick \in Nat /\ tick' = tick + 1 /\ tick + 1 \in 0..TierHorizon /\ UNCHANGED <<rawFrom, kept>>
  BY TierAssumption DEF TierAssumption, TierInv, TierTypeOK, Sample
<1>2. 0..tick \subseteq 0..tick'
  BY <1>1
<1>3. \A j \in Tiers : TimeBucket(j, tick) \in 0..tick
  BY <1>1, BucketHoldsItsTick
<1>4. invalid' = [j \in Tiers |-> invalid[j] \cup {TimeBucket(j, tick)}]
  BY DEF Sample
<1>5. InvalidInv'
  BY <1>1, <1>2, <1>4 DEF TierInv, InvalidInv, TimeBucket
<1>6. rawFrom \in 0..tick'
  BY <1>1, <1>2 DEF TierInv, TierTypeOK
<1>7. invalid' \in [Tiers -> SUBSET (0..tick')]
  BY <1>1, <1>2, <1>3, <1>4 DEF TierInv, TierTypeOK
<1>8. /\ kept \in [Tiers -> SUBSET (0..tick')]
      /\ \A j \in Tiers : kept[j] \subseteq {TimeBucket(j, t) : t \in 0..tick'}
  BY <1>1, <1>2 DEF TierInv, TierTypeOK
<1> QED
  BY <1>1, <1>5, <1>6, <1>7, <1>8 DEF TierInv, TierTypeOK, TimeBucket

LEMMA RefreshKeepsTierInv ==
  ASSUME TierInv, NEW j \in Tiers, Refresh(j)
  PROVE  TierInv'
<1>1. RefreshWindow(j) \subseteq invalid[j]
  BY DEF RefreshWindow
<1>2. \A i \in Tiers : /\ invalid'[i] \subseteq invalid[i]
                       /\ kept'[i] \subseteq kept[i] \cup invalid[i]
  BY <1>1 DEF Refresh, TierInv, TierTypeOK
<1>3. kept' \in [Tiers -> SUBSET (0..tick)] /\ invalid' \in [Tiers -> SUBSET (0..tick)]
  BY <1>1 DEF Refresh, TierInv, TierTypeOK
<1>4. UNCHANGED <<tick, rawFrom>>
  BY DEF Refresh
<1> QED
  BY <1>2, <1>3, <1>4 DEF TierInv, TierTypeOK, InvalidInv, TimeBucket

LEMMA DropChunkKeepsTierInv == TierInv /\ DropChunk => TierInv'
<1> SUFFICES ASSUME TierInv, DropChunk
             PROVE  TierInv'
  OBVIOUS
<1>1. /\ tick \in Nat /\ rawFrom \in Nat /\ Chunk \in Nat \ {0} /\ RawRetention \in Nat
      /\ rawFrom + Chunk <= tick - RawRetention
  BY TierAssumption DEF TierAssumption, TierInv, TierTypeOK, DropChunk, Droppable
<1>2. rawFrom' = rawFrom + Chunk /\ rawFrom' \in 0..tick /\ UNCHANGED <<tick, kept>>
  BY <1>1 DEF DropChunk
<1>3. \A t \in rawFrom..(rawFrom + Chunk - 1) : t \in 0..tick
  BY <1>1
<1>4. invalid' = [j \in Tiers |->
        invalid[j] \cup {TimeBucket(j, t) : t \in rawFrom..(rawFrom + Chunk - 1)}]
  BY DEF DropChunk
<1>5. \A j \in Tiers, t \in 0..tick : TimeBucket(j, t) \in 0..tick
  BY <1>1, BucketHoldsItsTick
<1>6. invalid' \in [Tiers -> SUBSET (0..tick)]
  BY <1>3, <1>4, <1>5 DEF TierInv, TierTypeOK
<1>7. \A j \in Tiers : invalid'[j] \subseteq {TimeBucket(j, t) : t \in 0..tick}
  BY <1>3, <1>4 DEF TierInv, InvalidInv
<1> QED
  BY <1>2, <1>6, <1>7 DEF TierInv, TierTypeOK, InvalidInv, TimeBucket

LEMMA TierInvStep == TierInv /\ [TierNext]_tierVars => TierInv'
<1> SUFFICES ASSUME TierInv, [TierNext]_tierVars
             PROVE  TierInv'
  OBVIOUS
<1>1. CASE Sample
  BY <1>1, SampleKeepsTierInv
<1>2. CASE DropChunk
  BY <1>2, DropChunkKeepsTierInv
<1>3. ASSUME NEW j \in Tiers, Refresh(j) PROVE TierInv'
  BY <1>3, RefreshKeepsTierInv
<1>4. CASE UNCHANGED tierVars
  BY <1>4 DEF tierVars, TierInv, TierTypeOK, InvalidInv, TimeBucket
<1> QED
  BY <1>1, <1>2, <1>3, <1>4 DEF TierNext

\* The variables have their types; the tiers hold buckets of samples there
\* have been, and the raw rows begin in the past.
THEOREM TierTypeCorrect == TierSpec => []TierTypeOK
<1>1. TierInv => TierTypeOK
  BY DEF TierInv
<1> QED
  BY <1>1, TierInvInit, TierInvStep, PTL DEF TierSpec

-----------------------------------------------------------------------------
(* Layers. *)

LEMMA ShownByItsLayer ==
  ASSUME TierTypeOK, NEW t \in 0..(tick - 1)
  PROVE  LET tiers == TiersOf(LivePoints(0, tick), t)
         IN  /\ tiers \subseteq 0..3
             /\ 0 \in tiers => t >= tick - RawAge
             /\ \A j \in Tiers \cap tiers : /\ tick - Oldest[j] <= TimeBucket(j, t)
                                            /\ TimeBucket(j, t) < tick - Newest(j)
<1> DEFINE answer == LivePoints(0, tick)
           tiers == TiersOf(answer, t)
<1>1. tiers \subseteq 0..3
  BY DEF TiersOf, Tiers
<1>2. ASSUME 0 \in tiers
      PROVE  t >= tick - RawAge
  <2>1. <<0, t>> \in answer
    BY <1>2 DEF TiersOf, Tiers
  <2> QED
    BY <2>1 DEF LivePoints, RawRows, Tiers
<1>3. ASSUME NEW j \in Tiers, j \in tiers
      PROVE  TimeBucket(j, t) \in Layer(j)
  <2> DEFINE x == TimeBucket(j, t) + Width[j]
  <2>1. <<j, x>> \in answer
    BY <1>3 DEF TiersOf, Tiers
  <2>2. PICK i \in Tiers : <<j, x>> \in
          {<<i, b + Width[i]>> : b \in {c \in Layer(i) : 0 <= c + Width[i] /\ c + Width[i] <= tick}}
    BY <2>1 DEF LivePoints, Tiers
  <2>3. PICK b \in Layer(i) : <<j, x>> = <<i, b + Width[i]>>
    BY <2>2
  <2>4. i = j /\ b + Width[j] = TimeBucket(j, t) + Width[j] /\ b \in Layer(j)
    BY <2>3
  <2>5. b \in Int /\ TimeBucket(j, t) \in Int /\ Width[j] \in Int
    BY <2>4, BucketHoldsItsTick, TierAssumption DEF TierAssumption, Layer, TierTypeOK
  <2>6. \A x1, x2, w \in Int : x1 + w = x2 + w => x1 = x2
    OBVIOUS
  <2>7. b = TimeBucket(j, t)
    BY ONLY <2>4, <2>5, <2>6, Zenon
  <2> QED
    BY <2>4, <2>7
<1> QED
  BY <1>1, <1>2, <1>3 DEF Layer

LEMMA NoThreeTiers ==
  ASSUME NEW S \in SUBSET (0..3),
         \A i \in S, k \in S : i < k => k = i + 1
  PROVE  /\ Cardinality(S) <= 2
         /\ Cardinality(S) = 2 => \E i \in 0..2 : i \in S /\ i + 1 \in S
<1>1. PICK i \in 0..2 : S \subseteq {i, i + 1}
  <2>1. CASE S = {}
    BY <2>1
  <2>2. CASE S # {}
    <3>1. PICK x \in S : TRUE
      BY <2>2
    <3>2. CASE \E y \in S : y < x
      <4>1. PICK y \in S : y < x
        BY <3>2
      <4>2. x = y + 1 /\ y \in 0..2
        BY <4>1
      <4>3. \A z \in S : z = y \/ z = y + 1
        BY <4>1, <4>2
      <4> QED
        BY <4>2, <4>3
    <3>3. CASE \A y \in S : ~(y < x)
      <4>1. \A y \in S : y = x \/ y = x + 1
        BY <3>1, <3>3
      <4>2. CASE x = 3
        <5>1. \A y \in S : y = 2 \/ y = 2 + 1
          BY <4>1, <4>2
        <5>2. 2 \in 0..2 /\ S \subseteq {2, 2 + 1}
          BY <5>1
        <5> QED
          BY <5>2
      <4>3. CASE x \in 0..2
        BY <4>1, <4>3
      <4> QED
        BY <3>1, <4>2, <4>3
    <3> QED
      BY <3>2, <3>3
  <2> QED
    BY <2>1, <2>2
<1>2. IsFiniteSet({i, i + 1}) /\ Cardinality({i, i + 1}) = 2
  <2>1. i # i + 1
    OBVIOUS
  <2>2. IsFiniteSet({i + 1}) /\ Cardinality({i + 1}) = 1
    BY FS_Singleton
  <2>3. {i + 1} \cup {i} = {i, i + 1} /\ i \notin {i + 1}
    BY <2>1
  <2> QED
    BY <2>2, <2>3, FS_AddElement
<1>3. /\ Cardinality(S) <= Cardinality({i, i + 1})
      /\ Cardinality(S) = Cardinality({i, i + 1}) => S = {i, i + 1}
  BY <1>1, <1>2, FS_Subset
<1> QED
  BY <1>2, <1>3

LEMMA TiersShareBordersOnly ==
  ASSUME TierTypeOK, LayersAreLong, NEW t \in 0..(tick - 1),
         NEW i \in TiersOf(LivePoints(0, tick), t), NEW k \in TiersOf(LivePoints(0, tick), t), i < k
  PROVE  /\ k = i + 1 /\ k \in Tiers
         /\ TimeBucket(k, t) < tick - Newest(k)
         /\ tick - Newest(k) < TimeBucket(k, t) + Width[k]
<1>1. /\ i \in 0..3 /\ k \in Tiers /\ t \in Nat /\ tick \in Nat
      /\ i = 0 => t >= tick - RawAge
      /\ i \in Tiers => TimeBucket(i, t) >= tick - Oldest[i]
      /\ TimeBucket(k, t) < tick - Newest(k)
  BY ShownByItsLayer DEF TierTypeOK, Tiers
<1>2. /\ RawAge \in Nat /\ \A j \in Tiers : Oldest[j] \in Nat /\ Width[j] \in Nat \ {0}
      /\ RawAge < Oldest[1] /\ Oldest[1] < Oldest[2] /\ Oldest[2] < Oldest[3]
  BY TierAssumption DEF TierAssumption
<1>3. TimeBucket(k, t) \in Nat /\ t < TimeBucket(k, t) + Width[k]
  BY <1>1, BucketHoldsItsTick
<1>4. i \in Tiers => TimeBucket(i, t) \in 0..t
  BY <1>1, BucketHoldsItsTick
<1> DEFINE age == IF i = 0 THEN RawAge ELSE Oldest[i]
           b == TimeBucket(k, t)
<1>5. age \in Nat /\ t >= tick - age
  BY <1>1, <1>2, <1>4 DEF Tiers
<1>6. CASE k = i + 1
  <2>1. Newest(k) = age
    BY <1>1, <1>6 DEF Newest, Tiers
  <2> QED
    BY <1>1, <1>2, <1>3, <1>5, <1>6, <2>1
<1>7. CASE k # i + 1
  <2>1. i + 1 \in Tiers /\ i + 1 < k
    BY <1>1, <1>7 DEF Tiers
  <2>2. Newest(i + 1) = age
    BY <1>1 DEF Newest, Tiers
  <2>3. Width[k] <= Oldest[i + 1] - age
    BY <1>1, <2>1, <2>2 DEF LayersAreLong
  <2>4. Newest(k) \in Nat /\ Oldest[i + 1] <= Newest(k)
    BY <1>1, <1>2, <2>1 DEF Newest, Tiers
  <2>5. b < tick - Oldest[i + 1] /\ Oldest[i + 1] \in Nat
    BY <1>1, <1>2, <1>3, <2>1, <2>4
  <2> QED
    BY <1>1, <1>2, <1>3, <1>5, <2>3, <2>5
<1> QED
  BY <1>6, <1>7

\* lfp_smart never shows a sample in three layers, and in two only if the border
\* between them cuts its bucket, as long as every layer is as long as the widest
\* bucket; whenever the policies run and whatever retention has dropped.
THEOREM OverlapsAreAtBorders == ASSUME LayersAreLong PROVE TierSpec => []ShownTwiceAtBordersOnly
<1>1. ASSUME TierInv
      PROVE  ShownTwiceAtBordersOnly
  <2> SUFFICES ASSUME NEW t \in 0..(tick - 1)
               PROVE  LET tiers == TiersOf(LivePoints(0, tick), t)
                      IN  /\ Cardinality(tiers) <= 2
                          /\ Cardinality(tiers) = 2 =>
                               \E j \in Tiers : /\ TimeBucket(j, t) < tick - Newest(j)
                                                /\ tick - Newest(j) < TimeBucket(j, t) + Width[j]
    BY DEF ShownTwiceAtBordersOnly
  <2> DEFINE tiers == TiersOf(LivePoints(0, tick), t)
  <2>1. TierTypeOK
    BY <1>1 DEF TierInv
  <2>2. \A i \in tiers, k \in tiers : i < k =>
          /\ k = i + 1 /\ k \in Tiers
          /\ TimeBucket(k, t) < tick - Newest(k)
          /\ tick - Newest(k) < TimeBucket(k, t) + Width[k]
    BY <2>1, TiersShareBordersOnly
  <2>3. tiers \in SUBSET (0..3)
    BY <2>1, ShownByItsLayer
  <2> HIDE DEF tiers
  <2>4. /\ Cardinality(tiers) <= 2
        /\ Cardinality(tiers) = 2 => \E i \in 0..2 : i \in tiers /\ i + 1 \in tiers
    BY <2>2, <2>3, NoThreeTiers
  <2>5. ASSUME Cardinality(tiers) = 2
        PROVE  \E j \in Tiers : /\ TimeBucket(j, t) < tick - Newest(j)
                                /\ tick - Newest(j) < TimeBucket(j, t) + Width[j]
    <3>1. PICK i \in 0..2 : i \in tiers /\ i + 1 \in tiers
      BY <2>4, <2>5
    <3>2. i < i + 1
      OBVIOUS
    <3> QED
      BY <2>2, <3>1, <3>2
  <2> QED
    BY <2>4, <2>5 DEF tiers
<1> QED
  BY <1>1, TierInvInit, TierInvStep, PTL DEF TierSpec

-----------------------------------------------------------------------------
(* No sample is lost on its way. *)

\* A policy comes back to a bucket before its window has passed it, and before
\* the view reads it; raw rows outlive the age at which they are read.  The
\* migrations refresh hours or days back every half hour to four hours.
PoliciesKeepUp ==
  /\ RawAge <= RawRetention
  /\ \A j \in Tiers : /\ Width[j] + EndOffset[j] + Schedule[j] <= StartOffset[j]
                      /\ Width[j] + EndOffset[j] + Schedule[j] <= Newest(j)

\* The last run of a policy, its window's end, and what it has to have read.
Reached(j) == due[j] - Schedule[j] - EndOffset[j]

RawInv == \E q \in Nat : rawFrom = q * Chunk /\ (q = 0 \/ rawFrom <= tick - RawRetention)

\* What a policy's window has not reached yet is known to have changed; what it
\* has is kept, unless a later run found the raw rows gone.
ReachedInv ==
  /\ due \in [Tiers -> Nat]
  /\ \A j \in Tiers :
       /\ due[j] \in tick..(tick + Schedule[j])
       /\ \A t \in 0..(tick - 1) :
            LET b == TimeBucket(j, t)
            IN  IF b + Width[j] <= Reached(j) THEN Safe(j, b) => b \in kept[j]
                ELSE b \in invalid[j]

LossInv == TierInv /\ RawInv /\ ReachedInv

LEMMA TierConstants ==
  /\ Chunk \in Nat \ {0} /\ RawAge \in Nat /\ RawRetention \in Nat
  /\ \A j \in Tiers : /\ Width[j] \in Nat \ {0} /\ StartOffset[j] \in Nat /\ EndOffset[j] \in Nat
                      /\ Schedule[j] \in Nat \ {0} /\ Oldest[j] \in Nat /\ Newest(j) \in Nat
BY TierAssumption DEF TierAssumption, Newest, Tiers

LEMMA LossInvInit == TierInit => LossInv
<1> SUFFICES ASSUME TierInit
             PROVE  LossInv
  OBVIOUS
<1>1. TierInv /\ RawInv
  <2>1. 0 \in Nat /\ rawFrom = 0 * Chunk
    BY TierConstants DEF TierInit
  <2> QED
    BY <2>1, TierInvInit DEF RawInv
<1>2. tick = 0 /\ due \in [Tiers -> Nat] /\ \A j \in Tiers : due[j] = Schedule[j]
  BY TierAssumption DEF TierAssumption, TierInit
<1>3. 0..(tick - 1) = {}
  BY <1>2
<1> QED
  BY <1>1, <1>2, <1>3, TierConstants DEF LossInv, ReachedInv

LEMMA SampleKeepsLossInv ==
  ASSUME LossInv, Sample
  PROVE  LossInv'
<1>1. TierInv'
  BY SampleKeepsTierInv DEF LossInv
<1>2. /\ tick \in Nat /\ tick' = tick + 1 /\ rawFrom \in Nat /\ UNCHANGED <<rawFrom, kept, due>>
      /\ \A j \in Tiers : due[j] > tick
      /\ \A j \in Tiers : invalid'[j] = invalid[j] \cup {TimeBucket(j, tick)}
  BY DEF LossInv, TierInv, TierTypeOK, Sample
<1>3. RawInv'
  BY <1>2, TierConstants DEF LossInv, RawInv
<1>4. ASSUME NEW j \in Tiers
      PROVE  /\ due'[j] \in tick'..(tick' + Schedule[j])
             /\ \A t \in 0..(tick' - 1) :
                  LET b == TimeBucket(j, t)
                  IN  IF b + Width[j] <= Reached(j)' THEN Safe(j, b) => b \in kept'[j]
                      ELSE b \in invalid'[j]
  <2>1. due[j] \in tick..(tick + Schedule[j]) /\ due[j] > tick
    BY <1>2 DEF LossInv, ReachedInv
  <2>2. due'[j] \in tick'..(tick' + Schedule[j]) /\ Reached(j)' = Reached(j)
    BY <1>2, <2>1, TierConstants DEF Reached
  <2>3. ASSUME NEW t \in 0..(tick - 1)
        PROVE  LET b == TimeBucket(j, t)
               IN  IF b + Width[j] <= Reached(j) THEN Safe(j, b) => b \in kept'[j]
                   ELSE b \in invalid'[j]
    BY <1>2 DEF LossInv, ReachedInv
  <2>4. ~(TimeBucket(j, tick) + Width[j] <= Reached(j)) /\ TimeBucket(j, tick) \in invalid'[j]
    <3>1. tick < TimeBucket(j, tick) + Width[j] /\ TimeBucket(j, tick) \in Nat
      BY <1>2, BucketHoldsItsTick
    <3>2. Reached(j) \in Int /\ Reached(j) <= tick
      BY <1>2, <2>1, TierConstants DEF Reached
    <3> QED
      BY <1>2, <3>1, <3>2, TierConstants
  <2>5. ASSUME NEW t \in 0..(tick' - 1)
        PROVE  t \in 0..(tick - 1) \/ t = tick
    BY <1>2
  <2> QED
    BY <2>2, <2>3, <2>4, <2>5
<1>5. due' \in [Tiers -> Nat]
  BY <1>2 DEF LossInv, ReachedInv
<1>6. ReachedInv'
  BY <1>4, <1>5 DEF ReachedInv, Reached
<1> QED
  BY <1>1, <1>3, <1>6 DEF LossInv

\* A bucket that its policy can still reach has its raw rows.
LEMMA ReachedWithRows ==
  ASSUME LossInv, NEW j \in Tiers, NEW b \in Nat, Safe(j, b), tick - StartOffset[j] <= b,
         b < tick
  PROVE  b \in Ticks(j, b) \cap StoredTicks
<1>1. /\ tick \in Nat /\ rawFrom \in Nat /\ Chunk \in Nat \ {0} /\ Width[j] \in Nat \ {0}
      /\ StartOffset[j] \in Nat /\ RawRetention \in Nat
  BY TierConstants DEF LossInv, TierInv, TierTypeOK
<1>2. PICK q \in Nat : rawFrom = q * Chunk /\ (q = 0 \/ rawFrom <= tick - RawRetention)
  BY DEF LossInv, RawInv
<1>3. PICK p : p = b \div Chunk
  OBVIOUS
<1>4. PICK c : c = p * Chunk
  OBVIOUS
<1>5. p \in Nat /\ c \in Nat /\ c <= b /\ b % Chunk = b - c
  BY <1>1, <1>3, <1>4
<1>6. ChunkEnd(b) = c + Chunk
  BY <1>1, <1>5 DEF ChunkEnd
<1>7. rawFrom <= b
  <2> SUFFICES ASSUME q # 0
               PROVE  rawFrom <= b
    BY <1>1, <1>2
  <2>1. rawFrom < c + Chunk
    BY <1>1, <1>2, <1>5, <1>6 DEF Safe
  <2>2. ~(p + 1 <= q)
    <3> SUFFICES ASSUME p + 1 <= q
                 PROVE  FALSE
      OBVIOUS
    <3>1. (q - (p + 1)) * Chunk >= 0
      BY <1>1, <1>2, <1>5
    <3>2. (q - (p + 1)) * Chunk = rawFrom - c - Chunk
      BY <1>1, <1>2, <1>4, <1>5
    <3> QED
      BY <1>1, <1>5, <2>1, <3>1, <3>2
  <2>3. (p - q) * Chunk >= 0 /\ (p - q) * Chunk = c - rawFrom
    BY <1>1, <1>2, <1>4, <1>5, <2>2
  <2> QED
    BY <1>1, <1>5, <2>3
<1> QED
  BY <1>1, <1>7 DEF Ticks, StoredTicks

LEMMA RefreshKeepsLossInv ==
  ASSUME LossInv, PoliciesKeepUp, NEW i \in Tiers, Refresh(i)
  PROVE  LossInv'
<1>1. TierInv' /\ UNCHANGED <<tick, rawFrom>> /\ RawInv'
  BY RefreshKeepsTierInv DEF LossInv, Refresh, RawInv
<1>2. /\ tick \in Nat /\ due[i] <= tick
      /\ kept \in [Tiers -> SUBSET (0..tick)] /\ invalid \in [Tiers -> SUBSET (0..tick)]
  BY DEF LossInv, TierInv, TierTypeOK, Refresh
<1>3. /\ \A j \in Tiers : due[j] \in tick..(tick + Schedule[j])
      /\ \A j \in Tiers, t \in 0..(tick - 1) :
           LET b == TimeBucket(j, t)
           IN  IF b + Width[j] <= Reached(j) THEN Safe(j, b) => b \in kept[j] ELSE b \in invalid[j]
  BY DEF LossInv, ReachedInv
<1>4. ASSUME NEW j \in Tiers, j # i
      PROVE  UNCHANGED <<kept[j], invalid[j], due[j]>>
  BY <1>2, <1>4 DEF Refresh, LossInv, ReachedInv
<1>5. /\ kept'[i] = (kept[i] \ RefreshWindow(i)) \cup
                      {b \in RefreshWindow(i) : Ticks(i, b) \cap StoredTicks # {}}
      /\ invalid'[i] = invalid[i] \ RefreshWindow(i)
  BY <1>2 DEF Refresh
<1>6. due'[i] \in tick..(tick + Schedule[i]) /\ Reached(i)' = tick - EndOffset[i]
  <2>1. due'[i] = tick + Schedule[i]
    BY DEF LossInv, ReachedInv, Refresh
  <2> QED
    BY <1>2, <2>1, TierConstants DEF Reached
<1>7. ASSUME NEW t \in 0..(tick - 1)
      PROVE  LET b == TimeBucket(i, t)
             IN  IF b + Width[i] <= tick - EndOffset[i] THEN Safe(i, b) => b \in kept'[i]
                 ELSE b \in invalid'[i]
  <2>1. PICK b : b = TimeBucket(i, t)
    OBVIOUS
  <2>2. b \in 0..t /\ t < b + Width[i] /\ b \in Nat
    BY <2>1, BucketHoldsItsTick
  <2>3. IF b + Width[i] <= Reached(i) THEN Safe(i, b) => b \in kept[i] ELSE b \in invalid[i]
    BY <1>3, <2>1
  <2>4. /\ Width[i] \in Nat \ {0} /\ EndOffset[i] \in Nat /\ Schedule[i] \in Nat
        /\ StartOffset[i] \in Nat /\ due[i] \in tick..(tick + Schedule[i]) /\ due[i] = tick
        /\ Width[i] + EndOffset[i] + Schedule[i] <= StartOffset[i]
    BY <1>2, <1>3, TierConstants DEF PoliciesKeepUp
  <2>5. Reached(i) = tick - Schedule[i] - EndOffset[i]
    BY <2>4 DEF Reached
  <2>6. CASE b + Width[i] <= tick - EndOffset[i]
    <3> SUFFICES ASSUME Safe(i, b)
                 PROVE  b \in kept'[i]
      BY <2>1, <2>6
    <3>1. CASE b \in RefreshWindow(i)
      <4>1. tick - StartOffset[i] <= b /\ b < tick
        BY <1>2, <2>2, <3>1 DEF RefreshWindow
      <4>2. b \in Ticks(i, b) \cap StoredTicks
        BY <2>2, <4>1, ReachedWithRows
      <4> QED
        BY <1>5, <3>1, <4>2
    <3>2. CASE b \notin RefreshWindow(i)
      <4>1. CASE b + Width[i] <= Reached(i)
        BY <1>5, <2>3, <3>2, <4>1
      <4>2. CASE ~(b + Width[i] <= Reached(i))
        <5>1. b \in invalid[i]
          BY <2>3, <4>2
        <5>2. tick - StartOffset[i] <= b
          BY <1>2, <2>2, <2>4, <2>5, <4>2
        <5> QED
          BY <2>6, <3>2, <5>1, <5>2 DEF RefreshWindow
      <4> QED
        BY <4>1, <4>2
    <3> QED
      BY <3>1, <3>2
  <2>7. CASE ~(b + Width[i] <= tick - EndOffset[i])
    <3>1. b \in invalid[i]
      BY <1>2, <2>2, <2>3, <2>4, <2>5, <2>7
    <3>2. b \notin RefreshWindow(i)
      BY <2>7 DEF RefreshWindow
    <3> QED
      BY <1>5, <2>1, <2>7, <3>1, <3>2
  <2> QED
    BY <2>6, <2>7
<1>8. ASSUME NEW j \in Tiers
      PROVE  /\ due'[j] \in tick'..(tick' + Schedule[j])
             /\ \A t \in 0..(tick' - 1) :
                  LET b == TimeBucket(j, t)
                  IN  IF b + Width[j] <= Reached(j)' THEN Safe(j, b) => b \in kept'[j]
                      ELSE b \in invalid'[j]
  <2>1. CASE j = i
    BY <1>1, <1>6, <1>7, <2>1
  <2>2. CASE j # i
    <3>1. Reached(j)' = Reached(j)
      BY <1>4, <2>2 DEF Reached
    <3> QED
      BY <1>1, <1>3, <1>4, <2>2, <3>1
  <2> QED
    BY <2>1, <2>2
<1>9. due' \in [Tiers -> Nat]
  BY <1>2, TierConstants DEF Refresh, LossInv, ReachedInv
<1>10. ReachedInv'
  BY <1>8, <1>9 DEF ReachedInv, Reached
<1> QED
  BY <1>1, <1>10 DEF LossInv

LEMMA DropChunkKeepsLossInv ==
  ASSUME LossInv, DropChunk
  PROVE  LossInv'
<1>1. TierInv'
  BY DropChunkKeepsTierInv DEF LossInv
<1>2. /\ rawFrom' = rawFrom + Chunk
      /\ rawFrom + Chunk <= tick - RawRetention
      /\ UNCHANGED <<tick, kept, due>> /\ \A j \in Tiers : invalid[j] \subseteq invalid'[j]
  BY DEF DropChunk, Droppable
<1>3. tick \in Nat /\ rawFrom \in Nat /\ Chunk \in Nat \ {0}
  BY TierConstants DEF LossInv, TierInv, TierTypeOK
<1>4. RawInv'
  <2>1. PICK q \in Nat : rawFrom = q * Chunk
    BY DEF LossInv, RawInv
  <2>2. q + 1 \in Nat /\ rawFrom' = (q + 1) * Chunk
    BY <1>2, <1>3, <2>1
  <2>3. rawFrom' <= tick' - RawRetention
    BY <1>2
  <2> QED
    BY <2>2, <2>3 DEF RawInv
<1>5. ReachedInv'
  BY <1>2 DEF LossInv, ReachedInv, Reached
<1> QED
  BY <1>1, <1>4, <1>5 DEF LossInv

LEMMA LossInvStep == ASSUME PoliciesKeepUp PROVE LossInv /\ [TierNext]_tierVars => LossInv'
<1> SUFFICES ASSUME LossInv, [TierNext]_tierVars
             PROVE  LossInv'
  OBVIOUS
<1>1. CASE Sample
  BY <1>1, SampleKeepsLossInv
<1>2. CASE DropChunk
  BY <1>2, DropChunkKeepsLossInv
<1>3. ASSUME NEW j \in Tiers, Refresh(j) PROVE LossInv'
  BY <1>3, RefreshKeepsLossInv
<1>4. CASE UNCHANGED tierVars
  <2>1. TierInv'
    BY <1>4, TierInvStep DEF LossInv
  <2> QED
    BY <1>4, <2>1 DEF tierVars, LossInv, RawInv, ReachedInv, Reached
<1> QED
  BY <1>1, <1>2, <1>3, <1>4 DEF TierNext

LEMMA LossInvSuffices == ASSUME LossInv, PoliciesKeepUp PROVE NoSampleMissing
<1> DEFINE answer == LivePoints(0, tick)
<1>1. tick \in Nat /\ rawFrom \in Nat
  BY DEF LossInv, TierInv, TierTypeOK
<1>2. ASSUME NEW t \in 0..(tick - 1), tick - RawAge <= t
      PROVE  0 \in TiersOf(answer, t)
  <2>1. rawFrom <= t
    BY <1>1, <1>2, TierConstants DEF LossInv, RawInv, PoliciesKeepUp
  <2>2. t \in RawRows \cap (0..tick)
    BY <1>1, <1>2, <2>1 DEF RawRows, StoredTicks
  <2>3. <<0, t>> \in answer
    BY <2>2 DEF LivePoints
  <2> QED
    BY <2>3 DEF TiersOf
<1>3. ASSUME NEW t \in 0..(tick - 1), NEW j \in Tiers, Safe(j, TimeBucket(j, t)),
             t < tick - Newest(j), t >= tick - Oldest[j] + Width[j]
      PROVE  j \in TiersOf(answer, t)
  <2>1. PICK b : b = TimeBucket(j, t)
    OBVIOUS
  <2>2. b \in 0..t /\ t < b + Width[j]
    BY <2>1, BucketHoldsItsTick
  <2>3. /\ Width[j] \in Nat \ {0} /\ EndOffset[j] \in Nat /\ Schedule[j] \in Nat /\ Oldest[j] \in Nat
        /\ Newest(j) \in Nat /\ due[j] \in tick..(tick + Schedule[j])
        /\ Width[j] + EndOffset[j] + Schedule[j] <= Newest(j)
    BY TierConstants DEF LossInv, ReachedInv, PoliciesKeepUp
  <2>4. b + Width[j] <= Reached(j)
    BY <1>1, <1>3, <2>2, <2>3 DEF Reached
  <2>5. b \in kept[j]
    BY <1>3, <2>1, <2>4 DEF LossInv, ReachedInv
  <2>6. tick - Oldest[j] <= b /\ b < tick - Newest(j) /\ 0 <= b + Width[j] /\ b + Width[j] <= tick
    BY <1>1, <1>3, <2>2, <2>3
  <2>7. <<j, b + Width[j]>> \in answer
    BY <2>5, <2>6 DEF LivePoints, Layer
  <2> QED
    BY <2>1, <2>7 DEF TiersOf
<1> QED
  BY <1>2, <1>3 DEF NoSampleMissing

\* Whenever the policies run within their schedules and however late a chunk is
\* dropped, live_points shows every sample, as itself or in the bucket of its age,
\* unless the policy still refreshes the bucket when its raw rows may be gone.
THEOREM SamplesStayReadable == ASSUME PoliciesKeepUp PROVE TierSpec => []NoSampleMissing
<1>1. LossInv => NoSampleMissing
  BY LossInvSuffices
<1> QED
  BY <1>1, LossInvInit, LossInvStep, PTL DEF TierSpec

-----------------------------------------------------------------------------
(* Sums over finite sets. *)

LEMMA LeastNatural ==
  ASSUME NEW S \in SUBSET Nat, S # {}
  PROVE  \E n \in S : \A m \in S : n <= m
<1> DEFINE B == {0..n : n \in S}
<1>1. B \subseteq FiniteSubsetsOf(Nat) /\ B # {}
  <2>1. \A n \in S : 0..n \in SUBSET Nat /\ IsFiniteSet(0..n)
    BY FS_Interval
  <2> QED
    BY <2>1 DEF FiniteSubsetsOf
<1>2. PICK b \in B : \A c \in B : ~(<<c, b>> \in StrictSubsetOrdering(Nat))
  <2> HIDE DEF B
  <2> QED
    BY <1>1, FS_StrictSubsetOrderingWellFounded, WFMin
<1>3. PICK n \in S : b = 0..n
  OBVIOUS
<1>4. ASSUME NEW m \in S
      PROVE  n <= m
  <2> SUFFICES ASSUME m < n
               PROVE  FALSE
    OBVIOUS
  <2>1. n \in 0..n /\ n \notin 0..m /\ 0..m \subseteq 0..n /\ 0..m \subseteq Nat /\ 0..n \subseteq Nat
    OBVIOUS
  <2>2. <<0..m, 0..n>> \in StrictSubsetOrdering(Nat)
    BY <2>1 DEF StrictSubsetOrdering
  <2>3. 0..m \in B
    BY Zenon
  <2> QED
    BY <1>2, <1>3, <2>2, <2>3
<1> QED
  BY <1>4

\* Of a family of subsets of a finite set one has no smaller one in it.
LEMMA SmallestSubset ==
  ASSUME NEW T, IsFiniteSet(T), NEW B \in SUBSET (SUBSET T), B # {}
  PROVE  \E b \in B : \A x \in b : b \ {x} \notin B
<1>1. B \subseteq FiniteSubsetsOf(T)
  BY FS_Subset DEF FiniteSubsetsOf
<1>2. PICK b \in B : \A c \in B : ~(<<c, b>> \in StrictSubsetOrdering(T))
  BY <1>1, FS_StrictSubsetOrderingWellFounded, WFMin
<1>3. ASSUME NEW x \in b, b \ {x} \in B
      PROVE  FALSE
  BY <1>2, <1>3 DEF StrictSubsetOrdering
<1> QED
  BY <1>3

\* The recursion that adds up a function.
AnyOf(s) == CHOOSE x \in s : TRUE
IsSum(i, f, T) ==
  i = [s \in SUBSET T |-> IF s = {} THEN 0 ELSE f[AnyOf(s)] + i[s \ {AnyOf(s)}]]

LEMMA SumIsOne ==
  ASSUME NEW f, NEW T, DOMAIN f = T, \E i : IsSum(i, f, T)
  PROVE  \E i : IsSum(i, f, T) /\ SumFunction(f) = i[T]
<1> DEFINE j == CHOOSE i : IsSum(i, f, T)
<1>1. IsSum(j, f, T)
  OBVIOUS
<1>2. SumFunction(f) = j[T]
  BY DEF SumFunction, SumFunctionOnSet, FoldFunctionOnSet, MapThenFoldSet, IsSum, AnyOf
<1> QED
  BY <1>1, <1>2

\* The recursion has a solution: for the sets of at most n members, one n after
\* the other.
LEMMA SumsExist ==
  ASSUME NEW T, IsFiniteSet(T), NEW f \in [T -> Int]
  PROVE  \E i : IsSum(i, f, T)
<1> DEFINE Small(n) == {s \in SUBSET T : Cardinality(s) <= n}
           Upto(i, n) == /\ i \in [Small(n) -> Int]
                         /\ \A s \in Small(n) :
                              i[s] = IF s = {} THEN 0 ELSE f[AnyOf(s)] + i[s \ {AnyOf(s)}]
           Missing == {n \in Nat : ~\E i : Upto(i, n)}
<1>1. \A s \in SUBSET T : Cardinality(s) \in Nat
  BY FS_Subset, FS_CardinalityType
<1>2. \A s \in SUBSET T : s # {} =>
        /\ AnyOf(s) \in s /\ s \ {AnyOf(s)} \in SUBSET T
        /\ Cardinality(s \ {AnyOf(s)}) = Cardinality(s) - 1
  <2> TAKE s \in SUBSET T
  <2> SUFFICES ASSUME s # {} PROVE /\ AnyOf(s) \in s /\ s \ {AnyOf(s)} \in SUBSET T
                                   /\ Cardinality(s \ {AnyOf(s)}) = Cardinality(s) - 1
    OBVIOUS
  <2>1. AnyOf(s) \in s
    BY DEF AnyOf
  <2>2. IsFiniteSet(s)
    BY FS_Subset
  <2> QED
    BY <2>1, <2>2, FS_RemoveElement
<1>3. \A s \in SUBSET T : Cardinality(s) = 0 => s = {}
  BY FS_Subset, FS_EmptySet
<1>4. \E i : Upto(i, 0)
  <2>1. PICK i : i = [s \in Small(0) |-> 0]
    OBVIOUS
  <2>2. \A s \in Small(0) : s = {}
    BY <1>1, <1>3
  <2>3. Upto(i, 0)
    BY <2>1, <2>2
  <2> QED
    BY <2>3
<1>5. ASSUME NEW n \in Nat, NEW i, Upto(i, n)
      PROVE  \E j : Upto(j, n + 1)
  <2>1. PICK j : j = [s \in Small(n + 1) |-> IF s = {} THEN 0 ELSE f[AnyOf(s)] + i[s \ {AnyOf(s)}]]
    OBVIOUS
  <2>2. \A s \in Small(n + 1) : s # {} => s \ {AnyOf(s)} \in Small(n) /\ AnyOf(s) \in T
    BY <1>1, <1>2
  <2>3. j \in [Small(n + 1) -> Int]
    <3>1. ASSUME NEW s \in Small(n + 1) PROVE (IF s = {} THEN 0 ELSE f[AnyOf(s)] + i[s \ {AnyOf(s)}]) \in Int
      <4>1. CASE s = {}
        BY <4>1
      <4>2. CASE s # {}
        <5>1. f[AnyOf(s)] \in Int /\ i[s \ {AnyOf(s)}] \in Int
          BY <1>5, <2>2, <4>2
        <5> QED
          BY <4>2, <5>1
      <4> QED
        BY <4>1, <4>2
    <3> HIDE DEF Small
    <3> QED
      BY <2>1, <3>1
  <2>4. \A s \in Small(n) : s \in Small(n + 1) /\ j[s] = i[s]
    <3> TAKE s \in Small(n)
    <3>1. s \in Small(n + 1)
      BY <1>1
    <3> QED
      BY <1>5, <2>1, <3>1
  <2>5. ASSUME NEW s \in Small(n + 1)
        PROVE  j[s] = IF s = {} THEN 0 ELSE f[AnyOf(s)] + j[s \ {AnyOf(s)}]
    <3>1. s # {} => j[s \ {AnyOf(s)}] = i[s \ {AnyOf(s)}]
      BY <2>2, <2>4, <2>5
    <3> HIDE DEF Small
    <3> QED
      BY <2>1, <2>5, <3>1
  <2>6. Upto(j, n + 1)
    BY <2>3, <2>5
  <2> QED
    BY <2>6
<1>6. \A n \in Nat : \E i : Upto(i, n)
  <2>1. Missing \in SUBSET Nat /\ \A n \in Nat : n \notin Missing => \E i : Upto(i, n)
    OBVIOUS
  <2>2. \A n \in Missing : n \in Nat /\ ~\E i : Upto(i, n)
    OBVIOUS
  <2> SUFFICES ASSUME Missing # {} PROVE FALSE
    BY <2>1
  <2> HIDE DEF Missing, Upto
  <2>3. PICK n \in Missing : \A m \in Missing : n <= m
    BY <2>1, LeastNatural
  <2>4. n \in Nat /\ n # 0
    BY <1>4, <2>2
  <2>5. n - 1 \in Nat /\ ~(n <= n - 1) /\ (n - 1) + 1 = n
    BY <2>4
  <2>6. PICK i : Upto(i, n - 1)
    BY <2>1, <2>3, <2>5
  <2>7. \E j : Upto(j, (n - 1) + 1)
    BY <1>5, <2>5, <2>6
  <2> QED
    BY <2>2, <2>5, <2>7
<1>7. PICK n \in Nat : n = Cardinality(T)
  BY FS_CardinalityType
<1>8. PICK i : Upto(i, n)
  <2> HIDE DEF Upto
  <2> QED
    BY <1>6
<1>9. Small(n) = SUBSET T
  BY <1>7, FS_Subset
<1>10. i = [s \in SUBSET T |-> IF s = {} THEN 0 ELSE f[AnyOf(s)] + i[s \ {AnyOf(s)}]]
  BY <1>8, <1>9
<1> QED
  BY <1>10 DEF IsSum

\* Whatever member is taken out first.
TakesAny(i, f, T) == \A s \in SUBSET T : \A x \in s : i[s] = f[x] + i[s \ {x}]

LEMMA SumTakesAny ==
  ASSUME NEW T, IsFiniteSet(T), NEW f \in [T -> Int], NEW i, IsSum(i, f, T)
  PROVE  i[{}] = 0 /\ i \in [SUBSET T -> Int] /\ TakesAny(i, f, T)
<1>1. /\ i[{}] = 0 /\ DOMAIN i = SUBSET T
      /\ \A s \in SUBSET T : s # {} => /\ AnyOf(s) \in s /\ i[s] = f[AnyOf(s)] + i[s \ {AnyOf(s)}]
  BY DEF IsSum, AnyOf
<1>2. ASSUME NEW s \in SUBSET T, i[s] \notin Int
      PROVE  FALSE
  <2> DEFINE B == {u \in SUBSET T : i[u] \notin Int}
  <2>1. PICK b \in B : \A x \in b : b \ {x} \notin B
    <3> HIDE DEF B
    <3>1. B \in SUBSET (SUBSET T) /\ B # {}
      BY <1>2 DEF B
    <3> QED
      BY <3>1, SmallestSubset
  <2>2. b # {} /\ b \in SUBSET T
    <3>1. i[b] \notin Int /\ b \in SUBSET T
      BY <2>1
    <3>2. i[{}] \in Int
      BY <1>1
    <3> QED
      BY <3>1, <3>2
  <2>3. i[b \ {AnyOf(b)}] \in Int /\ f[AnyOf(b)] \in Int
    BY <1>1, <2>1, <2>2
  <2> QED
    BY <1>1, <2>1, <2>2, <2>3
<1>3. i \in [SUBSET T -> Int]
  <2>1. i = [s \in SUBSET T |-> i[s]]
    BY DEF IsSum
  <2> QED
    BY <1>2, <2>1
<1>4. ASSUME NEW s \in SUBSET T, NEW x \in s, i[s] # f[x] + i[s \ {x}]
      PROVE  FALSE
  <2> DEFINE B == {u \in SUBSET T : \E y \in u : i[u] # f[y] + i[u \ {y}]}
  <2>1. PICK b \in B : \A y \in b : b \ {y} \notin B
    <3>1. B \in SUBSET (SUBSET T) /\ B # {}
      BY <1>4
    <3> HIDE DEF B
    <3> QED
      BY <3>1, SmallestSubset
  <2>2. PICK y \in b : i[b] # f[y] + i[b \ {y}]
    OBVIOUS
  <2>3. PICK z \in b : i[b] = f[z] + i[b \ {z}]
    BY <1>1
  <2>4. z # y
    BY <2>2, <2>3
  <2>5. b \ {z} \in SUBSET T /\ b \ {y} \in SUBSET T /\ y \in b \ {z} /\ z \in b \ {y}
    BY <2>4
  <2>6. i[b \ {z}] = f[y] + i[(b \ {z}) \ {y}]
    BY <2>1, <2>5
  <2>7. i[b \ {y}] = f[z] + i[(b \ {y}) \ {z}]
    BY <2>1, <2>5
  <2>8. (b \ {z}) \ {y} = (b \ {y}) \ {z} /\ (b \ {y}) \ {z} \in SUBSET T
    OBVIOUS
  <2>9. PICK e \in Int, g \in Int, h \in Int : e = i[(b \ {y}) \ {z}] /\ g = f[y] /\ h = f[z]
    BY <1>3, <2>8
  <2>10. i[b \ {z}] = g + e /\ i[b \ {y}] = h + e
    BY <2>6, <2>7, <2>8, <2>9
  <2>11. h + (g + e) = g + (h + e)
    OBVIOUS
  <2> QED
    BY <2>2, <2>3, <2>9, <2>10, <2>11
<1> QED
  BY <1>1, <1>3, <1>4 DEF TakesAny

\* A sum over part of a set.
LEMMA SumOfPart ==
  ASSUME NEW T, IsFiniteSet(T), NEW f \in [T -> Int], NEW i, IsSum(i, f, T),
         NEW S \in SUBSET T, NEW g \in [S -> Int], \A x \in S : g[x] = f[x],
         NEW j, IsSum(j, g, S)
  PROVE  \A s \in SUBSET S : j[s] = i[s]
<1> SUFFICES ASSUME NEW s \in SUBSET S, j[s] # i[s]
             PROVE  FALSE
  OBVIOUS
<1>1. IsFiniteSet(S)
  BY FS_Subset
<1> DEFINE B == {u \in SUBSET S : j[u] # i[u]}
<1>2. PICK b \in B : \A y \in b : b \ {y} \notin B
  <2>1. B \in SUBSET (SUBSET S) /\ B # {}
    OBVIOUS
  <2> HIDE DEF B
  <2> QED
    BY <1>1, <2>1, SmallestSubset
<1>3. i[{}] = 0 /\ j[{}] = 0
  BY <1>1, SumTakesAny
<1>4. PICK y : y \in b
  BY <1>3
<1>5. j[b \ {y}] = i[b \ {y}]
  BY <1>2, <1>4
<1>6. b \in SUBSET T /\ b \in SUBSET S /\ y \in S
  BY <1>4
<1>7. i[b] = f[y] + i[b \ {y}]
  <2>1. TakesAny(i, f, T)
    BY SumTakesAny
  <2> QED
    BY <1>4, <1>6, <2>1 DEF TakesAny
<1>8. j[b] = g[y] + j[b \ {y}]
  <2>1. TakesAny(j, g, S)
    BY <1>1, SumTakesAny
  <2> QED
    BY <1>4, <1>6, <2>1 DEF TakesAny
<1> QED
  BY <1>5, <1>6, <1>7, <1>8

\* The sums over the parts of a set.
SumsOfParts(i, f, T) ==
  /\ i \in [SUBSET T -> Int] /\ i[{}] = 0 /\ TakesAny(i, f, T) /\ SumFunction(f) = i[T]
  /\ \A S \in SUBSET T : \A g \in [S -> Int] :
       (\A x \in S : g[x] = f[x]) => SumFunction(g) = i[S]

\* What SumFunction does: nothing for no members, and any member taken apart.
LEMMA PartialSums ==
  ASSUME NEW T, IsFiniteSet(T), NEW f \in [T -> Int]
  PROVE  \E i : SumsOfParts(i, f, T)
<1>1. PICK i : IsSum(i, f, T) /\ SumFunction(f) = i[T]
  BY SumsExist, SumIsOne
<1>2. i[{}] = 0 /\ i \in [SUBSET T -> Int] /\ TakesAny(i, f, T)
  BY <1>1, SumTakesAny
<1>3. ASSUME NEW S \in SUBSET T, NEW g \in [S -> Int], \A x \in S : g[x] = f[x]
      PROVE  SumFunction(g) = i[S]
  <2>1. IsFiniteSet(S) /\ DOMAIN g = S
    BY FS_Subset
  <2>2. PICK j : IsSum(j, g, S) /\ SumFunction(g) = j[S]
    BY <2>1, SumsExist, SumIsOne
  <2>3. j[S] = i[S]
    BY <1>1, <1>3, <2>2, SumOfPart
  <2> QED
    BY <2>2, <2>3
<1> QED
  BY <1>1, <1>2, <1>3 DEF SumsOfParts

Scaled(g, f, T, M) == \A x \in T : g[x] = M * f[x]

\* A factor may be taken out of a sum.
LEMMA SumsScale ==
  ASSUME NEW T, IsFiniteSet(T), NEW f \in [T -> Int], NEW g \in [T -> Int], NEW M \in Int,
         Scaled(g, f, T, M)
  PROVE  SumFunction(f) \in Int /\ SumFunction(g) = M * SumFunction(f)
<1>0. PICK i, j : SumsOfParts(i, f, T) /\ SumsOfParts(j, g, T)
  BY PartialSums
<1>1. i \in [SUBSET T -> Int] /\ i[{}] = 0 /\ TakesAny(i, f, T) /\ SumFunction(f) = i[T]
  BY <1>0 DEF SumsOfParts
<1>2. j \in [SUBSET T -> Int] /\ j[{}] = 0 /\ TakesAny(j, g, T) /\ SumFunction(g) = j[T]
  BY <1>0 DEF SumsOfParts
<1>3. T \in SUBSET T
  OBVIOUS
<1>4. ASSUME NEW s \in SUBSET T, j[s] # M * i[s]
      PROVE  FALSE
  <2> DEFINE B == {u \in SUBSET T : j[u] # M * i[u]}
  <2>1. PICK b \in B : \A y \in b : b \ {y} \notin B
    <3>1. B \in SUBSET (SUBSET T) /\ B # {}
      BY <1>4
    <3> HIDE DEF B
    <3> QED
      BY <3>1, SmallestSubset
  <2>2. PICK y : y \in b
    <3>1. j[{}] = M * i[{}]
      BY <1>1, <1>2
    <3>2. b # {}
      BY <2>1, <3>1
    <3> QED
      BY <3>2
  <2>3. y \in T /\ b \in SUBSET T /\ b \ {y} \in SUBSET T
    BY <2>2
  <2>4. PICK p \in Int, q \in Int : p = i[b \ {y}] /\ q = f[y]
    BY <1>1, <2>3
  <2>5. j[b \ {y}] = M * p
    BY <2>1, <2>2, <2>3, <2>4
  <2>6. i[b] = q + p
    BY <1>1, <2>2, <2>3, <2>4 DEF TakesAny
  <2>7. j[b] = M * q + M * p
    BY <1>2, <2>2, <2>3, <2>4, <2>5 DEF TakesAny, Scaled
  <2>8. M * (q + p) = M * q + M * p
    OBVIOUS
  <2> QED
    BY <2>1, <2>6, <2>7, <2>8
<1> QED
  BY <1>1, <1>2, <1>3, <1>4

Agree(g, f, S) == \A x \in S : g[x] = f[x]

Split(T, A, D) == A \in SUBSET T /\ D \in SUBSET T /\ A \cap D = {} /\ A \cup D = T

\* The sum over two sets without a member in common.
LEMMA SumsJoin ==
  ASSUME NEW T, IsFiniteSet(T), NEW f \in [T -> Int], NEW A, NEW D, Split(T, A, D),
         NEW g \in [A -> Int], Agree(g, f, A), NEW h \in [D -> Int], Agree(h, f, D)
  PROVE  SumFunction(f) = SumFunction(g) + SumFunction(h)
<1> USE DEF Split
<1>0. PICK i : SumsOfParts(i, f, T)
  BY PartialSums
<1>1. /\ i \in [SUBSET T -> Int] /\ i[{}] = 0 /\ TakesAny(i, f, T) /\ SumFunction(f) = i[T]
      /\ SumFunction(g) = i[A] /\ SumFunction(h) = i[D]
  BY <1>0 DEF SumsOfParts, Agree
<1>2. ASSUME NEW s \in SUBSET A, i[s \cup D] # i[s] + i[D]
      PROVE  FALSE
  <2> DEFINE B == {u \in SUBSET A : i[u \cup D] # i[u] + i[D]}
  <2>1. PICK b \in B : \A y \in b : b \ {y} \notin B
    <3>1. B \in SUBSET (SUBSET A) /\ B # {} /\ IsFiniteSet(A)
      BY <1>2, FS_Subset
    <3> HIDE DEF B
    <3> QED
      BY <3>1, SmallestSubset
  <2>2. i[D] \in Int
    BY <1>1
  <2>3. b # {}
    <3>1. {} \cup D = D
      OBVIOUS
    <3>2. i[{} \cup D] = i[{}] + i[D]
      BY <1>1, <2>2, <3>1
    <3> QED
      BY <2>1, <3>2
  <2>4. PICK y : y \in b
    BY <2>3
  <2>5. /\ y \in A /\ y \in T /\ y \notin D /\ b \in SUBSET T /\ b \ {y} \in SUBSET A
        /\ b \ {y} \in SUBSET T /\ b \cup D \in SUBSET T /\ y \in b \cup D
        /\ (b \cup D) \ {y} = (b \ {y}) \cup D
    BY <2>4
  <2>6. PICK p \in Int, q \in Int, r \in Int : p = i[b \ {y}] /\ q = f[y] /\ r = i[D]
    BY <1>1, <2>2, <2>5
  <2>7. i[(b \ {y}) \cup D] = p + r
    BY <2>1, <2>4, <2>5, <2>6
  <2>8. i[b] = q + p
    BY <1>1, <2>4, <2>5, <2>6 DEF TakesAny
  <2>9. i[b \cup D] = q + (p + r)
    <3>1. i[b \cup D] = f[y] + i[(b \cup D) \ {y}]
      BY <1>1, <2>5 DEF TakesAny
    <3> QED
      BY <2>5, <2>6, <2>7, <3>1
  <2>10. q + (p + r) = (q + p) + r
    OBVIOUS
  <2> QED
    BY <2>1, <2>6, <2>8, <2>9, <2>10
<1>3. i[A \cup D] = i[A] + i[D]
  BY <1>2
<1> QED
  BY <1>1, <1>3

-----------------------------------------------------------------------------
(* The tables. *)

LEMMA Parameters ==
  /\ Ids \subseteq Nat /\ IsFiniteSet(Ids) /\ Limit \in Nat \ {0}
  /\ Hour \in Nat \ {0} /\ Buffer \in Int /\ Precision \in Nat \ {0}
  /\ Days \subseteq Nat \ {0} /\ Base \in Nat /\ LastTick \in Nat /\ Base <= LastTick
  /\ LastMinute \in Nat \ {0}
  /\ \A c \in Ids : /\ Every[c] \in Intervals /\ Recorded[c] \in Intervals /\ Listed[c] \in Nat
                    /\ Section[c] # All /\ Section[c] # NoSection
                    /\ Len(Rates[c]) \in Nat \ {0} /\ Rates[c] \in Seq(Int)
                    /\ Len(LiveRates[c]) \in Nat /\ Len(LiveRates[c]) >= LastMinute
                    /\ LiveRates[c] \in Seq(Int)
  /\ \A q \in Requests : q.norm \in Nat /\ q.min \in Int
BY QueryAssumption DEF QueryAssumption

\* The hours between two settlements in ticks.
Step(c) == Every[c] * Hour

LEMMA StepFacts ==
  ASSUME NEW c \in Ids
  PROVE  Step(c) \in Nat \ {0} /\ Step(c) <= 8 * Hour
<1>1. Every[c] \in {1, 4, 8} /\ Hour \in Nat \ {0}
  BY Parameters DEF Intervals
<1> QED
  BY <1>1 DEF Step

LEMMA DivisionBounds ==
  ASSUME NEW x \in Int, NEW h \in Nat \ {0}
  PROVE  /\ x \div h \in Int
         /\ (x \div h) * h <= x /\ x < (x \div h) * h + h
         /\ x % h = x - (x \div h) * h
OBVIOUS

\* The start of a bucket: the multiple of its length before a tick.
LEMMA Multiples ==
  ASSUME NEW m \in Nat \ {0}, NEW t \in Nat
  PROVE  /\ t \div m \in Nat /\ t % m \in 0..(m - 1)
         /\ t = m * (t \div m) + (t % m)
         /\ t - (t % m) = m * (t \div m) /\ t - (t % m) \in 0..t
<1>1. /\ t \div m \in Int /\ (t \div m) * m <= t /\ t < (t \div m) * m + m
      /\ t % m = t - (t \div m) * m
  BY DivisionBounds
<1>2. PICK q \in Int : q = t \div m
  BY <1>1
<1>3. PICK p \in Int : p = q * m /\ p = m * q
  BY <1>2
<1>4. q >= 0
  <2> SUFFICES ASSUME q <= -1 PROVE FALSE
    BY <1>2
  <2>1. q * m <= -m
    BY <1>2
  <2> QED
    BY <1>1, <1>2, <1>3, <2>1
<1>5. p >= 0 /\ p <= t /\ t < p + m
  BY <1>1, <1>2, <1>3, <1>4
<1>6. q = t \div m /\ t % m = t - p
  BY <1>1, <1>2, <1>3
<1>7. m * (t \div m) = p
  BY <1>2, <1>3
<1>8. t % m \in 0..(m - 1) /\ t - (t % m) = p /\ t = p + (t % m) /\ p \in 0..t
  BY <1>5, <1>6
<1> QED
  BY <1>4, <1>6, <1>7, <1>8

LEMMA BucketStarts ==
  ASSUME NEW c \in Ids, NEW t \in Nat
  PROVE  /\ LatestSettlement(c, t) = Step(c) * (t \div Step(c))
         /\ LatestSettlement(c, t) \in 0..t /\ t < LatestSettlement(c, t) + Step(c)
         /\ t \div Step(c) \in Nat
<1>1. LatestSettlement(c, t) = t - (t % Step(c))
  BY DEF LatestSettlement, Bucket, Step
<1>2. Step(c) \in Nat \ {0}
  BY StepFacts
<1>3. PICK m \in Nat \ {0} : m = Step(c)
  BY <1>2
<1>4. /\ t \div m \in Nat /\ t % m \in 0..(m - 1) /\ t - (t % m) = m * (t \div m)
      /\ t - (t % m) \in 0..t
  BY <1>3, Multiples
<1>5. PICK r \in 0..(m - 1), p \in 0..t, k \in Nat :
        r = t % m /\ p = t - r /\ k = t \div m /\ p = m * k
  BY <1>4
<1>6. LatestSettlement(c, t) = p /\ t \div Step(c) = k /\ Step(c) = m
  BY ONLY <1>1, <1>3, <1>5
<1> QED
  BY <1>5, <1>6

-----------------------------------------------------------------------------
(* What the tables hold, without the client. *)

TableInv ==
  /\ contract \in [Ids -> ContractRows] /\ enriched \in [Ids -> ContractRows]
  /\ minute \in 1..LastMinute /\ live \in [Ids -> {None} \cup 1..minute]
  /\ now \in Base..LastTick
  /\ newest \in [Ids -> Nat] /\ request \in Requests
  /\ \A c \in Ids : /\ newest[c] \in 0..now /\ Listed[c] <= newest[c]
                    /\ newest[c] >= LatestSettlement(c, now) - Step(c)
                    /\ \E k \in Nat : newest[c] = Step(c) * k

LEMMA TablesBegin == QueryInit => TableInv
<1> SUFFICES ASSUME QueryInit PROVE TableInv
  OBVIOUS
<1>1. contract \in [Ids -> ContractRows] /\ enriched \in [Ids -> ContractRows]
  BY Parameters DEF QueryInit, ContractRows
<1>2. minute \in 1..LastMinute /\ live \in [Ids -> {None} \cup 1..minute]
  BY Parameters DEF QueryInit
<1>3. now \in Base..LastTick /\ request \in Requests
  BY Parameters DEF QueryInit
<1>4. \A c \in Ids : /\ LatestSettlement(c, Base) \in 0..Base /\ Listed[c] <= LatestSettlement(c, Base)
                     /\ \E k \in Nat : LatestSettlement(c, Base) = Step(c) * k
  BY Parameters, BucketStarts, QueryAssumption DEF QueryAssumption, LatestSettlement, Bucket
<1>5. newest = [c \in Ids |-> LatestSettlement(c, Base)] /\ now = Base
  BY DEF QueryInit, LatestSettlement
<1>6. newest \in [Ids -> Nat]
  BY <1>4, <1>5, Parameters
<1>7. ASSUME NEW c \in Ids
      PROVE  /\ newest[c] \in 0..now /\ Listed[c] <= newest[c]
             /\ newest[c] >= LatestSettlement(c, now) - Step(c)
             /\ \E k \in Nat : newest[c] = Step(c) * k
  BY <1>4, <1>5, StepFacts, Parameters
<1> QED
  BY <1>1, <1>2, <1>3, <1>6, <1>7 DEF TableInv

LEMMA TablesStay == TableInv /\ [PageNext \/ PointNext]_queryVars => TableInv'
<1> SUFFICES ASSUME TableInv, [PageNext \/ PointNext]_queryVars PROVE TableInv'
  OBVIOUS
<1>1. CASE UNCHANGED <<contract, enriched, minute, live, now, newest, request>>
  BY <1>1 DEF TableInv, LatestSettlement, Bucket
<1>2. CASE StoreLive
  <2>1. minute' \in 1..LastMinute /\ minute' = minute + 1
    BY <1>2, Parameters DEF StoreLive, TableInv
  <2>2. live' \in [Ids -> {None} \cup 1..minute']
    <3>1. PICK S : live' = [c \in Ids |-> IF Section[c] \in S /\ ~contract[c].deprecated
                                           THEN minute' ELSE live[c]]
      BY <1>2 DEF StoreLive
    <3>2. \A c \in Ids : live[c] \in {None} \cup 1..minute'
      BY <2>1, Parameters DEF TableInv
    <3>3. minute' \in {None} \cup 1..minute'
      BY <2>1, Parameters
    <3> QED
      BY <3>1, <3>2, <3>3
  <2>3. UNCHANGED <<contract, enriched, now, newest, request>>
    BY <1>2 DEF StoreLive
  <2> QED
    BY <2>1, <2>2, <2>3 DEF TableInv, LatestSettlement, Bucket
<1>3. CASE Reconcile
  BY <1>3 DEF Reconcile, TableInv, LatestSettlement, Bucket
<1>4. CASE RefreshView
  BY <1>4 DEF RefreshView, TableInv, LatestSettlement, Bucket
<1>5. CASE Pass
  <2>1. now' \in Base..LastTick /\ now' = now + 1 /\ now \in Nat
    BY <1>5, Parameters DEF Pass, TableInv
  <2>2. ASSUME NEW c \in Ids
        PROVE  newest[c] \in 0..now' /\ newest[c] >= LatestSettlement(c, now') - Step(c)
    BY <1>5, <2>1 DEF Pass, TableInv, Step
  <2>3. \A c \in Ids : (LatestSettlement(c, now))' = LatestSettlement(c, now')
    BY DEF LatestSettlement, Bucket
  <2> QED
    BY <1>5, <2>1, <2>2, <2>3 DEF Pass, TableInv
<1>6. CASE StoreSettlement
  <2>1. PICK c \in Ids : newest[c] < LatestSettlement(c, now)
                         /\ newest' = [newest EXCEPT ![c] = LatestSettlement(c, now)]
    BY <1>6 DEF StoreSettlement
  <2>2. now \in Nat
    BY Parameters DEF TableInv
  <2>3. /\ LatestSettlement(c, now) \in 0..now
        /\ \E k \in Nat : LatestSettlement(c, now) = Step(c) * k
    BY <2>2, BucketStarts
  <2>4. newest' \in [Ids -> Nat]
    BY <2>1, <2>3 DEF TableInv
  <2>5. ASSUME NEW d \in Ids
        PROVE  /\ newest'[d] \in 0..now /\ Listed[d] <= newest'[d]
               /\ newest'[d] >= LatestSettlement(d, now) - Step(d)
               /\ \E k \in Nat : newest'[d] = Step(d) * k
    <3>1. CASE d = c
      <4>1. newest'[d] = LatestSettlement(c, now) /\ newest[c] \in Nat /\ Listed[c] <= newest[c]
        BY <2>1, <3>1 DEF TableInv
      <4> QED
        BY <2>1, <2>2, <2>3, <3>1, <4>1, StepFacts, Parameters
    <3>2. CASE d # c
      BY <2>1, <3>2 DEF TableInv
    <3> QED
      BY <3>1, <3>2
  <2>6. UNCHANGED <<contract, enriched, minute, live, now, request>>
    BY <1>6 DEF StoreSettlement
  <2>7. \A d \in Ids : (LatestSettlement(d, now))' = LatestSettlement(d, now)
    BY <2>6 DEF LatestSettlement, Bucket
  <2> QED
    BY <2>4, <2>5, <2>6, <2>7 DEF TableInv
<1>7. CASE ReadPage
  BY <1>1, <1>7 DEF ReadPage
<1> QED
  BY <1>1, <1>2, <1>3, <1>4, <1>5, <1>6, <1>7 DEF PageNext, PointNext, queryVars

LEMMA TablesInvariant == QuerySpec => []TableInv
BY TablesBegin, TablesStay, PTL DEF QuerySpec

-----------------------------------------------------------------------------
(* Counting a page. *)

LEMMA AbsFacts == \A x \in Int : Abs(x) \in Nat /\ Abs(-x) = Abs(x)
BY DEF Abs

\* Finite sets of rows that have no row in common.
LEMMA CountBoth ==
  ASSUME NEW S, NEW T, IsFiniteSet(S), IsFiniteSet(T), S \cap T = {}
  PROVE  /\ IsFiniteSet(S \cup T) /\ Cardinality(S) \in Nat /\ Cardinality(T) \in Nat
         /\ Cardinality(S \cup T) = Cardinality(S) + Cardinality(T)
<1>1. Cardinality(S \cap T) = 0
  BY FS_EmptySet
<1>2. IsFiniteSet(S \cup T)
      /\ Cardinality(S \cup T) = Cardinality(S) + Cardinality(T) - Cardinality(S \cap T)
  BY FS_Union
<1>3. Cardinality(S) \in Nat /\ Cardinality(T) \in Nat
  BY FS_CardinalityType
<1> QED
  BY ONLY <1>1, <1>2, <1>3

\* The rows that come before one, and those that tie with it.
Above(R, r) == {s \in R : Abs(s.diff) > Abs(r.diff)}
Tied(R, r) == {s \in R : Abs(s.diff) = Abs(r.diff)}

LEMMA RankFacts ==
  ASSUME NEW R, IsFiniteSet(R), NEW r \in R
  PROVE  /\ Cardinality(Above(R, r)) \in Nat /\ Cardinality(Tied(R, r)) \in Nat \ {0}
         /\ Ranks(R, r) = Cardinality(Above(R, r))
                            ..(Cardinality(Above(R, r)) + Cardinality(Tied(R, r)) - 1)
<1>1. IsFiniteSet(Above(R, r)) /\ IsFiniteSet(Tied(R, r))
  BY FS_Subset DEF Above, Tied
<1>2. r \in Tied(R, r)
  BY DEF Tied
<1>3. Cardinality(Tied(R, r)) # 0
  BY <1>1, <1>2, FS_EmptySet
<1> QED
  BY <1>1, <1>3, FS_CardinalityType DEF Ranks, Above, Tied

Window(offset) == offset..(offset + Limit - 1)

\* A page has as many rows as there are ranks in its window: counted from the
\* rows that differ most, a group of ties at a time.
LEMMA PageRows ==
  ASSUME NEW R, IsFiniteSet(R), \A r \in R : r.diff \in Int,
         NEW offset \in Nat, NEW P \in Pages(R, offset)
  PROVE  Cardinality(P) = Cardinality(Window(offset) \cap (0..(Cardinality(R) - 1)))
<1> DEFINE W == Window(offset)
           Upper(v) == {s \in R : Abs(s.diff) > v}
           Uppers == {Upper(v) : v \in Nat \cup {-1}}
           Counted(U) == Cardinality(P \cap U) = Cardinality(W \cap (0..(Cardinality(U) - 1)))
           Bad == {U \in Uppers : ~Counted(U)}
<1>1. P \in SUBSET R /\ \A r \in R :
        Cardinality({s \in P : Abs(s.diff) = Abs(r.diff)}) = Cardinality(Ranks(R, r) \cap W)
  BY DEF Pages, Window
<1>2. \A r \in R : Abs(r.diff) \in Nat
  BY AbsFacts
<1>3. Uppers \subseteq FiniteSubsetsOf(R)
  BY FS_Subset DEF FiniteSubsetsOf
<1>4. Bad = {}
  <2> SUFFICES ASSUME Bad # {}
               PROVE  FALSE
    OBVIOUS
  <2>1. Bad \subseteq FiniteSubsetsOf(R)
    BY <1>3
  <2>2. PICK b \in Bad : \A c \in Bad : ~(<<c, b>> \in StrictSubsetOrdering(R))
    <3> HIDE DEF Bad
    <3> QED
      BY <2>1, FS_StrictSubsetOrderingWellFounded, WFMin
  <2>3. PICK v \in Nat \cup {-1} : b = Upper(v)
    OBVIOUS
  <2>4. b \in SUBSET R /\ IsFiniteSet(b) /\ ~Counted(b)
    BY <2>1 DEF FiniteSubsetsOf
  <2>5. b # {}
    <3> SUFFICES ASSUME b = {} PROVE FALSE
      OBVIOUS
    <3>1. Cardinality(b) = 0 /\ P \cap b = {} /\ Cardinality({}) = 0
      BY FS_EmptySet
    <3>2. W \cap (0..(Cardinality(b) - 1)) = {}
      BY <3>1
    <3> QED
      BY <2>4, <3>1, <3>2
  <2>6. PICK r \in b : \A s \in b : Abs(r.diff) <= Abs(s.diff)
    <3> DEFINE V == {Abs(s.diff) : s \in b}
    <3>1. V \in SUBSET Nat /\ V # {}
      BY <1>2, <2>4, <2>5
    <3>2. PICK n \in V : \A m \in V : n <= m
      <4> HIDE DEF V
      <4> QED
        BY <3>1, LeastNatural
    <3> QED
      BY <3>2
  <2>7. PICK u, g : u = Above(R, r) /\ g = Tied(R, r)
    OBVIOUS
  <2>8. u \in Uppers /\ u \subseteq b /\ r \notin u
    <3>1. u = Upper(Abs(r.diff)) /\ Abs(r.diff) \in Nat
      BY <1>2, <2>4, <2>7 DEF Above
    <3>2. u \in Uppers
      BY <3>1, Zenon
    <3>3. v < Abs(r.diff)
      BY <2>3
    <3>4. \A s \in R : s \in u => s \in b
      BY <1>2, <2>3, <3>1, <3>3
    <3> QED
      BY <1>2, <2>4, <3>1, <3>2, <3>4
  <2>9. Counted(u)
    <3>1. <<u, b>> \in StrictSubsetOrdering(R)
      BY <2>4, <2>8 DEF StrictSubsetOrdering
    <3> HIDE DEF Counted, Uppers
    <3> QED
      BY <2>2, <2>8, <3>1
  <2>10. b = u \cup g /\ u \cap g = {} /\ g \in SUBSET R
    <3>1. \A s \in b : s \in u \/ s \in g
      BY <1>2, <2>4, <2>6, <2>7 DEF Above, Tied
    <3>2. \A s \in g : s \in b
      BY <2>3, <2>7 DEF Tied
    <3>3. \A s \in g : s \in R /\ s \notin u
      BY <1>2, <2>4, <2>7 DEF Above, Tied
    <3> QED
      BY <2>8, <3>1, <3>2, <3>3
  <2>11. IsFiniteSet(P) /\ IsFiniteSet(u) /\ IsFiniteSet(g)
    BY <1>1, <2>4, <2>8, <2>10, FS_Subset
  <2>12. Cardinality(P \cap b) = Cardinality(P \cap u) + Cardinality(P \cap g)
    <3>1. P \cap b = (P \cap u) \cup (P \cap g) /\ (P \cap u) \cap (P \cap g) = {}
      BY <2>10
    <3>2. IsFiniteSet(P \cap u) /\ IsFiniteSet(P \cap g)
      BY <2>11, FS_Intersection
    <3> QED
      BY <3>1, <3>2, CountBoth
  <2>13. Cardinality(P \cap g) = Cardinality(Ranks(R, r) \cap W)
    <3>1. P \cap g = {s \in P : Abs(s.diff) = Abs(r.diff)}
      BY <1>1, <2>7 DEF Tied
    <3> QED
      BY <1>1, <2>4, <3>1
  <2>14. PICK a \in Nat, k \in Nat : /\ a = Cardinality(u) /\ k = Cardinality(g)
                                     /\ Ranks(R, r) = a..(a + k - 1)
                                     /\ Cardinality(b) = a + k
    <3>1. Cardinality(b) = Cardinality(u) + Cardinality(g)
      BY <2>10, <2>11, CountBoth
    <3> QED
      BY <2>4, <2>7, <3>1, RankFacts
  <2>15. Cardinality(W \cap (0..(a + k - 1)))
           = Cardinality(W \cap (0..(a - 1))) + Cardinality(W \cap (a..(a + k - 1)))
    <3>1. /\ W \cap (0..(a + k - 1)) = (W \cap (0..(a - 1))) \cup (W \cap (a..(a + k - 1)))
          /\ (W \cap (0..(a - 1))) \cap (W \cap (a..(a + k - 1))) = {}
      BY <2>14
    <3>2. IsFiniteSet(W \cap (0..(a - 1))) /\ IsFiniteSet(W \cap (a..(a + k - 1)))
      <4>1. a - 1 \in Int /\ a + k - 1 \in Int /\ a \in Int /\ 0 \in Int
        BY <2>14
      <4>2. IsFiniteSet(0..(a - 1)) /\ IsFiniteSet(a..(a + k - 1))
        BY <4>1, FS_Interval
      <4> HIDE DEF W
      <4> QED
        BY <4>2, FS_Intersection
    <3> HIDE DEF W
    <3> QED
      BY <3>1, <3>2, CountBoth
  <2>16. Ranks(R, r) \cap W = W \cap (a..(a + k - 1))
    BY <2>14
  <2> HIDE DEF W
  <2>17. Cardinality(P \cap u) = Cardinality(W \cap (0..(a - 1)))
    <3>1. Cardinality(P \cap u) = Cardinality(W \cap (0..(Cardinality(u) - 1)))
      BY <2>9
    <3> QED
      BY <2>14, <3>1
  <2>18. Cardinality(P \cap b) = Cardinality(W \cap (0..(a + k - 1)))
    BY <2>12, <2>13, <2>15, <2>16, <2>17
  <2>19. Counted(b)
    <3>1. Cardinality(b) - 1 = a + k - 1
      BY ONLY <2>14
    <3> QED
      BY ONLY <2>18, <3>1
  <2> QED
    BY <2>4, <2>19
<1>5. R \in Uppers
  <2>1. \A s \in R : Abs(s.diff) > -1
    BY <1>2
  <2>2. R = Upper(-1)
    BY <2>1
  <2> QED
    BY <2>2, Zenon
<1>6. Counted(R)
  <2> HIDE DEF Uppers, Counted
  <2> QED
    BY <1>4, <1>5
<1>7. P \cap R = P
  BY <1>1
<1> QED
  BY <1>6, <1>7

\* So many rows has a page.
LEMMA PageSizes ==
  ASSUME NEW R, IsFiniteSet(R), \A r \in R : r.diff \in Int,
         NEW offset \in Nat, NEW P \in Pages(R, offset)
  PROVE  /\ P \in SUBSET R /\ IsFiniteSet(P)
         /\ Cardinality(R) \in Nat /\ Cardinality(P) \in Nat
         /\ Cardinality(P) = IF Cardinality(R) <= offset THEN 0
                             ELSE IF offset + Limit <= Cardinality(R) THEN Limit
                             ELSE Cardinality(R) - offset
<1>1. P \in SUBSET R /\ IsFiniteSet(P)
  BY FS_Subset DEF Pages
<1>2. PICK n \in Nat : n = Cardinality(R)
  BY FS_CardinalityType
<1>3. Limit \in Nat \ {0}
  BY Parameters
<1>4. Cardinality(P) = Cardinality(Window(offset) \cap (0..(n - 1)))
  BY <1>2, PageRows
<1>5. n <= offset => Cardinality(P) = 0
  <2> SUFFICES ASSUME n <= offset PROVE Cardinality(P) = 0
    OBVIOUS
  <2>1. Window(offset) \cap (0..(n - 1)) = {}
    BY <1>3 DEF Window
  <2> QED
    BY <1>4, <2>1, FS_EmptySet
<1>6. offset + Limit <= n => Cardinality(P) = Limit
  <2> SUFFICES ASSUME offset + Limit <= n PROVE Cardinality(P) = Limit
    OBVIOUS
  <2>1. Window(offset) \cap (0..(n - 1)) = offset..(offset + Limit - 1)
    BY <1>3 DEF Window
  <2>2. offset \in Int /\ offset + Limit - 1 \in Int /\ offset <= offset + Limit - 1
        /\ (offset + Limit - 1) - offset + 1 = Limit
    BY <1>3
  <2>3. Cardinality(offset..(offset + Limit - 1)) = Limit
    BY <2>2, FS_Interval
  <2> QED
    BY <1>4, <2>1, <2>3
<1>7. offset < n /\ n < offset + Limit => Cardinality(P) = n - offset
  <2> SUFFICES ASSUME offset < n, n < offset + Limit PROVE Cardinality(P) = n - offset
    OBVIOUS
  <2>1. Window(offset) \cap (0..(n - 1)) = offset..(n - 1)
    BY <1>3 DEF Window
  <2>2. offset \in Int /\ n - 1 \in Int /\ offset <= n - 1 /\ (n - 1) - offset + 1 = n - offset
    OBVIOUS
  <2>3. Cardinality(offset..(n - 1)) = n - offset
    BY <2>2, FS_Interval
  <2> QED
    BY <1>4, <2>1, <2>3
<1>8. Cardinality(P) \in Nat
  BY <1>1, FS_CardinalityType
<1> QED
  BY ONLY <1>1, <1>2, <1>3, <1>5, <1>6, <1>7, <1>8, offset \in Nat, n \in Nat

\* A group of ties within the window of a page is on it, all of it.
LEMMA TiedAreOnThePage ==
  ASSUME NEW R, IsFiniteSet(R), NEW offset \in Nat, NEW P \in Pages(R, offset),
         NEW r \in R, Ranks(R, r) \subseteq Window(offset)
  PROVE  r \in P
<1>1. P \in SUBSET R /\ Cardinality({s \in P : Abs(s.diff) = Abs(r.diff)}) = Cardinality(Ranks(R, r))
  <2>1. Ranks(R, r) \cap Window(offset) = Ranks(R, r)
    OBVIOUS
  <2> QED
    BY <2>1 DEF Pages, Window
<1>2. Cardinality(Ranks(R, r)) = Cardinality(Tied(R, r))
  BY RankFacts, FS_Interval
<1>3. IsFiniteSet(Tied(R, r)) /\ r \in Tied(R, r)
  BY FS_Subset DEF Tied
<1>4. {s \in P : Abs(s.diff) = Abs(r.diff)} \in SUBSET Tied(R, r)
  BY <1>1 DEF Tied
<1>5. {s \in P : Abs(s.diff) = Abs(r.diff)} = Tied(R, r)
  BY <1>1, <1>2, <1>3, <1>4, FS_Subset
<1> QED
  BY <1>3, <1>5

-----------------------------------------------------------------------------
(* The rows of a live comparison. *)

RateOf(c) == Normalized(LiveRate(c), request.norm, enriched[c].interval)
RowOf(p) == [pair |-> p, diff |-> RateOf(p[1]) - RateOf(p[2])]
Compared == {p \in ContractPairs(request) : HasLive(p[1]) /\ HasLive(p[2])}

LEMMA NormalizedIsInt ==
  ASSUME NEW x \in Int, NEW n \in Nat, NEW i \in Intervals
  PROVE  Normalized(x, n, i) \in Int
<1>1. PICK z \in Int : z = x * Precision
  BY Parameters
<1>2. PICK y \in Int : y = x * Precision * n
  BY Parameters
<1>3. i \in Nat \ {0}
  BY DEF Intervals
<1>4. y \div i \in Int
  BY <1>3, DivisionBounds
<1> QED
  BY <1>1, <1>2, <1>4 DEF Normalized

LEMMA RatesAreIntegers ==
  ASSUME TableInv, NEW c \in Ids, HasLive(c), NEW n \in Nat
  PROVE  /\ Normalized(LiveRate(c), n, enriched[c].interval) \in Int
         /\ LiveLatest(c, n) = {Normalized(LiveRate(c), n, enriched[c].interval)}
<1>1. live[c] \in 1..minute /\ minute \in 1..LastMinute
  BY DEF TableInv, HasLive, None
<1>2. live[c] \in 1..Len(LiveRates[c])
  BY <1>1, Parameters
<1>3. LiveRate(c) \in Int
  <2>1. LiveRates[c] \in Seq(Int)
    BY Parameters
  <2> QED
    BY <1>2, <2>1 DEF LiveRate
<1>4. enriched[c].interval \in Intervals
  BY DEF TableInv, ContractRows
<1>5. LiveLatest(c, n) = {Normalized(LiveRate(c), n, enriched[c].interval)}
  BY DEF LiveLatest
<1> QED
  BY <1>3, <1>4, <1>5, NormalizedIsInt

LEMMA RowsOfPairs ==
  /\ \A r \in LiveDifferences(request) : \E p \in Compared : r = RowOf(p) /\ MinDiff(request, r.diff)
  /\ \A p \in Compared : MinDiff(request, RowOf(p).diff) => RowOf(p) \in LiveDifferences(request)
BY DEF LiveDifferences, Compared, RowOf, RateOf

\* The contracts the two lists of a request name, as the query filters them.
Chosen ==
  {c \in Ids : /\ ~enriched[c].deprecated /\ Named(request.assets, Asset[c])
               /\ Named(request.sections, Section[c]) \/ Section[c] = request.compare}

LEMMA FilteredAreChosen ==
  ASSUME request.compare # All
  PROVE  FilteredContracts(ProcessFilterList(request.assets),
                           ProcessSections(request.sections, request.compare)) = Chosen
<1>1. \A list, name : In(ProcessFilterList(list), name) <=> Named(list, name)
  BY DEF In, ProcessFilterList, Named
<1>2. \A c \in Ids : Section[c] # All /\ Section[c] # NoSection
  BY Parameters
<1>3. \A c \in Ids : In(ProcessSections(request.sections, request.compare), Section[c])
                       <=> Named(request.sections, Section[c]) \/ Section[c] = request.compare
  <2> TAKE c \in Ids
  <2> DEFINE listed == ProcessFilterList(request.sections)
  <2>1. CASE request.compare = NoSection \/ All \in listed
    <3>1. ProcessSections(request.sections, request.compare) = listed
      BY <2>1 DEF ProcessSections
    <3>2. All \in listed => In(listed, Section[c])
      BY DEF In
    <3> QED
      BY <1>1, <1>2, <2>1, <3>1, <3>2
  <2>2. CASE ~(request.compare = NoSection \/ All \in listed)
    <3>1. ProcessSections(request.sections, request.compare) = listed \cup {request.compare}
      BY <2>2 DEF ProcessSections
    <3>2. In(listed \cup {request.compare}, Section[c])
            <=> In(listed, Section[c]) \/ Section[c] = request.compare
      BY DEF In
    <3> QED
      BY <1>1, <3>1, <3>2
  <2> QED
    BY <2>1, <2>2
<1> QED
  BY <1>1, <1>3 DEF FilteredContracts, Chosen

LEMMA ComparedFacts ==
  ASSUME TableInv
  PROVE  Compared = {p \in Chosen \X Chosen :
                       /\ HasLive(p[1]) /\ HasLive(p[2]) /\ Asset[p[1]] = Asset[p[2]]
                       /\ PairingCondition(p[1], p[2], request.compare)}
<1>1. CASE request.compare # All
  BY <1>1, FilteredAreChosen DEF Compared, ContractPairs
<1>2. CASE request.compare = All
  <2>1. \A a \in Ids, b \in Ids : ~PairingCondition(a, b, request.compare)
    BY <1>2, Parameters DEF PairingCondition, NoSection, All
  <2>2. Compared = {}
    BY <2>1 DEF Compared, ContractPairs, FilteredContracts
  <2>3. \A p \in Chosen \X Chosen : ~PairingCondition(p[1], p[2], request.compare)
    BY <2>1 DEF Chosen
  <2> QED
    BY <2>2, <2>3
<1> QED
  BY <1>1, <1>2

LEMMA RowFacts ==
  ASSUME TableInv, NEW r \in LiveDifferences(request)
  PROVE  /\ r = RowOf(r.pair) /\ r.diff \in Int /\ r.diff = RateOf(r.pair[1]) - RateOf(r.pair[2])
         /\ r.pair \in Ids \X Ids /\ r.pair = <<r.pair[1], r.pair[2]>>
         /\ r.pair[1] \in Chosen /\ r.pair[2] \in Chosen
         /\ HasLive(r.pair[1]) /\ HasLive(r.pair[2]) /\ Asset[r.pair[1]] = Asset[r.pair[2]]
         /\ PairingCondition(r.pair[1], r.pair[2], request.compare)
         /\ MinDiff(request, r.diff)
<1>1. PICK p \in Compared : r = RowOf(p) /\ MinDiff(request, r.diff)
  BY RowsOfPairs
<1>2. r.pair = p /\ r.diff = RateOf(p[1]) - RateOf(p[2])
  BY <1>1 DEF RowOf
<1>3. /\ p \in Chosen \X Chosen /\ HasLive(p[1]) /\ HasLive(p[2]) /\ Asset[p[1]] = Asset[p[2]]
      /\ PairingCondition(p[1], p[2], request.compare)
  BY ComparedFacts
<1>4. Chosen \subseteq Ids
  BY DEF Chosen
<1>5. RateOf(p[1]) \in Int /\ RateOf(p[2]) \in Int
  <2>1. request.norm \in Nat
    BY Parameters DEF TableInv
  <2> QED
    BY <1>3, <1>4, <2>1, RatesAreIntegers DEF RateOf
<1> QED
  BY <1>1, <1>2, <1>3, <1>4, <1>5

LEMMA RowsAreFinite ==
  ASSUME TableInv
  PROVE  IsFiniteSet(LiveDifferences(request))
<1>1. PICK R : R = LiveDifferences(request)
  OBVIOUS
<1>2. IsFiniteSet(Ids \X Ids)
  BY Parameters, FS_Product
<1>3. \A r \in R : r.pair \in Ids \X Ids
  BY <1>1, RowFacts
<1>4. \A r \in R, s \in R : r.pair = s.pair => r = s
  BY <1>1, RowFacts
<1>5. PICK f : f = [r \in R |-> r.pair]
  OBVIOUS
<1>6. f \in [R -> Ids \X Ids] /\ \A r \in R, s \in R : f[r] = f[s] => r = s
  BY <1>3, <1>4, <1>5
<1>7. f \in Injection(R, Ids \X Ids)
  BY <1>6 DEF Injection, IsInjective
<1> QED
  BY <1>1, <1>2, <1>7, FS_Injection

\* The contracts that Comparable takes two by two.
Candidates ==
  {c \in Ids : /\ ~enriched[c].deprecated /\ HasLive(c) /\ Named(request.assets, Asset[c])
               /\ Named(request.sections, Section[c]) \/ Section[c] = request.compare}

Differ(y) ==
  /\ y[1] # y[2] /\ Asset[y[1]] = Asset[y[2]]
  /\ request.compare # NoSection
       => (Section[y[1]] = request.compare) # (Section[y[2]] = request.compare)
  /\ Abs(RateOf(y[1]) - RateOf(y[2])) >= request.min

LEMMA ComparableFacts ==
  ASSUME TableInv
  PROVE  Comparable(request) = {{x[1], x[2]} : x \in {y \in Candidates \X Candidates : Differ(y)}}
<1>1. request.norm \in Nat
  BY Parameters DEF TableInv
<1>2. \A c \in Candidates : (CHOOSE x \in LiveLatest(c, request.norm) : TRUE) = RateOf(c)
  <2> TAKE c \in Candidates
  <2>1. c \in Ids /\ HasLive(c)
    BY DEF Candidates
  <2>2. LiveLatest(c, request.norm) = {RateOf(c)}
    BY <1>1, <2>1, RatesAreIntegers DEF RateOf
  <2> QED
    BY <2>2
<1>3. \A y \in Candidates \X Candidates :
        /\ (CHOOSE x \in LiveLatest(y[1], request.norm) : TRUE) = RateOf(y[1])
        /\ (CHOOSE x \in LiveLatest(y[2], request.norm) : TRUE) = RateOf(y[2])
  BY <1>2
<1>4. {y \in Candidates \X Candidates : Differ(y)}
        = {y \in Candidates \X Candidates :
             /\ y[1] # y[2] /\ Asset[y[1]] = Asset[y[2]]
             /\ request.compare # NoSection
                  => (Section[y[1]] = request.compare) # (Section[y[2]] = request.compare)
             /\ Abs((CHOOSE x \in LiveLatest(y[1], request.norm) : TRUE)
                    - (CHOOSE x \in LiveLatest(y[2], request.norm) : TRUE)) >= request.min}
  BY <1>3 DEF Differ
<1> QED
  BY <1>4 DEF Comparable, Candidates

Names(r) == {r.pair[1], r.pair[2]}

\* The rows of a comparison are the pairs it is about, each once.
LEMMA RowsAreThePairs ==
  ASSUME TableInv
  PROVE  /\ \A r \in LiveDifferences(request) : Names(r) \in Comparable(request)
         /\ \A x \in Comparable(request) : \E r \in LiveDifferences(request) : Names(r) = x
         /\ \A r \in LiveDifferences(request), s \in LiveDifferences(request) :
              Names(r) = Names(s) => r = s
<1>1. request.min \in Int
  BY Parameters DEF TableInv
<1>2. Candidates = {c \in Chosen : HasLive(c)} /\ Chosen \subseteq Ids /\ Ids \subseteq Nat
  BY Parameters DEF Candidates, Chosen
<1>3. \A d \in Int : MinDiff(request, d) <=> Abs(d) >= request.min
  BY <1>1, AbsFacts DEF MinDiff
<1>4. \A r \in LiveDifferences(request) : Names(r) \in Comparable(request)
  <2> TAKE r \in LiveDifferences(request)
  <2>1. PICK a, b : a = r.pair[1] /\ b = r.pair[2]
    OBVIOUS
  <2>2. /\ a \in Candidates /\ b \in Candidates /\ Asset[a] = Asset[b]
        /\ PairingCondition(a, b, request.compare)
        /\ r.diff \in Int /\ r.diff = RateOf(a) - RateOf(b) /\ MinDiff(request, r.diff)
    BY <1>2, <2>1, RowFacts
  <2>3. a # b /\ (request.compare # NoSection
                    => (Section[a] = request.compare) # (Section[b] = request.compare))
    <3>1. a \in Nat /\ b \in Nat
      BY <1>2, <2>2
    <3>2. CASE request.compare = NoSection
      BY <2>2, <3>1, <3>2 DEF PairingCondition
    <3>3. CASE request.compare # NoSection
      BY <2>2, <3>3 DEF PairingCondition
    <3> QED
      BY <3>2, <3>3
  <2>0. PICK y : y = <<a, b>>
    OBVIOUS
  <2>4. y = <<a, b>> /\ y[1] = a /\ y[2] = b
    BY <2>0
  <2>5. y \in {z \in Candidates \X Candidates : Differ(z)}
    BY <1>3, <2>2, <2>3, <2>4 DEF Differ
  <2>6. {y[1], y[2]} \in {{x[1], x[2]} : x \in {z \in Candidates \X Candidates : Differ(z)}}
    BY <2>5, Zenon
  <2> QED
    BY <2>1, <2>4, <2>6, ComparableFacts DEF Names
<1>5. ASSUME NEW y \in Candidates \X Candidates, Differ(y),
             PairingCondition(y[1], y[2], request.compare)
      PROVE  \E r \in LiveDifferences(request) : Names(r) = {y[1], y[2]}
  <2>1. y \in Compared
    BY <1>2, <1>5, ComparedFacts DEF Differ
  <2>2. request.norm \in Nat
    BY Parameters DEF TableInv
  <2>3. RateOf(y[1]) \in Int /\ RateOf(y[2]) \in Int
    BY <1>2, <2>2, RatesAreIntegers DEF RateOf
  <2>4. PICK r : r = RowOf(y)
    OBVIOUS
  <2>5. r.pair = y /\ r.diff = RateOf(y[1]) - RateOf(y[2]) /\ r.diff \in Int
    BY <2>3, <2>4 DEF RowOf
  <2>6. MinDiff(request, r.diff)
    BY <1>3, <1>5, <2>5 DEF Differ
  <2>7. r \in LiveDifferences(request)
    BY <2>1, <2>4, <2>6, RowsOfPairs
  <2> QED
    BY <2>5, <2>7 DEF Names
<1>6. ASSUME NEW x \in Comparable(request)
      PROVE  \E r \in LiveDifferences(request) : Names(r) = x
  <2>1. PICK y \in {z \in Candidates \X Candidates : Differ(z)} : x = {y[1], y[2]}
    BY ComparableFacts
  <2>2. PICK a, b : a = y[1] /\ b = y[2]
    OBVIOUS
  <2>3. a \in Ids /\ b \in Ids /\ a \in Candidates /\ b \in Candidates /\ Differ(y) /\ a \in Nat /\ b \in Nat
    BY <1>2, <2>1, <2>2
  <2>4. PairingCondition(a, b, request.compare) \/ PairingCondition(b, a, request.compare)
    BY <2>2, <2>3 DEF Differ, PairingCondition
  <2>5. CASE PairingCondition(a, b, request.compare)
    BY <1>5, <2>1, <2>2, <2>5
  <2>6. CASE PairingCondition(b, a, request.compare)
    <3>0. PICK z : z = <<b, a>>
      OBVIOUS
    <3>1. z = <<b, a>> /\ z[1] = b /\ z[2] = a
      BY <3>0
    <3>2. Abs(RateOf(b) - RateOf(a)) = Abs(RateOf(a) - RateOf(b))
      <4>1. request.norm \in Nat
        BY Parameters DEF TableInv
      <4>2. RateOf(a) \in Int /\ RateOf(b) \in Int
        BY <1>2, <2>3, <4>1, RatesAreIntegers DEF RateOf
      <4> QED
        BY <4>2 DEF Abs
    <3>3. Differ(z)
      BY <2>2, <2>3, <3>1, <3>2 DEF Differ
    <3>4. \E r \in LiveDifferences(request) : Names(r) = {z[1], z[2]}
      BY <1>5, <2>3, <2>6, <3>1, <3>3
    <3>5. {z[1], z[2]} = x
      BY <2>1, <2>2, <3>1
    <3> QED
      BY <3>4, <3>5
  <2> QED
    BY <2>4, <2>5, <2>6
<1>7. ASSUME NEW r \in LiveDifferences(request), NEW s \in LiveDifferences(request),
             Names(r) = Names(s)
      PROVE  r = s
  <2>1. PICK a, b, c, d : a = r.pair[1] /\ b = r.pair[2] /\ c = s.pair[1] /\ d = s.pair[2]
    OBVIOUS
  <2>2. /\ r.pair = <<a, b>> /\ s.pair = <<c, d>> /\ r = RowOf(r.pair) /\ s = RowOf(s.pair)
        /\ PairingCondition(a, b, request.compare) /\ PairingCondition(c, d, request.compare)
        /\ a \in Chosen /\ b \in Chosen /\ c \in Chosen /\ d \in Chosen
    BY <2>1, RowFacts
  <2>3. a \in Nat /\ b \in Nat /\ c \in Nat /\ d \in Nat
    BY <1>2, <2>2
  <2>4. (a = c /\ b = d) \/ (a = d /\ b = c)
    BY <1>7, <2>1 DEF Names
  <2>5. ~(a = d /\ b = c)
    BY <2>2, <2>3 DEF PairingCondition
  <2>6. r.pair = s.pair
    BY <2>2, <2>4, <2>5
  <2> QED
    BY <2>2, <2>6
<1> QED
  BY <1>4, <1>6, <1>7

LEMMA AsManyRowsAsPairs ==
  ASSUME TableInv
  PROVE  Cardinality(Comparable(request)) = Cardinality(LiveDifferences(request))
<1>1. PICK R, C : R = LiveDifferences(request) /\ C = Comparable(request)
  OBVIOUS
<1>2. IsFiniteSet(R)
  BY <1>1, RowsAreFinite
<1>3. PICK f : f = [r \in R |-> Names(r)]
  OBVIOUS
<1>4. /\ f \in [R -> C] /\ \A r \in R, s \in R : f[r] = f[s] => r = s
      /\ \A x \in C : \E r \in R : f[r] = x
  BY <1>1, <1>3, RowsAreThePairs
<1>5. f \in Bijection(R, C)
  BY <1>4 DEF Bijection, Injection, Surjection, IsInjective
<1>6. ExistsBijection(R, C)
  BY <1>5 DEF ExistsBijection
<1> QED
  BY <1>1, <1>2, <1>6, FS_Bijection

-----------------------------------------------------------------------------
(* Reading page by page. *)

LEMMA MultiplesAreOrdered ==
  ASSUME NEW h \in Nat \ {0}, NEW a \in Int, NEW b \in Int
  PROVE  /\ a * h \in Int
         /\ a < b => a * h + h <= b * h
<1>1. a * h \in Int /\ b * h \in Int
  OBVIOUS
<1>2. a < b => a * h + h <= b * h
  <2> SUFFICES ASSUME a < b
               PROVE  a * h + h <= b * h
    OBVIOUS
  <2>1. (b - (a + 1)) * h >= 0
    OBVIOUS
  <2>2. (b - (a + 1)) * h = b * h - a * h - h
    OBVIOUS
  <2> QED
    BY <1>1, <2>1, <2>2
<1> QED
  BY <1>1, <1>2

LEMMA DivisionIs ==
  ASSUME NEW h \in Nat \ {0}, NEW x \in Int, NEW q \in Int, q * h <= x, x < q * h + h
  PROVE  x \div h = q
<1> DEFINE d == x \div h
<1>1. d \in Int /\ d * h <= x /\ x < d * h + h /\ d * h \in Int /\ q * h \in Int
  BY DivisionBounds
<1> HIDE DEF d
<1>2. ~(d < q)
  <2>1. d < q => d * h + h <= q * h
    BY <1>1, MultiplesAreOrdered
  <2> QED
    BY <1>1, <2>1
<1>3. ~(q < d)
  <2>1. q < d => q * h + h <= d * h
    BY <1>1, MultiplesAreOrdered
  <2> QED
    BY <1>1, <2>1
<1>4. d = q
  BY <1>1, <1>2, <1>3
<1> QED
  BY <1>4 DEF d

\* Ranks on the same page.
LEMMA OnOnePage ==
  ASSUME NEW k \in Nat, NEW a \in Nat, NEW i \in Nat,
         k * Limit <= a, a < k * Limit + Limit, i \div Limit = a \div Limit
  PROVE  k * Limit <= i /\ i < k * Limit + Limit
<1>1. Limit \in Nat \ {0}
  BY Parameters
<1>2. a \div Limit = k
  BY <1>1, DivisionIs
<1>3. i \div Limit = k
  BY <1>2
<1>4. (i \div Limit) * Limit <= i /\ i < (i \div Limit) * Limit + Limit
  BY <1>1, DivisionBounds
<1> QED
  BY <1>3, <1>4

PageShape ==
  /\ page = [offset |-> page.offset, seen |-> page.seen, rows |-> page.rows, total |-> page.total,
             more |-> page.more, quiet |-> page.quiet]
  /\ page.offset \in Nat /\ \E k \in Nat : page.offset = k * Limit
  /\ page.rows \in 0..page.offset
  /\ page = FirstPage \/ page.quiet \in BOOLEAN

\* What has been read of a comparison that has not changed.
ReadSoFar(R) ==
  LET n == Cardinality(R)
  IN  /\ page.rows = IF page.offset <= n THEN page.offset ELSE n
      /\ page.total = n /\ (page.more <=> page.offset < n)
      /\ \A x \in page.seen : \E r \in R : x = Names(r)
      /\ TieAcrossPages(R) \/ \A r \in R : Cardinality(Above(R, r)) < page.offset => Names(r) \in page.seen

PageInv ==
  PageShape /\ (page = FirstPage \/ ~page.quiet \/ ReadSoFar(LiveDifferences(request)))

LEMMA PagesBegin == QueryInit => PageInv
<1> SUFFICES ASSUME QueryInit PROVE PageInv
  OBVIOUS
<1>1. page = FirstPage
  BY DEF QueryInit
<1>2. page.offset = 0 /\ page.rows = 0 /\ page.quiet = TRUE
  BY <1>1 DEF FirstPage
<1>3. 0 = 0 * Limit
  BY Parameters
<1> QED
  BY <1>1, <1>2, <1>3 DEF PageInv, PageShape, FirstPage

\* What a comparison reads.
LEMMA SameRows ==
  ASSUME UNCHANGED <<enriched, live, request>>
  PROVE  LiveDifferences(request)' = LiveDifferences(request)
BY DEF LiveDifferences, ContractPairs, FilteredContracts, LiveRate, HasLive

LEMMA ReadPageStep ==
  ASSUME TableInv, PageInv, ReadPage
  PROVE  PageInv'
<1>1. UNCHANGED <<enriched, live, request>> /\ page.more
  BY DEF ReadPage
<1>2. PICK R : R = LiveDifferences(request)
  OBVIOUS
<1>3. R = LiveDifferences(request)'
  BY <1>1, <1>2, SameRows
<1>4. PICK P \in Pages(R, page.offset) :
        page' = [offset |-> page.offset + Limit,
                 seen |-> page.seen \cup {{r.pair[1], r.pair[2]} : r \in P},
                 rows |-> page.rows + Cardinality(P),
                 total |-> TotalCount(R, P),
                 more |-> HasMore(page.offset, P, TotalCount(R, P)),
                 quiet |-> page.quiet]
  BY <1>2 DEF ReadPage
<1>5. /\ page'.offset = page.offset + Limit /\ page'.rows = page.rows + Cardinality(P)
      /\ page'.seen = page.seen \cup {Names(r) : r \in P}
      /\ page'.total = TotalCount(R, P) /\ page'.quiet = page.quiet
      /\ page'.more = (page.offset + Cardinality(P) < TotalCount(R, P))
  BY <1>4 DEF Names, HasMore
<1>6. IsFiniteSet(R) /\ \A r \in R : r.diff \in Int
  BY <1>2, RowsAreFinite, RowFacts
<1>7. PICK o \in Nat, k \in Nat : o = page.offset /\ o = k * Limit
  BY DEF PageInv, PageShape
<1>8. PICK n \in Nat, p \in Nat :
        /\ n = Cardinality(R) /\ p = Cardinality(P)
        /\ p = IF n <= o THEN 0 ELSE IF o + Limit <= n THEN Limit ELSE n - o
  BY <1>4, <1>6, <1>7, PageSizes
<1>9. P \in SUBSET R /\ IsFiniteSet(P)
  BY <1>4, <1>6, <1>7, PageSizes
<1>10. Limit \in Nat \ {0}
  BY Parameters
<1>11. page.rows \in 0..o
  BY <1>7 DEF PageInv, PageShape
<1>12. PageShape'
  <2>1. o + Limit = (k + 1) * Limit /\ k + 1 \in Nat
    BY <1>7, <1>10
  <2>2. p <= Limit
    BY <1>8, <1>10, <1>7
  <2>3. page'.offset \in Nat /\ page'.rows \in 0..page'.offset
    BY <1>5, <1>7, <1>8, <1>10, <1>11, <2>2
  <2>4. page' = [offset |-> page'.offset, seen |-> page'.seen, rows |-> page'.rows,
                 total |-> page'.total, more |-> page'.more, quiet |-> page'.quiet]
    BY <1>4
  <2>5. page'.quiet \in BOOLEAN
    <3>1. page.quiet \in BOOLEAN
      <4>1. CASE page = FirstPage
        BY <4>1 DEF FirstPage
      <4>2. CASE page # FirstPage
        BY <4>2, Zenon DEF PageInv, PageShape
      <4> QED
        BY <4>1, <4>2
    <3>2. page'.quiet = page.quiet
      BY <1>5
    <3> QED
      BY <3>1, <3>2, Zenon
  <2>6. \E j \in Nat : page'.offset = j * Limit
    BY <1>5, <1>7, <2>1
  <2> QED
    BY <2>3, <2>4, <2>5, <2>6 DEF PageShape
<1>13. ASSUME page'.quiet
       PROVE  ReadSoFar(R)'
  <2>1. page = FirstPage \/ ReadSoFar(R)
    BY <1>2, <1>5, <1>13 DEF PageInv
  <2>2. /\ page.rows = o /\ (n <= o => n = 0 /\ o = 0)
        /\ \A x \in page.seen : \E r \in R : x = Names(r)
        /\ TieAcrossPages(R) \/ \A r \in R : Cardinality(Above(R, r)) < o => Names(r) \in page.seen
    <3>1. CASE page = FirstPage
      <4>1. o = 0 /\ page.rows = 0 /\ page.seen = {}
        BY <1>7, <3>1 DEF FirstPage
      <4>2. \A r \in R : ~(Cardinality(Above(R, r)) < 0)
        BY <1>6, RankFacts
      <4> QED
        BY <1>8, <4>1, <4>2
    <3>2. CASE ReadSoFar(R)
      <4>1. /\ page.rows = IF o <= n THEN o ELSE n
            /\ (page.more <=> o < n)
        BY <1>7, <1>8, <3>2 DEF ReadSoFar
      <4>2. o < n /\ page.rows = o
        BY <1>1, <1>7, <1>8, <4>1
      <4>3. \A x \in page.seen : \E r \in R : x = Names(r)
        BY <3>2 DEF ReadSoFar
      <4>4. TieAcrossPages(R) \/ \A r \in R : Cardinality(Above(R, r)) < o => Names(r) \in page.seen
        BY <1>7, <3>2 DEF ReadSoFar
      <4>5. ~(n <= o)
        BY <1>7, <1>8, <4>2
      <4> QED
        BY <4>2, <4>3, <4>4, <4>5, Zenon
    <3> QED
      BY <2>1, <3>1, <3>2
  <2>3. TotalCount(R, P) = n
    <3>1. CASE P = {}
      <4>1. p = 0
        BY <1>8, <3>1, FS_EmptySet
      <4>2. n = 0
        BY <1>7, <1>8, <1>10, <2>2, <4>1
      <4> QED
        BY <3>1, <4>2 DEF TotalCount
    <3>2. CASE P # {}
      BY <1>8, <3>2 DEF TotalCount
    <3> QED
      BY <3>1, <3>2
  <2>4. /\ page'.offset = o + Limit /\ page'.rows = o + p /\ page'.total = n
        /\ (page'.more <=> o + p < n)
    BY <1>5, <1>7, <1>8, <2>2, <2>3
  <2>5. /\ o + p = IF o + Limit <= n THEN o + Limit ELSE n
        /\ (o + p < n) = (o + Limit < n)
    BY <1>7, <1>8, <1>10, <2>2
  <2>6. \A x \in page'.seen : \E r \in R : x = Names(r)
    BY <1>5, <1>9, <2>2
  <2>7. ASSUME ~TieAcrossPages(R), NEW r \in R, Cardinality(Above(R, r)) < o + Limit
        PROVE  Names(r) \in page'.seen
    <3>1. PICK a \in Nat, t \in Nat \ {0} :
            a = Cardinality(Above(R, r)) /\ Ranks(R, r) = a..(a + t - 1)
      BY <1>6, RankFacts
    <3>2. CASE a < o
      BY <1>5, <2>2, <2>7, <3>1, <3>2
    <3>3. CASE o <= a
      <4>1. a \in Ranks(R, r)
        BY <3>1
      <4>2. ASSUME NEW i \in Ranks(R, r)
            PROVE  i \in Window(o)
        <5>1. i \div Limit = a \div Limit
          BY <2>7, <4>1 DEF TieAcrossPages
        <5>2. i \in Nat /\ k * Limit <= a /\ a < k * Limit + Limit
          BY <1>7, <2>7, <3>1, <3>3
        <5>3. k * Limit <= i /\ i < k * Limit + Limit
          BY <5>1, <5>2, OnOnePage
        <5>4. o <= i /\ i < o + Limit
          BY <1>7, <5>3
        <5> QED
          BY <1>10, <5>2, <5>4 DEF Window
      <4>3. r \in P
        BY <1>4, <1>6, <1>7, <4>2, TiedAreOnThePage
      <4> QED
        BY <1>5, <4>3
    <3> QED
      BY <3>1, <3>2, <3>3
  <2> QED
    BY <1>8, <2>4, <2>5, <2>6, <2>7 DEF ReadSoFar
<1> QED
  BY <1>3, <1>12, <1>13 DEF PageInv

LEMMA DisturbedStep ==
  ASSUME PageInv, Disturbed
  PROVE  PageInv'
<1>1. CASE page = FirstPage
  <2>1. page' = FirstPage
    BY <1>1 DEF Disturbed, FirstPage
  <2> QED
    BY <1>1, <2>1 DEF PageInv, PageShape
<1>2. CASE page # FirstPage
  <2>1. page' = [offset |-> page.offset, seen |-> page.seen, rows |-> page.rows,
                 total |-> page.total, more |-> page.more, quiet |-> FALSE]
    BY <1>2 DEF PageInv, PageShape, Disturbed
  <2>2. /\ page'.offset = page.offset /\ page'.seen = page.seen /\ page'.rows = page.rows
        /\ page'.total = page.total /\ page'.more = page.more /\ page'.quiet = FALSE
    BY <2>1
  <2> QED
    BY <2>1, <2>2 DEF PageInv, PageShape
<1> QED
  BY <1>1, <1>2

LEMMA PagesStay == TableInv /\ PageInv /\ [PageNext \/ PointNext]_queryVars => PageInv'
<1> SUFFICES ASSUME TableInv, PageInv, [PageNext \/ PointNext]_queryVars PROVE PageInv'
  OBVIOUS
<1>1. CASE ReadPage
  BY <1>1, ReadPageStep
<1>2. CASE StoreLive \/ RefreshView
  BY <1>2, DisturbedStep DEF StoreLive, RefreshView
<1>3. CASE UNCHANGED <<enriched, live, request, page>>
  BY <1>3, SameRows DEF PageInv, PageShape, ReadSoFar
<1> QED
  BY <1>1, <1>2, <1>3 DEF PageNext, PointNext, queryVars, Reconcile, Pass, StoreSettlement

LEMMA QueryInvariant == QuerySpec => [](TableInv /\ PageInv)
BY TablesBegin, TablesStay, PagesBegin, PagesStay, PTL DEF QuerySpec

\* Types; and a client never counts more rows than its pages have.
THEOREM QueryTypeCorrect == QuerySpec => []QueryTypeOK
<1>1. TableInv /\ PageInv => QueryTypeOK
  <2> SUFFICES ASSUME TableInv, PageInv PROVE QueryTypeOK
    OBVIOUS
  <2>1. page.offset % Limit = 0
    <3>1. PICK k \in Nat : page.offset = k * Limit
      BY DEF PageInv, PageShape
    <3>2. Limit \in Nat \ {0}
      BY Parameters
    <3>3. PICK o \in Nat : o = k * Limit
      BY <3>2
    <3>4. o \div Limit = k
      BY <3>2, <3>3, DivisionIs
    <3>5. o % Limit = o - (o \div Limit) * Limit
      BY <3>2, DivisionBounds
    <3> QED
      BY <3>1, <3>3, <3>4, <3>5
  <2>2. page.rows <= page.offset
    BY DEF PageInv, PageShape
  <2>3. newest \in [Ids -> 0..LastTick] /\ \A c \in Ids : newest[c] <= now
    BY Parameters DEF TableInv
  <2> QED
    BY <2>1, <2>2, <2>3 DEF TableInv, QueryTypeOK
<1> QED
  BY <1>1, QueryInvariant, PTL

\* A client that reads to the last page, undisturbed, has been given every pair.
THEOREM PagesNameEveryPair == QuerySpec => []PagesAreComplete
<1>1. TableInv /\ PageInv => PagesAreComplete
  <2> SUFFICES ASSUME TableInv, PageInv, ~page.more, page.quiet
               PROVE  /\ page.rows = Cardinality(Comparable(request)) /\ page.total = page.rows
                      /\ TieAcrossPages(LiveDifferences(request)) \/ page.seen = Comparable(request)
    BY DEF PagesAreComplete
  <2>1. PICK R : R = LiveDifferences(request)
    OBVIOUS
  <2>2. ReadSoFar(R)
    BY <2>1 DEF PageInv, FirstPage
  <2>3. PICK n \in Nat : n = Cardinality(R)
    BY <2>1, RowsAreFinite, FS_CardinalityType
  <2>4. page.offset \in Nat /\ ~(page.offset < n)
    BY <2>2, <2>3 DEF ReadSoFar, PageInv, PageShape
  <2>5. page.rows = n /\ page.total = n
    BY <2>2, <2>3, <2>4 DEF ReadSoFar
  <2>6. n = Cardinality(Comparable(request))
    BY <2>1, <2>3, AsManyRowsAsPairs
  <2>7. ASSUME ~TieAcrossPages(R)
        PROVE  page.seen = Comparable(request)
    <3>1. \A x \in page.seen : x \in Comparable(request)
      BY <2>1, <2>2, RowsAreThePairs DEF ReadSoFar
    <3>2. ASSUME NEW r \in R
          PROVE  Names(r) \in page.seen
      <4>1. IsFiniteSet(R) /\ Above(R, r) \in SUBSET R /\ r \notin Above(R, r)
        <5>1. \A s \in R : s.diff \in Int
          BY <2>1, RowFacts
        <5> QED
          BY <2>1, <5>1, RowsAreFinite, AbsFacts DEF Above
      <4>2. Cardinality(Above(R, r)) <= n /\ Cardinality(Above(R, r)) # n
        BY <2>3, <4>1, FS_Subset
      <4>3. Cardinality(Above(R, r)) \in Nat
        BY <4>1, RankFacts
      <4>4. Cardinality(Above(R, r)) < page.offset
        BY <2>4, <4>2, <4>3
      <4> QED
        BY <2>2, <2>7, <4>4 DEF ReadSoFar
    <3>3. \A x \in Comparable(request) : x \in page.seen
      BY <2>1, <3>2, RowsAreThePairs
    <3> QED
      BY <3>1, <3>3
  <2> QED
    BY <2>1, <2>5, <2>6, <2>7
<1> QED
  BY <1>1, QueryInvariant, PTL

-----------------------------------------------------------------------------
(* The endpoints. *)

\* Of the contracts with a sample one has the newest.
LEMMA NewestSample ==
  ASSUME TableInv, NEW C \in SUBSET Ids, C # {}, \A c \in C : HasLive(c)
  PROVE  \E c \in C : \A e \in C : live[e] <= live[c]
<1>1. \A c \in C : live[c] \in 1..minute /\ minute \in Nat
  BY Parameters DEF TableInv, HasLive, None
<1> DEFINE gap == {minute - live[c] : c \in C}
<1>2. gap \subseteq Nat /\ gap # {}
  BY <1>1
<1>3. PICK g \in gap : \A x \in gap : g <= x
  BY <1>2, LeastNatural
<1>4. PICK c \in C : g = minute - live[c]
  BY <1>3
<1>5. ASSUME NEW e \in C PROVE live[e] <= live[c]
  <2>1. g <= minute - live[e]
    BY <1>3
  <2> QED
    BY <1>1, <1>4, <2>1
<1> QED
  BY <1>5

\* The live wall of a cell shows a rate of live_latest, raw always, normalized
\* where the view has the intervals of the cell's contracts.
THEOREM LiveRatesAgree == QuerySpec => []LiveEndpointsAgree
<1>1. TableInv => LiveEndpointsAgree
  <2> SUFFICES ASSUME TableInv, NEW x \in Ids, NEW norm \in {Raw, 24},
                      \A c \in WallContracts(Asset[x], Section[x]) : SameInterval(c, norm)
               PROVE  LET wall == WallLive(Asset[x], Section[x], norm)
                          latest == UNION {LiveLatest(d, norm) : d \in WallContracts(Asset[x], Section[x])}
                      IN  wall \subseteq latest /\ (latest # {} => wall # {})
    BY DEF LiveEndpointsAgree
  <2>1. PICK W : W = WallContracts(Asset[x], Section[x])
    OBVIOUS
  <2>2. W \subseteq Ids
    BY <2>1 DEF WallContracts
  <2> DEFINE C == {d \in W : HasLive(d)}
             rate(d) == Normalized(LiveRate(d), norm, contract[d].interval)
             wall == {rate(d) : d \in {e \in C : \A f \in C : live[f] <= live[e]}}
             latest == UNION {LiveLatest(d, norm) : d \in W}
  <2>3. wall = WallLive(Asset[x], Section[x], norm)
    BY <2>1, Zenon DEF WallLive
  <2>4. \A d \in C : LiveLatest(d, norm) = {rate(d)}
    <3>1. \A d \in W : Normalized(LiveRate(d), norm, enriched[d].interval) = rate(d)
      BY <2>1 DEF SameInterval, Normalized
    <3> QED
      BY <3>1 DEF LiveLatest
  <2>5. \A d \in W : d \notin C => LiveLatest(d, norm) = {}
    BY DEF LiveLatest
  <2>6. wall \subseteq latest
    BY <2>4
  <2>7. ASSUME latest # {} PROVE wall # {}
    <3>1. C # {}
      BY <2>5, <2>7
    <3>2. PICK d \in C : \A e \in C : live[e] <= live[d]
      BY <2>2, <3>1, NewestSample
    <3> QED
      BY <3>2
  <2> QED
    BY <2>1, <2>3, <2>6, <2>7
<1> QED
  BY <1>1, TablesInvariant, PTL

LEMMA SettledFacts ==
  ASSUME TableInv, NEW c \in Ids
  PROVE  /\ IsFiniteSet(Settled(c)) /\ Settled(c) \subseteq Int
         /\ \A t \in Settled(c) : t <= newest[c] /\ Listed[c] <= t /\ \E k \in Int : t = k * Step(c)
         /\ \A k \in Int : Listed[c] <= k * Step(c) /\ k * Step(c) <= newest[c]
                             => k * Step(c) \in Settled(c)
<1>1. PICK s \in Nat \ {0} : s = Step(c)
  BY StepFacts
<1>2. PICK a \in Nat, n \in Nat : a = Listed[c] /\ n = newest[c]
  BY Parameters DEF TableInv
<1>0. PICK u \in Int : u = a + s - 1
  BY <1>1, <1>2
<1>3. PICK lo \in Int, hi \in Int : lo = u \div s /\ hi = n \div s
  <2>1. u \div s \in Int
    BY DivisionBounds
  <2>2. n \div s \in Int
    BY DivisionBounds
  <2> QED
    BY <2>1, <2>2
<1>4. Settled(c) = {k * s : k \in lo..hi}
  BY <1>0, <1>1, <1>2, <1>3 DEF Settled, Step
<1>5. \A k \in Int : k * s \in Int
  BY <1>1
<1>6. lo * s + s > a + s - 1 /\ lo * s <= a + s - 1 /\ hi * s <= n /\ n < hi * s + s
  <2>0. (u \div s) * s <= u /\ u < (u \div s) * s + s
    BY DivisionBounds
  <2>1. (n \div s) * s <= n /\ n < (n \div s) * s + s
    BY DivisionBounds
  <2>2. lo * s <= u /\ u < lo * s + s /\ hi * s <= n /\ n < hi * s + s
    BY <1>3, <2>0, <2>1
  <2>3. lo * s \in Int
    BY <1>1, <1>3
  <2> QED
    BY <1>0, <1>1, <1>2, <2>2, <2>3
<1>7. ASSUME NEW k \in lo..hi
      PROVE  k * s <= n /\ a <= k * s
  <2>0. k \in Int /\ lo <= k /\ k <= hi
    BY <1>3
  <2>1. lo < k => lo * s + s <= k * s
    BY <1>1, <1>3, <2>0, MultiplesAreOrdered
  <2>2. k < hi => k * s + s <= hi * s
    BY <1>1, <1>3, <2>0, MultiplesAreOrdered
  <2>3. lo * s \in Int /\ hi * s \in Int /\ k * s \in Int
    BY <1>1, <1>3, <2>0
  <2>4. lo < k \/ lo = k
    BY <1>3, <2>0
  <2>5. k < hi \/ k = hi
    BY <1>3, <2>0
  <2>6. a <= k * s
    BY <1>1, <1>2, <1>6, <2>1, <2>3, <2>4
  <2>7. k * s <= n
    BY <1>1, <1>2, <1>6, <2>2, <2>3, <2>5
  <2> QED
    BY <2>6, <2>7
<1>8. ASSUME NEW k \in Int, a <= k * s, k * s <= n
      PROVE  k \in lo..hi
  <2>1. k < lo => k * s + s <= lo * s
    BY <1>1, <1>3, MultiplesAreOrdered
  <2>2. hi < k => hi * s + s <= k * s
    BY <1>1, <1>3, MultiplesAreOrdered
  <2>3. lo * s \in Int /\ hi * s \in Int /\ k * s \in Int
    BY <1>1, <1>3
  <2>4. ~(k < lo)
    BY <1>1, <1>2, <1>6, <1>8, <2>1, <2>3
  <2>5. ~(hi < k)
    BY <1>1, <1>2, <1>6, <1>8, <2>2, <2>3
  <2> QED
    BY <1>3, <2>4, <2>5
<1>9. IsFiniteSet(lo..hi)
  BY <1>3, FS_Interval
<1>10. IsFiniteSet(Settled(c))
  <2>1. PICK f : f = [k \in lo..hi |-> k * s]
    OBVIOUS
  <2>2. f \in Surjection(lo..hi, Settled(c))
    BY <1>4, <2>1 DEF Surjection
  <2> QED
    BY <1>9, <2>2, FS_Surjection
<1>11. Settled(c) \subseteq Int
  BY <1>4, <1>5
<1>12. ASSUME NEW t \in Settled(c)
       PROVE  t <= n /\ a <= t /\ \E k \in Int : t = k * s
  <2>1. PICK k \in lo..hi : t = k * s
    BY <1>4
  <2>2. k \in Int
    BY <1>3
  <2> QED
    BY <1>7, <2>1, <2>2
<1>13. ASSUME NEW k \in Int, a <= k * s, k * s <= n
       PROVE  k * s \in Settled(c)
  BY <1>4, <1>8, <1>13
<1> QED
  BY <1>1, <1>2, <1>10, <1>11, <1>12, <1>13

\* A window that ends now has the settlements that historical_points gives.
LEMMA DayWindowIsARange ==
  ASSUME TableInv, NEW c \in Ids, NEW days \in Days
  PROVE  DayWindow(c, days) = PointsBetween(c, now - days * 24 * Hour, now)
<1>1. \A t \in Settled(c) : t <= now
  <2>1. newest[c] \in Nat /\ newest[c] <= now /\ now \in Nat
    BY Parameters DEF TableInv
  <2> QED
    BY <2>1, SettledFacts
<1>2. PICK from : from = now - days * 24 * Hour
  OBVIOUS
<1>3. DayWindow(c, days) = {t \in Settled(c) : from <= t}
  <2>1. \A t \in Settled(c) : t >= from <=> from <= t
    OBVIOUS
  <2> QED
    BY <1>2, <2>1 DEF DayWindow
<1> QED
  BY <1>1, <1>2, <1>3 DEF PointsBetween

\* At most one settlement of a window is still to be stored.
LEMMA OneIsMissing ==
  ASSUME TableInv, NEW c \in Ids, NEW K \in Nat \ {0},
         Listed[c] <= now - K * Step(c)
  PROVE  /\ IsFiniteSet({t \in Settled(c) : t >= now - K * Step(c)})
         /\ Cardinality({t \in Settled(c) : t >= now - K * Step(c)}) >= K - 1
<1>1. PICK s \in Nat \ {0} : s = Step(c)
  BY StepFacts
<1>2. PICK m \in Nat, n \in Nat : m = now /\ n = newest[c] /\ n <= m
  <2>1. now \in Nat /\ newest[c] \in 0..now
    BY Parameters DEF TableInv
  <2>2. newest[c] \in Nat /\ newest[c] <= now
    BY <2>1
  <2> QED
    BY <2>1, <2>2
<1>3. PICK L \in Nat : L * s <= m /\ m < L * s + s /\ n >= L * s - s
  <2>1. m \div s \in Nat /\ LatestSettlement(c, m) = s * (m \div s) /\ m < LatestSettlement(c, m) + s
        /\ LatestSettlement(c, m) \in 0..m
    BY <1>1, <1>2, BucketStarts
  <2>2. n >= LatestSettlement(c, m) - s
    BY <1>1, <1>2 DEF TableInv
  <2>3. PICK q \in Nat : q = m \div s
    BY <2>1
  <2>4. LatestSettlement(c, m) = q * s
    BY <1>1, <2>1, <2>3
  <2>5. q * s \in Int
    BY <1>1, <2>3
  <2>6. q * s <= m /\ m < q * s + s /\ n >= q * s - s
    BY <1>2, <2>1, <2>2, <2>4, <2>5
  <2> QED
    BY <2>6
<1>4. PICK T : T = {t \in Settled(c) : t >= now - K * Step(c)}
  OBVIOUS
<1>5. PICK w \in Nat : w = K * s
  BY <1>1
<1>6. T = {t \in Settled(c) : t >= m - w} /\ Listed[c] <= m - w /\ Listed[c] \in Nat
  BY <1>1, <1>2, <1>4, <1>5, Parameters
<1>7. IsFiniteSet(T)
  BY <1>4, SettledFacts, FS_Subset
<1>8. ASSUME NEW j \in 1..(K - 1)
      PROVE  (L - j) * s \in T
  <2>1. j < K /\ j \in Nat
    OBVIOUS
  <2>2. j * s + s <= w /\ j * s \in Nat
    BY <1>1, <1>5, <2>1, MultiplesAreOrdered
  <2>3. (L - j) * s = L * s - j * s /\ L * s \in Int /\ L - j \in Int
    BY <1>1, <2>1
  <2>4. j * s >= s
    <3>1. j = 1 \/ 1 < j
      BY <2>1
    <3>2. 1 * s = s
      BY <1>1
    <3>3. 1 < j => 1 * s + s <= j * s
      BY <1>1, <2>1, MultiplesAreOrdered
    <3> QED
      BY <1>1, <2>2, <3>1, <3>2, <3>3
  <2>5. (L - j) * s >= m - w /\ (L - j) * s <= n
    BY <1>1, <1>2, <1>3, <1>5, <2>2, <2>3, <2>4
  <2>6. (L - j) * s \in Int /\ Listed[c] <= (L - j) * s
    BY <1>2, <1>5, <1>6, <2>3, <2>5
  <2>7. (L - j) * s \in Settled(c)
    BY <1>1, <1>2, <2>3, <2>5, <2>6, SettledFacts
  <2> QED
    BY <1>6, <2>5, <2>7
<1>9. PICK f : f = [j \in 1..(K - 1) |-> (L - j) * s]
  OBVIOUS
<1>10. ASSUME NEW i \in 1..(K - 1), NEW j \in 1..(K - 1), f[i] = f[j]
       PROVE  i = j
  <2>1. (L - i) * s = (L - j) * s /\ L - i \in Int /\ L - j \in Int
    BY <1>9, <1>10
  <2>2. L - i < L - j => (L - i) * s + s <= (L - j) * s
    BY <1>1, <2>1, MultiplesAreOrdered
  <2>3. L - j < L - i => (L - j) * s + s <= (L - i) * s
    BY <1>1, <2>1, MultiplesAreOrdered
  <2>4. (L - i) * s \in Int /\ (L - j) * s \in Int
    BY <1>1, <2>1
  <2>5. ~(L - i < L - j) /\ ~(L - j < L - i)
    BY <1>1, <2>1, <2>2, <2>3, <2>4
  <2> QED
    BY <2>5
<1>11. f \in Injection(1..(K - 1), T)
  BY <1>8, <1>9, <1>10 DEF Injection, IsInjective
<1>12. Cardinality(1..(K - 1)) <= Cardinality(T)
  BY <1>7, <1>11, FS_Injection
<1>13. Cardinality(1..(K - 1)) = K - 1
  <2>1. 1 \in Int /\ K - 1 \in Int
    OBVIOUS
  <2>2. Cardinality(1..(K - 1)) = IF 1 > K - 1 THEN 0 ELSE (K - 1) - 1 + 1
    BY <2>1, FS_Interval
  <2> QED
    BY <2>2
<1>14. Cardinality(T) \in Nat
  BY <1>7, FS_CardinalityType
<1> QED
  BY <1>4, <1>7, <1>12, <1>13, <1>14

\* The windows of a day have a whole number of settlements.
LEMMA ExpectedIs ==
  ASSUME TableInv, NEW c \in Ids, NEW days \in Days, enriched[c].interval = Every[c]
  PROVE  /\ ExpectedCount(c, days) \in Nat \ {0}
         /\ ExpectedCount(c, days) * Step(c) = days * 24 * Hour
<1>1. days \in Nat \ {0} /\ Hour \in Nat \ {0} /\ Every[c] \in {1, 4, 8}
  BY Parameters DEF Intervals
<1>2. PICK w \in Nat : w = days * Hour
  BY <1>1
<1>3. days * 24 * Hour = 24 * w
  BY <1>1, <1>2
<1>4. CASE Every[c] = 1
  <2>1. ExpectedCount(c, days) = 24 * days /\ Step(c) = Hour
    BY <1>1, <1>4 DEF ExpectedCount, Step
  <2> QED
    BY <1>1, <2>1
<1>5. CASE Every[c] = 4
  <2>1. ExpectedCount(c, days) = 6 * days /\ Step(c) = 4 * Hour
    BY <1>1, <1>5 DEF ExpectedCount, Step
  <2> QED
    BY <1>1, <2>1
<1>6. CASE Every[c] = 8
  <2>1. ExpectedCount(c, days) = 3 * days /\ Step(c) = 8 * Hour
    BY <1>1, <1>6 DEF ExpectedCount, Step
  <2> QED
    BY <1>1, <2>1
<1> QED
  BY <1>1, <1>4, <1>5, <1>6

\* A sum stays on show between a settlement and its storing.
THEOREM SumsStayOnShow == QuerySpec => []SumsSurvivePendingUpdate
<1>1. TableInv => SumsSurvivePendingUpdate
  <2> SUFFICES ASSUME TableInv, NEW c \in Ids, NEW days \in Days, enriched[c].interval = Every[c],
                      ExpectedCount(c, days) >= 50, Listed[c] <= now - days * 24 * Hour
               PROVE  HistoricalSum(c, days) = {Total(c, PointsBetween(c, now - days * 24 * Hour, now))}
    BY DEF SumsSurvivePendingUpdate
  <2>1. PICK K \in Nat \ {0} : K = ExpectedCount(c, days) /\ K >= 50
    BY ExpectedIs
  <2>2. K * Step(c) = days * 24 * Hour
    BY <2>1, ExpectedIs
  <2>3. PICK T : T = DayWindow(c, days)
    OBVIOUS
  <2>4. T = {t \in Settled(c) : t >= now - K * Step(c)}
    BY <2>2, <2>3 DEF DayWindow
  <2>5. IsFiniteSet(T) /\ Cardinality(T) >= K - 1
    BY <2>2, <2>4, OneIsMissing
  <2>6. PICK p \in Nat : p = Cardinality(T)
    BY <2>5, FS_CardinalityType
  <2>7. 100 * p >= 98 * K
    BY <2>1, <2>5, <2>6
  <2>8. EnoughPoints(Cardinality(T), ExpectedCount(c, days))
    BY <2>1, <2>6, <2>7 DEF EnoughPoints
  <2>9. HistoricalSum(c, days) = {Total(c, T)}
    BY <2>3, <2>8 DEF HistoricalSum
  <2>10. T = PointsBetween(c, now - days * 24 * Hour, now)
    BY <2>3, DayWindowIsARange
  <2> QED
    BY <2>9, <2>10
<1> QED
  BY <1>1, TablesInvariant, PTL

-----------------------------------------------------------------------------
(* Totals of settled rates. *)

LEMMA RatesAreInts ==
  ASSUME NEW c \in Ids, NEW t \in Int
  PROVE  RateAt(c, t) \in Int
<1>1. PICK n \in Nat \ {0} : n = Len(Rates[c])
  BY Parameters
<1>2. PICK m \in Nat \ {0} : m = Every[c] * Hour
  BY StepFacts DEF Step
<1>3. PICK d \in Int : d = t \div m
  BY DivisionBounds
<1>4. d % n \in 0..(n - 1)
  OBVIOUS
<1>5. PICK i \in 0..(n - 1) : i = d % n
  BY <1>4
<1>6. 1 + i \in 1..n
  OBVIOUS
<1>7. Rates[c] \in Seq(Int)
  BY Parameters
<1>8. RateAt(c, t) = Rates[c][1 + i]
  BY <1>1, <1>2, <1>3, <1>5 DEF RateAt
<1> QED
  BY <1>1, <1>6, <1>7, <1>8

\* Both normalizations multiply.
LEMMA Factor ==
  ASSUME NEW n \in {Raw, 24}, NEW i \in Intervals
  PROVE  \E M \in Int : \A x \in Int : Normalized(x, n, i) = M * x
<1>1. PICK p \in Int : p = Precision
  BY Parameters
<1>2. CASE n = Raw
  <2>1. \A x \in Int : Normalized(x, n, i) = p * x
    BY <1>1, <1>2 DEF Normalized
  <2> QED
    BY <2>1
<1>3. CASE n = 24
  <2>1. \A x \in Int : Normalized(x, n, i) = (x * p * 24) \div i
    BY <1>1, <1>3 DEF Normalized, Raw
  <2>2. ASSUME NEW x \in Int, NEW z \in Int, z = p * x
        PROVE  x * p * 24 = 24 * z /\ (24 * p) * x = 24 * z /\ (6 * p) * x = 6 * z
               /\ (3 * p) * x = 3 * z
    BY <2>2
  <2>3. \A z \in Int : (24 * z) \div 1 = 24 * z /\ (24 * z) \div 4 = 6 * z /\ (24 * z) \div 8 = 3 * z
    OBVIOUS
  <2>4. \A x \in Int : p * x \in Int
    OBVIOUS
  <2>5. i = 1 \/ i = 4 \/ i = 8
    BY DEF Intervals
  <2>6. CASE i = 1
    <3>1. PICK M \in Int : M = 24 * p
      OBVIOUS
    <3>2. \A x \in Int : Normalized(x, n, i) = M * x
      BY <2>1, <2>2, <2>3, <2>4, <2>6, <3>1
    <3> QED
      BY <3>2, Zenon
  <2>7. CASE i = 4
    <3>1. PICK M \in Int : M = 6 * p
      OBVIOUS
    <3>2. \A x \in Int : Normalized(x, n, i) = M * x
      BY <2>1, <2>2, <2>3, <2>4, <2>7, <3>1
    <3> QED
      BY <3>2, Zenon
  <2>8. CASE i = 8
    <3>1. PICK M \in Int : M = 3 * p
      OBVIOUS
    <3>2. \A x \in Int : Normalized(x, n, i) = M * x
      BY <2>1, <2>2, <2>3, <2>4, <2>8, <3>1
    <3> QED
      BY <3>2, Zenon
  <2> QED
    BY <2>5, <2>6, <2>7, <2>8
<1> QED
  BY <1>2, <1>3

\* The total of normalized points is the normalized total.
LEMMA TotalsNormalize ==
  ASSUME NEW c \in Ids, contract[c].interval \in Intervals, NEW T \in SUBSET Int, IsFiniteSet(T),
         NEW n \in {Raw, 24}
  PROVE  /\ Total(c, T) \in Int
         /\ PointsTotal(c, T, n) = Normalized(Total(c, T), n, contract[c].interval)
<1>1. PICK i \in Intervals : i = contract[c].interval
  OBVIOUS
<1>2. PICK M \in Int : \A x \in Int : Normalized(x, n, i) = M * x
  BY Factor
<1>3. PICK f : f = [t \in T |-> RateAt(c, t)]
  OBVIOUS
<1>4. PICK g : g = [t \in T |-> HistoricalPoint(c, t, n)]
  OBVIOUS
<1>5. f \in [T -> Int]
  BY <1>3, RatesAreInts
<1>6. \A t \in T : g[t] = M * f[t] /\ M * f[t] \in Int
  BY <1>1, <1>2, <1>3, <1>4, RatesAreInts DEF HistoricalPoint
<1>7. g \in [T -> Int]
  BY <1>4, <1>6
<1>8. SumFunction(f) \in Int /\ SumFunction(g) = M * SumFunction(f)
  <2>1. Scaled(g, f, T, M)
    BY <1>6 DEF Scaled
  <2> QED
    BY <1>5, <1>7, <2>1, SumsScale
<1>9. Total(c, T) = SumFunction(f) /\ PointsTotal(c, T, n) = SumFunction(g)
  BY <1>3, <1>4 DEF Total, PointsTotal
<1> QED
  BY <1>1, <1>2, <1>8, <1>9

LEMMA PointsAreFinite ==
  ASSUME TableInv, NEW c \in Ids, NEW a, NEW b
  PROVE  PointsBetween(c, a, b) \in SUBSET Int /\ IsFiniteSet(PointsBetween(c, a, b))
<1>1. PointsBetween(c, a, b) \in SUBSET Settled(c)
  BY DEF PointsBetween
<1>2. IsFiniteSet(Settled(c)) /\ Settled(c) \subseteq Int
  BY SettledFacts
<1> QED
  BY <1>1, <1>2, FS_Subset

\* The newest settlement is among those of the last thirty days.
LEMMA LatestIsThePoint ==
  ASSUME TableInv, NEW c \in Ids, NEW n, SameInterval(c, n)
  PROVE  HistoricalLatest(c, n) = {HistoricalPoint(c, newest[c], n)}
<1>1. newest[c] \in Settled(c)
  <2>1. PICK k \in Nat : newest[c] = Step(c) * k
    BY DEF TableInv
  <2>2. newest[c] = k * Step(c) /\ newest[c] \in Nat /\ Listed[c] <= newest[c] /\ k \in Int
    BY <2>1, StepFacts DEF TableInv
  <2> QED
    BY <2>2, SettledFacts
<1>2. newest[c] <= now /\ now - 30 * 24 * Hour <= newest[c]
  <2>1. now \in Nat /\ newest[c] \in 0..now /\ newest[c] >= LatestSettlement(c, now) - Step(c)
    BY Parameters DEF TableInv
  <2>2. LatestSettlement(c, now) \in Int /\ now < LatestSettlement(c, now) + Step(c)
    BY <2>1, BucketStarts
  <2>3. Step(c) \in Nat /\ Step(c) <= 8 * Hour /\ Hour \in Nat
    BY StepFacts, Parameters
  <2> QED
    BY <2>1, <2>2, <2>3
<1>3. newest[c] \in PointsBetween(c, now - 30 * 24 * Hour, now)
  BY <1>1, <1>2 DEF PointsBetween
<1> QED
  BY <1>3 DEF HistoricalLatest, HistoricalPoint, SameInterval, Normalized

LEMMA MeansAgree ==
  ASSUME TableInv, NEW c \in Ids, NEW T \in SUBSET Int, IsFiniteSet(T), NEW n \in {Raw, 24}
  PROVE  Mean(Total(c, T), Cardinality(T), n, contract[c].interval)
           = PointsTotal(c, T, n) \div Cardinality(T)
<1>1. contract[c].interval \in Intervals
  BY DEF TableInv, ContractRows
<1> QED
  BY <1>1, TotalsNormalize DEF Mean

\* The view's interval counts only where a rate is normalized.
LEMMA SameMean ==
  ASSUME NEW c, NEW n, SameInterval(c, n), NEW s, NEW k
  PROVE  Mean(s, k, n, enriched[c].interval) = Mean(s, k, n, contract[c].interval)
BY DEF SameInterval, Mean, Normalized

LEMMA AveragesAgree ==
  ASSUME TableInv, NEW c \in Ids, NEW n \in {Raw, 24}, SameInterval(c, n), NEW days \in Days
  PROVE  HistoricalAvg(c, days, n) = MeanOf(c, PointsBetween(c, now - days * 24 * Hour, now), n)
<1>1. PICK T : T = DayWindow(c, days) /\ T = PointsBetween(c, now - days * 24 * Hour, now)
  BY DayWindowIsARange
<1>2. T \in SUBSET Int /\ IsFiniteSet(T)
  BY <1>1, PointsAreFinite
<1>3. HistoricalAvg(c, days, n)
        = IF T = {} THEN {} ELSE {Mean(Total(c, T), Cardinality(T), n, contract[c].interval)}
  BY <1>1, SameMean DEF HistoricalAvg
<1> QED
  BY <1>1, <1>2, <1>3, MeansAgree DEF MeanOf

\* The normalized total of contracts with one interval.
LEMMA GroupsNormalize ==
  ASSUME TableInv, NEW n \in {Raw, 24}, NEW C \in SUBSET Ids, NEW T,
         \A d \in C : T[d] \in SUBSET Int /\ IsFiniteSet(T[d]),
         NEW h \in Intervals, \A d \in C : contract[d].interval = h
  PROVE  Normalized(SumFunction([d \in C |-> Total(d, T[d])]), n, h)
           = SumFunction([d \in C |-> PointsTotal(d, T[d], n)])
<1>1. PICK M \in Int : \A x \in Int : Normalized(x, n, h) = M * x
  BY Factor
<1>2. PICK f : f = [d \in C |-> Total(d, T[d])]
  OBVIOUS
<1>3. PICK g : g = [d \in C |-> PointsTotal(d, T[d], n)]
  OBVIOUS
<1>4. ASSUME NEW d \in C
      PROVE  Total(d, T[d]) \in Int /\ PointsTotal(d, T[d], n) = Normalized(Total(d, T[d]), n, h)
  <2>1. PICK S \in SUBSET Int : S = T[d] /\ IsFiniteSet(S)
    OBVIOUS
  <2>2. d \in Ids /\ contract[d].interval = h /\ contract[d].interval \in Intervals
    OBVIOUS
  <2> QED
    BY <2>1, <2>2, TotalsNormalize
<1>5. f \in [C -> Int]
  BY <1>2, <1>4
<1>6. \A d \in C : g[d] = M * f[d] /\ M * f[d] \in Int
  BY <1>1, <1>2, <1>3, <1>4
<1>7. g \in [C -> Int]
  BY <1>3, <1>6
<1>8. IsFiniteSet(C)
  BY Parameters, FS_Subset
<1>9. SumFunction(f) \in Int /\ SumFunction(g) = M * SumFunction(f)
  <2>1. Scaled(g, f, C, M)
    BY <1>6 DEF Scaled
  <2> QED
    BY <1>5, <1>7, <1>8, <2>1, SumsScale
<1> QED
  BY <1>1, <1>2, <1>3, <1>9

\* The walls of a cell.
LEMMA WallsAgree ==
  ASSUME TableInv, NEW c \in Ids, NEW n \in {Raw, 24}, NEW a, NEW b
  PROVE  WallOfPoints(c, a, b, n)
<1> DEFINE C == {d \in WallContracts(Asset[c], Section[c]) : PointsBetween(d, a, b) # {}}
           group(h) == {d \in C : contract[d].interval = h}
           sum(h) == SumFunction([d \in group(h) |-> Total(d, PointsBetween(d, a, b))])
           count(h) == SumFunction([d \in group(h) |-> Cardinality(PointsBetween(d, a, b))])
           total(D, m) == SumFunction([d \in D |-> PointsTotal(d, PointsBetween(d, a, b), m)])
<1> DEFINE T == [d \in Ids |-> PointsBetween(d, a, b)]
<1>2. \A d \in Ids : T[d] = PointsBetween(d, a, b) /\ T[d] \in SUBSET Int /\ IsFiniteSet(T[d])
  BY PointsAreFinite
<1> HIDE DEF T
<1>3. C \subseteq Ids /\ WallContracts(Asset[c], Section[c]) \subseteq Ids
  BY DEF WallContracts
<1>4. WallAverage(Asset[c], Section[c], a, b, n)
        = {Mean(sum(h), count(h), n, h) : h \in {contract[d].interval : d \in C}}
  BY DEF WallAverage
<1>5. WallSum(Asset[c], Section[c], a, b)
        = IF C = {} THEN {} ELSE {SumFunction([d \in C |-> Precision * Total(d, PointsBetween(d, a, b))])}
  BY DEF WallSum
<1>6. \A d \in Ids : contract[d].interval \in Intervals
  BY DEF TableInv, ContractRows
<1>7. ASSUME NEW h \in {contract[d].interval : d \in C}
      PROVE  Mean(sum(h), count(h), n, h) = total(group(h), n) \div count(h)
  <2>1. PICK G \in SUBSET Ids : G = group(h)
    BY <1>3
  <2>2. h \in Intervals /\ \A d \in G : contract[d].interval = h
    BY <1>3, <1>6, <2>1
  <2>3. \A d \in G : T[d] \in SUBSET Int /\ IsFiniteSet(T[d])
    BY <1>2
  <2>4. Normalized(SumFunction([d \in G |-> Total(d, T[d])]), n, h)
          = SumFunction([d \in G |-> PointsTotal(d, T[d], n)])
    BY <2>2, <2>3, GroupsNormalize
  <2>5. [d \in G |-> Total(d, T[d])] = [d \in G |-> Total(d, PointsBetween(d, a, b))]
    BY <1>2
  <2>6. [d \in G |-> PointsTotal(d, T[d], n)] = [d \in G |-> PointsTotal(d, PointsBetween(d, a, b), n)]
    BY <1>2
  <2>7. Normalized(sum(h), n, h) = total(group(h), n)
    <3> HIDE DEF C
    <3> QED
      BY <2>1, <2>4, <2>5, <2>6
  <2> HIDE DEF sum, count, total, group
  <2> QED
    BY <2>7 DEF Mean
<1>8. SumFunction([d \in C |-> Precision * Total(d, PointsBetween(d, a, b))]) = total(C, Raw)
  <2>1. ASSUME NEW d \in C
        PROVE  Precision * Total(d, PointsBetween(d, a, b)) = PointsTotal(d, PointsBetween(d, a, b), Raw)
    <3>1. PICK S \in SUBSET Int : S = PointsBetween(d, a, b) /\ IsFiniteSet(S)
      BY <1>2, <1>3
    <3>2. d \in Ids /\ contract[d].interval \in Intervals /\ Raw \in {Raw, 24}
      BY <1>3, <1>6
    <3>3. Total(d, S) \in Int /\ PointsTotal(d, S, Raw) = Normalized(Total(d, S), Raw, contract[d].interval)
      BY <3>1, <3>2, TotalsNormalize
    <3> QED
      BY <3>1, <3>3, Parameters DEF Normalized
  <2>2. [d \in C |-> Precision * Total(d, PointsBetween(d, a, b))]
          = [d \in C |-> PointsTotal(d, PointsBetween(d, a, b), Raw)]
    BY <2>1
  <2> HIDE DEF C
  <2> QED
    BY <2>2
<1> DEFINE cell == {d \in WallContracts(Asset[c], Section[c]) : T[d] # {}}
           of(h) == {d \in cell : contract[d].interval = h}
           sumOf(D, m) == SumFunction([d \in D |-> PointsTotal(d, T[d], m)])
           points(D) == SumFunction([d \in D |-> Cardinality(T[d])])
<1>9. cell = C
  BY <1>2, <1>3
<1>10. \A D \in SUBSET Ids : \A m : sumOf(D, m) = total(D, m)
  <2> TAKE D \in SUBSET Ids
  <2> TAKE m
  <2>1. [d \in D |-> PointsTotal(d, T[d], m)] = [d \in D |-> PointsTotal(d, PointsBetween(d, a, b), m)]
    BY <1>2
  <2> QED
    BY <2>1
<1>11. \A h : points(group(h)) = count(h)
  <2> TAKE h
  <2>1. [d \in group(h) |-> Cardinality(T[d])] = [d \in group(h) |-> Cardinality(PointsBetween(d, a, b))]
    BY <1>2, <1>3
  <2> HIDE DEF group
  <2> QED
    BY <2>1
<1>12. \A h : of(h) = group(h) /\ group(h) \in SUBSET Ids
  BY <1>3, <1>9
<1>13. WallSum(Asset[c], Section[c], a, b) = IF cell = {} THEN {} ELSE {sumOf(cell, Raw)}
  <2> HIDE DEF C, cell, sumOf, total
  <2> QED
    BY <1>3, <1>5, <1>8, <1>9, <1>10
<1>14. WallAverage(Asset[c], Section[c], a, b, n)
         = {sumOf(of(h), n) \div points(of(h)) : h \in {contract[d].interval : d \in cell}}
  <2> HIDE DEF C, cell, sumOf, total, of, group, points, count, sum
  <2>1. PICK H : H = {contract[d].interval : d \in C}
    OBVIOUS
  <2>2. \A h \in H : Mean(sum(h), count(h), n, h) = sumOf(of(h), n) \div points(of(h))
    BY <1>7, <1>10, <1>11, <1>12, <2>1
  <2>3. {Mean(sum(h), count(h), n, h) : h \in H} = {sumOf(of(h), n) \div points(of(h)) : h \in H}
    BY ONLY <2>2, Zenon
  <2>4. WallAverage(Asset[c], Section[c], a, b, n) = {Mean(sum(h), count(h), n, h) : h \in H}
    BY <1>4, <2>1, Zenon
  <2>5. H = {contract[d].interval : d \in cell}
    BY <1>9, <2>1
  <2> QED
    BY ONLY <2>3, <2>4, <2>5, Zenon
<1> QED
  BY ONLY <1>13, <1>14, Zenon DEF WallOfPoints, T

\* The comparison of averages.
LEMMA ComparisonsAgree ==
  ASSUME TableInv, NEW n \in {Raw, 24}, NEW a, NEW b,
         NEW r \in AverageDifferences([request EXCEPT !.norm = n], a, b), SameInterval(r.pair[1], n)
  PROVE  ComparisonOfPoints(r, a, b, n)
<1>1. PICK q : q = [request EXCEPT !.norm = n]
  OBVIOUS
<1>2. q.norm = n
  <2>1. request \in [assets : SUBSET STRING, sections : SUBSET STRING, compare : STRING,
                     norm : Nat, min : Int]
    BY QueryAssumption DEF QueryAssumption, TableInv
  <2> QED
    BY <1>1, <2>1
<1> DEFINE avg(d) == LET T == PointsBetween(d, a, b)
                     IN  IF T = {} THEN 0
                         ELSE Mean(Total(d, T), Cardinality(T), q.norm, enriched[d].interval)
<1>3. PICK p \in ContractPairs(q) :
        r = [pair |-> p, first |-> avg(p[1]), second |-> avg(p[2]), diff |-> avg(p[1]) - avg(p[2])]
  BY <1>1 DEF AverageDifferences
<1>4. r.pair = p /\ r.first = avg(p[1])
  <2> HIDE DEF avg
  <2> QED
    BY <1>3
<1>5. PICK c \in Ids : c = p[1]
  BY <1>3 DEF ContractPairs, FilteredContracts
<1>6. PICK T : T = PointsBetween(c, a, b)
  OBVIOUS
<1>7. T \in SUBSET Int /\ IsFiniteSet(T)
  BY <1>6, PointsAreFinite
<1>8. r.first = IF T = {} THEN 0 ELSE Mean(Total(c, T), Cardinality(T), n, enriched[c].interval)
  BY <1>2, <1>4, <1>5, <1>6
<1>9. r.first = IF T = {} THEN 0 ELSE Mean(Total(c, T), Cardinality(T), n, contract[c].interval)
  BY <1>4, <1>5, <1>8, SameMean
<1> QED
  BY <1>4, <1>5, <1>6, <1>7, <1>9, MeansAgree DEF MeanOf, ComparisonOfPoints

\* The historical endpoints agree with the points: the walls always, and the
\* others raw always, normalized for the contracts whose interval the view has.
THEOREM HistoricalRatesAgree == QuerySpec => []EndpointsAgree
<1>1. TableInv => AveragesOfPoints
  BY LatestIsThePoint, AveragesAgree DEF AveragesOfPoints
<1>2. TableInv => ComparisonsOfPoints
  <2> SUFFICES ASSUME TableInv, NEW n \in {Raw, 24}, NEW x \in Ranges,
                      NEW r \in AverageDifferences([request EXCEPT !.norm = n], x[1], x[2])
               PROVE  ComparisonOfPoints(r, x[1], x[2], n)
    BY Zenon DEF ComparisonsOfPoints
  <2>1. CASE SameInterval(r.pair[1], n)
    BY <2>1, ComparisonsAgree
  <2>2. CASE ~SameInterval(r.pair[1], n)
    BY <2>2 DEF ComparisonOfPoints
  <2> QED
    BY <2>1, <2>2
<1>3. TableInv => WallsOfPoints
  BY WallsAgree, Zenon DEF WallsOfPoints
<1>4. TableInv => EndpointsAgree
  BY <1>1, <1>2, <1>3 DEF EndpointsAgree
<1> QED
  BY <1>4, TablesInvariant, PTL

-----------------------------------------------------------------------------
(* Cumulative comparisons. *)

\* A window starts on the hour, and no later for a range that starts no later.
LEMMA WindowsStart ==
  ASSUME NEW h \in Intervals, NEW a \in Int
  PROVE  /\ Bucket(h, a) \in Int /\ \E k \in Int : Bucket(h, a) = k * Hour
         /\ \A b \in Int : a <= b => Bucket(h, a) <= Bucket(h, b)
<1>1. PICK m \in Nat \ {0} : m = h * Hour
  BY Parameters DEF Intervals
<1>2. \A t \in Int : /\ t \div m \in Int /\ Bucket(h, t) = (t \div m) * m
                     /\ Bucket(h, t) \in Int /\ Bucket(h, t) <= t /\ t < Bucket(h, t) + m
  <2> TAKE t \in Int
  <2>1. /\ t \div m \in Int /\ (t \div m) * m <= t /\ t < (t \div m) * m + m
        /\ t % m = t - (t \div m) * m
    BY DivisionBounds
  <2>2. PICK d \in Int, p \in Int : d = t \div m /\ p = d * m
    BY <2>1
  <2>3. Bucket(h, t) = t - (t % m)
    BY <1>1 DEF Bucket
  <2>4. Bucket(h, t) = p
    BY <2>1, <2>2, <2>3
  <2> QED
    BY <2>1, <2>2, <2>4
<1>3. \E k \in Int : Bucket(h, a) = k * Hour
  <2>1. PICK d \in Int : d = a \div m
    BY <1>2
  <2>2. d * m = (d * h) * Hour /\ d * h \in Int
    BY <1>1, Parameters DEF Intervals
  <2>3. Bucket(h, a) = d * m
    BY <1>2, <2>1
  <2> QED
    BY <2>2, <2>3
<1>4. ASSUME NEW b \in Int, a <= b
      PROVE  Bucket(h, a) <= Bucket(h, b)
  <2>1. PICK d \in Int, e \in Int : d = a \div m /\ e = b \div m
    BY <1>2
  <2>2. /\ Bucket(h, a) = d * m /\ Bucket(h, a) <= a /\ Bucket(h, a) \in Int
        /\ Bucket(h, b) = e * m /\ b < Bucket(h, b) + m /\ Bucket(h, b) \in Int
    BY <1>2, <2>1
  <2>3. e < d => e * m + m <= d * m
    BY MultiplesAreOrdered
  <2>4. d < e => d * m + m <= e * m
    BY MultiplesAreOrdered
  <2>5. d = e => d * m = e * m
    OBVIOUS
  <2>6. PICK x \in Int, y \in Int : x = d * m /\ y = e * m
    OBVIOUS
  <2> QED
    BY <1>4, <2>2, <2>3, <2>4, <2>5, <2>6
<1> QED
  BY <1>2, <1>3, <1>4

\* The buffer is shorter than an hour, as the 30 minutes of the endpoints' default are.
NarrowBuffer == Buffer \in 0..(Hour - 1)

\* Such a buffer before a window holds no settlement.
LEMMA BufferIsEmpty ==
  ASSUME NarrowBuffer, TableInv, NEW c \in Ids, NEW k \in Int, NEW a \in Int, a = k * Hour, NEW b \in Int
  PROVE  {t \in Settled(c) : a - Buffer <= t /\ t < b} = PointsBetween(c, a, b - 1)
<1>1. PICK h \in Nat \ {0} : h = Hour
  BY Parameters
<1>2. Buffer \in Int /\ Buffer < h
  BY <1>1 DEF NarrowBuffer
<1>3. ASSUME NEW t \in Settled(c), a - Buffer <= t
      PROVE  a <= t
  <2>1. PICK i \in Int : t = i * Step(c) /\ t \in Int
    BY SettledFacts
  <2>2. Every[c] \in Int
    BY Parameters DEF Intervals
  <2>3. PICK e \in Int : e = i * Every[c]
    BY <2>2
  <2>4. t = e * h
    BY <1>1, <2>1, <2>2, <2>3 DEF Step
  <2>5. e < k => e * h + h <= k * h
    BY MultiplesAreOrdered
  <2>6. k < e => k * h + h <= e * h
    BY MultiplesAreOrdered
  <2>7. e = k => e * h = k * h
    OBVIOUS
  <2>8. a = k * h
    BY <1>1
  <2> QED
    BY <1>1, <1>2, <1>3, <2>1, <2>4, <2>5, <2>6, <2>7, <2>8
<1>4. \A t \in Settled(c) : t \in Int
  BY SettledFacts
<1>5. ASSUME NEW t \in Settled(c)
      PROVE  (a - Buffer <= t /\ t < b) <=> (a <= t /\ t <= b - 1)
  BY <1>1, <1>2, <1>3, <1>4 DEF NarrowBuffer
<1> QED
  BY <1>5, Zenon DEF PointsBetween

\* The window of a pair.
WindowOf(p, a, b) == [hours |-> PairHours(p), from |-> Bucket(PairHours(p), a), to |-> Bucket(PairHours(p), b)]

LEMMA PairsOfContracts ==
  ASSUME TableInv, NEW q, NEW p \in ContractPairs(q)
  PROVE  p[1] \in Ids /\ p[2] \in Ids /\ PairHours(p) \in Intervals
<1>1. p[1] \in Ids /\ p[2] \in Ids
  BY DEF ContractPairs, FilteredContracts
<1> QED
  BY <1>1 DEF PairHours, TableInv, ContractRows

LEMMA OneWindow ==
  ASSUME NEW P, NEW p \in P, NEW a, NEW b
  PROVE  /\ WindowOf(p, a, b) \in DistinctWindows(P, a, b)
         /\ (CHOOSE w \in DistinctWindows(P, a, b) : w.hours = PairHours(p)) = WindowOf(p, a, b)
<1>1. PICK W : W = DistinctWindows(P, a, b)
  OBVIOUS
<1>2. WindowOf(p, a, b) \in W
  BY <1>1 DEF DistinctWindows, WindowOf
<1>3. \A w \in W : \E r \in P : w = WindowOf(r, a, b)
  BY <1>1 DEF DistinctWindows, WindowOf
<1>4. WindowOf(p, a, b).hours = PairHours(p)
  BY DEF WindowOf
<1>5. ASSUME NEW w \in W, w.hours = PairHours(p)
      PROVE  w = WindowOf(p, a, b)
  <2>1. PICK r \in P : w = WindowOf(r, a, b)
    BY <1>3
  <2>2. w.hours = PairHours(r)
    BY <2>1 DEF WindowOf
  <2> QED
    BY <1>5, <2>1, <2>2 DEF WindowOf
<1>6. PICK v : v = CHOOSE w \in W : w.hours = PairHours(p)
  OBVIOUS
<1>7. v \in W /\ v.hours = PairHours(p)
  BY <1>2, <1>4, <1>6
<1> QED
  BY <1>1, <1>2, <1>5, <1>6, <1>7

\* What a window holds of a contract.
Held(c, w) == Total(c, PointsBetween(c, w.from, w.to - 1))

LEMMA FundingIsHeld ==
  ASSUME NarrowBuffer, TableInv, NEW P, NEW a \in Int, NEW b \in Int, NEW p \in P, PairHours(p) \in Intervals,
         LET W == DistinctWindows(P, a, b) IN \A w \in W : Shared(W, w) = {w},
         NEW c \in Ids
  PROVE  FundingInWindow(c, DistinctWindows(P, a, b), WindowOf(p, a, b)) = Held(c, WindowOf(p, a, b))
<1>1. PICK W, w : W = DistinctWindows(P, a, b) /\ w = WindowOf(p, a, b)
  OBVIOUS
<1>2. Shared(W, w) = {w}
  BY <1>1, OneWindow
<1>3. Cardinality(Shared(W, w)) = 1
  BY <1>2, FS_Singleton
<1>4. w.from = Bucket(PairHours(p), a) /\ w.to = Bucket(PairHours(p), b)
  BY <1>1 DEF WindowOf
<1>5. PICK k \in Int : w.from = k * Hour /\ w.from \in Int /\ w.to \in Int
  BY <1>4, WindowsStart
<1>6. {t \in Settled(c) : w.from - Buffer <= t /\ t < w.to} = PointsBetween(c, w.from, w.to - 1)
  <2>1. PICK x \in Int, y \in Int : x = w.from /\ y = w.to /\ x = k * Hour
    BY <1>5
  <2>2. {t \in Settled(c) : x - Buffer <= t /\ t < y} = PointsBetween(c, x, y - 1)
    BY ONLY NarrowBuffer, TableInv, c \in Ids, k \in Int, x \in Int, y \in Int, <2>1, BufferIsEmpty
  <2> QED
    BY ONLY <2>1, <2>2
<1>7. FundingInWindow(c, W, w) = 1 * Held(c, w)
  BY <1>3, <1>6 DEF FundingInWindow, InWindow, Held
<1>8. Held(c, w) \in Int
  <2>1. PICK T : T = PointsBetween(c, w.from, w.to - 1)
    OBVIOUS
  <2>2. T \in SUBSET Int /\ IsFiniteSet(T)
    BY <2>1, PointsAreFinite
  <2>3. contract[c].interval \in Intervals /\ Raw \in {Raw, 24}
    BY DEF TableInv, ContractRows
  <2> QED
    BY <2>1, <2>2, <2>3, TotalsNormalize DEF Held
<1> QED
  BY <1>1, <1>7, <1>8

RowOfPair(p, a, b) ==
  LET w == WindowOf(p, a, b)
  IN  [pair |-> p, window |-> w, first |-> Held(p[1], w), second |-> Held(p[2], w),
       diff |-> Held(p[1], w) - Held(p[2], w)]

LEMMA RowsOfRange ==
  ASSUME NarrowBuffer, TableInv, NEW q, NEW a \in Int, NEW b \in Int, NoneShared(q, a, b), q.min = -1
  PROVE  CumulativeDifferences(q, a, b) = {RowOfPair(p, a, b) : p \in ContractPairs(q)}
<1>1. PICK P, W : P = ContractPairs(q) /\ W = DistinctWindows(P, a, b)
  OBVIOUS
<1> DEFINE window(p) == CHOOSE w \in W : w.hours = PairHours(p)
           first(p) == FundingInWindow(p[1], W, window(p))
           second(p) == FundingInWindow(p[2], W, window(p))
           row(p) == [pair |-> p, window |-> window(p), first |-> first(p), second |-> second(p),
                      diff |-> first(p) - second(p)]
<1>2. CumulativeDifferences(q, a, b) = {r \in {row(p) : p \in P} : MinDiff(q, r.diff)}
  BY <1>1, Zenon DEF CumulativeDifferences
<1>3. \A d : MinDiff(q, d)
  BY DEF MinDiff
<1>4. ASSUME NEW p \in P
      PROVE  row(p) = RowOfPair(p, a, b)
  <2>1. window(p) = WindowOf(p, a, b)
    BY <1>1, OneWindow
  <2>2. p[1] \in Ids /\ p[2] \in Ids /\ PairHours(p) \in Intervals
    BY <1>1, PairsOfContracts
  <2>3. \A w \in W : Shared(W, w) = {w}
    BY <1>1 DEF NoneShared
  <2>4. /\ FundingInWindow(p[1], W, WindowOf(p, a, b)) = Held(p[1], WindowOf(p, a, b))
        /\ FundingInWindow(p[2], W, WindowOf(p, a, b)) = Held(p[2], WindowOf(p, a, b))
    BY <1>1, <2>2, <2>3, FundingIsHeld
  <2>5. first(p) = Held(p[1], WindowOf(p, a, b)) /\ second(p) = Held(p[2], WindowOf(p, a, b))
    BY <2>1, <2>4
  <2> HIDE DEF first, second, window
  <2> QED
    BY <2>1, <2>5 DEF RowOfPair
<1> HIDE DEF row
<1>5. {r \in {row(p) : p \in P} : MinDiff(q, r.diff)} = {RowOfPair(p, a, b) : p \in P}
  BY <1>3, <1>4
<1> QED
  BY <1>1, <1>2, <1>5

\* Two windows that meet hold what the window of both holds.
LEMMA WindowsMeet ==
  ASSUME TableInv, NEW c \in Ids, NEW a \in Int, NEW b \in Int, NEW d \in Int, a <= b, b <= d
  PROVE  Total(c, PointsBetween(c, a, d - 1))
           = Total(c, PointsBetween(c, a, b - 1)) + Total(c, PointsBetween(c, b, d - 1))
<1>1. PICK T, A, D : /\ T = PointsBetween(c, a, d - 1) /\ A = PointsBetween(c, a, b - 1)
                     /\ D = PointsBetween(c, b, d - 1)
  OBVIOUS
<1>2. \A t \in Settled(c) : t \in Int
  BY SettledFacts
<1>3. A \in SUBSET T /\ D \in SUBSET T /\ A \cap D = {} /\ A \cup D = T
  <2>1. \A t : t \in A <=> t \in Settled(c) /\ a <= t /\ t <= b - 1
    BY <1>1 DEF PointsBetween
  <2>2. \A t : t \in D <=> t \in Settled(c) /\ b <= t /\ t <= d - 1
    BY <1>1 DEF PointsBetween
  <2>3. \A t : t \in T <=> t \in Settled(c) /\ a <= t /\ t <= d - 1
    BY <1>1 DEF PointsBetween
  <2>4. ASSUME NEW t \in Settled(c)
        PROVE  /\ a <= t /\ t <= b - 1 => t <= d - 1
               /\ b <= t => a <= t /\ ~(t <= b - 1)
               /\ ~(t <= b - 1) => b <= t
    BY <1>2
  <2> QED
    BY <2>1, <2>2, <2>3, <2>4
<1>4. T \in SUBSET Int /\ IsFiniteSet(T)
  BY <1>1, PointsAreFinite
<1>5. PICK f, g, h : /\ f = [t \in T |-> RateAt(c, t)] /\ g = [t \in A |-> RateAt(c, t)]
                     /\ h = [t \in D |-> RateAt(c, t)]
  OBVIOUS
<1>6. f \in [T -> Int] /\ g \in [A -> Int] /\ h \in [D -> Int]
  BY <1>3, <1>4, <1>5, RatesAreInts
<1>7. Agree(g, f, A) /\ Agree(h, f, D)
  BY <1>3, <1>5 DEF Agree
<1>8. SumFunction(f) = SumFunction(g) + SumFunction(h)
  <2>1. Split(T, A, D)
    BY <1>3 DEF Split
  <2>2. IsFiniteSet(T)
    BY <1>4
  <2> QED
    BY ONLY <1>6, <1>7, <2>1, <2>2, SumsJoin
<1> QED
  BY <1>1, <1>5, <1>8 DEF Total

\* With a buffer shorter than an hour the comparisons of two ranges that meet add
\* up, and each counts once.
THEOREM RangesAddUp == ASSUME NarrowBuffer PROVE QuerySpec => []WindowsAddUp
<1>1. TableInv => WindowsAddUp
  <2>1. PICK q : q = [request EXCEPT !.min = -1]
    OBVIOUS
  <2> SUFFICES ASSUME TableInv, NEW x \in Ranges, NEW y \in Ranges, x[2] = y[1],
                      NoneShared(q, x[1], x[2]), NoneShared(q, y[1], y[2]), NoneShared(q, x[1], y[2])
               PROVE  /\ CountsOnce(q, x)
                      /\ \A r \in CumulativeDifferences(q, x[1], x[2]),
                            s \in CumulativeDifferences(q, y[1], y[2]) :
                           r.pair = s.pair =>
                             \E t \in CumulativeDifferences(q, x[1], y[2]) :
                               t.pair = r.pair /\ t.first = r.first + s.first
                                 /\ t.second = r.second + s.second
    BY <2>1, Zenon DEF WindowsAddUp
  <2>2. q.min = -1
    <3>1. request \in [assets : SUBSET STRING, sections : SUBSET STRING, compare : STRING,
                       norm : Nat, min : Int]
      BY QueryAssumption DEF QueryAssumption, TableInv
    <3> QED
      BY <2>1, <3>1
  <2>3. PICK a \in Int, b \in Int, d \in Int :
          a = x[1] /\ b = x[2] /\ b = y[1] /\ d = y[2] /\ a <= b /\ b <= d
    <3>1. now \in Nat /\ \A s \in Spans : s[1] \in Nat /\ s[2] \in Nat
      BY QueryAssumption, Parameters DEF QueryAssumption, TableInv
    <3>2. \A z \in Ranges : z[1] \in Int /\ z[2] \in Int /\ z[1] < z[2]
      BY <3>1 DEF Ranges, ValidRange
    <3>3. x[1] \in Int /\ x[2] \in Int /\ y[2] \in Int /\ x[1] <= x[2] /\ y[1] <= y[2]
      BY <3>2
    <3> QED
      BY <3>3
  <2>4. PICK P : P = ContractPairs(q)
    OBVIOUS
  <2>5. /\ CumulativeDifferences(q, a, b) = {RowOfPair(p, a, b) : p \in P}
        /\ CumulativeDifferences(q, b, d) = {RowOfPair(p, b, d) : p \in P}
        /\ CumulativeDifferences(q, a, d) = {RowOfPair(p, a, d) : p \in P}
    BY <2>2, <2>3, <2>4, RowsOfRange
  <2>6. CountsOnce(q, x)
    <3>1. ASSUME NEW r \in CumulativeDifferences(q, a, b)
          PROVE  r.first = Held(r.pair[1], r.window) /\ r.second = Held(r.pair[2], r.window)
      BY <2>5 DEF RowOfPair
    <3> QED
      BY <2>3, <3>1 DEF CountsOnce, Held
  <2>7. ASSUME NEW p \in P
        PROVE  /\ RowOfPair(p, a, d).first = RowOfPair(p, a, b).first + RowOfPair(p, b, d).first
               /\ RowOfPair(p, a, d).second = RowOfPair(p, a, b).second + RowOfPair(p, b, d).second
    <3>1. p[1] \in Ids /\ p[2] \in Ids /\ PairHours(p) \in Intervals
      BY <2>4, PairsOfContracts
    <3>2. PICK e \in Int, f \in Int, g \in Int :
            /\ e = Bucket(PairHours(p), a) /\ f = Bucket(PairHours(p), b) /\ g = Bucket(PairHours(p), d)
            /\ e <= f /\ f <= g
      <4>1. PICK i \in Intervals : i = PairHours(p)
        BY <3>1
      <4>2. Bucket(i, a) \in Int /\ Bucket(i, b) \in Int /\ Bucket(i, d) \in Int
        BY WindowsStart
      <4>3. Bucket(i, a) <= Bucket(i, b) /\ Bucket(i, b) <= Bucket(i, d)
        BY <2>3, WindowsStart
      <4> QED
        BY <4>1, <4>2, <4>3
    <3>3. /\ WindowOf(p, a, b).from = e /\ WindowOf(p, a, b).to = f
          /\ WindowOf(p, b, d).from = f /\ WindowOf(p, b, d).to = g
          /\ WindowOf(p, a, d).from = e /\ WindowOf(p, a, d).to = g
      BY <3>2 DEF WindowOf
    <3>4. \A c \in Ids : Held(c, WindowOf(p, a, d)) = Held(c, WindowOf(p, a, b)) + Held(c, WindowOf(p, b, d))
      BY <3>2, <3>3, WindowsMeet DEF Held
    <3> QED
      BY <3>1, <3>4 DEF RowOfPair
  <2>8. ASSUME NEW r \in CumulativeDifferences(q, a, b), NEW s \in CumulativeDifferences(q, b, d),
               r.pair = s.pair
        PROVE  \E t \in CumulativeDifferences(q, a, d) :
                 t.pair = r.pair /\ t.first = r.first + s.first /\ t.second = r.second + s.second
    <3>1. PICK p \in P : r = RowOfPair(p, a, b)
      BY <2>5
    <3>2. PICK o \in P : s = RowOfPair(o, b, d)
      BY <2>5
    <3>3. r.pair = p /\ s.pair = o /\ RowOfPair(p, a, d).pair = p
      BY <3>1, <3>2 DEF RowOfPair
    <3>4. RowOfPair(p, a, d) \in CumulativeDifferences(q, a, d)
      BY <2>5
    <3> QED
      BY <2>7, <2>8, <3>1, <3>2, <3>3, <3>4
  <2> QED
    BY <2>3, <2>6, <2>8
<1> QED
  BY <1>1, TablesInvariant, PTL
=============================================================================
