----------------------------- MODULE StorageTiers -----------------------------
(***************************************************************************)
(* How long the live samples of one contract stay readable.  The raw rows  *)
(* of live_funding_point are dropped by chunks (migration 008); before     *)
(* that, three continuous aggregates average them into buckets of 5        *)
(* minutes, 15 minutes and an hour (migration 004), each refreshed by a    *)
(* policy over a window of recent buckets; the view lfp_smart (migration   *)
(* 005) stitches the raw rows and the three tiers together by age, and the *)
(* endpoint live_points reads it.                                          *)
(*                                                                         *)
(* A tick is the time between two samples; every tick has one.             *)
(***************************************************************************)
EXTENDS Integers, FiniteSets

CONSTANTS
  Width,        \* the ticks of a bucket of tier 1, 2 and 3
  StartOffset,  \* how far back a tier's policy refreshes
  EndOffset,    \* how far from the present it stops
  Schedule,     \* the ticks between two of its runs
  Oldest,       \* the age up to which the view reads a tier
  RawAge,       \* the age up to which the view reads raw rows
  RawRetention, \* the age at which a raw chunk may be dropped
  Chunk,        \* the ticks of a chunk of live_funding_point
  TierHorizon   \* the last tick explored (a bound of the model)

Tiers == 1..3

ASSUME TierAssumption ==
  /\ Width \in [Tiers -> Nat \ {0}] /\ Schedule \in [Tiers -> Nat \ {0}]
  /\ StartOffset \in [Tiers -> Nat] /\ EndOffset \in [Tiers -> Nat] /\ Oldest \in [Tiers -> Nat]
  /\ Chunk \in Nat \ {0} /\ RawAge \in Nat /\ RawRetention \in Nat /\ TierHorizon \in Nat
  /\ RawAge < Oldest[1] /\ Oldest[1] < Oldest[2] /\ Oldest[2] < Oldest[3]

VARIABLES
  tick,      \* NOW(), in ticks; the sample of the tick before is stored
  rawFrom,   \* raw rows are stored from this tick on
  kept,      \* kept[j]: the buckets that tier j holds, by their first tick
  invalid,   \* invalid[j]: the buckets whose raw rows changed since tier j read them
  due        \* due[j]: when the policy of tier j runs next

tierVars == <<tick, rawFrom, kept, invalid, due>>

TimeBucket(j, t) == t - (t % Width[j])        \* time_bucket
Ticks(j, b) == b..(b + Width[j] - 1)      \* the samples a bucket averages

StoredTicks == rawFrom..(tick - 1)

-----------------------------------------------------------------------------
(* The jobs of the database. *)

(* A sample is stored; the policies keep to their schedules. *)
Sample ==
  /\ tick < TierHorizon
  /\ \A j \in Tiers : due[j] > tick
  /\ tick' = tick + 1
  /\ invalid' = [j \in Tiers |-> invalid[j] \cup {TimeBucket(j, tick)}]
  /\ UNCHANGED <<rawFrom, kept, due>>

(* The buckets wholly inside the refresh window that changed. *)
RefreshWindow(j) ==
  {b \in invalid[j] : tick - StartOffset[j] <= b /\ b + Width[j] <= tick - EndOffset[j]}

(* A bucket is computed again from the raw rows there are; one that has none
   left is removed. *)
Refresh(j) ==
  /\ due[j] <= tick
  /\ kept' = [kept EXCEPT ![j] = (@ \ RefreshWindow(j)) \cup
                {b \in RefreshWindow(j) : Ticks(j, b) \cap StoredTicks # {}}]
  /\ invalid' = [invalid EXCEPT ![j] = @ \ RefreshWindow(j)]
  /\ due' = [due EXCEPT ![j] = tick + Schedule[j]]
  /\ UNCHANGED <<tick, rawFrom>>

(* A chunk in use. *)
DroppableEarly(from) == from % Chunk = 0 /\ from <= tick - RawRetention

(* Retention drops whole chunks past their age. *)
Droppable(from) == from % Chunk = 0 /\ from + Chunk <= tick - RawRetention

(* The dropped rows count as changed ones. *)
DropChunk ==
  /\ Droppable(rawFrom)
  /\ rawFrom' = rawFrom + Chunk
  /\ invalid' = [j \in Tiers |->
       invalid[j] \cup {TimeBucket(j, t) : t \in rawFrom..(rawFrom + Chunk - 1)}]
  /\ UNCHANGED <<tick, kept, due>>

TierInit ==
  /\ tick = 0 /\ rawFrom = 0
  /\ kept = [j \in Tiers |-> {}] /\ invalid = [j \in Tiers |-> {}]
  /\ due = Schedule

TierNext == Sample \/ DropChunk \/ \E j \in Tiers : Refresh(j)

TierSpec == TierInit /\ [][TierNext]_tierVars

-----------------------------------------------------------------------------
(* lfp_smart. *)

(* The raw layer. *)
RawRows == {t \in StoredTicks : t >= tick - RawAge}

(* A tier is read between the age at which the finer one ends and its own. *)
Newest(j) == IF j = 1 THEN RawAge ELSE Oldest[j - 1]

(* The bucket at the border taken in. *)
LayerUpToBorder(j) == {b \in kept[j] : tick - Oldest[j] <= b /\ b <= tick - Newest(j)}

Layer(j) == {b \in kept[j] : tick - Oldest[j] <= b /\ b < tick - Newest(j)}

(* The answer of live_points, by tier and stamp: raw rows, as of tier 0, and
   buckets, stamped with their end. *)
LivePoints(from, to) ==
  {<<0, t>> : t \in RawRows \cap (from..to)} \cup
  UNION {{<<j, b + Width[j]>> : b \in {c \in Layer(j) : from <= c + Width[j] /\ c + Width[j] <= to}}
           : j \in Tiers}

(* The tiers of an answer that show the sample of tick t. *)
TiersOf(answer, t) ==
  {0 : p \in {<<0, t>>} \cap answer} \cup {j \in Tiers : <<j, TimeBucket(j, t) + Width[j]>> \in answer}

-----------------------------------------------------------------------------
(* Properties. *)

TierTypeOK ==
  /\ tick \in 0..TierHorizon /\ rawFrom \in 0..tick
  /\ kept \in [Tiers -> SUBSET (0..tick)] /\ invalid \in [Tiers -> SUBSET (0..tick)]
  /\ \A j \in Tiers : kept[j] \subseteq {TimeBucket(j, t) : t \in 0..tick}

(* A bucket that no later refresh reaches once its chunk is old enough to be
   dropped. *)
ChunkEnd(b) == b - (b % Chunk) + Chunk
Safe(j, b) == b + StartOffset[j] < ChunkEnd(b) + RawRetention

(* No sample is lost on its way from the raw rows through the tiers, unless a
   refresh comes back to its bucket when its raw rows are gone: wherever NOW()
   falls between two buckets and however late the chunk is dropped, live_points
   shows it, by the tier of its age or as itself. *)
NoSampleMissing ==
  LET answer == LivePoints(0, tick)
  IN  \A t \in 0..(tick - 1) :
        /\ tick - RawAge <= t => 0 \in TiersOf(answer, t)
        /\ \A j \in Tiers :
             Safe(j, TimeBucket(j, t)) /\ t < tick - Newest(j) /\ t >= tick - Oldest[j] + Width[j]
               => TiersOf(answer, t) # {}

(* live_points shows a sample twice only in the bucket that the border between
   two layers cuts, and never a third time. *)
ShownTwiceAtBordersOnly ==
  LET answer == LivePoints(0, tick)
  IN  \A t \in 0..(tick - 1) :
        LET tiers == TiersOf(answer, t)
        IN  /\ Cardinality(tiers) <= 2
            /\ Cardinality(tiers) = 2 =>
                 \E j \in Tiers : /\ TimeBucket(j, t) < tick - Newest(j)
                                  /\ tick - Newest(j) < TimeBucket(j, t) + Width[j]
==============================================================================
