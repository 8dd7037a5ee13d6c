--------------------------- MODULE ContractViewProofs ---------------------------
(***************************************************************************)
(* Theorems about ContractRegistry and ContractView, for any exchanges,    *)
(* names, listings and debounce.                                           *)
(*                                                                         *)
(* ContractsAreComplete: while a job inserts, each name of its listing is  *)
(* still to do, held by its transaction, or committed; so a commit, which  *)
(* waits until nothing is left to do, leaves no contract without its       *)
(* asset, its quote and its history state.                                 *)
(*                                                                         *)
(* StaleViewIsRemembered is not inductive: a refresh that is running       *)
(* lowers the flag when it ends, so what it has read must itself be up to  *)
(* date, or its being out of date be remembered (StaleSnap).               *)
(***************************************************************************)
EXTENDS ContractView, TLAPS

-----------------------------------------------------------------------------
(* The registry. *)

(* A plan applied to typed rows yields typed rows, of the contracts of either. *)
LEMMA AppliedIsTyped ==
  ASSUME NEW old \in Rows, NEW new \in Listings
  PROVE  /\ Applied(old, new) \in Rows
         /\ DOMAIN Applied(old, new) = DOMAIN old \cup DOMAIN new
<1> DEFINE D == DOMAIN old \cup DOMAIN new
<1>1. PICK K \in SUBSET Keys : old \in [K -> [interval : Intervals, deprecated : BOOLEAN]]
  BY DEF Rows
<1>2. PICK L \in SUBSET Keys : new \in [L -> Intervals]
  BY DEF Listings
<1>3. DOMAIN old = K /\ DOMAIN new = L
  BY <1>1, <1>2
<1>4. ASSUME NEW k \in D
      PROVE  /\ (IF k \in IntervalChanges(old, new) \cup Added(old, new)
                 THEN new[k] ELSE old[k].interval) \in Intervals
             /\ (IF k \in Deprecated(old, new) THEN TRUE
                 ELSE IF k \in Reactivated(old, new) \cup Added(old, new) THEN FALSE
                 ELSE old[k].deprecated) \in BOOLEAN
  <2>1. CASE k \in DOMAIN old
    <3>1. old[k] \in [interval : Intervals, deprecated : BOOLEAN]
      BY <1>1, <1>3, <2>1
    <3>2. old[k].interval \in Intervals /\ old[k].deprecated \in BOOLEAN
      BY <3>1
    <3>3. k \in DOMAIN new => new[k] \in Intervals
      BY <1>2, <1>3
    <3>4. k \in IntervalChanges(old, new) \cup Added(old, new) => k \in DOMAIN new
      BY DEF IntervalChanges, Added
    <3> QED
      BY <3>2, <3>3, <3>4
  <2>2. CASE k \notin DOMAIN old
    <3>1. k \in DOMAIN new /\ k \in Added(old, new)
      BY <1>4, <2>2 DEF Added
    <3>2. new[k] \in Intervals
      BY <1>2, <1>3, <3>1
    <3>3. k \notin Deprecated(old, new)
      BY <2>2 DEF Deprecated
    <3> QED
      BY <3>1, <3>2, <3>3
  <2> QED
    BY <2>1, <2>2
<1>5. D \in SUBSET Keys
  BY <1>3
<1>6. Applied(old, new) \in [D -> [interval : Intervals, deprecated : BOOLEAN]]
  BY <1>4 DEF Applied
<1>7. DOMAIN Applied(old, new) = D
  BY DEF Applied
<1> QED
  BY <1>5, <1>6, <1>7 DEF Rows

(* The empty listing is a listing, and no rows are rows. *)
LEMMA NothingIsTyped == Nothing \in Listings /\ Nothing \in Rows /\ DOMAIN Nothing = {}
<1>1. Nothing \in [{} -> Intervals]
      /\ Nothing \in [{} -> [interval : Intervals, deprecated : BOOLEAN]]
  BY DEF Nothing
<1> QED
  BY <1>1 DEF Listings, Rows, Nothing

(* The names of a listing are assets and quotes. *)
LEMMA NamesOfIsTyped ==
  ASSUME NEW l \in Listings
  PROVE  NamesOf(l) \subseteq Names
<1>1. DOMAIN l \subseteq Assets \X Quotes
  BY DEF Listings, Keys
<1> QED
  BY <1>1 DEF NamesOf, Names

-----------------------------------------------------------------------------

(* Typed states stay typed when a job takes a step. *)
LEMMA JobStepKeepsTypes ==
  ASSUME TypeOK, NEW e \in Exchanges, JobStep(e) \/ Signal(e)
  PROVE  TypeOK'
<1> USE NothingIsTyped, BoundsAreNaturals
<1>1. CASE Fetch(e)
  <2>1. NamesOf(listing[e]) \subseteq Names /\ listing[e] \in Listings
    BY NamesOfIsTyped DEF TypeOK
  <2> QED
    BY <1>1, <2>1 DEF Fetch, TypeOK, world, tables
<1>2. CASE Insert(e)
  <2>1. PICK n \in InsertNext(e) :
          IF n \in HeldByOthers(e)
          THEN want' = [want EXCEPT ![e] = {n}] /\ UNCHANGED <<todo, held>>
          ELSE /\ todo' = [todo EXCEPT ![e] = @ \ {n}]
               /\ held' = [held EXCEPT ![e] = @ \cup ({n} \ names)]
               /\ UNCHANGED want
    BY <1>2 DEF Insert
  <2>2. n \in Names
    BY <2>1 DEF InsertNext, TypeOK
  <2> QED
    BY <1>2, <2>1, <2>2 DEF Insert, TypeOK, world, tables
<1>3. CASE Resume(e)
  BY <1>3 DEF Resume, TypeOK, world, tables
<1>4. CASE Commit(e)
  <2> DEFINE new == Applied(rows[e], feed[e])
  <2>1. rows[e] \in Rows /\ feed[e] \in Listings
    BY DEF TypeOK
  <2>2. new \in Rows
    BY <2>1, AppliedIsTyped
  <2>3. DOMAIN new \subseteq Keys
    BY <2>2 DEF Rows
  <2> HIDE DEF new
  <2>4. /\ names' = names \cup held[e]
        /\ rows' = [rows EXCEPT ![e] = new]
        /\ states' = states \cup {<<e, k>> : k \in DOMAIN new}
        /\ jpc' \in {[jpc EXCEPT ![e] = "signalling"], [jpc EXCEPT ![e] = "idle"]}
        /\ feed' = [feed EXCEPT ![e] = Nothing]
        /\ EndTransaction(e) /\ UNCHANGED world
    BY <1>4 DEF Commit, StatesAfter, new
  <2>5. {<<e, k>> : k \in DOMAIN new} \subseteq Exchanges \X Keys
    BY <2>3
  <2> QED
    BY <2>2, <2>4, <2>5 DEF TypeOK, EndTransaction, world
<1>5. CASE Fail(e)
  BY <1>5 DEF Fail, Rollback, EndTransaction, TypeOK, tables
<1>6. CASE DeadlockAbort(e)
  BY <1>6 DEF DeadlockAbort, Rollback, EndTransaction, TypeOK, tables
<1>7. CASE Signal(e)
  BY <1>7 DEF Signal, TypeOK, world, tables
<1> QED
  BY <1>1, <1>2, <1>3, <1>4, <1>5, <1>6, <1>7 DEF JobStep

(* The same of a change of a listing, and of the end of all jobs. *)
LEMMA OthersKeepTypes ==
  ASSUME TypeOK,
         \/ \E e \in Exchanges : Relisting(e)
         \/ EndJobs /\ UNCHANGED <<listing, changes, tables>> /\ failures' \in 0..MaxFailures
         \/ UNCHANGED registryVars
  PROVE  TypeOK'
<1> USE NothingIsTyped, BoundsAreNaturals
<1>1. CASE \E e \in Exchanges : Relisting(e)
  BY <1>1 DEF Relisting, TypeOK, tables, jobs
<1>2. CASE EndJobs /\ UNCHANGED <<listing, changes, tables>> /\ failures' \in 0..MaxFailures
  BY <1>2 DEF EndJobs, TypeOK, tables
<1>3. CASE UNCHANGED registryVars
  BY <1>3 DEF TypeOK, registryVars, world, tables, jobs
<1> QED
  BY <1>1, <1>2, <1>3

(* The initial state is typed. *)
LEMMA RegistryInitIsTyped == RegistryInit => TypeOK
BY NothingIsTyped, BoundsAreNaturals DEF RegistryInit, TypeOK

(* Every state of the registry is typed, and a job outside its transaction
   holds and waits for nothing. *)
THEOREM RegistryTypeCorrect == RegistrySpec => []TypeOK
<1>1. TypeOK /\ [RegistryNext]_registryVars => TypeOK'
  <2> SUFFICES ASSUME TypeOK, [RegistryNext]_registryVars PROVE TypeOK'
    OBVIOUS
  <2>1. ASSUME Crash PROVE TypeOK'
    <3>1. failures' \in 0..MaxFailures
      BY <2>1, BoundsAreNaturals DEF Crash, TypeOK
    <3> QED
      BY <2>1, <3>1, OthersKeepTypes DEF Crash
  <2> QED
    BY <2>1, JobStepKeepsTypes, OthersKeepTypes DEF RegistryNext
<1> QED
  BY <1>1, RegistryInitIsTyped, PTL DEF RegistrySpec

-----------------------------------------------------------------------------
(* A name of a listing that is being inserted is to do, held or committed. *)
NamesAreAccountedFor ==
  \A e \in Exchanges :
    jpc[e] = "inserting" => NamesOf(feed[e]) \subseteq todo[e] \cup held[e] \cup names

CompleteInv == ContractsAreComplete /\ NamesAreAccountedFor

(* The names of a listed contract are among the listing's names. *)
LEMMA KeysAreNamed ==
  ASSUME NEW l, NEW k \in DOMAIN l
  PROVE  k[1] \in NamesOf(l) /\ k[2] \in NamesOf(l)
BY DEF NamesOf

(* A commit: every old contract was complete, every new one is of the listing,
   whose names are now committed. *)
LEMMA CommitKeepsComplete ==
  ASSUME TypeOK, CompleteInv, NEW e \in Exchanges, Commit(e)
  PROVE  CompleteInv'
<1> DEFINE new == Applied(rows[e], feed[e])
<1>1. rows[e] \in Rows /\ feed[e] \in Listings
  BY DEF TypeOK
<1>2. DOMAIN new = DOMAIN rows[e] \cup DOMAIN feed[e]
  BY <1>1, AppliedIsTyped
<1> HIDE DEF new
<1>3. /\ jpc[e] = "inserting" /\ todo[e] = {}
      /\ names' = names \cup held[e]
      /\ rows' = [rows EXCEPT ![e] = new]
      /\ states' = states \cup {<<e, k>> : k \in DOMAIN new}
      /\ jpc' \in {[jpc EXCEPT ![e] = "signalling"], [jpc EXCEPT ![e] = "idle"]}
      /\ feed' = [feed EXCEPT ![e] = Nothing]
      /\ EndTransaction(e)
  BY DEF Commit, StatesAfter, new
<1>4. NamesOf(feed[e]) \subseteq names'
  BY <1>3 DEF CompleteInv, NamesAreAccountedFor
<1>5. ContractsAreComplete'
  <2> SUFFICES ASSUME NEW f \in Exchanges, NEW k \in DOMAIN rows'[f]
               PROVE  k[1] \in names' /\ k[2] \in names' /\ <<f, k>> \in states'
    BY DEF ContractsAreComplete
  <2>1. CASE k \in DOMAIN rows[f]
    BY <1>3, <2>1 DEF CompleteInv, ContractsAreComplete
  <2>2. CASE k \notin DOMAIN rows[f]
    <3>1. f = e /\ k \in DOMAIN new
      BY <1>3, <2>2 DEF TypeOK
    <3>2. k \in DOMAIN feed[e]
      BY <1>2, <2>2, <3>1
    <3>3. k[1] \in NamesOf(feed[e]) /\ k[2] \in NamesOf(feed[e])
      BY <3>2, KeysAreNamed
    <3> QED
      BY <1>3, <1>4, <3>1, <3>3
  <2> QED
    BY <2>1, <2>2
<1>6. NamesAreAccountedFor'
  <2> SUFFICES ASSUME NEW f \in Exchanges, jpc'[f] = "inserting"
               PROVE  NamesOf(feed'[f]) \subseteq todo'[f] \cup held'[f] \cup names'
    BY DEF NamesAreAccountedFor, NamesOf
  <2>1. f # e
    BY <1>3 DEF TypeOK
  <2>2. jpc[f] = "inserting" /\ feed'[f] = feed[f] /\ todo'[f] = todo[f] /\ held'[f] = held[f]
    BY <1>3, <2>1 DEF TypeOK, EndTransaction
  <2>3. NamesOf(feed'[f]) = NamesOf(feed[f])
    BY <2>2 DEF NamesOf
  <2> QED
    BY <1>3, <2>2, <2>3 DEF CompleteInv, NamesAreAccountedFor
<1> QED
  BY <1>5, <1>6 DEF CompleteInv

(* Any other step leaves the tables, and moves a name from one place to the
   next. *)
LEMMA OtherStepsKeepComplete ==
  ASSUME TypeOK, CompleteInv, UNCHANGED tables,
         \A f \in Exchanges : jpc'[f] = "inserting" =>
            NamesOf(feed'[f]) \subseteq todo'[f] \cup held'[f] \cup names
  PROVE  CompleteInv'
<1>1. ContractsAreComplete'
  BY DEF CompleteInv, ContractsAreComplete, tables
<1>2. NamesAreAccountedFor'
  BY DEF NamesAreAccountedFor, NamesOf, tables
<1> QED
  BY <1>1, <1>2 DEF CompleteInv

(* Whatever jobs wait, fail, are aborted or die, in any number and order, a
   committed contract has its asset, its quote and its history state. *)
THEOREM CommittedContractsAreComplete == RegistrySpec => []ContractsAreComplete
<1>1. RegistryInit => CompleteInv
  <2> SUFFICES ASSUME RegistryInit PROVE CompleteInv
    OBVIOUS
  <2>1. \A e \in Exchanges : DOMAIN rows[e] = {} /\ jpc[e] = "idle"
    BY NothingIsTyped DEF RegistryInit
  <2> QED
    BY <2>1 DEF CompleteInv, ContractsAreComplete, NamesAreAccountedFor
<1>2. TypeOK /\ CompleteInv /\ [RegistryNext]_registryVars => CompleteInv'
  <2> SUFFICES ASSUME TypeOK, CompleteInv, [RegistryNext]_registryVars
               PROVE  CompleteInv'
    OBVIOUS
  <2> DEFINE Accounted(f) ==
        jpc'[f] = "inserting" =>
          NamesOf(feed'[f]) \subseteq todo'[f] \cup held'[f] \cup names
  <2>0. ASSUME NEW f \in Exchanges, UNCHANGED <<jpc[f], feed[f]>>,
               todo[f] \cup held[f] \cup names \subseteq todo'[f] \cup held'[f] \cup names
        PROVE  Accounted(f)
    <3>1. NamesOf(feed'[f]) = NamesOf(feed[f])
      BY <2>0 DEF NamesOf
    <3> QED
      BY <2>0, <3>1 DEF CompleteInv, NamesAreAccountedFor
  <2>1. ASSUME NEW e \in Exchanges, Fetch(e) PROVE CompleteInv'
    <3>1. ASSUME NEW f \in Exchanges PROVE Accounted(f)
      <4>1. CASE f = e
        <5>1. feed'[f] = listing[e] /\ todo'[f] = NamesOf(listing[e])
          BY <2>1, <4>1 DEF Fetch, TypeOK
        <5> QED
          BY <5>1 DEF NamesOf
      <4>2. CASE f # e
        BY <2>0, <2>1, <4>2 DEF Fetch, TypeOK
      <4> QED
        BY <4>1, <4>2
    <3> QED
      BY <2>1, <3>1, OtherStepsKeepComplete DEF Fetch
  <2>2. ASSUME NEW e \in Exchanges, Insert(e) PROVE CompleteInv'
    <3>1. ASSUME NEW f \in Exchanges PROVE Accounted(f)
      BY <2>0, <2>2 DEF Insert, TypeOK
    <3> QED
      BY <2>2, <3>1, OtherStepsKeepComplete DEF Insert
  <2>3. ASSUME NEW e \in Exchanges, Resume(e) PROVE CompleteInv'
    <3>1. ASSUME NEW f \in Exchanges PROVE Accounted(f)
      BY <2>0, <2>3 DEF Resume, TypeOK
    <3> QED
      BY <2>3, <3>1, OtherStepsKeepComplete DEF Resume
  <2>4. ASSUME NEW e \in Exchanges, Rollback(e) PROVE CompleteInv'
    <3>1. ASSUME NEW f \in Exchanges PROVE Accounted(f)
      BY <2>0, <2>4 DEF Rollback, EndTransaction, TypeOK
    <3> QED
      BY <2>4, <3>1, OtherStepsKeepComplete DEF Rollback
  <2>5. ASSUME NEW e \in Exchanges, Signal(e) PROVE CompleteInv'
    <3>1. ASSUME NEW f \in Exchanges PROVE Accounted(f)
      BY <2>0, <2>5 DEF Signal, TypeOK
    <3> QED
      BY <2>5, <3>1, OtherStepsKeepComplete DEF Signal
  <2>6. ASSUME NEW e \in Exchanges, Relisting(e) PROVE CompleteInv'
    <3>1. ASSUME NEW f \in Exchanges PROVE Accounted(f)
      BY <2>0, <2>6 DEF Relisting, jobs
    <3> QED
      BY <2>6, <3>1, OtherStepsKeepComplete DEF Relisting
  <2>7. CASE Crash
    <3>1. ASSUME NEW f \in Exchanges PROVE Accounted(f)
      BY <2>7 DEF Crash, EndJobs
    <3> QED
      BY <2>7, <3>1, OtherStepsKeepComplete DEF Crash
  <2>8. CASE UNCHANGED registryVars
    <3>1. ASSUME NEW f \in Exchanges PROVE Accounted(f)
      BY <2>0, <2>8 DEF registryVars, jobs
    <3> QED
      BY <2>8, <3>1, OtherStepsKeepComplete DEF registryVars
  <2> QED
    BY <2>1, <2>2, <2>3, <2>4, <2>5, <2>6, <2>7, <2>8, CommitKeepsComplete
    DEF RegistryNext, JobStep, Fail, DeadlockAbort
<1>3. CompleteInv => ContractsAreComplete
  BY DEF CompleteInv
<1> QED
  BY <1>1, <1>2, <1>3, RegistryTypeCorrect, PTL DEF RegistrySpec

-----------------------------------------------------------------------------
(* The view. *)

(* A plan without changes leaves the rows as they are. *)
LEMMA NoChangesNoEffect ==
  ASSUME NEW old \in Rows, NEW new \in Listings, ~HasChanges(old, new)
  PROVE  Applied(old, new) = old
<1>1. PICK K \in SUBSET Keys : old \in [K -> [interval : Intervals, deprecated : BOOLEAN]]
  BY DEF Rows
<1>2. DOMAIN Applied(old, new) = K
  <2>1. DOMAIN Applied(old, new) = DOMAIN old \cup DOMAIN new
    BY AppliedIsTyped
  <2>2. DOMAIN new \subseteq DOMAIN old
    BY DEF HasChanges, Added
  <2> QED
    BY <1>1, <2>1, <2>2
<1>3. Added(old, new) = {} /\ Deprecated(old, new) = {}
      /\ Reactivated(old, new) = {} /\ IntervalChanges(old, new) = {}
  BY DEF HasChanges
<1>4. ASSUME NEW k \in K PROVE Applied(old, new)[k] = old[k]
  <2>1. old[k] \in [interval : Intervals, deprecated : BOOLEAN]
    BY <1>1
  <2>2. Applied(old, new)[k]
          = [interval |-> old[k].interval, deprecated |-> old[k].deprecated]
    BY <1>2, <1>3 DEF Applied
  <2> QED
    BY <2>1, <2>2
<1>5. Applied(old, new) = [k \in K |-> Applied(old, new)[k]]
  BY <1>2 DEF Applied
<1> QED
  BY <1>1, <1>4, <1>5

-----------------------------------------------------------------------------
(* Somebody will see to the view: a signal was lost, or is about to be given. *)
Signalling == \E e \in Exchanges : jpc[e] = "signalling"

(* What a running refresh has read is up to date, or known not to be. *)
StaleSnap == rpc = "refreshing" /\ snap # Live => missed \/ Signalling

ViewInv == StaleViewIsRemembered /\ StaleSnap

(* The view's rows are contracts with intervals. *)
LEMMA LiveIsTyped ==
  ASSUME TypeOK
  PROVE  Live \subseteq Exchanges \X Keys \X Intervals
<1> SUFFICES ASSUME NEW e \in Exchanges, NEW k \in Keys, k \in DOMAIN rows[e]
             PROVE  rows[e][k].interval \in Intervals
  BY DEF Live
<1>1. PICK K \in SUBSET Keys : rows[e] \in [K -> [interval : Intervals, deprecated : BOOLEAN]]
  BY DEF TypeOK, Rows
<1>2. rows[e][k] \in [interval : Intervals, deprecated : BOOLEAN]
  BY <1>1
<1> QED
  BY <1>2

(* The live contracts depend on the rows only. *)
LEMMA LiveFromRows == rows' = rows => Live' = Live
BY DEF Live

(* Every state is typed, and a refresh only runs with the flag up. *)
THEOREM ViewTypeCorrect == Spec => []ViewTypeOK
<1>0. 0 \in 0..Debounce /\ Debounce \in 0..Debounce
  BY DebounceIsPositive
<1>1. Init => ViewTypeOK
  BY <1>0, RegistryInitIsTyped DEF Init, ViewTypeOK
<1>2. ViewTypeOK /\ [Next]_vars => ViewTypeOK'
  <2> SUFFICES ASSUME ViewTypeOK, [Next]_vars PROVE ViewTypeOK'
    OBVIOUS
  <2>0. TypeOK
    BY DEF ViewTypeOK
  <2>1. CASE JobGoesOn
    <3>1. TypeOK'
      BY <2>0, <2>1, JobStepKeepsTypes, OthersKeepTypes DEF JobGoesOn
    <3> QED
      BY <2>1, <3>1 DEF JobGoesOn, refresher, ViewTypeOK
  <2>2. ASSUME NEW e \in Exchanges, SignalChanged(e) PROVE ViewTypeOK'
    <3>1. TypeOK'
      BY <2>0, <2>2, JobStepKeepsTypes DEF SignalChanged
    <3> QED
      BY <1>0, <2>2, <3>1 DEF SignalChanged, ViewTypeOK
  <2>3. CASE CheckAndRefresh
    BY <2>0, <2>3, OthersKeepTypes DEF CheckAndRefresh, ViewTypeOK
  <2>4. CASE RefreshReads
    BY <2>0, <2>4, OthersKeepTypes, LiveIsTyped DEF RefreshReads, ViewTypeOK
  <2>5. CASE RefreshFails
    <3>1. TypeOK'
      BY <2>0, <2>5, BoundsAreNaturals DEF RefreshFails, TypeOK, tables, jobs
    <3> QED
      BY <2>5, <3>1 DEF RefreshFails, ViewTypeOK
  <2>6. CASE RefreshCommits
    BY <2>0, <2>6, OthersKeepTypes DEF RefreshCommits, ViewTypeOK
  <2>7. CASE Second
    <3>1. quiet' \in 0..Debounce
      BY <2>7, DebounceIsPositive DEF Second, ViewTypeOK
    <3> QED
      BY <2>0, <2>7, <3>1, OthersKeepTypes DEF Second, ViewTypeOK
  <2>8. CASE ProcessCrash
    <3>1. failures' \in 0..MaxFailures
      BY <2>0, <2>8, BoundsAreNaturals DEF ProcessCrash, TypeOK
    <3>2. TypeOK'
      BY <2>0, <2>8, <3>1, OthersKeepTypes DEF ProcessCrash
    <3>3. missed' \in BOOLEAN
      BY <2>8 DEF ProcessCrash
    <3> QED
      BY <1>0, <2>8, <3>2, <3>3 DEF ProcessCrash, ViewTypeOK
  <2>9. CASE UNCHANGED vars
    BY <2>0, <2>9, OthersKeepTypes DEF vars, refresher, ViewTypeOK
  <2> QED
    BY <2>1, <2>2, <2>3, <2>4, <2>5, <2>6, <2>7, <2>8, <2>9 DEF Next
<1> QED
  BY <1>1, <1>2, PTL DEF Spec

-----------------------------------------------------------------------------

(* A job's step that does not commit changes leaves the rows, and a job that is
   about to signal stays so; one that commits changes is about to signal. *)
LEMMA JobsRemember ==
  ASSUME TypeOK, NEW e \in Exchanges, JobStep(e) \/ Relisting(e)
  PROVE  Signalling' \/ (rows' = rows /\ ~Signalling)
<1>1. CASE Commit(e)
  <2>1. CASE HasChanges(rows[e], feed[e])
    <3>1. jpc'[e] = "signalling"
      BY <1>1, <2>1 DEF Commit, TypeOK
    <3> QED
      BY <3>1 DEF Signalling
  <2>2. CASE ~HasChanges(rows[e], feed[e])
    <3>1. rows[e] \in Rows /\ feed[e] \in Listings
      BY DEF TypeOK
    <3>2. rows' = [rows EXCEPT ![e] = rows[e]]
      BY <1>1, <2>2, <3>1, NoChangesNoEffect DEF Commit
    <3>3. rows' = rows
      BY <3>2 DEF TypeOK
    <3>4. jpc[e] = "inserting" /\ jpc' = [jpc EXCEPT ![e] = "idle"]
      BY <1>1, <2>2 DEF Commit
    <3>5. Signalling => Signalling'
      BY <3>4 DEF Signalling, TypeOK
    <3> QED
      BY <3>3, <3>5
  <2> QED
    BY <2>1, <2>2
<1>2. CASE ~Commit(e)
  <2>1. rows' = rows
    BY <1>2 DEF JobStep, Relisting, Fetch, Insert, Resume, Fail, DeadlockAbort, Rollback, tables
  <2>2. jpc' = jpc \/ \E s \in {"idle", "inserting"} :
                         jpc[e] # "signalling" /\ jpc' = [jpc EXCEPT ![e] = s]
    BY <1>2 DEF JobStep, Relisting, Fetch, Insert, Resume, Fail, DeadlockAbort, Rollback, jobs
  <2>3. Signalling => Signalling'
    BY <2>2 DEF Signalling, TypeOK
  <2> QED
    BY <2>1, <2>3
<1> QED
  BY <1>1, <1>2

(* Whatever the jobs, the refresher and crashes do, a view that is out of date
   is remembered by the flag, by a job, or is known to have lost its signal. *)
THEOREM StaleViewsAreRemembered == Spec => []StaleViewIsRemembered
<1>1. Init => ViewInv
  <2> SUFFICES ASSUME Init PROVE ViewInv
    OBVIOUS
  <2>1. \A e \in Exchanges : DOMAIN rows[e] = {}
    BY NothingIsTyped DEF Init, RegistryInit
  <2>2. Live = {}
    BY <2>1 DEF Live
  <2> QED
    BY <2>2 DEF Init, ViewInv, StaleViewIsRemembered, StaleSnap
<1>2. ViewTypeOK /\ ViewInv /\ [Next]_vars => ViewInv'
  <2> SUFFICES ASSUME ViewTypeOK, ViewInv, [Next]_vars PROVE ViewInv'
    OBVIOUS
  <2> USE DEF ViewInv, StaleViewIsRemembered, StaleSnap
  <2>1. CASE JobGoesOn
    <3>1. Signalling' \/ (rows' = rows /\ ~Signalling)
      BY <2>1, JobsRemember DEF JobGoesOn, ViewTypeOK
    <3>2. UNCHANGED <<view, pending, rpc, snap, missed>>
      BY <2>1 DEF JobGoesOn, refresher
    <3>3. CASE Signalling'
      BY <3>3 DEF Signalling
    <3>4. CASE rows' = rows /\ ~Signalling
      BY <3>2, <3>4, LiveFromRows DEF Signalling
    <3> QED
      BY <3>1, <3>3, <3>4
  <2>2. ASSUME NEW e \in Exchanges, SignalChanged(e) PROVE ViewInv'
    BY <2>2 DEF SignalChanged
  <2>3. CASE CheckAndRefresh
    <3>1. rows' = rows /\ jpc' = jpc
      BY <2>3 DEF CheckAndRefresh, registryVars, tables, jobs
    <3> QED
      BY <2>3, <3>1, LiveFromRows DEF CheckAndRefresh
  <2>4. CASE RefreshReads
    <3>1. rows' = rows /\ jpc' = jpc
      BY <2>4 DEF RefreshReads, registryVars, tables, jobs
    <3>2. pending'
      BY <2>4 DEF RefreshReads, ViewTypeOK
    <3> QED
      BY <2>4, <3>1, <3>2, LiveFromRows DEF RefreshReads
  <2>5. CASE RefreshFails
    <3>1. rows' = rows /\ jpc' = jpc
      BY <2>5 DEF RefreshFails, tables, jobs
    <3> QED
      BY <2>5, <3>1, LiveFromRows DEF RefreshFails
  <2>6. CASE RefreshCommits
    <3>1. rows' = rows /\ jpc' = jpc
      BY <2>6 DEF RefreshCommits, registryVars, tables, jobs
    <3> QED
      BY <2>6, <3>1, LiveFromRows DEF RefreshCommits, Signalling
  <2>7. CASE Second
    <3>1. rows' = rows /\ jpc' = jpc
      BY <2>7 DEF Second, registryVars, tables, jobs
    <3> QED
      BY <2>7, <3>1, LiveFromRows DEF Second, Signalling
  <2>8. CASE ProcessCrash
    <3>1. rows' = rows
      BY <2>8 DEF ProcessCrash, tables
    <3> QED
      BY <2>8, <3>1, LiveFromRows DEF ProcessCrash
  <2>9. CASE UNCHANGED vars
    <3>1. rows' = rows /\ jpc' = jpc
      BY <2>9 DEF vars, registryVars, tables, jobs
    <3> QED
      BY <2>9, <3>1, LiveFromRows DEF vars, refresher, Signalling
  <2> QED
    BY <2>1, <2>2, <2>3, <2>4, <2>5, <2>6, <2>7, <2>8, <2>9 DEF Next
<1>3. ViewInv => StaleViewIsRemembered
  BY DEF ViewInv
<1> QED
  BY <1>1, <1>2, <1>3, ViewTypeCorrect, PTL DEF Spec
===============================================================================
