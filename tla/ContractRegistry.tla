--------------------------- MODULE ContractRegistry ---------------------------
(***************************************************************************)
(* The contract registry (contract_registry.py): one job per exchange, all *)
(* of them in the one tracker instance that owns the singleton jobs, every *)
(* five minutes.  A job fetches the exchange's listing and then, in one    *)
(* transaction, inserts the quotes and assets it names, reconciles the     *)
(* section's contracts with it and creates the missing history states.     *)
(*                                                                         *)
(* Quotes and assets are shared by all exchanges and are inserted in the   *)
(* order of a Python set.  An insert of a name that another open           *)
(* transaction has inserted waits for it, so two jobs can wait for each    *)
(* other; the database then aborts one of them.                            *)
(***************************************************************************)
EXTENDS Integers, FiniteSets

CONSTANTS
  Exchanges,   \* the sections that have a registry job
  Assets, Quotes,
  Intervals,   \* the funding intervals an exchange can publish
  MaxChanges,  \* how often the listings change (a bound of the model)
  MaxFailures  \* how often a job fails or the process dies (a bound)

ASSUME NamesAreDisjoint == Assets \cap Quotes = {}
ASSUME BoundsAreNaturals == MaxChanges \in Nat /\ MaxFailures \in Nat

Keys == Assets \X Quotes
Names == Assets \cup Quotes

(* A listing: the published contracts with their intervals. *)
Listings == UNION {[K -> Intervals] : K \in SUBSET Keys}

(* A contract row is live or deprecated, and keeps an interval. *)
Rows == UNION {[K -> [interval : Intervals, deprecated : BOOLEAN]] : K \in SUBSET Keys}

Nothing == [k \in {} |-> 0]

VARIABLES
  listing,    \* exchange -> what it publishes at this moment
  changes,    \* how often that has changed
  failures,   \* how many jobs have failed and processes have died
  names,      \* the committed asset and quote rows
  rows,       \* exchange -> its committed contract rows, by key
  states,     \* <<exchange, key>> of the committed contract_history_state rows
  jpc,        \* exchange -> its job: "idle", "inserting", "signalling"
  feed,       \* exchange -> the listing its job fetched
  todo,       \* exchange -> the names its transaction has yet to insert
  held,       \* exchange -> the names its open transaction has inserted
  want        \* exchange -> the name it waits for, as a set

world == <<listing, changes, failures>>
tables == <<names, rows, states>>
jobs == <<jpc, feed, todo, held, want>>
registryVars == <<world, tables, jobs>>

-----------------------------------------------------------------------------
(* Reconciliation: what the section's rows become. *)

Added(old, new) == DOMAIN new \ DOMAIN old
(* The contracts that left the listing, with the flag's test inverted. *)
DeprecatedAgain(old, new) == {k \in DOMAIN old \ DOMAIN new : old[k].deprecated}

Deprecated(old, new) == {k \in DOMAIN old \ DOMAIN new : ~old[k].deprecated}
Reactivated(old, new) == {k \in DOMAIN old \cap DOMAIN new : old[k].deprecated}
IntervalChanges(old, new) ==
  {k \in DOMAIN old \cap DOMAIN new : old[k].interval # new[k]}

(* A plan of which only the added and the deprecated contracts count. *)
HasNewOrGone(old, new) == Added(old, new) \cup Deprecated(old, new) # {}

HasChanges(old, new) ==
  Added(old, new) \cup Deprecated(old, new) \cup Reactivated(old, new)
    \cup IntervalChanges(old, new) # {}

(* _apply_plan: the section's rows after the plan of these two. *)
Applied(old, new) ==
  [k \in DOMAIN old \cup DOMAIN new |->
     [interval |-> IF k \in IntervalChanges(old, new) \cup Added(old, new)
                   THEN new[k] ELSE old[k].interval,
      deprecated |-> IF k \in Deprecated(old, new) THEN TRUE
                     ELSE IF k \in Reactivated(old, new) \cup Added(old, new) THEN FALSE
                     ELSE old[k].deprecated]]

-----------------------------------------------------------------------------
(* One job. *)

NamesOf(l) == {k[1] : k \in DOMAIN l} \cup {k[2] : k \in DOMAIN l}

(* An exchange that is down, or answers an empty list, changes nothing. *)
Fetch(e) ==
  /\ jpc[e] = "idle"
  /\ listing[e] # Nothing
  /\ jpc' = [jpc EXCEPT ![e] = "inserting"]
  /\ feed' = [feed EXCEPT ![e] = listing[e]]
  /\ todo' = [todo EXCEPT ![e] = NamesOf(listing[e])]
  /\ UNCHANGED <<world, tables, held, want>>

HeldByOthers(e) == UNION {held[f] : f \in Exchanges \ {e}}

(* All quotes are inserted before the first asset. *)
InsertNext(e) == IF todo[e] \cap Quotes # {} THEN todo[e] \cap Quotes ELSE todo[e]

(* ON CONFLICT DO NOTHING passes over a committed name, and waits for the
   transaction that has inserted an uncommitted one. *)
Insert(e) ==
  /\ jpc[e] = "inserting" /\ want[e] = {}
  /\ \E n \in InsertNext(e) :
       IF n \in HeldByOthers(e)
       THEN /\ want' = [want EXCEPT ![e] = {n}]
            /\ UNCHANGED <<todo, held>>
       ELSE /\ todo' = [todo EXCEPT ![e] = @ \ {n}]
            /\ held' = [held EXCEPT ![e] = @ \cup ({n} \ names)]
            /\ UNCHANGED want
  /\ UNCHANGED <<world, tables, jpc, feed>>

(* The other transaction has ended: by a commit, and the name exists, or by a
   rollback, and it is inserted here. *)
Resume(e) ==
  /\ want[e] # {} /\ want[e] \cap HeldByOthers(e) = {}
  /\ todo' = [todo EXCEPT ![e] = @ \ want[e]]
  /\ held' = [held EXCEPT ![e] = @ \cup (want[e] \ names)]
  /\ want' = [want EXCEPT ![e] = {}]
  /\ UNCHANGED <<world, tables, jpc, feed>>

(* The transaction's end forgotten where the job ends: its locks stay. *)
EndTransactionKeepingLocks(e) ==
  /\ todo' = [todo EXCEPT ![e] = {}]
  /\ want' = [want EXCEPT ![e] = {}]
  /\ UNCHANGED held

EndTransaction(e) ==
  /\ held' = [held EXCEPT ![e] = {}]
  /\ todo' = [todo EXCEPT ![e] = {}]
  /\ want' = [want EXCEPT ![e] = {}]

(* create_missing_for_section left to the history jobs. *)
StatesAsBefore(e, new) == states

StatesAfter(e, new) == states \cup {<<e, k>> : k \in DOMAIN new}

(* Everything is inserted: the section is read, reconciled and committed.  Only
   this job writes the section, so these reads and writes are one step. *)
Commit(e) ==
  LET new == Applied(rows[e], feed[e])
  IN  /\ jpc[e] = "inserting" /\ todo[e] = {} /\ want[e] = {}
      /\ names' = names \cup held[e]
      /\ rows' = [rows EXCEPT ![e] = new]
      /\ states' = StatesAfter(e, new)
      /\ jpc' = [jpc EXCEPT ![e] = IF HasChanges(rows[e], feed[e]) THEN "signalling"
                                   ELSE "idle"]
      /\ feed' = [feed EXCEPT ![e] = Nothing]
      /\ EndTransaction(e)
      /\ UNCHANGED world

(* signal_contracts_changed, after the commit. *)
Signal(e) ==
  /\ jpc[e] = "signalling"
  /\ jpc' = [jpc EXCEPT ![e] = "idle"]
  /\ UNCHANGED <<world, tables, feed, todo, held, want>>

(* run_contract_registry catches whatever is raised: the transaction is rolled
   back and the job ends. *)
Rollback(e) ==
  /\ jpc[e] = "inserting"
  /\ jpc' = [jpc EXCEPT ![e] = "idle"]
  /\ feed' = [feed EXCEPT ![e] = Nothing]
  /\ EndTransaction(e)
  /\ UNCHANGED <<listing, changes, tables>>

(* A listing with a duplicate key, or a database error. *)
Fail(e) == failures < MaxFailures /\ failures' = failures + 1 /\ Rollback(e)

-----------------------------------------------------------------------------
(* Waiting, and the database's deadlock detector. *)

WaitsFor(e, f) == e # f /\ want[e] \cap held[f] # {}

(* e waits, through any number of others, for itself. *)
InWaitCycle(e) ==
  LET Reach[n \in 0..Cardinality(Exchanges)] ==
        IF n = 0 THEN {f \in Exchanges : WaitsFor(e, f)}
        ELSE Reach[n - 1] \cup {g \in Exchanges : \E f \in Reach[n - 1] : WaitsFor(f, g)}
  IN  e \in Reach[Cardinality(Exchanges)]

DeadlockAbort(e) == InWaitCycle(e) /\ Rollback(e) /\ UNCHANGED failures

-----------------------------------------------------------------------------
(* The exchanges' listings, and the process. *)

Relisting(e) ==
  /\ changes < MaxChanges
  /\ \E l \in Listings \ {listing[e]} : listing' = [listing EXCEPT ![e] = l]
  /\ changes' = changes + 1
  /\ UNCHANGED <<failures, tables, jobs>>

(* All open transactions end with the process. *)
EndJobs ==
  /\ jpc' = [e \in Exchanges |-> "idle"]
  /\ feed' = [e \in Exchanges |-> Nothing]
  /\ todo' = [e \in Exchanges |-> {}]
  /\ held' = [e \in Exchanges |-> {}]
  /\ want' = [e \in Exchanges |-> {}]

Crash ==
  /\ failures < MaxFailures /\ failures' = failures + 1
  /\ \E e \in Exchanges : jpc[e] # "idle"
  /\ EndJobs
  /\ UNCHANGED <<listing, changes, tables>>

RegistryInit ==
  /\ listing \in [Exchanges -> Listings] /\ changes = 0 /\ failures = 0
  /\ names = {} /\ states = {}
  /\ rows = [e \in Exchanges |-> Nothing]
  /\ jpc = [e \in Exchanges |-> "idle"]
  /\ feed = [e \in Exchanges |-> Nothing]
  /\ todo = [e \in Exchanges |-> {}]
  /\ held = [e \in Exchanges |-> {}]
  /\ want = [e \in Exchanges |-> {}]

JobStep(e) ==
  Fetch(e) \/ Insert(e) \/ Resume(e) \/ Commit(e) \/ Fail(e) \/ DeadlockAbort(e)

RegistryNext ==
  \/ \E e \in Exchanges : JobStep(e) \/ Signal(e) \/ Relisting(e)
  \/ Crash

RegistrySpec == RegistryInit /\ [][RegistryNext]_registryVars

(* A job runs every five minutes, the database runs what it is sent and its
   deadlock detector aborts one of the jobs that wait for each other.  A job
   that waits is woken by the end of the transaction it waits for, and the
   aborted one comes back five minutes later: it does not overtake for ever. *)
RegistryFairness ==
  \A e \in Exchanges :
    /\ WF_registryVars(Fetch(e))
    /\ WF_registryVars(Insert(e)) /\ SF_registryVars(Resume(e))
    /\ WF_registryVars(Commit(e)) /\ WF_registryVars(Signal(e))
    /\ WF_registryVars(DeadlockAbort(e))

FairRegistrySpec == RegistrySpec /\ RegistryFairness

-----------------------------------------------------------------------------
(* Properties. *)

(* Every variable has its type, and a job that is not in its transaction holds
   and waits for nothing: run_contract_registry leaves db.begin() either way. *)
TypeOK ==
  /\ listing \in [Exchanges -> Listings] /\ changes \in 0..MaxChanges
  /\ failures \in 0..MaxFailures
  /\ names \subseteq Names /\ states \subseteq Exchanges \X Keys
  /\ rows \in [Exchanges -> Rows]
  /\ jpc \in [Exchanges -> {"idle", "inserting", "signalling"}]
  /\ feed \in [Exchanges -> Listings]
  /\ todo \in [Exchanges -> SUBSET Names] /\ held \in [Exchanges -> SUBSET Names]
  /\ want \in [Exchanges -> SUBSET Names]
  /\ \A e \in Exchanges : jpc[e] # "inserting" => todo[e] \cup held[e] \cup want[e] = {}

(* Whatever jobs are rolled back or killed, a committed contract has its asset,
   its quote and a history state: the history jobs, which join on the state,
   will find it. *)
ContractsAreComplete ==
  \A e \in Exchanges : \A k \in DOMAIN rows[e] :
    k[1] \in names /\ k[2] \in names /\ <<e, k>> \in states

(* Once an exchange's listing has come to rest, the section's live contracts
   come to be exactly the listed ones with their intervals, although the jobs
   of several exchanges wait for and deadlock with each other. *)
SectionMatchesListing(e) ==
  /\ \A k \in DOMAIN listing[e] :
       k \in DOMAIN rows[e] /\ rows[e][k] = [interval |-> listing[e][k], deprecated |-> FALSE]
  /\ \A k \in DOMAIN rows[e] \ DOMAIN listing[e] : rows[e][k].deprecated

RegistryConverges ==
  \A e \in Exchanges : <>[](listing[e] # Nothing => SectionMatchesListing(e))
==============================================================================
