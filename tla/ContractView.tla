----------------------------- MODULE ContractView -----------------------------
(***************************************************************************)
(* The refresher of the materialized view contract_enriched                *)
(* (materialized_view_refresher.py), in the process of the registry jobs.  *)
(* A job that committed changes signals it: a flag and a time in memory.   *)
(* Once a second the refresher's job refreshes the view, when the flag is  *)
(* up and the last signal is old enough, and then lowers the flag.         *)
(*                                                                         *)
(* The refresh is awaited, so the registry jobs go on while it runs, and   *)
(* what it shows are the contracts committed when its statement began.     *)
(***************************************************************************)
EXTENDS ContractRegistry

CONSTANT Debounce    \* debounce_seconds, in ticks of the model

ASSUME DebounceIsPositive == Debounce \in Nat \ {0}

VARIABLES
  view,       \* what contract_enriched shows
  pending,    \* _pending_refresh
  quiet,      \* ticks since the last signal, up to Debounce
  rpc,        \* the refresher: "idle", "starting", "refreshing"
  snap,       \* what the refresh in progress has read
  missed      \* of the model: a signal was lost, and no refresh has begun since

refresher == <<view, pending, quiet, rpc, snap, missed>>
vars == <<registryVars, refresher>>

(* The view's rows: the contracts that are not deprecated. *)
Live ==
  {<<x[1], x[2], rows[x[1]][x[2]].interval>> :
     x \in {y \in Exchanges \X Keys :
              y[2] \in DOMAIN rows[y[1]] /\ ~rows[y[1]][y[2]].deprecated}}

-----------------------------------------------------------------------------
(* The jobs, and the signal of one that has committed changes. *)

JobGoesOn ==
  /\ \E e \in Exchanges : JobStep(e) \/ Relisting(e)
  /\ UNCHANGED refresher

(* A signal that arrives while a refresh runs is one the refresh may lower the
   flag on. *)
SignalChanged(e) ==
  /\ Signal(e)
  /\ pending' = TRUE /\ quiet' = 0
  /\ missed' = (missed \/ rpc = "refreshing")
  /\ UNCHANGED <<view, rpc, snap>>

-----------------------------------------------------------------------------
(* check_and_refresh_if_needed, every second. *)

(* The age of the last signal looked at, the flag not. *)
CheckIgnoringFlag ==
  /\ rpc = "idle" /\ quiet >= Debounce
  /\ rpc' = "starting"
  /\ UNCHANGED <<registryVars, view, pending, quiet, snap, missed>>

CheckAndRefresh ==
  /\ rpc = "idle" /\ pending /\ quiet >= Debounce
  /\ rpc' = "starting"
  /\ UNCHANGED <<registryVars, view, pending, quiet, snap, missed>>

(* REFRESH MATERIALIZED VIEW begins: what is committed now will be shown. *)
RefreshReads ==
  /\ rpc = "starting"
  /\ rpc' = "refreshing" /\ snap' = Live /\ missed' = FALSE
  /\ UNCHANGED <<registryVars, view, pending, quiet>>

(* The flag lowered before the refresh, and forgotten when that fails. *)
RefreshFailsForGood ==
  /\ failures < MaxFailures /\ failures' = failures + 1
  /\ rpc # "idle" /\ rpc' = "idle" /\ snap' = {} /\ pending' = FALSE
  /\ UNCHANGED <<listing, changes, tables, jobs, view, quiet, missed>>

(* A refresh that fails leaves the flag up: the next second tries again. *)
RefreshFails ==
  /\ failures < MaxFailures /\ failures' = failures + 1
  /\ rpc # "idle" /\ rpc' = "idle" /\ snap' = {}
  /\ UNCHANGED <<listing, changes, tables, jobs, view, pending, quiet, missed>>

(* The flag is lowered after the refresh, whatever was signalled during it. *)
RefreshCommits ==
  /\ rpc = "refreshing"
  /\ view' = snap
  /\ pending' = FALSE
  /\ rpc' = "idle" /\ snap' = {}
  /\ UNCHANGED <<registryVars, quiet, missed>>

-----------------------------------------------------------------------------

Second ==
  /\ quiet < Debounce /\ quiet' = quiet + 1
  /\ UNCHANGED <<registryVars, view, pending, rpc, snap, missed>>

(* The flag is in memory: with the process go the signals that were raised, or
   that a job was about to raise. *)
ProcessCrash ==
  /\ failures < MaxFailures /\ failures' = failures + 1
  /\ EndJobs
  /\ missed' = (missed \/ pending \/ \E e \in Exchanges : jpc[e] = "signalling")
  /\ pending' = FALSE /\ quiet' = Debounce
  /\ rpc' = "idle" /\ snap' = {}
  /\ UNCHANGED <<listing, changes, tables, view>>

Init ==
  /\ RegistryInit
  /\ view = {} /\ pending = FALSE /\ quiet = Debounce
  /\ rpc = "idle" /\ snap = {} /\ missed = FALSE

Next ==
  \/ JobGoesOn \/ \E e \in Exchanges : SignalChanged(e)
  \/ CheckAndRefresh \/ RefreshReads \/ RefreshFails \/ RefreshCommits
  \/ Second \/ ProcessCrash

Spec == Init /\ [][Next]_vars

(* Every job of the scheduler comes round again and every statement of the
   database ends; jobs that wait for each other are separated by the database. *)
Fairness ==
  /\ \A e \in Exchanges :
       /\ WF_vars(Fetch(e) /\ UNCHANGED refresher)
       /\ WF_vars(Insert(e) /\ UNCHANGED refresher)
       /\ SF_vars(Resume(e) /\ UNCHANGED refresher)
       /\ WF_vars(Commit(e) /\ UNCHANGED refresher)
       /\ WF_vars(DeadlockAbort(e) /\ UNCHANGED refresher)
       /\ WF_vars(SignalChanged(e))
  /\ WF_vars(CheckAndRefresh) /\ WF_vars(RefreshReads)
  /\ WF_vars(RefreshCommits) /\ WF_vars(Second)

FairSpec == Spec /\ Fairness

-----------------------------------------------------------------------------
(* Properties. *)

(* Every variable has its type, and a refresh only runs with the flag up. *)
ViewTypeOK ==
  /\ TypeOK
  /\ view \subseteq Exchanges \X Keys \X Intervals
  /\ snap \subseteq Exchanges \X Keys \X Intervals
  /\ pending \in BOOLEAN /\ missed \in BOOLEAN /\ quiet \in 0..Debounce
  /\ rpc \in {"idle", "starting", "refreshing"}
  /\ rpc # "idle" => pending
  /\ rpc # "refreshing" => snap = {}

(* A view that does not show the live contracts is always somebody's business:
   the flag is up, or a job is about to raise it, or a signal was lost to a
   crash or to the refresh it arrived in. *)
StaleViewIsRemembered ==
  view # Live =>
    pending \/ missed \/ \E e \in Exchanges : jpc[e] = "signalling"

(* When the listings have come to rest the view comes to show the live
   contracts, through failed refreshes, unless a signal was lost. *)
ViewFollowsSignals == <>[](view = Live \/ missed)

(* The same without the exception: "any contract plan change fires a debounced
   refresh signal", the refresh the API's contracts depend on. *)
ViewFollowsContracts == <>[](view = Live)
==============================================================================
