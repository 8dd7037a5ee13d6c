----------------------------- MODULE TrackerFleet -----------------------------
(***************************************************************************)
(* The tracker's processes.  A process is started with an instance id, the *)
(* number of instances and a selection of exchanges (build_runtime_config  *)
(* in tracker/runtime.py); it takes every total-th exchange of the         *)
(* selection, gives each a second of the minute (bootstrap) and collects   *)
(* its live rates at that second.  A rollout changes the settings and      *)
(* restarts the processes one by one, so that two settings run side by     *)
(* side; a process may also die and come back.                             *)
(***************************************************************************)
EXTENDS Integers, FiniteSets, Sequences, Functions

CONSTANTS
  ExchangeIds,  \* EXCHANGES, sorted by id: a sequence
  Settings,     \* the settings of one rollout after the other: a sequence of
                \* [total, requested]; requested is <<>> when nothing is selected
  Instances,    \* the instance ids there are processes for: 0..k
  Minute        \* the seconds of a minute

ASSUME FleetAssumption ==
  /\ ExchangeIds \in Seq(STRING) /\ Len(ExchangeIds) > 0 /\ IsInjective(ExchangeIds)
  /\ Instances \subseteq Nat /\ Minute \in Nat \ {0}
  /\ Settings \in Seq([total : Int, requested : Seq(STRING)]) /\ Len(Settings) > 0

VARIABLES
  target,     \* the settings a process is started with now
  running,    \* running[i]: the settings process i runs with, or Down
  sections,   \* the section rows
  second,     \* the second of the minute
  firing,     \* live jobs that are to run in this second: pairs of process and exchange
  collected,  \* collected[e]: the processes, with their settings, that collected e this minute
  used        \* the settings some process ran with this minute

fleetVars == <<target, running, sections, second, firing, collected, used>>

Down == 0
AllExchanges == Range(ExchangeIds)

-----------------------------------------------------------------------------
(* Settings. *)

(* resolve_enabled_exchanges: no duplicate and no unknown id. *)
Resolvable(requested) == IsInjective(requested) /\ Range(requested) \subseteq AllExchanges

EnabledExchanges(requested) == IF requested = <<>> THEN AllExchanges ELSE Range(requested)

(* The place of e in sorted(S), from 0. *)
Position(e) == CHOOSE k \in DOMAIN ExchangeIds : ExchangeIds[k] = e
Rank(S, e) == Cardinality({f \in S : Position(f) < Position(e)})

(* list[id:]. *)
FromInstanceOn(S, id, total) == {e \in S : Rank(S, e) >= id}

(* Blocks of the same length, the rest left over. *)
BlockOf(S, id, total) == {e \in S : Rank(S, e) \div (Cardinality(S) \div total) = id}

(* _filter_exchanges_by_instance: list[id::total] of the sorted list. *)
FilterByInstance(S, id, total) == {e \in S : Rank(S, e) % total = id}

(* build_runtime_config raises otherwise, and the process ends. *)
Valid(s, id) ==
  /\ s.total > 0 /\ 0 <= id /\ id < s.total
  /\ Resolvable(s.requested)

ExchangesOf(s, id) ==
  IF s.total > 1 THEN FilterByInstance(EnabledExchanges(s.requested), id, s.total)
  ELSE EnabledExchanges(s.requested)

(* Instance 0 has the registry and the service jobs of them all. *)
RegistryExchanges(s, id) == IF id = 0 THEN EnabledExchanges(s.requested) ELSE {}

(* _register_exchange_jobs: the live jobs of a process are spread over the
   minute. *)
SecondOf(S, e) == Rank(S, e) * (Minute \div Cardinality(S))

LiveJobs(s, id) ==
  LET S == ExchangesOf(s, id) IN {[exchange |-> e, second |-> SecondOf(S, e)] : e \in S}

(* _http_max_connections_for_exchanges, and the requests that the adapters of a
   process, ten each, may have under way. *)
MaxConnections(s, id) ==
  LET n == Cardinality(ExchangesOf(s, id) \cup RegistryExchanges(s, id))
  IN  100 * (IF n = 0 THEN 1 ELSE n)

MaxRequests(s, id) == 10 * (Cardinality(ExchangesOf(s, id)) + Cardinality(RegistryExchanges(s, id)))

-----------------------------------------------------------------------------
(* The steps. *)

Up(i) == running[i] # Down

(* The next rollout begins. *)
Rollout ==
  /\ target < Len(Settings) /\ target' = target + 1
  /\ UNCHANGED <<running, sections, second, firing, collected, used>>

(* bootstrap: the section rows first, then the jobs. *)
Start(i) ==
  /\ running[i] # target
  /\ running' = [running EXCEPT ![i] = IF Valid(Settings[target], i) THEN target ELSE Down]
  /\ running' # running
  /\ firing' = {f \in firing : f[1] # i}
  /\ IF running'[i] = Down THEN UNCHANGED <<sections, used>>
     ELSE /\ sections' = sections \cup ExchangesOf(Settings[target], i)
                                  \cup RegistryExchanges(Settings[target], i)
          /\ used' = used \cup {target}
  /\ UNCHANGED <<target, second, collected>>

Die(i) ==
  /\ Up(i)
  /\ running' = [running EXCEPT ![i] = Down]
  /\ firing' = {f \in firing : f[1] # i}
  /\ UNCHANGED <<target, sections, second, collected, used>>

(* A live job runs; what goes wrong in it is logged and forgotten. *)
Collect(i, e) ==
  /\ <<i, e>> \in firing
  /\ firing' = firing \ {<<i, e>>}
  /\ collected' = [collected EXCEPT ![e] = @ \cup {<<i, running[i]>>}]
  /\ UNCHANGED <<target, running, sections, second, used>>

(* The next second, once the jobs of this one have run. *)
PassSecond ==
  /\ firing = {}
  /\ second' = (second + 1) % Minute
  /\ firing' = UNION {{<<i, j.exchange>> : j \in {l \in LiveJobs(Settings[running[i]], i) : l.second = second'}}
                        : i \in {k \in Instances : Up(k)}}
  /\ IF second' = 0
     THEN /\ collected' = [e \in AllExchanges |-> {}]
          /\ used' = {running[i] : i \in {k \in Instances : Up(k)}}
     ELSE UNCHANGED <<collected, used>>
  /\ UNCHANGED <<target, running, sections>>

FleetInit ==
  /\ target = 1
  /\ running = [i \in Instances |-> Down]
  /\ sections = {} /\ second = 0 /\ firing = {}
  /\ collected = [e \in AllExchanges |-> {}] /\ used = {}

FleetNext ==
  \/ Rollout
  \/ \E i \in Instances : Start(i) \/ Die(i)
  \/ \E i \in Instances, e \in AllExchanges : Collect(i, e)
  \/ PassSecond

FleetSpec == FleetInit /\ [][FleetNext]_fleetVars

-----------------------------------------------------------------------------
(* Properties. *)

FleetTypeOK ==
  /\ target \in 1..Len(Settings)
  /\ running \in [Instances -> {Down} \cup 1..target]
  /\ \A i \in Instances : Up(i) => Valid(Settings[running[i]], i)
  /\ second \in 0..(Minute - 1)
  /\ firing \subseteq (Instances \X sections) /\ sections \subseteq AllExchanges
  /\ collected \in [AllExchanges -> SUBSET (Instances \X (1..target))]
  /\ used \subseteq 1..target

(* In a minute an exchange is collected once for every settings in use: once
   in a fleet at rest, twice at most while a rollout replaces one settings by
   another, whichever processes die and come back. *)
OncePerSettings ==
  \A e \in AllExchanges : Cardinality(collected[e]) <= Cardinality(used)

(* Every process that the last settings have a place for runs with them. *)
FleetAtRest ==
  /\ target = Len(Settings)
  /\ \A i \in 0..(Settings[target].total - 1) : i \in Instances /\ running[i] = target

(* A fleet whose processes all run with the same settings in the end collects
   every exchange of the selection again and again. *)
SelectionIsCollected ==
  \A e \in EnabledExchanges(Settings[Len(Settings)].requested) :
    <>[]FleetAtRest => []<>(collected[e] # {})

FleetFairness ==
  /\ WF_fleetVars(PassSecond)
  /\ WF_fleetVars(\E i \in Instances, e \in AllExchanges : Collect(i, e))
===============================================================================
