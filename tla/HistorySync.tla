----------------------------- MODULE HistorySync -----------------------------
(***************************************************************************)
(* The settled history of one contract, built by two hourly jobs of the    *)
(* tracker that know nothing of each other:                                *)
(*                                                                         *)
(*   - history backfill (history_backfill.py) pages backward from the      *)
(*     oldest stored point until the exchange answers an empty page, and   *)
(*     then marks the contract synced;                                     *)
(*   - history update (history_update.py) fetches forward from the newest  *)
(*     stored point.                                                       *)
(*                                                                         *)
(* Each reads the checkpoint row once, awaits the exchange, and commits    *)
(* points and bounds in one transaction (historical_persistence.py), so    *)
(* what a job persists was computed from a checkpoint that the other job   *)
(* may have moved since.                                                   *)
(*                                                                         *)
(* Time is in hours, the grid on which exchanges settle.  A bound of "t    *)
(* plus or minus one second" in the code is a strict comparison here.  A   *)
(* job run times out after 59 minutes, so it sees at most one new hour.    *)
(***************************************************************************)
EXTENDS Integers, FiniteSets, TLC

CONSTANTS
  Settled,    \* the hours at which the exchange settled this contract
  Step,       \* _FETCH_STEP: the hours one backward page asks for
  Limit,      \* the most points the exchange puts in one page
  PageStyle,  \* which points of a longer window it keeps: its oldest or newest
  Errors,     \* what the driver makes of an error inside an answer: see Answers
  Interval,   \* contract.funding_interval, in hours
  Start,      \* the hour at which the tracker first sees the contract
  Horizon     \* the last hour explored (a bound of the model)

ASSUME GridAssumption ==
  /\ Start \in Nat \ {0} /\ Horizon \in Nat /\ Start <= Horizon
  /\ Settled \subseteq 1..Horizon /\ IsFiniteSet(Settled)

ASSUME PagingAssumption ==
  /\ Step \in Nat \ {0} /\ Limit \in Nat \ {0} /\ Interval \in Nat \ {0}
  /\ PageStyle \in {"oldest_first", "newest_first"}
  /\ Errors \in {"raised", "empty", "partial"}

VARIABLES
  now,       \* the current hour
  active,    \* the contract is listed (not deprecated)
  stored,    \* the hours that have a row in historical_funding_point
  oldest,    \* contract_history_state.oldest_timestamp
  newest,    \* contract_history_state.newest_timestamp
  synced,    \* contract_history_state.history_synced
  bpc,       \* backfill: "idle", "paging" (about to ask) or "answered"
  bBefore,   \* backfill: before_timestamp, as the hour it is just before
  bPage,     \* backfill: the page the exchange answered
  bSince,    \* backfill: the hour this run started
  upc,       \* update: "idle", "asking" or "answered"
  uAfter,    \* update: after_timestamp, as the hour it is just after
  uPage,     \* update: the page the exchange answered
  uSince     \* update: the hour this run started

state == <<stored, oldest, newest, synced>>
backfill == <<bpc, bBefore, bPage, bSince>>
update == <<upc, uAfter, uPage, uSince>>
vars == <<now, active, state, backfill, update>>

None == 0    \* a NULL timestamp

Hours == 1..Horizon

MinOf(S) == CHOOSE x \in S : \A y \in S : x <= y
MaxOf(S) == CHOOSE x \in S : \A y \in S : x >= y

-----------------------------------------------------------------------------
(* The exchange. *)

Between(first, last) == {p \in Settled : first <= p /\ p <= last /\ p <= now}

Page(window) ==
  {p \in window :
     Cardinality({q \in window : IF PageStyle = "oldest_first" THEN q < p
                                                               ELSE q > p}) < Limit}

(* A page that starts at the stored bound asks for that point again, which a
   driver that pages by offset does. *)
InclusiveHistoryBefore(before) ==
  LET end == IF before = None THEN now ELSE before
  IN  Page(Between(end + 1 - Step, end))

(* fetch_history_before: the Step hours that end at before, or at the present
   when nothing is stored. *)
HistoryBefore(before) ==
  LET end == IF before = None THEN now ELSE before - 1
  IN  Page(Between(end + 1 - Step, end))

HistoryAfter(after) == Page(Between(after + 1, now))

(* What a job can be given for a page.  An error that the exchange reports in
   the body of an answer is "raised" by nine drivers (it ends the run), read as
   an "empty" page by OKX's, Bybit's, Derive's, dYdX's and Lighter's, and taken
   by Pacifica's for the end of the pages behind its cursor: the answer is then
   the newer part of the page, or nothing. *)
Answers(page) ==
  CASE Errors = "raised" -> {page}
    [] Errors = "empty" -> {page, {}}
    [] OTHER -> {part \in SUBSET page : \A p \in part, q \in page : p < q => q \in part}

-----------------------------------------------------------------------------
(* The checkpoint row. *)

(* The bounds of the last batch, whatever the row says. *)
OverwritingBounds(batch) ==
  /\ oldest' = MinOf(batch)
  /\ newest' = MaxOf(batch)

(* least() and greatest() of the row's bounds and the batch's. *)
MergeBounds(batch) ==
  /\ oldest' = IF oldest = None \/ MinOf(batch) < oldest THEN MinOf(batch) ELSE oldest
  /\ newest' = IF newest = None \/ MaxOf(batch) > newest THEN MaxOf(batch) ELSE newest

Persist(batch) ==
  /\ stored' = stored \cup batch
  /\ MergeBounds(batch)
  /\ UNCHANGED synced

-----------------------------------------------------------------------------
(* History backfill. *)

(* The job selects active contracts that are not synced and keeps the
   checkpoint it read for as long as it pages. *)
BackfillStart ==
  /\ bpc = "idle" /\ active /\ ~synced
  /\ bpc' = "paging"
  /\ bBefore' = oldest
  /\ bSince' = now
  /\ UNCHANGED <<now, active, state, bPage, update>>

BackfillFetch ==
  /\ bpc = "paging"
  /\ bpc' = "answered"
  /\ bPage' \in Answers(HistoryBefore(bBefore))
  /\ UNCHANGED <<now, active, state, bBefore, bSince, update>>

(* A page is committed and the next one is asked for before its oldest point. *)
BackfillPersist ==
  /\ bpc = "answered" /\ bPage # {}
  /\ Persist(bPage)
  /\ bBefore' = MinOf(bPage)
  /\ bpc' = "paging"
  /\ bPage' = {}
  /\ UNCHANGED <<now, active, bSince, update>>

(* The mark without the has_stored_history guard. *)
BackfillEndUnguarded ==
  /\ bpc = "answered" /\ bPage = {}
  /\ synced' = TRUE
  /\ bpc' = "idle" /\ bBefore' = None
  /\ UNCHANGED <<now, active, stored, oldest, newest, bPage, bSince, update>>

(* An empty page ends the run.  The contract is marked synced only if the run
   has stored history behind it, which is exactly when it has a
   before_timestamp. *)
BackfillEnd ==
  /\ bpc = "answered" /\ bPage = {}
  /\ synced' = (synced \/ bBefore # None)
  /\ bpc' = "idle" /\ bBefore' = None
  /\ UNCHANGED <<now, active, stored, oldest, newest, bPage, bSince, update>>

(* The exchange or the database fails, or the run times out: what is not
   committed is gone. *)
BackfillAbort ==
  /\ bpc # "idle"
  /\ bpc' = "idle" /\ bBefore' = None /\ bPage' = {}
  /\ UNCHANGED <<now, active, state, bSince, update>>

-----------------------------------------------------------------------------
(* History update. *)

(* A contract is left alone until an interval has passed since its newest
   point. *)
IsFresh == newest # None /\ now - newest < Interval

(* The current hour, whatever is stored. *)
CurrentHourOnly == now - 1

(* The newest bound, without the case of an empty history. *)
NextFetchUnchecked == newest - 1

(* start_of_hour(now) - 1s for an empty history, newest_timestamp + 1s
   otherwise. *)
NextFetch == IF newest = None THEN now - 1 ELSE newest

UpdateStart ==
  /\ upc = "idle" /\ active /\ ~IsFresh
  /\ upc' = "asking"
  /\ uAfter' = NextFetch
  /\ uSince' = now
  /\ UNCHANGED <<now, active, state, uPage, backfill>>

UpdateFetch ==
  /\ upc = "asking"
  /\ upc' = "answered"
  /\ uPage' \in Answers(HistoryAfter(uAfter))
  /\ UNCHANGED <<now, active, state, uAfter, uSince, backfill>>

UpdatePersist ==
  /\ upc = "answered"
  /\ IF uPage = {} THEN UNCHANGED state ELSE Persist(uPage)
  /\ upc' = "idle" /\ uAfter' = None /\ uPage' = {}
  /\ UNCHANGED <<now, active, uSince, backfill>>

UpdateAbort ==
  /\ upc # "idle"
  /\ upc' = "idle" /\ uAfter' = None /\ uPage' = {}
  /\ UNCHANGED <<now, active, state, uSince, backfill>>

-----------------------------------------------------------------------------
(* The process, the registry and the clock. *)

Crash ==
  /\ bpc # "idle" \/ upc # "idle"
  /\ bpc' = "idle" /\ bBefore' = None /\ bPage' = {}
  /\ upc' = "idle" /\ uAfter' = None /\ uPage' = {}
  /\ UNCHANGED <<now, active, state, bSince, uSince>>

(* The registry deprecates a contract that left the listing and reactivates
   one that came back; a job that selected it before goes on. *)
Relist ==
  /\ active' = ~active
  /\ UNCHANGED <<now, state, backfill, update>>

(* Runs that nothing times out. *)
AdvanceUntimed ==
  /\ now < Horizon
  /\ now' = now + 1
  /\ UNCHANGED <<active, state, backfill, update>>

(* HISTORY_BACKFILL_TIMEOUT_SECONDS and HISTORY_UPDATE_TIMEOUT_SECONDS are 59
   minutes: no run lives through two changes of the hour. *)
Advance ==
  /\ now < Horizon
  /\ bpc # "idle" => bSince = now
  /\ upc # "idle" => uSince = now
  /\ now' = now + 1
  /\ UNCHANGED <<active, state, backfill, update>>

-----------------------------------------------------------------------------
Init ==
  /\ now = Start /\ active = TRUE
  /\ stored = {} /\ oldest = None /\ newest = None /\ synced = FALSE
  /\ bpc = "idle" /\ bBefore = None /\ bPage = {} /\ bSince = Start
  /\ upc = "idle" /\ uAfter = None /\ uPage = {} /\ uSince = Start

BackfillStep ==
  BackfillStart \/ BackfillFetch \/ BackfillPersist \/ BackfillEnd \/ BackfillAbort

UpdateStep == UpdateStart \/ UpdateFetch \/ UpdatePersist \/ UpdateAbort

Next == BackfillStep \/ UpdateStep \/ Crash \/ Relist \/ Advance

Spec == Init /\ [][Next]_vars

(* The scheduler starts both jobs again every hour, the exchange does not fail
   every single time and the process does not always die before a commit. *)
Fairness ==
  /\ WF_vars(Advance)
  /\ SF_vars(BackfillStart) /\ SF_vars(BackfillFetch)
  /\ SF_vars(BackfillPersist) /\ SF_vars(BackfillEnd)
  /\ SF_vars(UpdateStart) /\ SF_vars(UpdateFetch) /\ SF_vars(UpdatePersist)

FairSpec == Spec /\ Fairness

-----------------------------------------------------------------------------
(* Properties. *)

TypeOK ==
  /\ now \in Start..Horizon
  /\ active \in BOOLEAN /\ synced \in BOOLEAN
  /\ stored \subseteq Settled
  /\ oldest \in Hours \cup {None} /\ newest \in Hours \cup {None}
  /\ bpc \in {"idle", "paging", "answered"} /\ upc \in {"idle", "asking", "answered"}
  /\ bBefore \in Hours \cup {None} /\ bPage \subseteq Settled
  /\ uAfter \in 0..Horizon /\ uPage \subseteq Settled
  /\ bSince \in Start..Horizon /\ uSince \in Start..Horizon

(* The checkpoint row never claims more or less than what is stored: its
   bounds are the oldest and the newest stored point, whichever job committed
   last and from however old a reading (update_bounds), and a synced contract
   has a history. *)
BoundsMatchStored ==
  /\ stored = {} => oldest = None /\ newest = None
  /\ stored # {} => /\ oldest = MinOf(stored)
                    /\ newest = MaxOf(stored)
  /\ synced => stored # {}

(* The two jobs read only the bounds, so a settled point between them that is
   not stored would never be asked for again: there is none, although the jobs
   run concurrently and stop at any point, and a page may be read as empty (but
   not in part). *)
NoHole ==
  \A p \in Settled : (oldest # None /\ oldest <= p /\ p <= newest) => p \in stored

(* history_synced tells that the full backfill completed: nothing that settled
   before the newest stored point is missing, and no later backfill will look.
   It is so for the drivers that raise the errors they are answered. *)
HistoryComplete ==
  synced => \A p \in Settled : p <= newest => p \in stored

(* Progress is monotone: no commit, of a page read from a stale checkpoint or
   of a page read twice, moves a bound inward, unsets synced or loses a point. *)
ProgressIsMonotone ==
  [][/\ stored \subseteq stored'
     /\ oldest # None => oldest' # None /\ oldest' <= oldest
     /\ newest' >= newest
     /\ synced => synced']_vars

(* Seen as the ledger of the settlements so far, the history of a contract is
   extended at its ends only and closed once, by whichever job commits and from
   however old a reading of the checkpoint, if the driver raises errors. *)
Ledger == INSTANCE HistoryLedger WITH
            settled <- {p \in Settled : p <= now}, ledger <- stored, complete <- synced

ImplementsLedger == Ledger!LedgerSpec

(* A contract that stays listed ends up synced with every settled point stored,
   through any number of failed runs and crashes before that.  Its driver raises
   errors, and its pages end before the oldest point, which Backpack's do in the
   last second of an interval only. *)
EventuallyComplete ==
  <>[]active => <>[](synced /\ stored = Settled)
==============================================================================
