---------------------------- MODULE HistoryDrivers ----------------------------
(***************************************************************************)
(* How the exchange drivers (tracker/exchanges) fetch the history of one   *)
(* contract.  The jobs give them an instant one second before the oldest   *)
(* or after the newest stored funding; each driver turns it into what its  *)
(* exchange can be asked: a window cut to a page of limited size, all that *)
(* came before an instant, an offset from the present (Backpack), pages    *)
(* behind a cursor (Pacifica), or hours averaged from five-second records  *)
(* (Paradex).                                                              *)
(*                                                                         *)
(* One tick is that second; an hour is Hour ticks, and funding f is the    *)
(* one calculated at tick f * Hour.  The window a driver sends fixes what  *)
(* is answered, however late; there a page is asked for and committed in   *)
(* one step.  Backpack's offset counts from the moment of the answer: its  *)
(* request and its answer are steps of their own, with ticks between them. *)
(* HistorySync interleaves the two jobs; here a request under way is       *)
(* answered or lost before the other job goes on.                          *)
(***************************************************************************)
EXTENDS Integers, FiniteSets

CONSTANTS
  Drivers,        \* the drivers explored, by EXCHANGE_ID
  Hour,           \* ticks of an hour (3600 in the code)
  Slow,           \* the hours of the longest funding interval (8)
  Limit,          \* the records of a full page (100 to 5000)
  CursorPage,     \* Pacifica's records behind one cursor (1000)
  First,          \* the hour of the contract's first funding
  Start,          \* the tick at which the tracker first sees the contract
  Horizon,        \* the last tick explored (a bound of the model)
  UpdateSeconds   \* the ticks of an hour at which a Backpack update can run

ASSUME ClockAssumption ==
  /\ Hour \in Nat /\ Hour > 1 /\ First \in Nat \ {0}
  /\ Start \in Nat /\ Horizon \in Nat /\ First * Hour <= Start /\ Start <= Horizon
  /\ UpdateSeconds \subseteq 0..(Hour - 1)

(* EXCHANGES; hyperliquid-xyz fetches as hyperliquid does. *)
DriverIds == {"aster", "backpack", "binance_coin-m", "binance_usd-m", "bybit", "derive", "dydx",
              "extended", "hyperliquid", "kucoin", "lighter", "okx", "pacifica", "paradex"}

ASSUME PageAssumption ==
  /\ Drivers \subseteq DriverIds
  /\ Slow \in Nat \ {0} /\ First % Slow = 0
  /\ Limit \in Nat /\ Limit > 2 /\ CursorPage \in 1..Limit

VARIABLES
  contract, \* its driver, settlement period, recorded interval and page style
  now,      \* utc_now(), in ticks
  stored,   \* the fundings with a row, by hour
  synced,   \* contract_history_state.history_synced
  paging,   \* a backfill run is inside its loop
  before,   \* its before_timestamp, None for a history that was empty
  since,    \* the hour in which it started
  waiting,  \* the job whose Backpack request is under way, or "nobody"
  asked,    \* the tick at which its offset and limit were computed, or None
  trouble   \* what the contract has met: an update when more than a page was
            \* "behind", one that Backpack answered "late", one "torn" by an
            \* error, a backfill ended by an error "misread" as its end

Troubles == {"behind", "late", "torn", "misread"}

vars == <<contract, now, stored, synced, paging, before, since, waiting, asked, trouble>>

None == -1

Least(S) == CHOOSE f \in S : \A g \in S : f <= g
Greatest(S) == CHOOSE f \in S : \A g \in S : f >= g

Calculated == now \div Hour      \* the last full hour

Fundings == {f \in First..Calculated : f % contract.every = 0}

-----------------------------------------------------------------------------
(* What each get_contracts can record of a contract that settles every hour
   or every Slow hours, and which end of a longer window its exchange keeps.
   OKX and Binance COIN-M record the long interval whatever the exchange does. *)

Hourly == {"hyperliquid", "extended", "lighter", "dydx", "derive", "pacifica", "paradex"}
Assumed == {"okx", "binance_coin-m"}

Contracts ==
  {c \in [driver : Drivers, every : {1, Slow}, interval : {1, Slow},
          keeps : {"oldest", "newest"}] :
     /\ c.driver \in Hourly => c.every = 1
     /\ c.interval = IF c.driver \in Assumed THEN Slow ELSE c.every
     /\ c.driver \in {"lighter", "dydx", "derive", "pacifica", "backpack", "paradex"} =>
          c.keeps = "newest"}

(* _FETCH_STEP, in hours. *)
FetchStep ==
  CASE contract.driver \in {"aster", "binance_coin-m"} -> Slow * Limit
    [] contract.driver \in {"okx", "bybit", "hyperliquid", "lighter"} -> Limit - 2
    [] contract.driver = "extended" -> Limit \div 2
    [] OTHER -> Limit

-----------------------------------------------------------------------------
(* Answers of the exchanges. *)

Newest(n, W) == {f \in W : Cardinality({g \in W : g > f}) < n}
Oldest(n, W) == {f \in W : Cardinality({g \in W : g < f}) < n}
Kept(n, W) == IF contract.keeps = "oldest" THEN Oldest(n, W) ELSE Newest(n, W)

Within(start, end) == {f \in Fundings : start <= f * Hour /\ f * Hour <= end}

(* _fetch_history of each driver. *)
Aster(start, end) == Kept(Limit, Within(start, end))
BinanceUsdm(start, end) == Kept(Limit, Within(start, end))
BinanceCoinm(start, end) == Kept(Limit, Within(start, end))
Bybit(start, end) == Kept(Limit, Within(start, end))
Kucoin(start, end) == Kept(Limit, Within(start, end))
Extended(start, end) == Kept(Limit, Within(start, end))
Hyperliquid(start, end) == Kept(Limit, Within(start, end))

(* count_back counts from the end of the window. *)
Lighter(start, end) == Newest(Limit, Within(start, end))

(* "after" is the end and "before" the start, both exclusive. *)
Okx(start, end) == Kept(Limit, Within(start + 1, end - 1))

(* Neither sends the start of the window: dYdX answers the page that ends at
   its end, Derive the 30 days. *)
Dydx(start, end) == Newest(Limit, Within(0, end))
Derive(start, end) == Within(end - Limit * Hour + 1, end)

(* Every page from the newest on is read and filtered, until no more is left
   or the points collected reach the maximum. *)
CursorOf(f) == Cardinality({g \in Fundings : g > f}) \div CursorPage
Pacifica(start, end) ==
  LET W == Within(start, end)
  IN  {f \in W : Cardinality({g \in W : CursorOf(g) < CursorOf(f)}) < Limit}

FetchHistory(start, end) ==
  CASE contract.driver = "aster" -> Aster(start, end)
    [] contract.driver = "binance_usd-m" -> BinanceUsdm(start, end)
    [] contract.driver = "binance_coin-m" -> BinanceCoinm(start, end)
    [] contract.driver = "bybit" -> Bybit(start, end)
    [] contract.driver = "kucoin" -> Kucoin(start, end)
    [] contract.driver = "extended" -> Extended(start, end)
    [] contract.driver = "hyperliquid" -> Hyperliquid(start, end)
    [] contract.driver = "lighter" -> Lighter(start, end)
    [] contract.driver = "okx" -> Okx(start, end)
    [] contract.driver = "dydx" -> Dydx(start, end)
    [] contract.driver = "derive" -> Derive(start, end)
    [] contract.driver = "pacifica" -> Pacifica(start, end)

(* The windows of BaseExchange. *)
WindowBefore(end) == FetchHistory(end - FetchStep * Hour, end)
WindowAfter(after) == FetchHistory(after, now)

-----------------------------------------------------------------------------
(* Backpack: GET fundingRates answers limit records from offset on, backward
   from the present; offset 0 is the funding still running. *)

Period == contract.interval * Hour
Step == FetchStep \div contract.interval

Records(offset, limit) ==
  {f \in Fundings : LET n == (f * Hour) \div Period
                        last == now \div Period
                    IN  last - (offset + limit - 2) <= n /\ n <= last - (offset - 1)}

(* The window's start taken for its end. *)
BeforeFromWindowStart(end, at) == Records(1 + Step + ((at - end) \div Period), Step)

(* The offset is computed when the page is asked for, at tick at, and rounded
   toward the present; the exchange counts it from the tick of its answer. *)
BackpackBefore(end, at) == Records(1 + ((at - end) \div Period), Step)

(* The latest funding only, as if no hour were ever missed. *)
LatestAfter(after, at) == {f \in Records(1, 1) : f * Hour > after}

(* The number of whole intervals since, from the last funding on. *)
BackpackAfter(after, at) ==
  LET limit == (at - after) \div Period
  IN  {f \in Records(1, limit) : f * Hour > after}

-----------------------------------------------------------------------------
(* Paradex: a funding is the average over the hour that ends with it. *)

(* _aggregate_to_hourly of the records between two full hours.  No record is
   stamped at the very end of the window: it would open the next hour. *)
HourlyAverages(start, end) == {f \in Fundings : start < f * Hour /\ f * Hour <= end}

(* Both ends of the window are full hours. *)
ParadexBefore(end) ==
  LET top == (end \div Hour) * Hour IN HourlyAverages(top - FetchStep * Hour, top)

(* hours_to_fetch: from the hour after after_timestamp's to the last full one. *)
HoursToFetch(after) == (after \div Hour + 1)..Calculated

(* Hour by hour, each from enough samples of the live job or from the records
   of the exchange; a request that fails leaves nothing stored. *)
ParadexAfter(after) ==
  {f \in HoursToFetch(after) : f \in HourlyAverages((f - 1) * Hour, f * Hour)}

-----------------------------------------------------------------------------
(* fetch_history_before and fetch_history_after, asked at tick at. *)

HistoryBefore(end, at) ==
  CASE contract.driver = "backpack" -> BackpackBefore(end, at)
    [] contract.driver = "paradex" -> ParadexBefore(end)
    [] OTHER -> WindowBefore(end)

HistoryAfter(after, at) ==
  CASE contract.driver = "backpack" -> BackpackAfter(after, at)
    [] contract.driver = "paradex" -> ParadexAfter(after)
    [] OTHER -> WindowAfter(after)

(* The drivers that take the body of an error, sent with status 200, for an
   answer without records.  Pacifica keeps the cursor pages it has read. *)
Silent == {"okx", "bybit", "derive", "dydx", "lighter"}

Misread(page) ==
  CASE contract.driver \in Silent -> {{}}
    [] contract.driver = "pacifica" -> {{g \in page : CursorOf(g) < CursorOf(f)} : f \in page}
    [] OTHER -> {}

(* What the job takes for the page. *)
Answers(page) == {page} \cup Misread(page)

-----------------------------------------------------------------------------
(* The jobs. *)

IsBackpack == contract.driver = "backpack"

When(condition, event) == IF condition THEN {event} ELSE {}

(* The tick at which the page was computed, and whether its answer is there. *)
At == IF IsBackpack THEN asked ELSE now
Answered(job) == waiting = IF IsBackpack THEN job ELSE "nobody"

(* The oldest stored funding itself as before_timestamp. *)
BackfillStartAtOldest ==
  /\ ~paging /\ ~synced /\ waiting = "nobody"
  /\ paging' = TRUE
  /\ before' = IF stored = {} THEN None ELSE Least(stored) * Hour
  /\ since' = Calculated
  /\ UNCHANGED <<contract, now, stored, synced, waiting, asked, trouble>>

(* before_timestamp is a second before the oldest stored funding. *)
BackfillStart ==
  /\ ~paging /\ ~synced /\ waiting = "nobody"
  /\ paging' = TRUE
  /\ before' = IF stored = {} THEN None ELSE Least(stored) * Hour - 1
  /\ since' = Calculated
  /\ UNCHANGED <<contract, now, stored, synced, waiting, asked, trouble>>

BackfillAsked == HistoryBefore(IF before = None THEN At ELSE before, At)

BackfillPage ==
  /\ paging /\ Answered("backfill")
  /\ \E page \in Answers(BackfillAsked) \ {{}} :
       /\ stored' = stored \cup page
       /\ before' = Least(page) * Hour - 1
  /\ waiting' = "nobody" /\ asked' = None
  /\ UNCHANGED <<contract, now, synced, paging, since, trouble>>

BackfillEnd ==
  /\ paging /\ Answered("backfill")
  /\ {} \in Answers(BackfillAsked)
  /\ synced' = (before # None)
  /\ paging' = FALSE /\ before' = None
  /\ trouble' = trouble \cup When(BackfillAsked # {}, "misread")
  /\ waiting' = "nobody" /\ asked' = None
  /\ UNCHANGED <<contract, now, stored, since>>

(* The run's timeout, a failed request or the end of the process. *)
BackfillAbort ==
  /\ paging /\ waiting # "update"
  /\ paging' = FALSE /\ before' = None
  /\ waiting' = "nobody" /\ asked' = None
  /\ UNCHANGED <<contract, now, stored, synced, since, trouble>>

(* A second after the newest stored funding, or before the current hour. *)
After(at) == IF stored = {} THEN (at \div Hour) * Hour - 1 ELSE Greatest(stored) * Hour + 1

Due ==
  /\ IsBackpack => now % Hour \in UpdateSeconds
  /\ stored = {} \/ now - After(now) >= contract.interval * Hour

Missing == {f \in Fundings : f * Hour > After(At)}

(* One pass of the history update, if the contract was due. *)
Update ==
  /\ Answered("update")
  /\ ~IsBackpack => Due
  /\ \E page \in Answers(HistoryAfter(After(At), At)) :
       /\ stored' = stored \cup page
       /\ trouble' = trouble \cup When(page \notin {{}, HistoryAfter(After(At), At)}, "torn")
                             \cup When(Cardinality(Missing) > Limit, "behind")
                             \cup When(now \div Period # At \div Period, "late")
  /\ waiting' = "nobody" /\ asked' = None
  /\ UNCHANGED <<contract, now, synced, paging, before, since>>

(* The request of the update is lost. *)
UpdateAbort ==
  /\ waiting = "update"
  /\ waiting' = "nobody" /\ asked' = None
  /\ UNCHANGED <<contract, now, stored, synced, paging, before, since, trouble>>

(* Backpack's offset and limit are computed and the request goes out, to be
   sent again while it fails. *)
BackpackAsk ==
  /\ IsBackpack /\ waiting = "nobody"
  /\ \/ paging /\ waiting' = "backfill"
     \/ Due /\ waiting' = "update"
  /\ asked' = now
  /\ UNCHANGED <<contract, now, stored, synced, paging, before, since, trouble>>

(* A run of either job times out after 59 minutes: it sees at most one change
   of the hour. *)
Tick ==
  /\ now < Horizon /\ now' = now + 1
  /\ paging => now' \div Hour <= since + 1
  /\ waiting = "update" => now' \div Hour <= asked \div Hour + 1
  /\ UNCHANGED <<contract, stored, synced, paging, before, since, waiting, asked, trouble>>

Init ==
  /\ contract \in Contracts
  /\ now = Start /\ stored = {} /\ synced = FALSE /\ paging = FALSE /\ before = None
  /\ since = Calculated
  /\ waiting = "nobody" /\ asked = None /\ trouble = {}

Next ==
  \/ BackfillStart \/ BackfillPage \/ BackfillEnd \/ BackfillAbort
  \/ BackpackAsk \/ Update \/ UpdateAbort \/ Tick

Spec == Init /\ [][Next]_vars

-----------------------------------------------------------------------------
(* Properties. *)

(* Every variable has its type; only stored fundings are marked synced. *)
TypeOK ==
  /\ contract \in Contracts
  /\ now \in Start..Horizon
  /\ stored \subseteq Fundings
  /\ synced \in BOOLEAN /\ paging \in BOOLEAN
  /\ before \in {None} \cup {f * Hour - 1 : f \in stored}
  /\ since \in 0..Calculated
  /\ waiting \in {"nobody", "backfill", "update"} /\ trouble \subseteq Troubles
  /\ asked \in IF waiting = "nobody" THEN {None} ELSE Start..now
  /\ synced => stored # {}

(* A step that asks for no more fundings than a page holds. *)
StepFitsPage == FetchStep <= Limit * contract.every

(* Drivers whose update never leaves out the fundings right after the newest
   stored one, however many are missing. *)
CatchesUp == contract.driver \in {"backpack", "paradex"} \/ contract.keeps = "oldest"

(* No driver that is given the newest fundings only has been left behind,
   Backpack has answered the updates in the interval they were asked in, and no
   error has cut the older part off an update of Pacifica. *)
PagesJoin ==
  /\ StepFitsPage
  /\ CatchesUp \/ "behind" \notin trouble
  /\ "late" \notin trouble /\ "torn" \notin trouble

(* Whatever a driver makes of the window, of its roundings, of ends left out
   or counted in, wherever in the hour the pages fall, however late a page of
   Backpack's backfill comes and whatever error is taken for the end of a page,
   no funding between the stored bounds is left out, as long as PagesJoin holds:
   the cases it names do leave fundings out. *)
NoFundingSkipped ==
  PagesJoin =>
    \A f \in stored, g \in stored : f..g \cap Fundings \subseteq stored

(* As long as the pages join and no error is taken for the end of the history,
   what the drivers answer extends the ledger of the fundings so far at its ends,
   and the run that ends a backfill closes it. *)
Ledger == INSTANCE HistoryLedger WITH
            settled <- Fundings, ledger <- stored, complete <- synced

ImplementsLedger ==
  Ledger!LedgerInit
  /\ [][PagesJoin' /\ "misread" \notin trouble' => Ledger!LedgerNext]_(Ledger!ledgerVars)

(* A contract whose backfill no error has ended has every funding from the first
   on once it is synced: no window, offset or cursor, and no answer that comes
   late, falls short of an older funding and ends the backfill above it. *)
SyncedFromTheFirst == synced /\ "misread" \notin trouble => First \in stored
==============================================================================
