---------------------------- MODULE FundingQueries ----------------------------
(***************************************************************************)
(* The read side: the queries behind /funding-data (api/queries) as        *)
(* operators over the tables, and a client that reads a comparison page by *)
(* page while rows, contracts and the view they are filtered by change.    *)
(*                                                                         *)
(* History runs on a clock of ticks, Hour of them to an hour, and a        *)
(* contract's stored settlements go without a hole from Listed to newest   *)
(* (HistorySync); live samples are numbered by minute, all of them younger *)
(* than the ten minutes a query reads.  Rates are integers, results are in *)
(* units of 1/Precision; NULL is the empty set, a value its singleton.     *)
(***************************************************************************)
EXTENDS Integers, FiniteSets, Sequences, Functions

CONSTANTS
  Ids,          \* contracts, in the order of their UUIDs
  Asset, Section, Quote,  \* of each contract
  Every,        \* the hours between two of its settlements
  Listed,       \* the tick of its first stored settlement
  Rates,        \* its settled rates, in turn
  LiveRates,    \* its live rate at each minute
  Recorded,     \* the funding_interval first recorded
  Requests,     \* the comparisons a client asks for
  Limit,        \* rows of a page
  Hour,         \* ticks of an hour
  Buffer,       \* buffer_minutes, in ticks (30 minutes unless the client says otherwise)
  Precision,
  Days,         \* the day windows asked for
  Spans,        \* ranges asked for: how far back from and to are, in ticks
  MaxDelisted,  \* contracts delisted in a run (a bound of the model)
  Base, LastTick,  \* the first and the last tick explored (bounds of the model)
  LastMinute    \* the last minute explored (a bound of the model)

None == -1
All == "all"
NoSection == ""
Raw == 0          \* NormalizeToInterval.RAW; otherwise the target hours

Intervals == {1, 4, 8}
ContractRows == [interval : Intervals, deprecated : BOOLEAN]

ASSUME QueryAssumption ==
  /\ Ids \subseteq Nat /\ IsFiniteSet(Ids) /\ Limit \in Nat \ {0}
  /\ Asset \in [Ids -> STRING] /\ Section \in [Ids -> STRING \ {All, NoSection}]
  /\ Every \in [Ids -> Intervals] /\ Recorded \in [Ids -> Intervals] /\ Listed \in [Ids -> Nat]
  /\ Rates \in [Ids -> Seq(Int)] /\ \A c \in Ids : Len(Rates[c]) >= 1
  /\ LiveRates \in [Ids -> Seq(Int)] /\ \A c \in Ids : Len(LiveRates[c]) >= LastMinute
  /\ Requests \subseteq [assets : SUBSET STRING, sections : SUBSET STRING, compare : STRING,
                        norm : Nat, min : Int]
  /\ Hour \in Nat \ {0} /\ Buffer \in Int /\ Precision \in Nat \ {0}
  /\ Days \subseteq Nat \ {0} /\ Spans \subseteq Nat \X Nat
  /\ Base \in Nat /\ LastTick \in Nat /\ Base <= LastTick /\ LastMinute \in Nat \ {0}
  /\ \A c \in Ids : Listed[c] <= Base - (Base % (Every[c] * Hour))

VARIABLES
  contract,  \* contract rows: the recorded funding_interval, and deprecated
  enriched,  \* contract_enriched: the rows as of its last refresh
  minute,    \* the minute of the newest live snapshots
  live,      \* live[c]: the minute of the newest sample of c, None for none
  now,       \* NOW(), in ticks
  newest,    \* newest[c]: the tick of the newest stored settlement of c
  request,   \* what the client compares
  page       \* how far it has read

queryVars == <<contract, enriched, minute, live, now, newest, request, page>>

-----------------------------------------------------------------------------
(* Filters and pairs. *)

In(list, name) == All \in list \/ name \in list

ProcessFilterList(list) == IF list = {} \/ All \in list THEN {All} ELSE list

(* A named section filter is joined by the section compared with. *)
ProcessSections(list, compare) ==
  LET processed == ProcessFilterList(list)
  IN  IF compare = NoSection \/ All \in processed THEN processed ELSE processed \cup {compare}

(* filtered_contracts, from the materialized view. *)
FilteredContracts(assets, sections) ==
  {c \in Ids : ~enriched[c].deprecated /\ In(assets, Asset[c]) /\ In(sections, Section[c])}

SliceContracts(assets, sections) ==
  FilteredContracts(IF assets = {} THEN {All} ELSE assets,
                    IF sections = {} THEN {All} ELSE sections)

(* Both orders of a pair. *)
PairingEitherWay(a, b, compare) ==
  IF compare = NoSection THEN a # b ELSE Section[a] = compare /\ Section[b] # compare

PairingCondition(a, b, compare) ==
  IF compare = NoSection THEN a < b ELSE Section[a] = compare /\ Section[b] # compare

ContractPairs(q) ==
  LET F == FilteredContracts(ProcessFilterList(q.assets), ProcessSections(q.sections, q.compare))
  IN  {p \in F \X F : Asset[p[1]] = Asset[p[2]] /\ PairingCondition(p[1], p[2], q.compare)}

Abs(x) == IF x < 0 THEN -x ELSE x

MinDiff(q, diff) == q.min < 0 \/ Abs(diff) >= q.min

-----------------------------------------------------------------------------
(* Normalization: target hours over the contract's funding interval. *)

Normalized(rate, norm, interval) ==
  IF norm = Raw THEN rate * Precision ELSE (rate * Precision * norm) \div interval

Mean(sum, count, norm, interval) == Normalized(sum, norm, interval) \div count

-----------------------------------------------------------------------------
(* Live queries. *)

LiveRate(c) == LiveRates[c][live[c]]

HasLive(c) == live[c] # None

(* live_latest: a row for every contract of the slice, empty without a sample. *)
LiveLatest(c, norm) ==
  {Normalized(LiveRate(d), norm, enriched[d].interval) : d \in {d \in {c} : HasLive(d)}}

(* diff/live_differences, before paging. *)
LiveDifferences(q) ==
  LET rate(c) == Normalized(LiveRate(c), q.norm, enriched[c].interval)
      row(p) == [pair |-> p, diff |-> rate(p[1]) - rate(p[2])]
      P == {p \in ContractPairs(q) : HasLive(p[1]) /\ HasLive(p[2])}
  IN  {r \in {row(p) : p \in P} : MinDiff(q, r.diff)}

(* The contracts a wall reads: no view and no quotes. *)
WallContracts(asset, section) ==
  {c \in Ids : ~contract[c].deprecated /\ Asset[c] = asset /\ Section[c] = section}

(* funding-wall, live: of the contracts in a cell one with the newest sample,
   any of them when several have it. *)
WallLive(asset, section, norm) ==
  LET C == {c \in WallContracts(asset, section) : HasLive(c)}
  IN  {Normalized(LiveRate(c), norm, contract[c].interval) :
         c \in {d \in C : \A e \in C : live[e] <= live[d]}}

-----------------------------------------------------------------------------
(* Historical queries. *)

Settled(c) ==
  LET step == Every[c] * Hour IN {k * step : k \in ((Listed[c] + step - 1) \div step)..(newest[c] \div step)}

RateAt(c, t) == Rates[c][1 + ((t \div (Every[c] * Hour)) % Len(Rates[c]))]

Total(c, T) == SumFunction([t \in T |-> RateAt(c, t)])

(* validate_time_range. *)
ValidRange(from, to) == from < to /\ to <= now /\ from >= now - 365 * 24 * Hour

(* historical_points: the settlements answered; each rate is normalized by
   the interval of the contract row. *)
PointsBetween(c, from, to) == {t \in Settled(c) : from <= t /\ t <= to}
HistoricalPoint(c, t, norm) == Normalized(RateAt(c, t), norm, contract[c].interval)

(* historical_latest, of the last thirty days. *)
HistoricalLatest(c, norm) ==
  LET P == PointsBetween(c, now - 30 * 24 * Hour, now)
  IN  {Normalized(RateAt(c, t), norm, enriched[c].interval) : t \in {t \in P : t = newest[c]}}

(* The windows of a cumulative comparison: one for each greatest interval of
   a pair, aligned to it. *)
Bucket(hours, t) == t - (t % (hours * Hour))

PairHours(p) ==
  IF enriched[p[1]].interval >= enriched[p[2]].interval
  THEN enriched[p[1]].interval ELSE enriched[p[2]].interval

DistinctWindows(P, from, to) ==
  {[hours |-> PairHours(p), from |-> Bucket(PairHours(p), from), to |-> Bucket(PairHours(p), to)]
     : p \in P}

Shared(W, w) == {v \in W : v.from = w.from /\ v.to = w.to}

(* The end taken in. *)
InClosedWindow(t, w) == w.from - Buffer <= t /\ t <= w.to

InWindow(t, w) == w.from - Buffer <= t /\ t < w.to

(* A record is joined with every window it is in and summed by the bounds of
   the window, without its hours. *)
FundingInWindow(c, W, w) ==
  Cardinality(Shared(W, w)) * Total(c, {t \in Settled(c) : InWindow(t, w)})

(* diff/historical_cumulative_differences, before paging. *)
CumulativeDifferences(q, from, to) ==
  LET P == ContractPairs(q)
      W == DistinctWindows(P, from, to)
      window(p) == CHOOSE w \in W : w.hours = PairHours(p)
      first(p) == FundingInWindow(p[1], W, window(p))
      second(p) == FundingInWindow(p[2], W, window(p))
      row(p) == [pair |-> p, window |-> window(p), first |-> first(p), second |-> second(p),
                 diff |-> first(p) - second(p)]
  IN  {r \in {row(p) : p \in P} : MinDiff(q, r.diff)}

(* diff/historical_differences, normalized: a contract without a point in the
   range counts as 0. *)
AverageDifferences(q, from, to) ==
  LET avg(c) == LET T == PointsBetween(c, from, to)
                IN  IF T = {} THEN 0
                    ELSE Mean(Total(c, T), Cardinality(T), q.norm, enriched[c].interval)
      row(p) == [pair |-> p, first |-> avg(p[1]), second |-> avg(p[2]),
                 diff |-> avg(p[1]) - avg(p[2])]
  IN  {r \in {row(p) : p \in ContractPairs(q)} : MinDiff(q, r.diff)}

(* funding-wall, historical, raw: summed over the quotes of a cell. *)
WallSum(asset, section, from, to) ==
  LET C == {c \in WallContracts(asset, section) : PointsBetween(c, from, to) # {}}
  IN  IF C = {} THEN {}
      ELSE {SumFunction([c \in C |-> Precision * Total(c, PointsBetween(c, from, to))])}

(* funding-wall, historical, normalized: a row for every interval in a cell;
   the last one read is shown. *)
WallAverage(asset, section, from, to, norm) ==
  LET C == {c \in WallContracts(asset, section) : PointsBetween(c, from, to) # {}}
      group(h) == {c \in C : contract[c].interval = h}
      sum(h) == SumFunction([c \in group(h) |-> Total(c, PointsBetween(c, from, to))])
      count(h) == SumFunction([c \in group(h) |-> Cardinality(PointsBetween(c, from, to))])
  IN  {Mean(sum(h), count(h), norm, h) : h \in {contract[c].interval : c \in C}}

(* The first point left out. *)
DayWindowAfter(c, days) == {t \in Settled(c) : t > now - days * 24 * Hour}

(* The windows of historical_avg and historical_sums. *)
DayWindow(c, days) == {t \in Settled(c) : t >= now - days * 24 * Hour}

HistoricalAvg(c, days, norm) ==
  LET T == DayWindow(c, days)
  IN  IF T = {} THEN {} ELSE {Mean(Total(c, T), Cardinality(T), norm, enriched[c].interval)}

ExpectedCount(c, days) ==
  (24 * days + enriched[c].interval - 1) \div enriched[c].interval

(* One point in a hundred may be missing. *)
EnoughOfHundred(points, expected) == 100 * points >= 99 * expected

EnoughPoints(points, expected) == 100 * points >= 98 * expected

HistoricalSum(c, days) ==
  LET T == DayWindow(c, days)
  IN  IF EnoughPoints(Cardinality(T), ExpectedCount(c, days)) THEN {Total(c, T)} ELSE {}

-----------------------------------------------------------------------------
(* Paging. *)

(* The ranks of the rows that differ as much as r, by ORDER BY abs_difference
   DESC; between themselves their order is not determined. *)
Ranks(R, r) ==
  LET above == Cardinality({s \in R : Abs(s.diff) > Abs(r.diff)})
  IN  above..(above + Cardinality({s \in R : Abs(s.diff) = Abs(r.diff)}) - 1)

(* What LIMIT and OFFSET may answer. *)
Pages(R, offset) ==
  {P \in SUBSET R : \A r \in R :
     Cardinality({s \in P : Abs(s.diff) = Abs(r.diff)})
       = Cardinality(Ranks(R, r) \cap (offset..(offset + Limit - 1)))}

(* total_count comes with the rows: an empty page has none. *)
TotalCount(R, P) == IF P = {} THEN 0 ELSE Cardinality(R)

(* One page more than there are. *)
HasMoreOrEqual(offset, P, total) == offset + Cardinality(P) <= total

HasMore(offset, P, total) == offset + Cardinality(P) < total

-----------------------------------------------------------------------------
(* The client and what changes beside it. *)

FirstPage == [offset |-> 0, seen |-> {}, rows |-> 0, total |-> 0, more |-> TRUE, quiet |-> TRUE]

(* The client asks for the next page. *)
ReadPage ==
  /\ page.more
  /\ LET R == LiveDifferences(request)
     IN  \E P \in Pages(R, page.offset) :
           page' = [offset |-> page.offset + Limit,
                    seen |-> page.seen \cup {{r.pair[1], r.pair[2]} : r \in P},
                    rows |-> page.rows + Cardinality(P),
                    total |-> TotalCount(R, P),
                    more |-> HasMore(page.offset, P, TotalCount(R, P)),
                    quiet |-> page.quiet]
  /\ UNCHANGED <<contract, enriched, minute, live, now, newest, request>>

(* What the client reads is no longer what it began with. *)
Disturbed == page' = [page EXCEPT !.quiet = @ /\ (page = FirstPage)]

(* The live jobs store the next minute, for the sections that answer. *)
StoreLive ==
  /\ minute < LastMinute /\ minute' = minute + 1
  /\ \E S \in SUBSET {Section[c] : c \in Ids} :
       live' = [c \in Ids |-> IF Section[c] \in S /\ ~contract[c].deprecated
                              THEN minute' ELSE live[c]]
  /\ Disturbed
  /\ UNCHANGED <<contract, enriched, now, newest, request>>

(* The registry delists a contract or records another interval. *)
Reconcile ==
  /\ contract = enriched
  /\ \E c \in Ids, row \in ContractRows :
       /\ row # contract[c] /\ ~contract[c].deprecated
       /\ IF row.deprecated THEN row.interval = contract[c].interval ELSE row.interval = Every[c]
       /\ contract' = [contract EXCEPT ![c] = row]
       /\ Cardinality({d \in Ids : contract'[d].deprecated}) <= MaxDelisted
  /\ UNCHANGED <<enriched, minute, live, now, newest, request, page>>

(* The view is refreshed. *)
RefreshView ==
  /\ enriched # contract
  /\ enriched' = contract
  /\ Disturbed
  /\ UNCHANGED <<contract, minute, live, now, newest, request>>

LatestSettlement(c, tick) == Bucket(Every[c], tick)

(* Time passes; no contract falls more than a settlement behind. *)
Pass ==
  /\ now < LastTick /\ now' = now + 1
  /\ \A c \in Ids : newest[c] >= LatestSettlement(c, now') - Every[c] * Hour
  /\ UNCHANGED <<contract, enriched, minute, live, newest, request, page>>

(* The history update stores the settlement a contract misses. *)
StoreSettlement ==
  /\ \E c \in Ids : /\ newest[c] < LatestSettlement(c, now)
                    /\ newest' = [newest EXCEPT ![c] = LatestSettlement(c, now)]
  /\ UNCHANGED <<contract, enriched, minute, live, now, request, page>>

QueryInit ==
  /\ contract = [c \in Ids |-> [interval |-> Recorded[c], deprecated |-> FALSE]]
  /\ enriched = contract
  /\ minute = 1
  /\ live \in {[c \in Ids |-> IF c = d THEN None ELSE 1] : d \in Ids \cup {None}}
  /\ now = Base
  /\ newest = [c \in Ids |-> Bucket(Every[c], Base)]
  /\ request \in Requests
  /\ page = FirstPage

(* The client reads while the view and the live samples change; or time passes
   and settlements come in. *)
PageNext == ReadPage \/ StoreLive \/ Reconcile \/ RefreshView
PointNext == Pass \/ StoreSettlement \/ Reconcile \/ RefreshView

QuerySpec == QueryInit /\ [][PageNext \/ PointNext]_queryVars

-----------------------------------------------------------------------------
(* Properties. *)

(* Every variable has its type, and the page the client reads is counted from
   its first row. *)
QueryTypeOK ==
  /\ contract \in [Ids -> ContractRows] /\ enriched \in [Ids -> ContractRows]
  /\ minute \in 1..LastMinute /\ live \in [Ids -> {None} \cup 1..minute]
  /\ now \in Base..LastTick /\ newest \in [Ids -> 0..LastTick]
  /\ \A c \in Ids : newest[c] <= now
  /\ request \in Requests
  /\ page.offset % Limit = 0 /\ page.rows <= page.offset

(* What a request asks for, of contracts taken two by two. *)
Named(list, name) == list = {} \/ In(list, name)

Comparable(q) ==
  LET S == {c \in Ids : /\ ~enriched[c].deprecated /\ HasLive(c) /\ Named(q.assets, Asset[c])
                        /\ Named(q.sections, Section[c]) \/ Section[c] = q.compare}
      rate(c) == CHOOSE x \in LiveLatest(c, q.norm) : TRUE
  IN  {{x[1], x[2]} : x \in {y \in S \X S :
         /\ y[1] # y[2] /\ Asset[y[1]] = Asset[y[2]]
         /\ q.compare # NoSection => (Section[y[1]] = q.compare) # (Section[y[2]] = q.compare)
         /\ Abs(rate(y[1]) - rate(y[2])) >= q.min}}

(* Rows that differ by as much and fall on the two sides of a page's end. *)
TieAcrossPages(R) ==
  \E r \in R : LET ranks == Ranks(R, r)
               IN  \E i \in ranks, j \in ranks : i \div Limit # j \div Limit

(* A client that reads page by page until has_more is false, while nothing
   changes, is given as many rows as there are pairs to compare, which is the
   total it was told; and each of the pairs, however the filters name them, if
   no two that tie lie across the end of a page. *)
PagesAreComplete ==
  ~page.more /\ page.quiet =>
    /\ page.rows = Cardinality(Comparable(request)) /\ page.total = page.rows
    /\ TieAcrossPages(LiveDifferences(request)) \/ page.seen = Comparable(request)

Ranges == {x \in {<<now - s[1], now - s[2]>> : s \in Spans} : ValidRange(x[1], x[2])}

PointsTotal(c, T, norm) == SumFunction([t \in T |-> HistoricalPoint(c, t, norm)])

(* Where two endpoints normalize alike: raw rates, or those of a contract whose
   interval the view shows as it is. *)
SameInterval(c, norm) == norm = Raw \/ enriched[c].interval = contract[c].interval

(* While the view lags behind, too: the live wall shows one of the rates that
   live_latest gives for the contracts of a cell, but for normalized rates of a
   cell with a contract whose new interval the view has not yet. *)
LiveEndpointsAgree ==
  \A x \in Ids, norm \in {Raw, 24} :
    LET cell == WallContracts(Asset[x], Section[x])
        wall == WallLive(Asset[x], Section[x], norm)
        latest == UNION {LiveLatest(c, norm) : c \in cell}
    IN  (\A c \in cell : SameInterval(c, norm)) =>
          wall \subseteq latest /\ (latest # {} => wall # {})

(* While the view lags behind, too: the averages, the latest settlements and the
   comparisons are those of the points that historical_points gives, over any
   range and before and after a settlement is stored, but for normalized rates
   of a contract whose new interval the view has not yet. *)
MeanOf(c, T, norm) == IF T = {} THEN {} ELSE {PointsTotal(c, T, norm) \div Cardinality(T)}

AveragesOfPoints ==
  \A c \in Ids, norm \in {Raw, 24} : SameInterval(c, norm) =>
    /\ HistoricalLatest(c, norm) = {HistoricalPoint(c, newest[c], norm)}
    /\ \A days \in Days :
         HistoricalAvg(c, days, norm) = MeanOf(c, PointsBetween(c, now - days * 24 * Hour, now), norm)

ComparisonOfPoints(r, from, to, norm) ==
  LET c == r.pair[1]
      T == PointsBetween(c, from, to)
  IN  SameInterval(c, norm) => {r.first} = (IF T = {} THEN {0} ELSE MeanOf(c, T, norm))

ComparisonsOfPoints ==
  \A norm \in {Raw, 24}, x \in Ranges :
    \A r \in AverageDifferences([request EXCEPT !.norm = norm], x[1], x[2]) :
      ComparisonOfPoints(r, x[1], x[2], norm)

(* The historical walls are those of the points too, summed over the quotes of a
   cell; normalized, a cell has an average for each interval of its contracts,
   any of which may be the one shown. *)
WallOfPoints(c, from, to, norm) ==
  LET T == [d \in Ids |-> PointsBetween(d, from, to)]
      cell == {d \in WallContracts(Asset[c], Section[c]) : T[d] # {}}
      of(h) == {d \in cell : contract[d].interval = h}
      total(C, n) == SumFunction([d \in C |-> PointsTotal(d, T[d], n)])
      points(C) == SumFunction([d \in C |-> Cardinality(T[d])])
  IN  /\ WallSum(Asset[c], Section[c], from, to) = IF cell = {} THEN {} ELSE {total(cell, Raw)}
      /\ WallAverage(Asset[c], Section[c], from, to, norm)
           = {total(of(h), norm) \div points(of(h)) : h \in {contract[d].interval : d \in cell}}

WallsOfPoints ==
  \A c \in Ids, norm \in {Raw, 24}, x \in Ranges : WallOfPoints(c, x[1], x[2], norm)

EndpointsAgree == AveragesOfPoints /\ ComparisonsOfPoints /\ WallsOfPoints

(* A contract that has every settlement of a window long enough for one to be
   missing keeps its sum on show between a settlement and its storing, and the
   sum is that of its points. *)
SumsSurvivePendingUpdate ==
  \A c \in Ids, days \in Days :
    LET from == now - days * 24 * Hour
    IN  enriched[c].interval = Every[c] /\ ExpectedCount(c, days) >= 50 /\ Listed[c] <= from =>
          HistoricalSum(c, days) = {Total(c, PointsBetween(c, from, now))}

(* The total of a pair in a comparison is that of the points between the
   bounds it is answered with. *)
CountsOnce(q, x) ==
  \A r \in CumulativeDifferences(q, x[1], x[2]) :
    LET T(c) == PointsBetween(c, r.window.from, r.window.to - 1)
    IN  r.first = Total(r.pair[1], T(r.pair[1])) /\ r.second = Total(r.pair[2], T(r.pair[2]))

CumulativeCountsOnce == \A x \in Ranges : CountsOnce(request, x)

NoneShared(q, from, to) ==
  LET W == DistinctWindows(ContractPairs(q), from, to) IN \A w \in W : Shared(W, w) = {w}

(* Where the windows of a request differ from each other, the cumulative
   comparisons of two ranges that meet add up to the comparison of both, and
   each counts the points between its bounds. *)
WindowsAddUp ==
  \A x \in Ranges, y \in Ranges :
    LET q == [request EXCEPT !.min = -1]
        all == CumulativeDifferences(q, x[1], y[2])
    IN  x[2] = y[1] /\ NoneShared(q, x[1], x[2]) /\ NoneShared(q, y[1], y[2])
          /\ NoneShared(q, x[1], y[2]) =>
        /\ CountsOnce(q, x)
        /\ \A r \in CumulativeDifferences(q, x[1], x[2]), s \in CumulativeDifferences(q, y[1], y[2]) :
             r.pair = s.pair =>
               \E t \in all : t.pair = r.pair /\ t.first = r.first + s.first
                                /\ t.second = r.second + s.second
==============================================================================
