----------------------------- MODULE LiveAdapters -----------------------------
(***************************************************************************)
(* One exchange, its markets, and two of the programs that talk to it: the *)
(* contract registry (get_contracts of a tracker driver) and a collector,  *)
(* either the tracker's live job (fetch_live of a tracker driver) or an    *)
(* ingestion worker (fetch_live of an ingestion adapter, a second reader   *)
(* of the same endpoint).  The two share nothing but the table they insert *)
(* into, where they never meet (each stamps its own time).  The registry   *)
(* and the tracker's live job share the driver object, whose cache of      *)
(* lighter's ids both replace after a request they await.                  *)
(*                                                                         *)
(* A contract row holds an asset and a quote; an exchange answers rates by *)
(* a name of its own.  Names are tuples: what a driver's _format_symbol    *)
(* builds and what the exchange uses are the same when their parts are.    *)
(* Rates themselves are left out: a sample is known by the market it came  *)
(* from.                                                                   *)
(***************************************************************************)
EXTENDS Integers, FiniteSets, Sequences

CONSTANTS
  Venues,         \* the exchanges to look at
  MarketTable,    \* the markets an exchange may have: base, quote, kind
  PageSize,       \* the markets on a page of derive
  FreshIds,       \* whether lighter gives a listed market an id it never gave before
  MaxSkipped,     \* the symbols a listing of aster may skip (a bound of the model)
  MaxMarketSteps  \* changes of the markets in a run (a bound of the model)

Numbers == 1..Len(MarketTable)

VenueIds == {"aster", "backpack", "binance_coin-m", "binance_usd-m", "bybit", "derive", "dydx",
             "extended", "hyperliquid", "hyperliquid-xyz", "kucoin", "lighter", "okx", "pacifica",
             "paradex"}

(* A market is known by its base, quote and kind; "PERP" is what bybit calls a
   quote and "XAU" what GOLD becomes, no names of their own. *)
ASSUME MarketAssumption ==
  /\ Venues \subseteq VenueIds /\ PageSize \in Nat
  /\ MaxSkipped \in Nat /\ MaxMarketSteps \in Nat
  /\ FreshIds \in BOOLEAN
  /\ MarketTable \in Seq([base : STRING, quote : STRING, kind : STRING])
  /\ \A m \in Numbers, n \in Numbers : MarketTable[m] = MarketTable[n] => m = n
  /\ \A n \in Numbers : MarketTable[n].quote # "PERP" /\ MarketTable[n].base # "XAU"

VARIABLES
  venue,      \* the exchange
  status,     \* status[n]: market n is "absent", "open" or "closed" but still listed
  marketId,   \* marketId[n]: the id lighter gave it at its last listing
  marketSteps,
  listing,    \* what get_contracts asked the exchange for
  rows,       \* the active contracts of the exchange's section
  collector,  \* the collector
  assetToId,  \* its cache of lighter's ids: pairs of asset and id
  job         \* what it asked for, and what it stored

adapterVars == <<venue, status, marketId, marketSteps, listing, rows, collector, assetToId, job>>

Collectors == {"tracker", "worker"}

Idle == [phase |-> "idle"]
NoListing == [phase |-> "none", feed |-> {}, ids |-> {}]

(* A collection under way: the rates asked for, ids found missing, new ids
   asked for. *)
Pending == job.phase \in {"asked", "missing", "refreshing"}

-----------------------------------------------------------------------------
(* The exchanges (external): what they host and how they name it. *)

OneQuote == {"derive", "dydx", "hyperliquid", "hyperliquid-xyz", "lighter", "pacifica", "paradex"}

(* Exchanges whose answers hold more than perpetuals. *)
Mixed == {"aster", "backpack", "binance_coin-m", "binance_usd-m", "bybit", "kucoin", "lighter",
          "paradex"}

Hosted ==
  {n \in Numbers : /\ venue \in OneQuote => MarketTable[n].quote = "USDT"
                   /\ venue \notin Mixed => MarketTable[n].kind = "perp"}

Perp(n) == MarketTable[n].kind = "perp"
Open(n) == status[n] = "open"
Answerable == {n \in Hosted : status[n] # "absent"}

PairName(n) ==
  LET m == MarketTable[n] IN IF Perp(n) THEN <<m.base, m.quote>> ELSE <<m.base, m.quote, m.kind>>

BybitName(n) ==
  LET m == MarketTable[n]
  IN  IF Perp(n) THEN <<m.base, IF m.quote = "USDC" THEN "PERP" ELSE m.quote>>
      ELSE <<m.base, m.quote, m.kind>>

AssetName(n) == IF Perp(n) THEN <<MarketTable[n].base>> ELSE <<MarketTable[n].base, MarketTable[n].kind>>

DexName(n) == <<"xyz", MarketTable[n].base>>

IdName(n) == <<marketId[n]>>

-----------------------------------------------------------------------------
(* get_contracts: the markets each driver lists, of those in the answer. *)

(* A symbol without a premium or whose last funding cannot be read is
   skipped: detected are the others. *)
AsterListing(M, detected) == {n \in M : Perp(n) /\ Open(n) /\ n \in detected}
BackpackListing(M) == {n \in M : Perp(n)}
BinanceCoinmListing(M) == {n \in M : Perp(n)}
BinanceUsdmListing(M) == {n \in M : Perp(n)}
BybitListing(M) == {n \in M : Perp(n)}    \* page by page, to the last
DeriveListing(M) == {n \in M : Open(n)}   \* page by page, to the last
DydxListing(M) == M
ExtendedListing(M) == {n \in M : Open(n)}
HyperliquidListing(M) == M
KucoinListing(M) == {n \in M : Open(n) /\ Perp(n)}
LighterListing(M) == {n \in M : Perp(n)}
OkxListing(M) == {n \in M : Open(n)}
PacificaListing(M) == M
ParadexListing(M) == {n \in M : Perp(n)}

(* hyperliquid-xyz: GOLD is XAU in the database. *)
StandardName(base) == IF base = "GOLD" THEN "XAU" ELSE base

Listing(M, detected) ==
  CASE venue = "aster" -> AsterListing(M, detected)
    [] venue = "backpack" -> BackpackListing(M)
    [] venue = "binance_coin-m" -> BinanceCoinmListing(M)
    [] venue = "binance_usd-m" -> BinanceUsdmListing(M)
    [] venue = "bybit" -> BybitListing(M)
    [] venue = "derive" -> DeriveListing(M)
    [] venue = "dydx" -> DydxListing(M)
    [] venue = "extended" -> ExtendedListing(M)
    [] venue \in {"hyperliquid", "hyperliquid-xyz"} -> HyperliquidListing(M)
    [] venue = "kucoin" -> KucoinListing(M)
    [] venue = "lighter" -> LighterListing(M)
    [] venue = "okx" -> OkxListing(M)
    [] venue = "pacifica" -> PacificaListing(M)
    [] venue = "paradex" -> ParadexListing(M)

(* The contract that a listed market becomes. *)
ContractOf(n) ==
  LET m == MarketTable[n]
  IN  [asset |-> IF venue = "hyperliquid-xyz" THEN StandardName(m.base) ELSE m.base,
       quote |-> IF venue \in OneQuote THEN "USD" ELSE m.quote]

-----------------------------------------------------------------------------
(* The keys by which a contract is looked up in an answer. *)

(* Every quote taken for the usual one. *)
UsualPairSymbol(c) == <<c.asset, "USDT">>

PairSymbol(c) == <<c.asset, c.quote>>

BybitSymbol(c) == <<c.asset, IF c.quote = "USDC" THEN "PERP" ELSE c.quote>>

AssetSymbol(c) == <<c.asset>>

Known(c, cache) == \E x \in cache : x[1] = c.asset
IdSymbol(c, cache) == <<(CHOOSE x \in cache : x[1] = c.asset)[2]>>

LiveSymbol(c, cache) ==
  CASE venue = "bybit" -> BybitSymbol(c)
    [] venue = "lighter" -> IdSymbol(c, cache)
    [] venue \in OneQuote \ {"lighter"} -> AssetSymbol(c)
    [] OTHER -> PairSymbol(c)

-----------------------------------------------------------------------------
(* _fetch_live_batch and _fetch_live_single of the tracker's drivers: the
   markets with a rate, by the key the driver gives them. *)

Keyed(M, Key(_)) == {<<Key(n), n>> : n \in M}

AsterLive(M) == Keyed(M, PairName)
BackpackLive(M) == Keyed(M, PairName)     \* asked for one by one
BinanceCoinmLive(M) == Keyed(M, PairName)
BinanceUsdmLive(M) == Keyed(M, PairName)
BybitLive(M) == Keyed(M, BybitName)
DeriveLive(M) == Keyed({n \in M : Open(n) /\ n <= PageSize}, AssetName)
DydxLive(M) == Keyed(M, AssetName)
ExtendedLive(M) == Keyed({n \in M : Open(n)}, PairName)
HyperliquidLive(K) ==                     \* what follows the colon of a name
  {<<<<k[1][Len(k[1])]>>, k[2]>> : k \in K}
HyperliquidXyzLive(M) ==
  {<<<<StandardName(k[1][1])>>, k[2]>> : k \in HyperliquidLive(Keyed(M, DexName))}
KucoinLive(M) == Keyed({n \in M : Open(n) /\ Perp(n)}, PairName)
LighterLive(M) == Keyed(M, IdName)
OkxLive(M) == Keyed(M, PairName)          \* asked for one by one
PacificaLive(M) == Keyed(M, AssetName)
ParadexLive(M) == Keyed(M, AssetName)     \* asked for one by one

TrackerLive(M) ==
  CASE venue = "aster" -> AsterLive(M)
    [] venue = "backpack" -> BackpackLive(M)
    [] venue = "binance_coin-m" -> BinanceCoinmLive(M)
    [] venue = "binance_usd-m" -> BinanceUsdmLive(M)
    [] venue = "bybit" -> BybitLive(M)
    [] venue = "derive" -> DeriveLive(M)
    [] venue = "dydx" -> DydxLive(M)
    [] venue = "extended" -> ExtendedLive(M)
    [] venue = "hyperliquid" -> HyperliquidLive(Keyed(M, AssetName))
    [] venue = "hyperliquid-xyz" -> HyperliquidXyzLive(M)
    [] venue = "kucoin" -> KucoinLive(M)
    [] venue = "lighter" -> LighterLive(M)
    [] venue = "okx" -> OkxLive(M)
    [] venue = "pacifica" -> PacificaLive(M)
    [] venue = "paradex" -> ParadexLive(M)

(* The same of the ingestion adapters. *)
AsterSnapshot(M) == Keyed(M, PairName)
BackpackSnapshot(M) == Keyed(M, PairName)
BinanceCoinmSnapshot(M) == Keyed(M, PairName)
BinanceUsdmSnapshot(M) == Keyed(M, PairName)
BybitSnapshot(M) == Keyed(M, BybitName)
DeriveSnapshot(M) == Keyed({n \in M : Open(n) /\ n <= PageSize}, AssetName)
DydxSnapshot(M) == Keyed(M, AssetName)
ExtendedSnapshot(M) == Keyed({n \in M : Open(n)}, PairName)
HyperliquidSnapshot(K) == {<<<<k[1][Len(k[1])]>>, k[2]>> : k \in K}
HyperliquidXyzSnapshot(M) ==
  {<<<<StandardName(k[1][1])>>, k[2]>> : k \in HyperliquidSnapshot(Keyed(M, DexName))}
KucoinSnapshot(M) == Keyed({n \in M : Open(n) /\ Perp(n)}, PairName)
LighterSnapshot(M) == Keyed(M, IdName)
OkxSnapshot(M) == Keyed(M, PairName)
PacificaSnapshot(M) == Keyed(M, AssetName)
ParadexSnapshot(M) == Keyed(M, AssetName)

WorkerLive(M) ==
  CASE venue = "aster" -> AsterSnapshot(M)
    [] venue = "backpack" -> BackpackSnapshot(M)
    [] venue = "binance_coin-m" -> BinanceCoinmSnapshot(M)
    [] venue = "binance_usd-m" -> BinanceUsdmSnapshot(M)
    [] venue = "bybit" -> BybitSnapshot(M)
    [] venue = "derive" -> DeriveSnapshot(M)
    [] venue = "dydx" -> DydxSnapshot(M)
    [] venue = "extended" -> ExtendedSnapshot(M)
    [] venue = "hyperliquid" -> HyperliquidSnapshot(Keyed(M, AssetName))
    [] venue = "hyperliquid-xyz" -> HyperliquidXyzSnapshot(M)
    [] venue = "kucoin" -> KucoinSnapshot(M)
    [] venue = "lighter" -> LighterSnapshot(M)
    [] venue = "okx" -> OkxSnapshot(M)
    [] venue = "pacifica" -> PacificaSnapshot(M)
    [] venue = "paradex" -> ParadexSnapshot(M)

Answer(M) == IF collector = "tracker" THEN TrackerLive(M) ELSE WorkerLive(M)

-----------------------------------------------------------------------------
(* Lighter's cache. *)

(* The ids in an answer that names the markets M. *)
IdsOf(M) == {<<MarketTable[n].base, marketId[n]>> : n \in {m \in M : Perp(m)}}

(* /orderBooks names every market, or none: the body of an error. *)
OrderBooks == {Answerable, {}}

(* An answer that names no id the cache knows. *)
AllUnknown(answer, cache) ==
  answer # {} /\ \A a \in answer : a[1] \notin {<<x[2]>> : x \in cache}

HasUnknownMarketIds(answer, cache) == \E a \in answer : a[1] \notin {<<x[2]>> : x \in cache}

TrackerNeedsIds ==
  \/ HasUnknownMarketIds(job.answer, assetToId)
  \/ \E c \in job.rows : ~Known(c, assetToId)

WorkerNeedsIds == HasUnknownMarketIds(job.answer, assetToId)

NeedsIds ==
  venue = "lighter" /\ (IF collector = "tracker" THEN TrackerNeedsIds ELSE WorkerNeedsIds)

-----------------------------------------------------------------------------
(* The steps. *)

(* The markets change under a collection. *)
Unsettled == job' = IF job = Idle THEN Idle ELSE [job EXCEPT !.settled = FALSE]

(* The ids a market may be listed with: a new one, or one that no listed
   market has. *)
NewIds ==
  IF FreshIds THEN {Len(MarketTable) + marketSteps + 1}
  ELSE 1..(Len(MarketTable) + MaxMarketSteps) \ {marketId[m] : m \in Answerable}

ListMarket(n) ==
  /\ marketSteps < MaxMarketSteps /\ marketSteps' = marketSteps + 1
  /\ status[n] = "absent" /\ n \in Hosted
  /\ status' = [status EXCEPT ![n] = "open"]
  /\ \E id \in NewIds : marketId' = [marketId EXCEPT ![n] = id]
  /\ Unsettled /\ UNCHANGED <<venue, listing, rows, collector, assetToId>>

EndMarket(n) ==
  /\ marketSteps < MaxMarketSteps /\ marketSteps' = marketSteps + 1
  /\ status[n] # "absent"
  /\ \E s \in {"closed", "absent"} \ {status[n]} : status' = [status EXCEPT ![n] = s]
  /\ Unsettled /\ UNCHANGED <<venue, marketId, listing, rows, collector, assetToId>>

(* The contract registry.  The exchange answers get_contracts; an error body of
   lighter reads as no market.  The ids the history job asks for are a listing
   that is then dropped. *)
Detections == {D \in SUBSET Numbers : Cardinality(Numbers \ D) <= MaxSkipped}

AskListing ==
  /\ listing = NoListing
  /\ \E M \in (IF venue = "lighter" THEN OrderBooks ELSE {Answerable}),
        detected \in (IF venue = "aster" THEN Detections ELSE {Numbers}) :
       listing' = [phase |-> IF venue = "lighter" THEN "asked" ELSE "read",
                   feed |-> {ContractOf(n) : n \in Listing(M, detected)},
                   ids |-> IF venue = "lighter" THEN IdsOf(M) ELSE {}]
  /\ UNCHANGED <<venue, status, marketId, marketSteps, rows, collector, assetToId, job>>

(* The answer of lighter is read: its driver, when it is the one that collects,
   replaces its cache by ids as old as the answer. *)
ReadListing ==
  /\ listing.phase = "asked"
  /\ listing' = [listing EXCEPT !.phase = "read"]
  /\ assetToId' = IF collector = "tracker" THEN listing.ids ELSE assetToId
  /\ UNCHANGED <<venue, status, marketId, marketSteps, rows, collector, job>>

(* The contracts are written; an empty listing is left aside. *)
Register ==
  /\ listing.phase = "read" /\ listing.feed # {}
  /\ rows' = listing.feed /\ listing' = NoListing
  /\ UNCHANGED <<venue, status, marketId, marketSteps, collector, assetToId, job>>

(* A request or the transaction fails, or there is nothing to write. *)
DropListing ==
  /\ listing # NoListing /\ listing' = NoListing
  /\ UNCHANGED <<venue, status, marketId, marketSteps, rows, collector, assetToId, job>>

(* collect_live reads the active contracts and asks for the rates; a market
   may have none. *)
Ask ==
  /\ ~Pending /\ rows # {}
  /\ \E quoted \in {Answerable} \cup {Answerable \ {n} : n \in Numbers} :
       job' = [phase |-> "asked", rows |-> rows, quoted |-> quoted, answer |-> Answer(quoted),
               ids |-> {}, stored |-> {}, settled |-> TRUE]
  /\ UNCHANGED <<venue, status, marketId, marketSteps, listing, rows, collector, assetToId>>

(* fetch_live of lighter finds the answer to name ids it does not know, asks
   for the ids and, when they come, replaces its cache. *)
MissIds ==
  /\ job.phase = "asked" /\ NeedsIds
  /\ job' = [job EXCEPT !.phase = "missing"]
  /\ UNCHANGED <<venue, status, marketId, marketSteps, listing, rows, collector, assetToId>>

AskIds ==
  /\ job.phase = "missing"
  /\ \E M \in OrderBooks :
       job' = [job EXCEPT !.phase = "refreshing", !.ids = IdsOf(M), !.settled = @ /\ M = Answerable]
  /\ UNCHANGED <<venue, status, marketId, marketSteps, listing, rows, collector, assetToId>>

(* fetch_live gives the rates to the contracts of their names; of two with
   the same name either may be the one kept. *)
Store ==
  /\ job.phase = "refreshing" \/ (job.phase = "asked" /\ ~NeedsIds)
  /\ assetToId' = IF job.phase = "refreshing" THEN job.ids ELSE assetToId
  /\ LET C == {c \in job.rows : venue = "lighter" => Known(c, assetToId')}
         hits == {h \in C \X job.answer : LiveSymbol(h[1], assetToId') = h[2][1]}
         rival(h, g) == g # h /\ g[2][1] = h[2][1]
     IN  \E S \in SUBSET hits :
           /\ \A h \in S, g \in S : ~rival(h, g)
           /\ \A h \in hits : h \in S \/ \E g \in S : rival(h, g)
           /\ job' = [job EXCEPT !.phase = "stored", !.answer = {}, !.ids = {},
                                 !.stored = {<<h[1], h[2][2]>> : h \in S}]
  /\ UNCHANGED <<venue, status, marketId, marketSteps, listing, rows, collector>>

(* A request fails; the minute is lost. *)
Lose ==
  /\ Pending /\ job' = Idle
  /\ UNCHANGED <<venue, status, marketId, marketSteps, listing, rows, collector, assetToId>>

AdapterInit ==
  /\ venue \in Venues /\ collector \in Collectors
  /\ status = [n \in Numbers |-> IF n \in Hosted THEN "open" ELSE "absent"]
  /\ marketId = [n \in Numbers |-> n]
  /\ marketSteps = 0
  /\ listing = NoListing /\ rows = {} /\ assetToId = {}
  /\ job = Idle

AdapterNext ==
  \/ \E n \in Numbers : ListMarket(n) \/ EndMarket(n)
  \/ AskListing \/ ReadListing \/ Register \/ DropListing
  \/ Ask \/ MissIds \/ AskIds \/ Store \/ Lose

AdapterSpec == AdapterInit /\ [][AdapterNext]_adapterVars

-----------------------------------------------------------------------------
(* Properties. *)

AdapterTypeOK ==
  /\ venue \in Venues /\ collector \in Collectors
  /\ status \in [Numbers -> {"absent", "open", "closed"}]
  /\ marketSteps \in 0..MaxMarketSteps
  /\ marketId \in [Numbers -> 1..(Len(MarketTable) + MaxMarketSteps)]
  /\ listing.phase \in {"none", "asked", "read"}
  /\ \A c \in rows \cup listing.feed : \E n \in Hosted : ContractOf(n) = c
  /\ job.phase \in {"idle", "asked", "missing", "refreshing", "stored"}

(* A contract is given the rate of its own perpetual: never of another quote,
   of a dated future or of the spot market, whatever is listed and delisted
   between the answer and the look-up, and whatever older ids the registry puts
   in lighter's cache meanwhile.  Where lighter gives an id again (FreshIds is
   FALSE) a cache of old ids gives one market's rate to another's contract. *)
RateOfItsMarket ==
  job.phase = "stored" =>
    \A x \in job.stored : Perp(x[2]) /\ ContractOf(x[2]) = x[1]

(* The markets derive leaves to the pages it does not ask for. *)
OffFirstPage(n) == venue = "derive" /\ n > PageSize

(* A collection leaves no active contract out whose market is open and has a
   rate, by either collector, although the registry may replace lighter's ids
   by older ones at any moment: unless the markets change meanwhile, lighter's
   own request for ids is answered by an error body, or the market is off
   derive's first page, which no driver asks beyond. *)
CollectionIsComplete ==
  job.phase = "stored" /\ job.settled =>
    \A n \in job.quoted : Perp(n) /\ Open(n) /\ ContractOf(n) \in job.rows =>
      OffFirstPage(n) \/ <<ContractOf(n), n>> \in job.stored
===============================================================================
