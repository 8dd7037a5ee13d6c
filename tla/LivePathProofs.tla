---------------------------- MODULE LivePathProofs ----------------------------
(***************************************************************************)
(* Theorems about the two halves of the live path: LiveAdapters, for any   *)
(* exchange and markets, and TrackerFleet, for any exchanges, settings,    *)
(* processes and minute.                                                   *)
(*                                                                         *)
(* A rate is given to a contract by a name, so what makes it the right     *)
(* rate is that a name is that of one perpetual: by the fields of a name   *)
(* everywhere but at lighter, whose names are ids.  There it is, if an id  *)
(* is never given again (IdsStayFresh), that no two of the markets, the    *)
(* rates under way, the cache and the ids asked for disagree on whose an   *)
(* id is (IdInv), whatever is listed and delisted meanwhile.               *)
(*                                                                         *)
(* OncePerSettings is about what was collected by processes that may be    *)
(* gone: what remains of them is that each of its entries was made under   *)
(* settings of this minute that gave the exchange to that process          *)
(* (CollectedInv), and settings give an exchange to one process only.      *)
(***************************************************************************)
EXTENDS TrackerFleet, LiveAdapters, FiniteSetTheorems, TLAPS

-----------------------------------------------------------------------------
(* Markets and their names. *)

LEMMA Elements ==
  ASSUME NEW S, NEW s \in Seq(S)
  PROVE  Len(s) \in Nat /\ \A n \in 1..Len(s) : s[n] \in S
OBVIOUS

LEMMA MarketFacts ==
  /\ Venues \subseteq VenueIds /\ Len(MarketTable) \in Nat /\ MaxMarketSteps \in Nat
  /\ \A n \in Numbers : MarketTable[n] \in [base : STRING, quote : STRING, kind : STRING]
  /\ \A n \in Numbers : n \in Nat /\ n <= Len(MarketTable)
<1>1. MarketTable \in Seq([base : STRING, quote : STRING, kind : STRING])
  BY MarketAssumption DEF MarketAssumption
<1>2. Len(MarketTable) \in Nat
      /\ \A n \in 1..Len(MarketTable) : MarketTable[n] \in [base : STRING, quote : STRING, kind : STRING]
  BY ONLY <1>1, Elements
<1> QED
  BY <1>2, MarketAssumption DEF MarketAssumption, Numbers

LEMMA SameMarket ==
  ASSUME NEW m \in Numbers, NEW n \in Numbers,
         MarketTable[m].base = MarketTable[n].base,
         MarketTable[m].quote = MarketTable[n].quote,
         MarketTable[m].kind = MarketTable[n].kind
  PROVE  m = n
<1>1. MarketTable[m] = MarketTable[n]
  BY MarketFacts
<1> QED
  BY <1>1, MarketAssumption DEF MarketAssumption

\* The name under which the exchange answers the rate of a market.
NameOf(n) ==
  CASE venue = "bybit" -> BybitName(n)
    [] venue = "lighter" -> IdName(n)
    [] venue = "hyperliquid-xyz" -> <<StandardName(MarketTable[n].base)>>
    [] venue \in OneQuote \ {"lighter", "hyperliquid-xyz"} -> AssetName(n)
    [] OTHER -> PairName(n)

LEMMA HostedFacts ==
  /\ Hosted \subseteq Numbers
  /\ venue \in OneQuote => \A n \in Hosted : MarketTable[n].quote = "USDT"
  /\ venue \notin Mixed => \A n \in Hosted : Perp(n)
BY DEF Hosted, Perp

\* Of two perpetuals that an exchange hosts only one becomes a given contract.
LEMMA MarketOfContract ==
  ASSUME NEW m \in Hosted, NEW n \in Hosted, Perp(m), Perp(n), ContractOf(m) = ContractOf(n)
  PROVE  m = n
<1>1. m \in Numbers /\ n \in Numbers
  BY HostedFacts
<1>2. MarketTable[m].base = MarketTable[n].base
  BY <1>1, MarketAssumption DEF MarketAssumption, ContractOf, StandardName
<1>3. MarketTable[m].quote = MarketTable[n].quote
  BY HostedFacts DEF ContractOf
<1>4. MarketTable[m].kind = MarketTable[n].kind
  BY DEF Perp
<1> QED
  BY <1>1, <1>2, <1>3, <1>4, SameMarket

\* "PERP" stands for USDC and for no quote else.
LEMMA BybitKeys ==
  ASSUME NEW b, NEW q, NEW c, NEW r, NEW k, q # "PERP", r # "PERP"
  PROVE  /\ <<b, IF q = "USDC" THEN "PERP" ELSE q>> = <<c, IF r = "USDC" THEN "PERP" ELSE r>>
               => b = c /\ q = r
         /\ <<b, IF q = "USDC" THEN "PERP" ELSE q>> # <<c, r, k>>
OBVIOUS

\* Where names are no ids, the name a contract is looked up by is that of its
\* own perpetual and of no other market.
LEMMA SymbolIsName ==
  ASSUME NEW m \in Hosted, NEW n \in Hosted, NEW cache, venue \in VenueIds, venue # "lighter"
  PROVE  /\ LiveSymbol(ContractOf(m), cache) = NameOf(n) =>
              Perp(n) /\ ContractOf(n) = ContractOf(m)
         /\ Perp(n) => LiveSymbol(ContractOf(n), cache) = NameOf(n)
<1>1. m \in Numbers /\ n \in Numbers
  BY HostedFacts
<1>2. CASE venue = "bybit"
  <2>1. MarketTable[m].quote # "PERP" /\ MarketTable[n].quote # "PERP"
    BY <1>1, MarketAssumption DEF MarketAssumption
  <2>2. LiveSymbol(ContractOf(m), cache)
          = <<MarketTable[m].base, IF MarketTable[m].quote = "USDC" THEN "PERP" ELSE MarketTable[m].quote>>
    BY <1>2 DEF LiveSymbol, BybitSymbol, ContractOf, OneQuote
  <2>3. LiveSymbol(ContractOf(n), cache)
          = <<MarketTable[n].base, IF MarketTable[n].quote = "USDC" THEN "PERP" ELSE MarketTable[n].quote>>
    BY <1>2 DEF LiveSymbol, BybitSymbol, ContractOf, OneQuote
  <2>4. NameOf(n) = BybitName(n)
    BY <1>2 DEF NameOf, OneQuote
  <2>5. /\ BybitName(n) = IF Perp(n)
                         THEN <<MarketTable[n].base,
                                IF MarketTable[n].quote = "USDC" THEN "PERP" ELSE MarketTable[n].quote>>
                         ELSE <<MarketTable[n].base, MarketTable[n].quote, MarketTable[n].kind>>
        /\ ContractOf(m) = [asset |-> MarketTable[m].base, quote |-> MarketTable[m].quote]
        /\ ContractOf(n) = [asset |-> MarketTable[n].base, quote |-> MarketTable[n].quote]
    BY <1>2 DEF BybitName, ContractOf, OneQuote
  <2>6. ASSUME LiveSymbol(ContractOf(m), cache) = NameOf(n)
        PROVE  Perp(n) /\ MarketTable[m].base = MarketTable[n].base
                 /\ MarketTable[m].quote = MarketTable[n].quote
    <3>1. CASE Perp(n)
      <4>1. <<MarketTable[m].base, IF MarketTable[m].quote = "USDC" THEN "PERP" ELSE MarketTable[m].quote>>
              = <<MarketTable[n].base,
                  IF MarketTable[n].quote = "USDC" THEN "PERP" ELSE MarketTable[n].quote>>
        BY <2>2, <2>4, <2>5, <2>6, <3>1
      <4> QED
        BY ONLY <2>1, <3>1, <4>1, BybitKeys
    <3>2. CASE ~Perp(n)
      <4>1. <<MarketTable[m].base, IF MarketTable[m].quote = "USDC" THEN "PERP" ELSE MarketTable[m].quote>>
              = <<MarketTable[n].base, MarketTable[n].quote, MarketTable[n].kind>>
        BY <2>2, <2>4, <2>5, <2>6, <3>2
      <4> QED
        BY ONLY <2>1, <4>1, BybitKeys
    <3> QED
      BY <3>1, <3>2
  <2>7. Perp(n) => LiveSymbol(ContractOf(n), cache) = NameOf(n)
    BY ONLY <2>3, <2>4, <2>5
  <2> QED
    BY <2>5, <2>6, <2>7
<1>3. CASE venue = "hyperliquid-xyz"
  <2>1. LiveSymbol(ContractOf(m), cache) = <<StandardName(MarketTable[m].base)>>
        /\ LiveSymbol(ContractOf(n), cache) = <<StandardName(MarketTable[n].base)>>
    BY <1>3 DEF LiveSymbol, AssetSymbol, ContractOf, OneQuote
  <2>2. NameOf(n) = <<StandardName(MarketTable[n].base)>>
    BY <1>3 DEF NameOf
  <2>3. Perp(n)
    BY <1>3, HostedFacts DEF Mixed
  <2>4. ContractOf(m) = [asset |-> StandardName(MarketTable[m].base), quote |-> "USD"]
        /\ ContractOf(n) = [asset |-> StandardName(MarketTable[n].base), quote |-> "USD"]
    BY <1>3 DEF ContractOf, OneQuote
  <2> HIDE DEF StandardName
  <2> QED
    BY <2>1, <2>2, <2>3, <2>4
<1>4. CASE venue \in OneQuote \ {"lighter", "hyperliquid-xyz"}
  <2>1. LiveSymbol(ContractOf(m), cache) = <<MarketTable[m].base>>
        /\ LiveSymbol(ContractOf(n), cache) = <<MarketTable[n].base>>
    BY <1>4 DEF LiveSymbol, AssetSymbol, ContractOf, OneQuote
  <2>2. NameOf(n) = AssetName(n)
    BY <1>4 DEF NameOf, OneQuote
  <2>3. ContractOf(m) = [asset |-> MarketTable[m].base, quote |-> "USD"]
        /\ ContractOf(n) = [asset |-> MarketTable[n].base, quote |-> "USD"]
    BY <1>4 DEF ContractOf, OneQuote
  <2> QED
    BY <2>1, <2>2, <2>3 DEF AssetName
<1>5. CASE venue \notin OneQuote \cup {"bybit"}
  <2>1. LiveSymbol(ContractOf(m), cache) = <<MarketTable[m].base, MarketTable[m].quote>>
        /\ LiveSymbol(ContractOf(n), cache) = <<MarketTable[n].base, MarketTable[n].quote>>
    BY <1>5 DEF LiveSymbol, PairSymbol, ContractOf, OneQuote
  <2>2. NameOf(n) = PairName(n)
    BY <1>5 DEF NameOf, OneQuote
  <2>3. ContractOf(m) = [asset |-> MarketTable[m].base, quote |-> MarketTable[m].quote]
        /\ ContractOf(n) = [asset |-> MarketTable[n].base, quote |-> MarketTable[n].quote]
    BY <1>5 DEF ContractOf, OneQuote
  <2> QED
    BY <2>1, <2>2, <2>3 DEF PairName
<1> QED
  BY <1>2, <1>3, <1>4, <1>5 DEF OneQuote

\* Either reader keys an answer by these names, and leaves out no open perpetual
\* but those of derive's later pages.
LEMMA AnswerNames ==
  ASSUME venue \in VenueIds, NEW M \in SUBSET Hosted
  PROVE  /\ \A a \in Answer(M) : \E n \in M : a = <<NameOf(n), n>>
         /\ \A n \in M : Perp(n) /\ Open(n) /\ ~OffFirstPage(n) => <<NameOf(n), n>> \in Answer(M)
<1>1. CASE venue \in {"aster", "backpack", "binance_coin-m", "binance_usd-m", "okx"}
  <2>1. Answer(M) = {<<PairName(n), n>> : n \in M}
    BY <1>1 DEF Answer, TrackerLive, WorkerLive, Keyed,
       AsterLive, BackpackLive, BinanceCoinmLive, BinanceUsdmLive, OkxLive,
       AsterSnapshot, BackpackSnapshot, BinanceCoinmSnapshot, BinanceUsdmSnapshot, OkxSnapshot
  <2>2. \A n \in M : NameOf(n) = PairName(n)
    BY <1>1 DEF NameOf, OneQuote
  <2> QED
    BY <2>1, <2>2
<1>2. CASE venue \in {"extended", "kucoin"}
  <2>1. \/ Answer(M) = {<<PairName(n), n>> : n \in {k \in M : Open(k)}}
        \/ Answer(M) = {<<PairName(n), n>> : n \in {k \in M : Open(k) /\ Perp(k)}}
    BY <1>2 DEF Answer, TrackerLive, WorkerLive, Keyed, ExtendedLive, KucoinLive, ExtendedSnapshot,
       KucoinSnapshot
  <2>2. \A n \in M : NameOf(n) = PairName(n)
    BY <1>2 DEF NameOf, OneQuote
  <2> QED
    BY <2>1, <2>2
<1>3. CASE venue \in {"dydx", "pacifica", "paradex"}
  <2>1. Answer(M) = {<<AssetName(n), n>> : n \in M}
    BY <1>3 DEF Answer, TrackerLive, WorkerLive, Keyed, DydxLive, PacificaLive, ParadexLive,
       DydxSnapshot, PacificaSnapshot, ParadexSnapshot
  <2>2. \A n \in M : NameOf(n) = AssetName(n)
    BY <1>3 DEF NameOf, OneQuote
  <2> QED
    BY <2>1, <2>2
<1>4. CASE venue = "derive"
  <2>1. Answer(M) = {<<AssetName(n), n>> : n \in {k \in M : Open(k) /\ k <= PageSize}}
    BY <1>4 DEF Answer, TrackerLive, WorkerLive, Keyed, DeriveLive, DeriveSnapshot
  <2>2. \A n \in M : NameOf(n) = AssetName(n)
    BY <1>4 DEF NameOf, OneQuote
  <2>3. \A n \in M : n \in Nat /\ PageSize \in Nat /\ (~OffFirstPage(n) => n <= PageSize)
    BY <1>4, MarketAssumption, MarketFacts, HostedFacts DEF OffFirstPage, MarketAssumption
  <2>4. \A n \in M : Open(n) /\ ~OffFirstPage(n) => n \in {k \in M : Open(k) /\ k <= PageSize}
    BY <2>3
  <2>5. \A a \in Answer(M) : \E n \in M : a = <<AssetName(n), n>>
    BY <2>1
  <2>6. \A n \in M : Open(n) /\ ~OffFirstPage(n) => <<AssetName(n), n>> \in Answer(M)
    BY <2>1, <2>4, Zenon
  <2> QED
    BY <2>2, <2>5, <2>6
<1>5. CASE venue = "bybit"
  <2>1. Answer(M) = {<<BybitName(n), n>> : n \in M}
    BY <1>5 DEF Answer, TrackerLive, WorkerLive, Keyed, BybitLive, BybitSnapshot
  <2>2. \A n \in M : NameOf(n) = BybitName(n)
    BY <1>5 DEF NameOf, OneQuote
  <2> QED
    BY <2>1, <2>2
<1>6. CASE venue = "lighter"
  <2>1. Answer(M) = {<<IdName(n), n>> : n \in M}
    BY <1>6 DEF Answer, TrackerLive, WorkerLive, Keyed, LighterLive, LighterSnapshot
  <2>2. \A n \in M : NameOf(n) = IdName(n)
    BY <1>6 DEF NameOf
  <2> QED
    BY <2>1, <2>2
<1>7. CASE venue = "hyperliquid"
  <2>1. Answer(M) = {<<<<k[1][Len(k[1])]>>, k[2]>> : k \in {<<AssetName(n), n>> : n \in M}}
    BY <1>7 DEF Answer, TrackerLive, WorkerLive, Keyed, HyperliquidLive, HyperliquidSnapshot
  <2>2. \A n \in M : NameOf(n) = AssetName(n)
    BY <1>7 DEF NameOf, OneQuote
  <2>3. \A n \in M : AssetName(n) = <<MarketTable[n].base>>
    BY <1>7, HostedFacts DEF Mixed, AssetName
  <2>4. \A n \in M : AssetName(n)[Len(AssetName(n))] = MarketTable[n].base
    BY <2>3, SMTT(30)
  <2>5. Answer(M) = {<<AssetName(n), n>> : n \in M}
    BY <2>1, <2>3, <2>4
  <2> QED
    BY <2>2, <2>5
<1>8. CASE venue = "hyperliquid-xyz"
  <2>1. Answer(M) = {<<<<StandardName(j[1][1])>>, j[2]>> :
                       j \in {<<<<k[1][Len(k[1])]>>, k[2]>> : k \in {<<DexName(n), n>> : n \in M}}}
    BY <1>8, Zenon DEF Answer, TrackerLive, WorkerLive, Keyed, HyperliquidXyzLive, HyperliquidLive,
       HyperliquidXyzSnapshot, HyperliquidSnapshot
  <2>2. \A n \in M : NameOf(n) = <<StandardName(MarketTable[n].base)>>
    BY <1>8 DEF NameOf
  <2>3. \A n \in M : DexName(n)[Len(DexName(n))] = MarketTable[n].base
    BY DEF DexName
  <2> DEFINE K == {<<DexName(n), n>> : n \in M}
             L == {<<<<k[1][Len(k[1])]>>, k[2]>> : k \in K}
  <2>4. \A j \in L : \E n \in M : j = <<<<MarketTable[n].base>>, n>>
    <3>1. \A k \in K : \E n \in M : k = <<DexName(n), n>>
      BY Zenon
    <3>2. \A j \in L : \E k \in K : j = <<<<k[1][Len(k[1])]>>, k[2]>>
      BY Zenon
    <3> HIDE DEF K, L
    <3> QED
      BY <2>3, <3>1, <3>2
  <2>5. \A n \in M : <<<<MarketTable[n].base>>, n>> \in L
    <3> TAKE n \in M
    <3>1. <<DexName(n), n>> \in K
      BY Zenon
    <3>2. <<<<<<DexName(n), n>>[1][Len(<<DexName(n), n>>[1])]>>, <<DexName(n), n>>[2]>> \in L
      BY <3>1, Zenon DEF L
    <3> HIDE DEF K, L
    <3> QED
      BY <2>3, <3>2
  <2>6. \A a \in Answer(M) : \E n \in M : a = <<<<StandardName(MarketTable[n].base)>>, n>>
    <3>1. \A a \in Answer(M) : \E j \in L : a = <<<<StandardName(j[1][1])>>, j[2]>>
      BY <2>1, Zenon
    <3> HIDE DEF L
    <3> QED
      BY <2>4, <3>1
  <2>7. \A n \in M : <<<<StandardName(MarketTable[n].base)>>, n>> \in Answer(M)
    <3> TAKE n \in M
    <3>1. \A j \in L : <<<<StandardName(j[1][1])>>, j[2]>> \in Answer(M)
      BY <2>1, Zenon
    <3> HIDE DEF L
    <3> QED
      BY <2>5, <3>1
  <2> QED
    BY <2>2, <2>6, <2>7
<1> QED
  BY <1>1, <1>2, <1>3, <1>4, <1>5, <1>6, <1>7, <1>8 DEF VenueIds

-----------------------------------------------------------------------------
(* The types. *)

\* A collection is under way, or was, or none.
JobShape ==
  \/ job = Idle
  \/ /\ job.phase \in {"asked", "missing", "refreshing", "stored"}
     /\ job = [phase |-> job.phase, rows |-> job.rows, quoted |-> job.quoted,
               answer |-> job.answer, ids |-> job.ids, stored |-> job.stored,
               settled |-> job.settled]

ListingShape == listing = [phase |-> listing.phase, feed |-> listing.feed, ids |-> listing.ids]

AdapterTypes == AdapterTypeOK /\ JobShape /\ ListingShape

\* What hangs on the exchange alone does not change.
LEMMA SameVenue ==
  ASSUME venue' = venue
  PROVE  /\ Hosted' = Hosted
         /\ \A n : (ContractOf(n))' = ContractOf(n)
         /\ \A n : (OffFirstPage(n))' = OffFirstPage(n)
         /\ \A n : Perp(n)' = Perp(n)
         /\ venue # "lighter" => \A n : (NameOf(n))' = NameOf(n)
         /\ marketId' = marketId => \A n : (NameOf(n))' = NameOf(n)
BY DEF Hosted, ContractOf, OffFirstPage, NameOf, BybitName, IdName, AssetName, PairName, Perp

\* The job outlives a change of the markets, but no longer counts as settled.
LEMMA JobUnsettles ==
  ASSUME JobShape, Unsettled
  PROVE  /\ JobShape' /\ job'.phase = job.phase
         /\ job # Idle => /\ job'.rows = job.rows /\ job'.quoted = job.quoted
                          /\ job'.answer = job.answer /\ job'.ids = job.ids
                          /\ job'.stored = job.stored /\ ~job'.settled
<1>1. CASE job = Idle
  BY <1>1 DEF Unsettled, JobShape, Idle
<1>2. CASE job # Idle
  <2>1. job' = [phase |-> job.phase, rows |-> job.rows, quoted |-> job.quoted, answer |-> job.answer,
                ids |-> job.ids, stored |-> job.stored, settled |-> FALSE]
    BY <1>2 DEF JobShape, Unsettled
  <2> QED
    BY <1>2, <2>1 DEF JobShape
<1> QED
  BY <1>1, <1>2

\* A listing names markets that the exchange answers.
LEMMA ListingOfAnswer ==
  ASSUME venue \in VenueIds, NEW M, NEW detected
  PROVE  Listing(M, detected) \subseteq M
BY DEF Listing, VenueIds, AsterListing, BackpackListing, BinanceCoinmListing,
   BinanceUsdmListing, BybitListing, DeriveListing, DydxListing, ExtendedListing,
   HyperliquidListing, KucoinListing, LighterListing, OkxListing, PacificaListing, ParadexListing

LEMMA TypesOfListing ==
  ASSUME AdapterTypes, AskListing
  PROVE  /\ listing'.phase \in {"asked", "read"}
         /\ \A c \in listing'.feed : \E n \in Hosted : ContractOf(n) = c
         /\ ListingShape'
         /\ venue = "lighter" => \E M \in OrderBooks : listing'.ids = IdsOf(M)
         /\ venue # "lighter" => listing'.ids = {}
<1>1. PICK M \in OrderBooks, detected \in Detections \cup {Numbers} :
        listing' = [phase |-> IF venue = "lighter" THEN "asked" ELSE "read",
                    feed |-> {ContractOf(n) : n \in Listing(M, detected)},
                    ids |-> IF venue = "lighter" THEN IdsOf(M) ELSE {}]
  BY Zenon DEF AskListing, OrderBooks
<1>2. /\ listing'.phase = IF venue = "lighter" THEN "asked" ELSE "read"
      /\ listing'.feed = {ContractOf(n) : n \in Listing(M, detected)}
      /\ listing'.ids = IF venue = "lighter" THEN IdsOf(M) ELSE {}
  BY <1>1
<1>3. M \subseteq Hosted
  BY DEF OrderBooks, Answerable
<1>4. Listing(M, detected) \subseteq Hosted
  BY <1>3, ListingOfAnswer, MarketFacts DEF AdapterTypes, AdapterTypeOK
<1>5. \A c \in listing'.feed : \E n \in Hosted : ContractOf(n) = c
  BY <1>2, <1>4
<1>6. ListingShape'
  BY <1>1, <1>2 DEF ListingShape
<1> QED
  BY <1>2, <1>5, <1>6

\* What an exchange registers, and what is left when a listing is dropped.
LEMMA NoListingShape == NoListing.phase = "none" /\ NoListing.feed = {} /\ NoListing.ids = {}
BY DEF NoListing

\* A collection that goes on from a step to the next.
LEMMA TypesOfStore ==
  ASSUME JobShape, Store
  PROVE  \E kept : job' = [phase |-> "stored", rows |-> job.rows, quoted |-> job.quoted,
                           answer |-> {}, ids |-> {}, stored |-> kept, settled |-> job.settled]
<1> DEFINE C == {c \in job.rows : venue = "lighter" => Known(c, assetToId')}
           hits == {h \in C \X job.answer : LiveSymbol(h[1], assetToId') = h[2][1]}
<1>1. PICK S \in SUBSET hits :
        job' = [job EXCEPT !.phase = "stored", !.answer = {}, !.ids = {},
                           !.stored = {<<h[1], h[2][2]>> : h \in S}]
  BY ZenonT(60) DEF Store
<1>2. PICK kept : kept = {<<h[1], h[2][2]>> : h \in S}
  OBVIOUS
<1>3. job' = [job EXCEPT !.phase = "stored", !.answer = {}, !.ids = {}, !.stored = kept]
  BY <1>1, <1>2, Zenon
<1>4. job # Idle
  <2>1. job.phase \in {"asked", "refreshing"}
    BY ONLY Store, Zenon DEF Store
  <2> QED
    BY ONLY <2>1 DEF Idle
<1> QED
  BY <1>3, <1>4 DEF JobShape

\* The ids asked for: from then on they are those of the markets, or the
\* collection no longer counts as settled.
LEMMA TypesOfAskIds ==
  ASSUME JobShape, AskIds
  PROVE  \E M \in OrderBooks : \E b :
           /\ job' = [phase |-> "refreshing", rows |-> job.rows, quoted |-> job.quoted,
                      answer |-> job.answer, ids |-> IdsOf(M), stored |-> job.stored, settled |-> b]
           /\ b => job.settled /\ M = Answerable
<1>1. PICK M \in OrderBooks :
        job' = [job EXCEPT !.phase = "refreshing", !.ids = IdsOf(M),
                           !.settled = job.settled /\ M = Answerable]
  BY Zenon DEF AskIds
<1>2. PICK b : b = (job.settled /\ M = Answerable)
  OBVIOUS
<1>3. job' = [job EXCEPT !.phase = "refreshing", !.ids = IdsOf(M), !.settled = b]
  BY <1>1, <1>2, Zenon
<1>4. job # Idle
  BY DEF AskIds, Idle
<1>5. job' = [phase |-> "refreshing", rows |-> job.rows, quoted |-> job.quoted,
              answer |-> job.answer, ids |-> IdsOf(M), stored |-> job.stored, settled |-> b]
  BY <1>3, <1>4 DEF JobShape
<1>6. b => job.settled /\ M = Answerable
  BY <1>2, Zenon
<1> QED
  BY <1>5, <1>6, Zenon

LEMMA AdapterTypesInitially == AdapterInit => AdapterTypes
<1> SUFFICES ASSUME AdapterInit PROVE AdapterTypes
  OBVIOUS
<1>1. marketId \in [Numbers -> 1..(Len(MarketTable) + MaxMarketSteps)]
  BY MarketFacts DEF AdapterInit, Numbers
<1>2. job = Idle /\ job.phase = "idle"
  BY DEF AdapterInit, Idle
<1>3. listing = NoListing /\ rows = {}
  BY DEF AdapterInit
<1>4. AdapterTypeOK
  BY <1>1, <1>2, <1>3, NoListingShape, MarketFacts DEF AdapterInit, AdapterTypeOK
<1> QED
  BY <1>2, <1>3, <1>4, NoListingShape DEF AdapterTypes, JobShape, ListingShape, NoListing

LEMMA AdapterTypesStep ==
  ASSUME AdapterTypes, [AdapterNext]_adapterVars
  PROVE  AdapterTypes'
<1> USE DEF AdapterTypes
<1>0. venue' = venue => \A S, T : /\ S \subseteq T
                                  /\ \A c \in T : \E n \in Hosted : ContractOf(n) = c
                                  => \A c \in S : \E n \in Hosted' : (ContractOf(n))' = c
  BY SameVenue
<1>1. ASSUME NEW n \in Numbers, ListMarket(n)
      PROVE  AdapterTypes'
  <2>1. /\ marketSteps' \in 0..MaxMarketSteps
        /\ status' \in [Numbers -> {"absent", "open", "closed"}]
        /\ UNCHANGED <<venue, listing, rows, collector, assetToId>>
    BY <1>1, MarketFacts DEF ListMarket, AdapterTypeOK
  <2>2. NewIds \subseteq 1..(Len(MarketTable) + MaxMarketSteps)
    BY <1>1, MarketFacts DEF ListMarket, AdapterTypeOK, NewIds
  <2>3. marketId' \in [Numbers -> 1..(Len(MarketTable) + MaxMarketSteps)]
    BY <1>1, <2>2 DEF ListMarket, AdapterTypeOK
  <2>4. JobShape' /\ job'.phase = job.phase
    BY <1>1, JobUnsettles DEF ListMarket
  <2> QED
    BY <2>1, <2>3, <2>4, SameVenue DEF AdapterTypeOK, ListingShape
<1>2. ASSUME NEW n \in Numbers, EndMarket(n)
      PROVE  AdapterTypes'
  <2>1. /\ marketSteps' \in 0..MaxMarketSteps
        /\ status' \in [Numbers -> {"absent", "open", "closed"}]
        /\ UNCHANGED <<venue, marketId, listing, rows, collector, assetToId>>
    BY <1>2, MarketFacts DEF EndMarket, AdapterTypeOK
  <2>2. JobShape' /\ job'.phase = job.phase
    BY <1>2, JobUnsettles DEF EndMarket
  <2> QED
    BY <2>1, <2>2, SameVenue DEF AdapterTypeOK, ListingShape
<1>3. CASE AskListing
  <2>1. UNCHANGED <<venue, status, marketId, marketSteps, rows, collector, assetToId, job>>
    BY <1>3 DEF AskListing
  <2> QED
    BY <1>3, <2>1, TypesOfListing, SameVenue DEF AdapterTypeOK, JobShape
<1>4. CASE ReadListing
  <2>1. UNCHANGED <<venue, status, marketId, marketSteps, rows, collector, job>>
    BY <1>4 DEF ReadListing
  <2>2. listing' = [phase |-> "read", feed |-> listing.feed, ids |-> listing.ids]
    BY <1>4 DEF ReadListing, ListingShape
  <2> QED
    BY <2>1, <2>2, SameVenue DEF AdapterTypeOK, JobShape, ListingShape
<1>5. CASE Register
  <2>1. UNCHANGED <<venue, status, marketId, marketSteps, collector, assetToId, job>>
        /\ rows' = listing.feed /\ listing' = NoListing
    BY <1>5 DEF Register
  <2> QED
    BY <2>1, NoListingShape, SameVenue DEF AdapterTypeOK, JobShape, ListingShape, NoListing
<1>6. CASE DropListing
  <2>1. UNCHANGED <<venue, status, marketId, marketSteps, rows, collector, assetToId, job>>
        /\ listing' = NoListing
    BY <1>6 DEF DropListing
  <2> QED
    BY <2>1, NoListingShape, SameVenue DEF AdapterTypeOK, JobShape, ListingShape, NoListing
<1>7. CASE Ask
  <2>1. UNCHANGED <<venue, status, marketId, marketSteps, listing, rows, collector, assetToId>>
    BY <1>7 DEF Ask
  <2>2. PICK Q : job' = [phase |-> "asked", rows |-> rows, quoted |-> Q, answer |-> Answer(Q),
                         ids |-> {}, stored |-> {}, settled |-> TRUE]
    BY <1>7 DEF Ask
  <2> QED
    BY <2>1, <2>2, SameVenue DEF AdapterTypeOK, JobShape, ListingShape
<1>8. CASE MissIds
  <2>1. UNCHANGED <<venue, status, marketId, marketSteps, listing, rows, collector, assetToId>>
    BY <1>8 DEF MissIds
  <2>2. job' = [phase |-> "missing", rows |-> job.rows, quoted |-> job.quoted, answer |-> job.answer,
                ids |-> job.ids, stored |-> job.stored, settled |-> job.settled]
    BY <1>8 DEF MissIds, JobShape, Idle
  <2> QED
    BY <2>1, <2>2, SameVenue DEF AdapterTypeOK, JobShape, ListingShape
<1>9. CASE AskIds
  <2>1. UNCHANGED <<venue, status, marketId, marketSteps, listing, rows, collector, assetToId>>
    BY <1>9 DEF AskIds
  <2>2. PICK X, b :
          job' = [phase |-> "refreshing", rows |-> job.rows, quoted |-> job.quoted,
                  answer |-> job.answer, ids |-> X, stored |-> job.stored, settled |-> b]
    BY <1>9, TypesOfAskIds, Zenon
  <2> QED
    BY <2>1, <2>2, SameVenue DEF AdapterTypeOK, JobShape, ListingShape
<1>10. CASE Store
  <2>1. UNCHANGED <<venue, status, marketId, marketSteps, listing, rows, collector>>
    BY <1>10 DEF Store
  <2> QED
    BY <1>10, <2>1, TypesOfStore, SameVenue DEF AdapterTypeOK, JobShape, ListingShape
<1>11. CASE Lose
  <2>1. UNCHANGED <<venue, status, marketId, marketSteps, listing, rows, collector, assetToId>>
        /\ job' = Idle
    BY <1>11 DEF Lose
  <2> QED
    BY <2>1, SameVenue DEF AdapterTypeOK, JobShape, ListingShape, Idle
<1>12. CASE UNCHANGED adapterVars
  <2>1. UNCHANGED <<venue, status, marketId, marketSteps, listing, rows, collector, assetToId, job>>
    BY <1>12 DEF adapterVars
  <2> QED
    BY <2>1, SameVenue DEF AdapterTypeOK, JobShape, ListingShape
<1> QED
  BY <1>1, <1>2, <1>3, <1>4, <1>5, <1>6, <1>7, <1>8, <1>9, <1>10, <1>11, <1>12 DEF AdapterNext

LEMMA TypesInvariant == AdapterSpec => []AdapterTypes
BY AdapterTypesInitially, AdapterTypesStep, PTL DEF AdapterSpec

\* Types, and the contracts in the database are such as the exchange's markets
\* become.
THEOREM AdapterTypeCorrect == AdapterSpec => []AdapterTypeOK
<1>1. AdapterTypes => AdapterTypeOK
  BY DEF AdapterTypes
<1> QED
  BY <1>1, TypesInvariant, PTL

-----------------------------------------------------------------------------
(* The invariant. *)

\* What was asked for: contracts and markets of the exchange, the rates by the
\* names of their markets; and, while the markets have not changed, every one,
\* with the ids of every market.
AskedInv ==
  Pending =>
    /\ \A c \in job.rows : \E n \in Hosted : ContractOf(n) = c
    /\ \A a \in job.answer :
         \E n \in Hosted : a = <<a[1], n>> /\ (venue # "lighter" => a[1] = NameOf(n))
    /\ job.settled =>
         /\ job.quoted \subseteq Answerable
         /\ \A n \in job.quoted :
              Perp(n) /\ Open(n) /\ ~OffFirstPage(n) => <<NameOf(n), n>> \in job.answer
         /\ job.phase = "refreshing" => job.ids = IdsOf(Answerable)

NextId == Len(MarketTable) + marketSteps

\* Lighter gives no id twice: a pair of an asset and an id, however old, is of no
\* market but the asset's perpetual, among the markets and among the rates under
\* way.
SoundId(x) ==
  /\ x = <<x[1], x[2]>> /\ x[2] \in 1..NextId
  /\ \A n \in Numbers : marketId[n] = x[2] => Perp(n) /\ MarketTable[n].base = x[1]
  /\ Pending => \A a \in job.answer : a[1] = <<x[2]>> => Perp(a[2]) /\ MarketTable[a[2]].base = x[1]

SoundIds(X) == \A x \in X : SoundId(x) /\ \A y \in X : x[1] = y[1] => x = y

MarketIds ==
  /\ \A n \in Numbers : marketId[n] \in 1..NextId
  /\ \A m \in Numbers, n \in Numbers : marketId[m] = marketId[n] => m = n

AnswerIds ==
  Pending =>
    \A a \in job.answer :
      /\ \E i \in 1..NextId : a[1] = <<i>>
      /\ \A n \in Numbers : a[1] = <<marketId[n]>> => n = a[2]
      /\ \A b \in job.answer : a[1] = b[1] => a[2] = b[2]

\* So of the cache, of the ids that the registry asked for and of those that the
\* collector asked for.
IdInv ==
  venue = "lighter" =>
    /\ MarketIds /\ AnswerIds
    /\ SoundIds(assetToId) /\ SoundIds(listing.ids)
    /\ job.phase = "refreshing" => SoundIds(job.ids)

AdapterInv == AdapterTypes /\ AskedInv /\ IdInv

\* What is shown of a collection.
Shown == RateOfItsMarket /\ CollectionIsComplete

\* Ids never come back where there are ids.
IdsStayFresh == "lighter" \in Venues => FreshIds

LEMMA VenueIsKnown ==
  ASSUME AdapterTypes
  PROVE  venue \in VenueIds /\ (IdsStayFresh /\ venue = "lighter" => FreshIds)
BY MarketFacts DEF AdapterTypes, AdapterTypeOK, IdsStayFresh

LEMMA AdapterInitially == AdapterInit => AdapterInv /\ Shown
<1> SUFFICES ASSUME AdapterInit PROVE AdapterInv /\ Shown
  OBVIOUS
<1>1. job.phase = "idle" /\ ~Pending
  BY DEF AdapterInit, Idle, Pending
<1>2. assetToId = {} /\ listing.ids = {}
  BY NoListingShape DEF AdapterInit
<1>3. MarketIds
  BY MarketFacts DEF AdapterInit, MarketIds, NextId, Numbers
<1>4. IdInv
  BY <1>1, <1>2, <1>3 DEF IdInv, AnswerIds, SoundIds
<1> QED
  BY <1>1, <1>4, AdapterTypesInitially
     DEF AdapterInv, AskedInv, Shown, RateOfItsMarket, CollectionIsComplete

\* Where the markets stay as they are.
MarketsStay == UNCHANGED <<venue, status, marketId, marketSteps>>

LEMMA SameMarkets ==
  ASSUME MarketsStay
  PROVE  /\ Hosted' = Hosted /\ Answerable' = Answerable /\ NextId' = NextId
         /\ \A n : Perp(n)' = Perp(n) /\ Open(n)' = Open(n) /\ (NameOf(n))' = NameOf(n)
         /\ \A n : (ContractOf(n))' = ContractOf(n) /\ (OffFirstPage(n))' = OffFirstPage(n)
         /\ (IdsOf(Answerable))' = IdsOf(Answerable)
         /\ MarketIds' = MarketIds
<1>1. /\ Hosted' = Hosted
      /\ \A n : Perp(n)' = Perp(n) /\ (NameOf(n))' = NameOf(n)
      /\ \A n : (ContractOf(n))' = ContractOf(n) /\ (OffFirstPage(n))' = OffFirstPage(n)
  BY SameVenue DEF MarketsStay
<1>2. Answerable' = Answerable
  BY <1>1 DEF MarketsStay, Answerable
<1>3. NextId' = NextId /\ \A n : Open(n)' = Open(n)
  BY DEF MarketsStay, NextId, Open
<1>4. (IdsOf(Answerable))' = IdsOf(Answerable)
  BY <1>1, <1>2 DEF MarketsStay, IdsOf
<1>5. MarketIds' = MarketIds
  BY <1>3 DEF MarketsStay, MarketIds
<1> QED
  BY <1>1, <1>2, <1>3, <1>4, <1>5

\* A set of ids stays sound while the markets stay as they are and the rates
\* under way are those of before, or none.
LEMMA SoundIdsStay ==
  ASSUME MarketsStay, job' = job \/ ~Pending' \/ (Pending /\ job'.answer = job.answer),
         NEW X, SoundIds(X)
  PROVE  SoundIds(X)'
<1>1. NextId' = NextId /\ \A n : Perp(n)' = Perp(n)
  BY SameMarkets
<1>2. Pending' => Pending /\ job'.answer = job.answer
  BY DEF Pending
<1>3. ASSUME NEW x, SoundId(x) PROVE SoundId(x)'
  BY <1>1, <1>2, <1>3 DEF SoundId, MarketsStay
<1> QED
  BY <1>3 DEF SoundIds

\* A step that leaves the markets and the collection alone.
LEMMA JobStays ==
  ASSUME AskedInv, Shown, MarketsStay, job' = job
  PROVE  AskedInv' /\ Shown' /\ (AnswerIds => AnswerIds')
<1>1. Pending' = Pending
  BY DEF Pending
<1> QED
  BY <1>1, SameMarkets DEF AskedInv, Shown, RateOfItsMarket, CollectionIsComplete, AnswerIds, MarketsStay

\* The ids of an answer of lighter are those of the markets.
LEMMA ListedIdsAreSound ==
  ASSUME AdapterInv, venue = "lighter", NEW M \in OrderBooks
  PROVE  SoundIds(IdsOf(M))
<1>1. M \subseteq Answerable /\ Answerable \subseteq Hosted /\ Hosted \subseteq Numbers
  BY HostedFacts DEF OrderBooks, Answerable
<1>2. MarketIds /\ AnswerIds
  BY DEF AdapterInv, IdInv
<1>3. \A x \in IdsOf(M) : \E n \in M : Perp(n) /\ x = <<MarketTable[n].base, marketId[n]>>
  BY DEF IdsOf
<1>4. ASSUME NEW m \in M, NEW n \in M, Perp(m), Perp(n), MarketTable[m].base = MarketTable[n].base
      PROVE  m = n
  <2>1. MarketTable[m].quote = MarketTable[n].quote
    BY <1>1, HostedFacts DEF OneQuote
  <2> QED
    BY <1>1, <1>4, <2>1, SameMarket DEF Perp
<1>5. ASSUME NEW x \in IdsOf(M)
      PROVE  SoundId(x) /\ \A y \in IdsOf(M) : x[1] = y[1] => x = y
  <2>1. PICK m \in M : Perp(m) /\ x = <<MarketTable[m].base, marketId[m]>>
    BY <1>3
  <2>2. x[1] = MarketTable[m].base /\ x[2] = marketId[m] /\ m \in Numbers
    BY <1>1, <2>1
  <2>3. \A n \in Numbers : marketId[n] = x[2] => Perp(n) /\ MarketTable[n].base = x[1]
    BY <1>2, <2>1, <2>2 DEF MarketIds
  <2>4. ASSUME NEW y \in IdsOf(M), x[1] = y[1]
        PROVE  x = y
    <3>1. PICK n \in M : Perp(n) /\ y = <<MarketTable[n].base, marketId[n]>>
      BY <1>3
    <3>2. y[1] = MarketTable[n].base
      BY <3>1
    <3>3. m = n
      BY <1>4, <2>1, <2>2, <2>4, <3>1, <3>2
    <3> QED
      BY <2>1, <3>1, <3>3
  <2>5. ASSUME Pending, NEW a \in job.answer, a[1] = <<x[2]>>
        PROVE  Perp(a[2]) /\ MarketTable[a[2]].base = x[1]
    <3>1. a[1] = <<marketId[m]>>
      BY <2>2, <2>5
    <3>2. m = a[2]
      BY <1>2, <2>2, <2>5, <3>1 DEF AnswerIds
    <3> QED
      BY <2>1, <2>2, <3>2
  <2>6. x[2] \in 1..NextId
    BY <1>2, <2>2 DEF MarketIds
  <2> QED
    BY <2>1, <2>3, <2>4, <2>5, <2>6 DEF SoundId
<1> QED
  BY <1>5 DEF SoundIds

-----------------------------------------------------------------------------
(* The look-up. *)

\* The ids by which rates are looked up suit the rates.
Matching(ids) ==
  \A x \in ids : x = <<x[1], x[2]>> /\ \A a \in job.answer :
    venue = "lighter" /\ a[1] = <<x[2]>> => Perp(a[2]) /\ MarketTable[a[2]].base = x[1]

\* A contract is found, by either collector, at the market it became, and no
\* two contracts share a name.
LEMMA HitOfItsMarket ==
  ASSUME AdapterInv, Pending, NEW ids, venue = "lighter" => Matching(ids),
         NEW c \in job.rows, NEW a \in job.answer,
         venue = "lighter" => Known(c, ids),
         LiveSymbol(c, ids) = a[1]
  PROVE  a[2] \in Hosted /\ Perp(a[2]) /\ ContractOf(a[2]) = c
<1>0. venue \in VenueIds
  BY VenueIsKnown DEF AdapterInv
<1>1. PICK m \in Hosted : ContractOf(m) = c
  BY DEF AdapterInv, AskedInv
<1>2. PICK n \in Hosted : a = <<a[1], n>> /\ (venue # "lighter" => a[1] = NameOf(n))
  BY DEF AdapterInv, AskedInv
<1>3. a[2] = n
  BY <1>2
<1>4. CASE venue # "lighter"
  BY <1>0, <1>1, <1>2, <1>3, <1>4, SymbolIsName
<1>5. CASE venue = "lighter"
  <2>1. LiveSymbol(c, ids) = IdSymbol(c, ids)
    BY <1>5 DEF LiveSymbol
  <2> DEFINE x == CHOOSE y \in ids : y[1] = c.asset
  <2>2. x \in ids /\ x[1] = c.asset
    BY <1>5 DEF Known
  <2>3. a[1] = <<x[2]>>
    BY <2>1 DEF IdSymbol
  <2>4. Perp(n) /\ MarketTable[n].base = c.asset
    BY <1>3, <1>5, <2>2, <2>3 DEF Matching
  <2>5. c.asset = MarketTable[m].base
    BY <1>1, <1>5 DEF ContractOf
  <2>6. ContractOf(n) = ContractOf(m)
    BY <1>5, <2>4, <2>5 DEF ContractOf, OneQuote
  <2> QED
    BY <1>1, <1>3, <2>4, <2>6
<1> QED
  BY <1>4, <1>5

\* Of two contracts found at the same name there is but one.
LEMMA OneHit ==
  ASSUME AdapterInv, Pending, NEW ids, venue = "lighter" => Matching(ids),
         NEW c \in job.rows, NEW a \in job.answer,
         NEW d \in job.rows, NEW b \in job.answer,
         venue = "lighter" => Known(c, ids) /\ Known(d, ids),
         LiveSymbol(c, ids) = a[1], LiveSymbol(d, ids) = b[1], a[1] = b[1]
  PROVE  c = d /\ a = b
<1>0. venue \in VenueIds
  BY VenueIsKnown DEF AdapterInv
<1>1. a[2] \in Hosted /\ Perp(a[2]) /\ ContractOf(a[2]) = c
  BY HitOfItsMarket
<1>2. b[2] \in Hosted /\ Perp(b[2]) /\ ContractOf(b[2]) = d
  BY HitOfItsMarket
<1>3. /\ a = <<a[1], a[2]>> /\ b = <<b[1], b[2]>>
      /\ venue # "lighter" => a[1] = NameOf(a[2])
  <2>1. \A e \in job.answer : e = <<e[1], e[2]>> /\ (venue # "lighter" => e[1] = NameOf(e[2]))
    BY DEF AdapterInv, AskedInv
  <2> QED
    BY <2>1
<1>4. a[2] = b[2]
  <2>1. CASE venue # "lighter"
    <3>1. LiveSymbol(ContractOf(b[2]), ids) = NameOf(a[2])
      BY <1>2, <1>3, <2>1
    <3>2. ContractOf(a[2]) = ContractOf(b[2])
      BY <1>0, <1>1, <1>2, <2>1, <3>1, SymbolIsName
    <3> QED
      BY <1>1, <1>2, <3>2, MarketOfContract
  <2>2. CASE venue = "lighter"
    BY <2>2 DEF AdapterInv, IdInv, AnswerIds
  <2> QED
    BY <2>1, <2>2
<1> QED
  BY <1>1, <1>2, <1>3, <1>4

\* The cache the rates are looked up with: it is sound, and while the markets
\* stay as they are it has the id of every market whose rate is there.
LEMMA IdsOfTheirMarkets ==
  ASSUME AdapterInv, Store, venue = "lighter"
  PROVE  /\ SoundIds(assetToId')
         /\ job.settled =>
              \A n \in Answerable : Perp(n) /\ <<NameOf(n), n>> \in job.answer =>
                <<MarketTable[n].base, marketId[n]>> \in assetToId'
<1>0. Hosted \subseteq Numbers /\ Answerable \subseteq Numbers
  BY HostedFacts DEF Answerable
<1>1. /\ job.phase = "refreshing" \/ (job.phase = "asked" /\ ~NeedsIds)
      /\ assetToId' = IF job.phase = "refreshing" THEN job.ids ELSE assetToId
  BY Zenon DEF Store
<1>2. SoundIds(assetToId) /\ (job.phase = "refreshing" => SoundIds(job.ids))
  BY DEF AdapterInv, IdInv
<1>3. CASE job.phase = "refreshing"
  <2>1. assetToId' = job.ids
    BY <1>1, <1>3
  <2>2. job.settled => job.ids = IdsOf(Answerable)
    BY <1>3 DEF AdapterInv, AskedInv, Pending
  <2>3. \A n \in Answerable : Perp(n) => <<MarketTable[n].base, marketId[n]>> \in IdsOf(Answerable)
    BY DEF IdsOf
  <2> QED
    BY <1>2, <1>3, <2>1, <2>2, <2>3
<1>4. CASE job.phase = "asked" /\ ~NeedsIds
  <2>1. assetToId' = assetToId /\ ~HasUnknownMarketIds(job.answer, assetToId)
    BY <1>1, <1>4 DEF NeedsIds, TrackerNeedsIds, WorkerNeedsIds
  <2>2. ASSUME NEW n \in Answerable, Perp(n), <<NameOf(n), n>> \in job.answer
        PROVE  <<MarketTable[n].base, marketId[n]>> \in assetToId
    <3>1. NameOf(n) = <<marketId[n]>>
      BY DEF NameOf, IdName
    <3>2. <<NameOf(n), n>>[1] \in {<<x[2]>> : x \in assetToId}
      BY <2>1, <2>2, Zenon DEF HasUnknownMarketIds
    <3>3. PICK x \in assetToId : <<NameOf(n), n>>[1] = <<x[2]>>
      BY <3>2, Zenon
    <3>4. x[2] = marketId[n]
      BY <3>1, <3>3
    <3>5. x = <<x[1], x[2]>> /\ MarketTable[n].base = x[1]
      BY <1>0, <1>2, <3>4 DEF SoundIds, SoundId
    <3> QED
      BY <3>4, <3>5
  <2> QED
    BY <1>2, <2>1, <2>2
<1> QED
  BY <1>1, <1>3, <1>4

-----------------------------------------------------------------------------
(* The steps. *)

\* A change of the markets leaves an asked collection as it was asked for.
LEMMA AskedUnsettles ==
  ASSUME AdapterTypes, AskedInv, Shown, Unsettled, venue' = venue
  PROVE  /\ AskedInv' /\ Shown' /\ Pending' = Pending /\ job'.phase = job.phase
         /\ Pending => job'.answer = job.answer /\ job'.ids = job.ids
<1>1. /\ job'.phase = job.phase
      /\ job # Idle => /\ job'.rows = job.rows /\ job'.quoted = job.quoted
                       /\ job'.answer = job.answer /\ job'.ids = job.ids
                       /\ job'.stored = job.stored /\ ~job'.settled
  BY JobUnsettles DEF AdapterTypes
<1>2. job.phase \in {"asked", "missing", "refreshing", "stored"} => job # Idle
  BY DEF Idle
<1>3. Pending' = Pending
  BY <1>1 DEF Pending
<1>4. AskedInv'
  BY <1>1, <1>2, <1>3, SameVenue DEF AskedInv, Pending
<1>5. Shown'
  BY <1>1, <1>2, SameVenue DEF Shown, RateOfItsMarket, CollectionIsComplete
<1> QED
  BY <1>1, <1>2, <1>3, <1>4, <1>5 DEF Pending

LEMMA ListMarketStep ==
  ASSUME IdsStayFresh, AdapterInv, Shown, NEW n \in Numbers, ListMarket(n)
  PROVE  AskedInv' /\ IdInv' /\ Shown'
<1>1. /\ AskedInv' /\ Shown' /\ Pending' = Pending /\ job'.phase = job.phase
      /\ Pending => job'.answer = job.answer /\ job'.ids = job.ids
  BY AskedUnsettles DEF AdapterInv, ListMarket
<1>2. ASSUME venue # "lighter" PROVE IdInv'
  BY <1>1, <1>2 DEF IdInv, ListMarket
<1>3. ASSUME venue = "lighter" PROVE IdInv'
  <2>0. UNCHANGED <<venue, listing, rows, collector, assetToId>>
    BY DEF ListMarket
  <2>1. MarketIds /\ AnswerIds /\ SoundIds(assetToId) /\ SoundIds(listing.ids)
        /\ (job.phase = "refreshing" => SoundIds(job.ids))
    BY <1>3 DEF AdapterInv, IdInv
  <2>2. NextId \in Nat /\ NextId' = NextId + 1
    BY MarketFacts DEF AdapterInv, AdapterTypes, AdapterTypeOK, ListMarket, NextId
  <2>3. NewIds = {NextId + 1}
    BY <1>3, VenueIsKnown DEF AdapterInv, NewIds, NextId
  <2>4. \A m \in Numbers : marketId'[m] = IF m = n THEN NextId + 1 ELSE marketId[m]
    BY <2>3 DEF ListMarket, AdapterInv, AdapterTypes, AdapterTypeOK
  <2>5. \A m : Perp(m)' = Perp(m)
    BY <2>0, SameVenue
  <2>6. MarketIds'
    BY <2>1, <2>2, <2>4 DEF MarketIds
  <2>7. AnswerIds'
    <3> SUFFICES ASSUME Pending, NEW a \in job.answer
                 PROVE  /\ \E i \in 1..NextId' : a[1] = <<i>>
                        /\ \A m \in Numbers : a[1] = <<marketId'[m]>> => m = a[2]
                        /\ \A b \in job.answer : a[1] = b[1] => a[2] = b[2]
      BY <1>1 DEF AnswerIds
    <3>1. PICK i \in 1..NextId : a[1] = <<i>>
      BY <2>1 DEF AnswerIds
    <3>2. \A m \in Numbers : a[1] = <<marketId'[m]>> => a[1] = <<marketId[m]>>
      BY <2>2, <2>4, <3>1
    <3> QED
      BY <2>1, <2>2, <3>1, <3>2 DEF AnswerIds
  <2>8. ASSUME NEW X, SoundIds(X) PROVE SoundIds(X)'
    <3>1. ASSUME NEW x, SoundId(x) PROVE SoundId(x)'
      <4>1. x[2] \in 1..NextId' /\ \A m \in Numbers : marketId'[m] = x[2] => marketId[m] = x[2]
        BY <2>2, <2>4, <3>1 DEF SoundId
      <4> QED
        BY <1>1, <2>5, <3>1, <4>1 DEF SoundId
    <3> QED
      BY <2>8, <3>1 DEF SoundIds
  <2>9. PICK A, L, J : A = assetToId /\ L = listing.ids /\ J = job.ids
    OBVIOUS
  <2>10. SoundIds(A)' /\ SoundIds(L)' /\ (job.phase = "refreshing" => SoundIds(J)')
    BY <2>1, <2>8, <2>9
  <2>11. SoundIds(assetToId)' /\ SoundIds(listing.ids)'
         /\ (job'.phase = "refreshing" => SoundIds(job.ids)')
    BY <1>1, <2>0, <2>9, <2>10 DEF Pending, SoundIds
  <2> QED
    BY <2>6, <2>7, <2>11 DEF IdInv
<1> QED
  BY <1>1, <1>2, <1>3

LEMMA EndMarketStep ==
  ASSUME AdapterInv, Shown, NEW n \in Numbers, EndMarket(n)
  PROVE  AskedInv' /\ IdInv' /\ Shown'
<1>1. /\ AskedInv' /\ Shown' /\ Pending' = Pending /\ job'.phase = job.phase
      /\ Pending => job'.answer = job.answer /\ job'.ids = job.ids
  BY AskedUnsettles DEF AdapterInv, EndMarket
<1>2. UNCHANGED <<venue, marketId, listing, rows, collector, assetToId>>
  BY DEF EndMarket
<1>3. NextId \in Nat /\ NextId' = NextId + 1
  BY MarketFacts DEF AdapterInv, AdapterTypes, AdapterTypeOK, EndMarket, NextId
<1>4. \A i \in 1..NextId : i \in 1..NextId'
  BY <1>3
<1>5. \A m : Perp(m)' = Perp(m)
  BY <1>2, SameVenue
<1>6. MarketIds => MarketIds'
  BY <1>2, <1>4 DEF MarketIds
<1>7. AnswerIds => AnswerIds'
  BY <1>1, <1>2, <1>4 DEF AnswerIds
<1>8. ASSUME NEW X, SoundIds(X) PROVE SoundIds(X)'
  <2>1. ASSUME NEW x, SoundId(x) PROVE SoundId(x)'
    BY <1>1, <1>2, <1>4, <1>5, <2>1 DEF SoundId
  <2> QED
    BY <1>8, <2>1 DEF SoundIds
<1>9. PICK A, L, J : A = assetToId /\ L = listing.ids /\ J = job.ids
  OBVIOUS
<1>10. ASSUME venue = "lighter" PROVE IdInv'
  <2>1. SoundIds(A)' /\ SoundIds(L)' /\ (job.phase = "refreshing" => SoundIds(J)')
    BY <1>8, <1>9, <1>10 DEF AdapterInv, IdInv
  <2>2. SoundIds(assetToId)' /\ SoundIds(listing.ids)'
         /\ (job'.phase = "refreshing" => SoundIds(job.ids)')
    BY <1>1, <1>2, <1>9, <2>1 DEF Pending, SoundIds
  <2> QED
    BY <1>6, <1>7, <1>10, <2>2 DEF AdapterInv, IdInv
<1> QED
  BY <1>1, <1>2, <1>10 DEF IdInv

\* The steps of the registry: the ids of a listing are sound, and so is a cache
\* that they replace.
LEMMA RegistrySteps ==
  ASSUME AdapterInv, Shown, AskListing \/ ReadListing \/ Register \/ DropListing
  PROVE  AskedInv' /\ IdInv' /\ Shown'
<1>1. MarketsStay /\ job' = job
  BY DEF AskListing, ReadListing, Register, DropListing, MarketsStay
<1>2. AskedInv' /\ Shown' /\ (AnswerIds => AnswerIds') /\ (MarketIds => MarketIds')
  BY <1>1, JobStays, SameMarkets DEF AdapterInv
<1>3. \A X : SoundIds(X) => SoundIds(X)'
  BY <1>1, SoundIdsStay
<1>4. ASSUME venue = "lighter" PROVE IdInv'
  <2>1. PICK A : A = assetToId' /\ SoundIds(A)
    <3>1. assetToId' = assetToId \/ assetToId' = listing.ids
      BY DEF AskListing, ReadListing, Register, DropListing
    <3> QED
      BY <1>4, <3>1 DEF AdapterInv, IdInv
  <2>2. PICK L : L = listing'.ids /\ SoundIds(L)
    <3>1. CASE AskListing
      BY <1>4, <3>1, TypesOfListing, ListedIdsAreSound DEF AdapterInv
    <3>2. CASE ReadListing
      <4>1. listing'.ids = listing.ids
        BY <3>2 DEF ReadListing, AdapterInv, AdapterTypes, ListingShape
      <4> QED
        BY <1>4, <4>1 DEF AdapterInv, IdInv
    <3>3. CASE Register \/ DropListing
      BY <3>3, NoListingShape DEF Register, DropListing, SoundIds
    <3> QED
      BY <3>1, <3>2, <3>3
  <2>3. PICK J : J = job.ids
    OBVIOUS
  <2>4. SoundIds(A)' /\ SoundIds(L)' /\ (job.phase = "refreshing" => SoundIds(J)')
    BY <1>3, <1>4, <2>1, <2>2, <2>3 DEF AdapterInv, IdInv
  <2>5. SoundIds(assetToId)' /\ SoundIds(listing.ids)'
        /\ (job'.phase = "refreshing" => SoundIds(job.ids)')
    BY <1>1, <2>1, <2>2, <2>3, <2>4 DEF SoundIds
  <2> QED
    BY <1>2, <1>4, <2>5 DEF AdapterInv, IdInv
<1>5. ASSUME venue # "lighter" PROVE IdInv'
  BY <1>1, <1>5 DEF IdInv, MarketsStay
<1> QED
  BY <1>2, <1>4, <1>5

LEMMA AskStep ==
  ASSUME AdapterInv, Ask
  PROVE  AskedInv' /\ IdInv' /\ Shown'
<1>1. UNCHANGED <<venue, status, marketId, marketSteps, listing, rows, collector, assetToId>>
      /\ MarketsStay
  BY DEF Ask, MarketsStay
<1>2. PICK Q \in SUBSET Answerable :
        job' = [phase |-> "asked", rows |-> rows, quoted |-> Q, answer |-> Answer(Q),
                ids |-> {}, stored |-> {}, settled |-> TRUE]
  BY DEF Ask
<1>3. /\ job'.phase = "asked" /\ job'.rows = rows /\ job'.quoted = Q /\ job'.answer = Answer(Q)
      /\ job'.stored = {} /\ job'.settled = TRUE
  BY <1>2
<1>4. venue \in VenueIds /\ Q \in SUBSET Hosted
  BY VenueIsKnown DEF AdapterInv, Answerable
<1>5. /\ \A a \in Answer(Q) : \E n \in Q : a = <<NameOf(n), n>>
      /\ \A n \in Q : Perp(n) /\ Open(n) /\ ~OffFirstPage(n) => <<NameOf(n), n>> \in Answer(Q)
  BY <1>4, AnswerNames
<1>6. AskedInv'
  <2>1. \A a \in job'.answer : \E n \in Hosted : a = <<a[1], n>> /\ a[1] = NameOf(n)
    BY <1>3, <1>4, <1>5
  <2>2. \A c \in rows : \E n \in Hosted : ContractOf(n) = c
    BY DEF AdapterInv, AdapterTypes, AdapterTypeOK
  <2> QED
    BY <1>1, <1>3, <1>4, <1>5, <2>1, <2>2, SameMarkets DEF AskedInv
<1>7. ASSUME venue = "lighter" PROVE IdInv'
  <2>0. MarketIds /\ SoundIds(assetToId) /\ SoundIds(listing.ids)
    BY <1>7 DEF AdapterInv, IdInv
  <2>1. ASSUME NEW a \in Answer(Q)
        PROVE  \E n \in Numbers : a[1] = <<marketId[n]>> /\ a[2] = n
    <3>1. PICK n \in Q : a = <<NameOf(n), n>>
      BY <1>5
    <3>2. NameOf(n) = <<marketId[n]>>
      BY <1>7 DEF NameOf, IdName
    <3> QED
      BY <1>4, <3>1, <3>2, HostedFacts
  <2>2. AnswerIds'
    <3> SUFFICES ASSUME NEW a \in Answer(Q)
                 PROVE  /\ \E i \in 1..NextId : a[1] = <<i>>
                        /\ \A n \in Numbers : a[1] = <<marketId[n]>> => n = a[2]
                        /\ \A b \in Answer(Q) : a[1] = b[1] => a[2] = b[2]
      BY <1>1, <1>3, SameMarkets DEF AnswerIds
    <3>1. PICK n \in Numbers : a[1] = <<marketId[n]>> /\ a[2] = n
      BY <2>1
    <3>2. \A m \in Numbers : a[1] = <<marketId[m]>> => m = n
      BY <2>0, <3>1 DEF MarketIds
    <3>3. \A b \in Answer(Q) : a[1] = b[1] => a[2] = b[2]
      BY <2>1, <3>1, <3>2
    <3> QED
      BY <2>0, <3>1, <3>2, <3>3 DEF MarketIds
  <2>3. ASSUME NEW X, SoundIds(X) PROVE SoundIds(X)'
    <3>1. ASSUME NEW x, SoundId(x) PROVE SoundId(x)'
      <4>1. ASSUME NEW a \in Answer(Q), a[1] = <<x[2]>>
            PROVE  Perp(a[2]) /\ MarketTable[a[2]].base = x[1]
        <5>1. PICK n \in Numbers : a[1] = <<marketId[n]>> /\ a[2] = n
          BY <2>1
        <5>2. marketId[n] = x[2]
          BY <4>1, <5>1
        <5> QED
          BY <3>1, <5>1, <5>2 DEF SoundId
      <4> QED
        BY <1>1, <1>3, <3>1, <4>1, SameMarkets DEF SoundId
    <3> QED
      BY <2>3, <3>1 DEF SoundIds
  <2>4. PICK A, L : A = assetToId /\ L = listing.ids
    OBVIOUS
  <2>5. SoundIds(A)' /\ SoundIds(L)'
    BY <2>0, <2>3, <2>4
  <2>6. SoundIds(assetToId)' /\ SoundIds(listing.ids)'
    BY <1>1, <2>4, <2>5 DEF SoundIds
  <2> QED
    BY <1>1, <1>3, <2>0, <2>2, <2>6, SameMarkets DEF IdInv
<1>8. Shown'
  BY <1>3 DEF Shown, RateOfItsMarket, CollectionIsComplete
<1> QED
  BY <1>1, <1>6, <1>7, <1>8 DEF IdInv

\* What goes on after the rates came, until they are stored.
LEMMA MissingStep ==
  ASSUME AdapterInv, MissIds \/ AskIds
  PROVE  AskedInv' /\ IdInv' /\ Shown'
<1>1. UNCHANGED <<venue, status, marketId, marketSteps, listing, rows, collector, assetToId>>
      /\ MarketsStay
  BY Zenon DEF MissIds, AskIds, MarketsStay
<1>2. /\ Pending /\ Pending' /\ job'.phase \in {"missing", "refreshing"}
      /\ job'.rows = job.rows /\ job'.quoted = job.quoted /\ job'.answer = job.answer
      /\ job'.settled => job.settled
      /\ job'.phase = "refreshing" =>
           \E M \in OrderBooks : job'.ids = IdsOf(M) /\ (job'.settled => M = Answerable)
  <2>1. CASE MissIds
    <3>1. job' = [phase |-> "missing", rows |-> job.rows, quoted |-> job.quoted,
                  answer |-> job.answer, ids |-> job.ids, stored |-> job.stored,
                  settled |-> job.settled]
      BY <2>1 DEF MissIds, AdapterInv, AdapterTypes, JobShape, Idle
    <3> QED
      BY <2>1, <3>1 DEF MissIds, Pending
  <2>2. CASE AskIds
    <3>1. PICK M, b :
            /\ M \in OrderBooks
            /\ job' = [phase |-> "refreshing", rows |-> job.rows, quoted |-> job.quoted,
                       answer |-> job.answer, ids |-> IdsOf(M), stored |-> job.stored, settled |-> b]
            /\ b => job.settled /\ M = Answerable
      BY <2>2, TypesOfAskIds, Zenon DEF AdapterInv, AdapterTypes
    <3>2. /\ job'.phase = "refreshing" /\ job'.rows = job.rows /\ job'.quoted = job.quoted
          /\ job'.answer = job.answer /\ job'.ids = IdsOf(M) /\ job'.settled = b
      BY <3>1
    <3>3. job.phase = "missing"
      BY <2>2, Zenon DEF AskIds
    <3> QED
      BY <3>1, <3>2, <3>3 DEF Pending
  <2> QED
    BY <2>1, <2>2
<1>3. AskedInv'
  BY <1>1, <1>2, SameMarkets DEF AdapterInv, AskedInv
<1>4. ASSUME venue = "lighter" PROVE IdInv'
  <2>1. MarketIds' /\ AnswerIds'
    BY <1>1, <1>2, <1>4, SameMarkets DEF AdapterInv, IdInv, AnswerIds
  <2>2. \A X : SoundIds(X) => SoundIds(X)'
    BY <1>1, <1>2, SoundIdsStay
  <2>3. PICK A, L, J : A = assetToId /\ L = listing.ids /\ J = job'.ids
    OBVIOUS
  <2>4. SoundIds(A) /\ SoundIds(L) /\ (job'.phase = "refreshing" => SoundIds(J))
    BY <1>2, <1>4, <2>3, ListedIdsAreSound DEF AdapterInv, IdInv
  <2>5. SoundIds(A)' /\ SoundIds(L)' /\ (job'.phase = "refreshing" => SoundIds(J)')
    BY <2>2, <2>4
  <2>6. SoundIds(assetToId)' /\ SoundIds(listing.ids)'
        /\ (job'.phase = "refreshing" => SoundIds(job.ids)')
    BY <1>1, <2>3, <2>5 DEF SoundIds
  <2> QED
    BY <1>4, <2>1, <2>6 DEF IdInv
<1>5. Shown'
  BY <1>2 DEF Shown, RateOfItsMarket, CollectionIsComplete
<1> QED
  BY <1>1, <1>3, <1>4, <1>5 DEF IdInv

LEMMA LoseStep ==
  ASSUME AdapterInv, Lose
  PROVE  AskedInv' /\ IdInv' /\ Shown'
<1>1. UNCHANGED <<venue, status, marketId, marketSteps, listing, rows, collector, assetToId>>
      /\ MarketsStay /\ job'.phase = "idle" /\ ~Pending'
  BY DEF Lose, Idle, MarketsStay, Pending
<1>2. \A X : SoundIds(X) => SoundIds(X)'
  BY <1>1, SoundIdsStay
<1>3. PICK A, L : A = assetToId /\ L = listing.ids
  OBVIOUS
<1>4. venue = "lighter" => SoundIds(A)' /\ SoundIds(L)'
  BY <1>2, <1>3 DEF AdapterInv, IdInv
<1>5. venue = "lighter" => SoundIds(assetToId)' /\ SoundIds(listing.ids)'
  BY <1>1, <1>3, <1>4 DEF SoundIds
<1>6. IdInv'
  BY <1>1, <1>5, SameMarkets DEF AdapterInv, IdInv, AnswerIds
<1> QED
  BY <1>1, <1>6 DEF AskedInv, Shown, RateOfItsMarket, CollectionIsComplete

LEMMA StoreStep ==
  ASSUME AdapterInv, Store
  PROVE  AskedInv' /\ IdInv' /\ Shown'
<1>1. /\ UNCHANGED <<venue, status, marketId, marketSteps, listing, rows, collector>>
      /\ MarketsStay /\ Pending
  BY Zenon DEF Store, MarketsStay, Pending
<1>2. venue \in VenueIds
  BY VenueIsKnown DEF AdapterInv
<1>3. PICK ids : ids = assetToId'
  OBVIOUS
<1> DEFINE C == {c \in job.rows : venue = "lighter" => Known(c, ids)}
           hits == {h \in C \X job.answer : LiveSymbol(h[1], ids) = h[2][1]}
<1>4. PICK S \in SUBSET hits :
        /\ \A h \in hits : h \in S \/ \E g \in S : g # h /\ g[2][1] = h[2][1]
        /\ job' = [job EXCEPT !.phase = "stored", !.answer = {}, !.ids = {},
                              !.stored = {<<h[1], h[2][2]>> : h \in S}]
  BY <1>3, ZenonT(60) DEF Store
<1>5. job = [phase |-> job.phase, rows |-> job.rows, quoted |-> job.quoted, answer |-> job.answer,
             ids |-> job.ids, stored |-> job.stored, settled |-> job.settled]
  BY <1>1 DEF AdapterInv, AdapterTypes, JobShape, Idle, Pending
<1>6. PICK kept : kept = {<<h[1], h[2][2]>> : h \in S}
  OBVIOUS
<1>7. job' = [phase |-> "stored", rows |-> job.rows, quoted |-> job.quoted, answer |-> {},
              ids |-> {}, stored |-> kept, settled |-> job.settled]
  BY <1>4, <1>5, <1>6
<1>8. /\ job'.phase = "stored" /\ job'.rows = job.rows /\ job'.quoted = job.quoted
      /\ job'.stored = kept /\ job'.settled = job.settled /\ ~Pending'
  BY <1>7 DEF Pending
<1>9. venue = "lighter" =>
        /\ SoundIds(ids)
        /\ job.settled =>
             \A n \in Answerable : Perp(n) /\ <<NameOf(n), n>> \in job.answer =>
               <<MarketTable[n].base, marketId[n]>> \in ids
  BY <1>3, IdsOfTheirMarkets
<1>10. \A h \in hits : /\ h = <<h[1], h[2]>> /\ h[1] \in job.rows /\ h[2] \in job.answer
                       /\ venue = "lighter" => Known(h[1], ids)
                       /\ LiveSymbol(h[1], ids) = h[2][1]
  OBVIOUS
<1>11. \A c \in job.rows, a \in job.answer :
         (venue = "lighter" => Known(c, ids)) /\ LiveSymbol(c, ids) = a[1] => <<c, a>> \in hits
  OBVIOUS
<1> HIDE DEF hits
<1>12. venue = "lighter" => Matching(ids)
  BY <1>1, <1>9 DEF Matching, SoundIds, SoundId
<1>13. \A h \in hits : h[2][2] \in Hosted /\ Perp(h[2][2]) /\ ContractOf(h[2][2]) = h[1]
  <2> TAKE h \in hits
  <2>1. /\ h[1] \in job.rows /\ h[2] \in job.answer /\ LiveSymbol(h[1], ids) = h[2][1]
        /\ venue = "lighter" => Known(h[1], ids)
    BY <1>10
  <2> QED
    BY <1>1, <1>12, <2>1, HitOfItsMarket
<1>14. \A g \in hits, h \in hits : g[2][1] = h[2][1] => g = h
  <2> TAKE g \in hits, h \in hits
  <2> HAVE g[2][1] = h[2][1]
  <2>1. /\ g[1] \in job.rows /\ g[2] \in job.answer /\ LiveSymbol(g[1], ids) = g[2][1]
        /\ h[1] \in job.rows /\ h[2] \in job.answer /\ LiveSymbol(h[1], ids) = h[2][1]
        /\ venue = "lighter" => Known(g[1], ids) /\ Known(h[1], ids)
        /\ g = <<g[1], g[2]>> /\ h = <<h[1], h[2]>>
    BY <1>10
  <2>2. PICK c \in job.rows, a \in job.answer : c = g[1] /\ a = g[2]
    BY <2>1
  <2>3. PICK d \in job.rows, b \in job.answer : d = h[1] /\ b = h[2]
    BY <2>1
  <2>4. /\ LiveSymbol(c, ids) = a[1] /\ LiveSymbol(d, ids) = b[1] /\ a[1] = b[1]
        /\ venue = "lighter" => Known(c, ids) /\ Known(d, ids)
    BY <2>1, <2>2, <2>3
  <2>5. c = d /\ a = b
    BY <1>1, <1>12, <2>4, OneHit
  <2> QED
    BY <2>1, <2>2, <2>3, <2>5
<1>15. \A h \in hits : h \in S
  BY <1>4, <1>14
<1>16. IdInv'
  <2>1. \A X : SoundIds(X) => SoundIds(X)'
    BY <1>1, <1>8, SoundIdsStay
  <2>2. PICK L : L = listing.ids
    OBVIOUS
  <2>3. venue = "lighter" => SoundIds(ids)' /\ SoundIds(L)'
    BY <1>9, <2>1, <2>2 DEF AdapterInv, IdInv
  <2>4. venue = "lighter" => SoundIds(assetToId)' /\ SoundIds(listing.ids)'
    BY <1>1, <1>3, <2>2, <2>3 DEF SoundIds
  <2> QED
    BY <1>1, <1>8, <2>4, SameMarkets DEF AdapterInv, IdInv, AnswerIds
<1>17. RateOfItsMarket'
  <2>1. \A x \in kept : \E h \in S : x = <<h[1], h[2][2]>>
    BY <1>6
  <2>2. \A x \in kept : Perp(x[2]) /\ ContractOf(x[2]) = x[1]
    BY <1>13, <2>1
  <2> QED
    BY <1>1, <1>8, <2>2, SameMarkets DEF RateOfItsMarket
<1>18. CollectionIsComplete'
  <2> SUFFICES ASSUME job.settled, NEW n \in job.quoted,
                      Perp(n), Open(n), ContractOf(n) \in job.rows, ~OffFirstPage(n)
               PROVE  <<ContractOf(n), n>> \in kept
    BY <1>1, <1>8, SameMarkets DEF CollectionIsComplete
  <2>1. n \in Answerable /\ n \in Hosted /\ <<NameOf(n), n>> \in job.answer
    BY <1>1 DEF AdapterInv, AskedInv, Answerable
  <2>2. venue = "lighter" => /\ Known(ContractOf(n), ids)
                             /\ IdSymbol(ContractOf(n), ids) = IdName(n)
    <3> SUFFICES ASSUME venue = "lighter"
                 PROVE  Known(ContractOf(n), ids) /\ IdSymbol(ContractOf(n), ids) = IdName(n)
      OBVIOUS
    <3>1. PICK x : x = <<MarketTable[n].base, marketId[n]>>
      OBVIOUS
    <3>2. x \in ids
      BY <1>9, <2>1, <3>1
    <3>3. ContractOf(n).asset = x[1] /\ x[2] = marketId[n]
      BY <3>1 DEF ContractOf
    <3>4. \A y \in ids : y[1] = ContractOf(n).asset => y = x
      BY <1>9, <3>2, <3>3 DEF SoundIds
    <3>5. (CHOOSE y \in ids : y[1] = ContractOf(n).asset) = x
      BY <3>2, <3>3, <3>4
    <3> QED
      BY <3>2, <3>3, <3>5 DEF Known, IdSymbol, IdName
  <2>3. LiveSymbol(ContractOf(n), ids) = NameOf(n)
    <3>1. CASE venue = "lighter"
      BY <2>2, <3>1 DEF LiveSymbol, NameOf
    <3>2. CASE venue # "lighter"
      BY <1>2, <2>1, <3>2, SymbolIsName
    <3> QED
      BY <3>1, <3>2
  <2>4. PICK h : h = <<ContractOf(n), <<NameOf(n), n>>>>
    OBVIOUS
  <2>5. h \in hits
    BY <1>11, <2>1, <2>2, <2>3, <2>4
  <2>6. h[1] = ContractOf(n) /\ h[2][2] = n
    BY <2>4
  <2> QED
    BY <1>6, <1>15, <2>5, <2>6
<1> QED
  BY <1>8, <1>16, <1>17, <1>18 DEF AskedInv, Shown

LEMMA AdapterInvariant ==
  ASSUME IdsStayFresh
  PROVE  AdapterSpec => []Shown
<1>1. AdapterInv /\ Shown /\ [AdapterNext]_adapterVars => (AdapterInv /\ Shown)'
  <2> SUFFICES ASSUME AdapterInv, Shown, [AdapterNext]_adapterVars
               PROVE  AskedInv' /\ IdInv' /\ Shown'
    BY AdapterTypesStep DEF AdapterInv
  <2>1. ASSUME NEW n \in Numbers, ListMarket(n)
        PROVE  AskedInv' /\ IdInv' /\ Shown'
    BY <2>1, ListMarketStep
  <2>2. ASSUME NEW n \in Numbers, EndMarket(n)
        PROVE  AskedInv' /\ IdInv' /\ Shown'
    BY <2>2, EndMarketStep
  <2>3. CASE AskListing \/ ReadListing \/ Register \/ DropListing
    BY <2>3, RegistrySteps
  <2>4. CASE Ask
    BY <2>4, AskStep
  <2>5. CASE MissIds \/ AskIds
    BY <2>5, MissingStep
  <2>6. CASE Store
    BY <2>6, StoreStep
  <2>7. CASE Lose
    BY <2>7, LoseStep
  <2>8. CASE UNCHANGED adapterVars
    <3>1. UNCHANGED <<venue, listing, assetToId, job>> /\ MarketsStay
      BY <2>8 DEF adapterVars, MarketsStay
    <3>2. AskedInv' /\ Shown' /\ (AnswerIds => AnswerIds') /\ (MarketIds => MarketIds')
      BY <3>1, JobStays, SameMarkets DEF AdapterInv
    <3>3. NextId' = NextId /\ Pending' = Pending /\ \A n : Perp(n)' = Perp(n)
      BY <3>1, SameMarkets DEF Pending
    <3> QED
      BY <3>1, <3>2, <3>3 DEF AdapterInv, IdInv, SoundIds, SoundId, MarketsStay
  <2> QED
    BY <2>1, <2>2, <2>3, <2>4, <2>5, <2>6, <2>7, <2>8 DEF AdapterNext
<1> QED
  BY <1>1, AdapterInitially, PTL DEF AdapterSpec

\* Where lighter, if it is among the exchanges, gives no id a second time:
\* neither collector ever stores the rate of one market for the contract of
\* another, whatever markets come and go and however old the ids are that the
\* registry puts in the cache.
THEOREM RatesAreOfTheirMarkets ==
  ASSUME IdsStayFresh
  PROVE  AdapterSpec => []RateOfItsMarket
<1>1. Shown => RateOfItsMarket
  BY DEF Shown
<1> QED
  BY <1>1, AdapterInvariant, PTL

\* Where lighter gives no id a second time: either collector stores a rate for
\* every active contract whose market is open and has one, unless the markets
\* change meanwhile, lighter's own request for ids is answered by an error body,
\* or the market is off derive's first page.
THEOREM CollectionsAreComplete ==
  ASSUME IdsStayFresh
  PROVE  AdapterSpec => []CollectionIsComplete
<1>1. Shown => CollectionIsComplete
  BY DEF Shown
<1> QED
  BY <1>1, AdapterInvariant, PTL

-----------------------------------------------------------------------------
(* The fleet. *)

USE DEF Down

SettingSet == [total : Int, requested : Seq(STRING)]

-----------------------------------------------------------------------------
(* The split. *)

LEMMA ExchangesAreFinite == IsFiniteSet(AllExchanges)
<1>1. ExchangeIds \in [1..Len(ExchangeIds) -> AllExchanges]
  BY FleetAssumption DEF FleetAssumption, AllExchanges, Range
<1>2. ExchangeIds \in Surjection(1..Len(ExchangeIds), AllExchanges)
  BY <1>1 DEF Surjection, AllExchanges, Range
<1>3. IsFiniteSet(1..Len(ExchangeIds))
  BY FS_Interval
<1> QED
  BY <1>2, <1>3, FS_Surjection

LEMMA EnabledAreExchanges ==
  ASSUME NEW s \in SettingSet, NEW i, Valid(s, i)
  PROVE  /\ EnabledExchanges(s.requested) \subseteq AllExchanges
         /\ ExchangesOf(s, i) \subseteq EnabledExchanges(s.requested)
         /\ RegistryExchanges(s, i) \subseteq EnabledExchanges(s.requested)
  BY DEF Valid, Resolvable, EnabledExchanges, ExchangesOf, RegistryExchanges, FilterByInstance

LEMMA RankIsNat ==
  ASSUME NEW S \in SUBSET AllExchanges, NEW e
  PROVE  Rank(S, e) \in Nat
<1>1. {f \in S : Position(f) < Position(e)} \in SUBSET AllExchanges
  OBVIOUS
<1> QED
  BY <1>1, ExchangesAreFinite, FS_Subset, FS_CardinalityType DEF Rank

(* _filter_exchanges_by_instance with the checks of build_runtime_config:
   settings give every exchange they select to exactly one process. *)
THEOREM SelectionIsPartitioned ==
  ASSUME NEW s \in SettingSet, s.total > 0, Resolvable(s.requested),
         NEW e \in EnabledExchanges(s.requested)
  PROVE  /\ \E i \in 0..(s.total - 1) : Valid(s, i) /\ e \in ExchangesOf(s, i)
         /\ \A i \in Int, j \in Int :
              /\ Valid(s, i) /\ e \in ExchangesOf(s, i)
              /\ Valid(s, j) /\ e \in ExchangesOf(s, j)
              => i = j
<1> DEFINE S == EnabledExchanges(s.requested)
           r == Rank(S, e)
<1>1. s.total \in Nat /\ S \in SUBSET AllExchanges
  BY DEF SettingSet, Resolvable, EnabledExchanges
<1>2. r \in Nat
  BY <1>1, RankIsNat
<1>3. CASE s.total > 1
  <2>1. r % s.total \in 0..(s.total - 1)
    BY <1>1, <1>2, <1>3
  <2>2. \A i \in Int : Valid(s, i) => (e \in ExchangesOf(s, i) <=> r % s.total = i)
    BY <1>3 DEF ExchangesOf, FilterByInstance
  <2>3. Valid(s, r % s.total)
    BY <1>1, <2>1 DEF Valid
  <2> QED
    BY <2>1, <2>2, <2>3
<1>4. CASE s.total = 1
  <2>1. ExchangesOf(s, 0) = S /\ Valid(s, 0)
    BY <1>4 DEF ExchangesOf, Valid
  <2>2. \A i \in Int : Valid(s, i) => i = 0
    BY <1>4 DEF Valid
  <2> QED
    BY <1>4, <2>1, <2>2
<1> QED
  BY <1>1, <1>3, <1>4

(* _http_max_connections_for_exchanges: a process has a connection for every
   request that the adapters of its live, history and registry jobs, each
   behind a semaphore of its own, may have under way at a time. *)
THEOREM ConnectionsSuffice ==
  ASSUME NEW s \in SettingSet, NEW i, Valid(s, i)
  PROVE  MaxRequests(s, i) <= MaxConnections(s, i)
<1> DEFINE A == ExchangesOf(s, i)
           B == RegistryExchanges(s, i)
           C == A \cup B
<1>1. IsFiniteSet(C)
  BY EnabledAreExchanges, ExchangesAreFinite, FS_Subset
<1>2. /\ Cardinality(A) \in Nat /\ Cardinality(A) <= Cardinality(C)
      /\ Cardinality(B) \in Nat /\ Cardinality(B) <= Cardinality(C)
      /\ Cardinality(C) \in Nat
  <2>1. A \in SUBSET C /\ B \in SUBSET C
    OBVIOUS
  <2> QED
    BY <1>1, <2>1, FS_Subset, FS_CardinalityType
<1> QED
  BY <1>2 DEF MaxRequests, MaxConnections

-----------------------------------------------------------------------------
(* The processes. *)

Given(e, x) ==
  /\ x \in Instances \X used
  /\ Valid(Settings[x[2]], x[1]) /\ e \in ExchangesOf(Settings[x[2]], x[1])

(* A process that is up runs with valid settings in use and has stored its
   sections. *)
RunningInv ==
  \A i \in Instances : Up(i) =>
    /\ running[i] \in used /\ Valid(Settings[running[i]], i)
    /\ ExchangesOf(Settings[running[i]], i) \subseteq sections

(* A job that is due belongs to a process that is up, and was given to it. *)
FiringInv == \A f \in firing : Up(f[1]) /\ f[2] \in ExchangesOf(Settings[running[f[1]]], f[1])

CollectedInv == \A e \in AllExchanges : \A x \in collected[e] : Given(e, x)

FleetInv == FleetTypeOK /\ RunningInv /\ FiringInv /\ CollectedInv

LEMMA SettingsAreSettings ==
  ASSUME NEW k \in 1..Len(Settings)
  PROVE  Settings[k] \in SettingSet
<1>1. Settings \in Seq(SettingSet)
  BY FleetAssumption DEF FleetAssumption, SettingSet
<1> QED
  BY ONLY <1>1

LEMMA FleetInvInit == FleetInit => FleetInv
  BY FleetAssumption DEF FleetAssumption, FleetInit, FleetInv, FleetTypeOK, RunningInv, FiringInv, CollectedInv, Up

LEMMA RolloutKeepsFleetInv == FleetInv /\ Rollout => FleetInv'
  BY DEF Rollout, FleetInv, FleetTypeOK, RunningInv, FiringInv, CollectedInv, Given, Up

LEMMA StartKeepsFleetInv ==
  ASSUME FleetInv, NEW i \in Instances, Start(i)
  PROVE  FleetInv'
<1> USE DEF FleetInv, FleetTypeOK, Up
<1>1. CASE Valid(Settings[target], i)
  <2>1. /\ running' = [running EXCEPT ![i] = target] /\ target # Down
        /\ used' = used \cup {target}
        /\ sections' = sections \cup ExchangesOf(Settings[target], i)
                                \cup RegistryExchanges(Settings[target], i)
        /\ firing' = {f \in firing : f[1] # i}
        /\ UNCHANGED <<target, second, collected>>
    BY <1>1 DEF Start
  <2>2. /\ ExchangesOf(Settings[target], i) \subseteq AllExchanges
        /\ RegistryExchanges(Settings[target], i) \subseteq AllExchanges
    BY <1>1, SettingsAreSettings, EnabledAreExchanges
  <2>3. FleetTypeOK'
    BY <1>1, <2>1, <2>2
  <2>4. RunningInv'
    BY <1>1, <2>1 DEF RunningInv
  <2>5. FiringInv'
    BY <2>1 DEF FiringInv
  <2>6. CollectedInv'
    BY <2>1 DEF CollectedInv, Given
  <2> QED
    BY <2>3, <2>4, <2>5, <2>6
<1>2. CASE ~Valid(Settings[target], i)
  <2>1. /\ running' = [running EXCEPT ![i] = Down]
        /\ firing' = {f \in firing : f[1] # i}
        /\ UNCHANGED <<target, sections, used, second, collected>>
    BY <1>2 DEF Start
  <2>2. FleetTypeOK'
    BY <2>1
  <2>3. RunningInv' /\ FiringInv' /\ CollectedInv'
    BY <2>1 DEF RunningInv, FiringInv, CollectedInv, Given
  <2> QED
    BY <2>2, <2>3
<1> QED
  BY <1>1, <1>2

LEMMA DieKeepsFleetInv ==
  ASSUME FleetInv, NEW i \in Instances, Die(i)
  PROVE  FleetInv'
<1> USE DEF FleetInv, FleetTypeOK, Up
<1>1. FleetTypeOK'
  BY DEF Die
<1>2. RunningInv' /\ FiringInv' /\ CollectedInv'
  BY DEF Die, RunningInv, FiringInv, CollectedInv, Given
<1> QED
  BY <1>1, <1>2

LEMMA CollectKeepsFleetInv ==
  ASSUME FleetInv, NEW i \in Instances, NEW e \in AllExchanges, Collect(i, e)
  PROVE  FleetInv'
<1> USE DEF FleetInv, FleetTypeOK, Up
<1>1. /\ running[i] # Down /\ running[i] \in 1..target
      /\ e \in ExchangesOf(Settings[running[i]], i)
  BY DEF Collect, FiringInv
<1>2. Given(e, <<i, running[i]>>)
  BY <1>1 DEF Given, RunningInv
<1>3. FleetTypeOK'
  BY <1>1 DEF Collect
<1>4. RunningInv' /\ FiringInv'
  BY DEF Collect, RunningInv, FiringInv
<1>5. CollectedInv'
  BY <1>2 DEF Collect, CollectedInv, Given
<1> QED
  BY <1>3, <1>4, <1>5

LEMMA PassSecondKeepsFleetInv == FleetInv /\ PassSecond => FleetInv'
<1> SUFFICES ASSUME FleetInv, PassSecond
             PROVE  FleetInv'
  OBVIOUS
<1> USE DEF FleetInv, FleetTypeOK, Up
<1>1. \A f \in firing' : /\ f \in Instances \X AllExchanges /\ running[f[1]] # Down
                         /\ f[2] \in ExchangesOf(Settings[running[f[1]]], f[1])
                         /\ f[2] \in sections
  <2> SUFFICES ASSUME NEW f \in firing'
               PROVE  /\ f \in Instances \X AllExchanges /\ running[f[1]] # Down
                      /\ f[2] \in ExchangesOf(Settings[running[f[1]]], f[1])
                      /\ f[2] \in sections
    OBVIOUS
  <2>1. PICK i \in {k \in Instances : Up(k)} :
          f \in {<<i, j.exchange>> : j \in {l \in LiveJobs(Settings[running[i]], i) : l.second = second'}}
    BY DEF PassSecond
  <2>2. PICK j \in LiveJobs(Settings[running[i]], i) : f = <<i, j.exchange>>
    BY <2>1
  <2>3. j.exchange \in ExchangesOf(Settings[running[i]], i)
    BY <2>2 DEF LiveJobs
  <2> QED
    BY <2>1, <2>2, <2>3 DEF RunningInv
<1>2. UNCHANGED <<target, running, sections>>
  BY DEF PassSecond
<1>3. second' \in 0..(Minute - 1)
  BY FleetAssumption DEF FleetAssumption, PassSecond
<1>4. CASE second' = 0
  <2>1. /\ collected' = [e \in AllExchanges |-> {}]
        /\ used' = {running[i] : i \in {k \in Instances : Up(k)}}
    BY <1>4 DEF PassSecond
  <2>2. FleetTypeOK'
    BY <1>1, <1>2, <1>3, <2>1
  <2>3. RunningInv' /\ FiringInv' /\ CollectedInv'
    BY <1>1, <1>2, <2>1 DEF RunningInv, FiringInv, CollectedInv
  <2> QED
    BY <2>2, <2>3
<1>5. CASE second' # 0
  <2>1. UNCHANGED <<collected, used>>
    BY <1>5 DEF PassSecond
  <2>2. FleetTypeOK'
    BY <1>1, <1>2, <1>3, <2>1
  <2>3. RunningInv' /\ FiringInv' /\ CollectedInv'
    BY <1>1, <1>2, <2>1 DEF RunningInv, FiringInv, CollectedInv, Given
  <2> QED
    BY <2>2, <2>3
<1> QED
  BY <1>4, <1>5

LEMMA FleetInvStep == FleetInv /\ [FleetNext]_fleetVars => FleetInv'
<1> SUFFICES ASSUME FleetInv, [FleetNext]_fleetVars
             PROVE  FleetInv'
  OBVIOUS
<1>1. CASE Rollout
  BY <1>1, RolloutKeepsFleetInv
<1>2. ASSUME NEW i \in Instances, Start(i) PROVE FleetInv'
  BY <1>2, StartKeepsFleetInv
<1>3. ASSUME NEW i \in Instances, Die(i) PROVE FleetInv'
  BY <1>3, DieKeepsFleetInv
<1>4. ASSUME NEW i \in Instances, NEW e \in AllExchanges, Collect(i, e) PROVE FleetInv'
  BY <1>4, CollectKeepsFleetInv
<1>5. CASE PassSecond
  BY <1>5, PassSecondKeepsFleetInv
<1>6. CASE UNCHANGED fleetVars
  BY <1>6 DEF fleetVars, FleetInv, FleetTypeOK, RunningInv, FiringInv, CollectedInv, Given, Up
<1> QED
  BY <1>1, <1>2, <1>3, <1>4, <1>5, <1>6 DEF FleetNext

(* The variables have their types, a process that is up runs with settings that
   build_runtime_config lets through, and a live job finds its section row. *)
THEOREM FleetTypeCorrect == FleetSpec => []FleetTypeOK
<1>1. FleetInv => FleetTypeOK
  BY DEF FleetInv
<1> QED
  BY <1>1, FleetInvInit, FleetInvStep, PTL DEF FleetSpec

(* Whichever processes start, die and come back under whichever settings, a
   live job of an exchange runs in a minute at most once for every settings in
   use in that minute. *)
LEMMA FleetInvOncePerSettings == FleetInv => OncePerSettings
<1> SUFFICES ASSUME FleetInv, NEW e \in AllExchanges
             PROVE  Cardinality(collected[e]) <= Cardinality(used)
  BY DEF OncePerSettings
<1> DEFINE f == [x \in collected[e] |-> x[2]]
<1>1. \A x \in collected[e] :
        /\ x \in Instances \X (1..Len(Settings)) /\ x[2] \in used
        /\ Valid(Settings[x[2]], x[1]) /\ e \in ExchangesOf(Settings[x[2]], x[1])
  BY DEF FleetInv, FleetTypeOK, CollectedInv, Given
<1>2. ASSUME NEW x \in collected[e], NEW y \in collected[e], x[2] = y[2]
      PROVE  x = y
  <2> DEFINE s == Settings[x[2]]
  <2>1. s \in SettingSet /\ Valid(s, x[1]) /\ Valid(s, y[1])
    BY <1>1, <1>2, SettingsAreSettings
  <2>2. s.total > 0 /\ Resolvable(s.requested)
    BY <2>1 DEF Valid
  <2>3. e \in ExchangesOf(s, x[1]) /\ e \in ExchangesOf(s, y[1])
    BY <1>1, <1>2
  <2>4. e \in EnabledExchanges(s.requested)
    BY <2>1, <2>3, EnabledAreExchanges
  <2>5. x[1] \in Int /\ y[1] \in Int
    <3>1. Instances \subseteq Int
      BY FleetAssumption DEF FleetAssumption
    <3> QED
      BY <1>1, <3>1
  <2>6. x[1] = y[1]
    BY <2>1, <2>2, <2>3, <2>4, <2>5, SelectionIsPartitioned
  <2> QED
    BY <1>1, <1>2, <2>6
<1>3. f \in Injection(collected[e], used)
  BY <1>1, <1>2 DEF Injection, IsInjective
<1>4. IsFiniteSet(used)
  <2>1. used \subseteq 1..target /\ target \in Int
    BY DEF FleetInv, FleetTypeOK
  <2>2. IsFiniteSet(1..target)
    BY <2>1, FS_Interval
  <2> QED
    BY <2>1, <2>2, FS_Subset
<1> QED
  BY <1>3, <1>4, FS_Injection

THEOREM ExchangesAreCollectedOncePerSettings == FleetSpec => []OncePerSettings
  BY FleetInvInit, FleetInvStep, FleetInvOncePerSettings, PTL DEF FleetSpec
===============================================================================
