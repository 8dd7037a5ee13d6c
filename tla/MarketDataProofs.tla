--------------------------- MODULE MarketDataProofs ---------------------------
(***************************************************************************)
(* What the parts guarantee alone holds of the composition that is         *)
(* checked (MCMarketData), for every value of the constants: a step of it  *)
(* is a step of one part and a stutter of the others, so its               *)
(* specification implies that of each part.                                *)
(***************************************************************************)
EXTENDS MCMarketData, LivePathProofs, ReadSideProofs

\* Each part of the composition behaves as it does alone.
THEOREM PartsComposed == Spec => FleetSpec /\ AdapterSpec /\ TierSpec /\ QuerySpec
<1>1. Init => FleetInit /\ AdapterInit /\ TierInit /\ QueryInit
  BY DEF Init
<1>2. [Next]_vars => [FleetNext]_fleetVars
  BY DEF Next, vars, FleetMoves, AdaptersMove, TiersMove, PagesMove, HistoryMoves
<1>3. [Next]_vars => [AdapterNext]_adapterVars
  BY DEF Next, vars, FleetMoves, AdaptersMove, TiersMove, PagesMove, HistoryMoves
<1>4. [Next]_vars => [TierNext]_tierVars
  BY DEF Next, vars, FleetMoves, AdaptersMove, TiersMove, PagesMove, HistoryMoves
<1>5. [Next]_vars => [PageNext \/ PointNext]_queryVars
  BY DEF Next, vars, FleetMoves, AdaptersMove, TiersMove, PagesMove, HistoryMoves
<1> QED
  BY <1>1, <1>2, <1>3, <1>4, <1>5, PTL DEF Spec, FleetSpec, AdapterSpec, TierSpec, QuerySpec

\* The variables of every part keep their types.
THEOREM TypeCorrect == Spec => []TypeOK
<1>1. FleetTypeOK /\ AdapterTypeOK /\ TierTypeOK /\ QueryTypeOK => TypeOK
  BY DEF TypeOK
<1> QED
  BY <1>1, PartsComposed, FleetTypeCorrect, AdapterTypeCorrect, TierTypeCorrect, QueryTypeCorrect, PTL

\* The live path, where lighter gives no id a second time: an exchange is
\* collected once for every settings in use; a stored rate is that of the
\* contract's own market; and every active contract has one whose open market has
\* a rate, unless the markets change meanwhile, lighter's own request for ids is
\* answered by an error body, or the market is off derive's first page.
THEOREM CollectionIsSound ==
  ASSUME IdsStayFresh
  PROVE  Spec => []OncePerSettings /\ []RateOfItsMarket /\ []CollectionIsComplete
BY PartsComposed, ExchangesAreCollectedOncePerSettings, RatesAreOfTheirMarkets,
   CollectionsAreComplete, PTL

\* No sample is lost between the tiers while the policies run often enough, but in
\* a bucket that a policy refreshes when its raw rows may be gone (Safe).
THEOREM TiersLoseNothing == ASSUME PoliciesKeepUp PROVE Spec => []NoSampleMissing
BY PartsComposed, SamplesStayReadable, PTL

\* No sample is shown twice but at a border.
THEOREM TiersRepeatAtBordersOnly == ASSUME LayersAreLong PROVE Spec => []ShownTwiceAtBordersOnly
BY PartsComposed, OverlapsAreAtBorders, PTL

\* An undisturbed client is given every pair.
THEOREM ClientsSeeEveryPair == Spec => []PagesAreComplete
BY PartsComposed, PagesNameEveryPair, PTL

\* The endpoints agree with each other whatever part moves: raw rates and the
\* historical walls always, the other normalized rates for the contracts whose
\* interval the view has (SameInterval).
THEOREM EndpointsAlwaysAgree == Spec => []EndpointsAgreeOverTime
<1>1. LiveEndpointsAgree /\ EndpointsAgree => EndpointsAgreeOverTime
  BY DEF EndpointsAgreeOverTime
<1> QED
  BY <1>1, PartsComposed, LiveRatesAgree, HistoricalRatesAgree, PTL

\* Sums stay on show between a settlement and its storing.
THEOREM SumsAlwaysSurvive == Spec => []SumsSurviveOverTime
<1>1. SumsSurvivePendingUpdate => SumsSurviveOverTime
  BY DEF SumsSurviveOverTime
<1> QED
  BY <1>1, PartsComposed, SumsStayOnShow, PTL

\* With a buffer shorter than an hour the comparisons of ranges that meet add up.
THEOREM WindowsAlwaysAddUp == ASSUME NarrowBuffer PROVE Spec => []WindowsAddUpOverTime
<1>1. WindowsAddUp => WindowsAddUpOverTime
  BY DEF WindowsAddUpOverTime
<1> QED
  BY <1>1, PartsComposed, RangesAddUp, PTL
===============================================================================
