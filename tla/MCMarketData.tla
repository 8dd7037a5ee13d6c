---- MODULE MCMarketData ----
(* The live path and the read side checked side by side: the parts meet in the
   tables only, and in a behaviour one of them, the focus, moves. *)
EXTENDS TrackerFleet, LiveAdapters, StorageTiers, FundingQueries

VARIABLE focus

vars == <<focus, fleetVars, adapterVars, tierVars, queryVars>>

MCExchangeIds == <<"aster", "bybit", "dydx", "okx", "paradex">>
MCSettings == << [total |-> 2, requested |-> <<>>],
                 [total |-> 3, requested |-> <<"okx", "okx">>],
                 [total |-> 3, requested |-> <<"dydx", "aster", "okx", "bybit">>] >>
MCInstances == 0..2

MCVenues == VenueIds
Market(b, q, k) == [base |-> b, quote |-> q, kind |-> k]
MCMarkets == << Market("BTC", "USDT", "perp"), Market("BTC", "USDC", "perp"),
                Market("BTC", "USDT", "dated"), Market("GOLD", "USDT", "perp") >>

MCWidth == <<2, 4, 8>>
MCOldest == <<16, 32, 48>>
MCStartOffset == <<6, 24, 40>>
MCEndOffset == <<2, 4, 8>>
MCSchedule == <<1, 2, 8>>

MCIds == 1..6
MCAsset == <<"BTC", "BTC", "BTC", "BTC", "ETH", "ETH">>
MCSection == <<"binance", "bybit", "bybit", "okx", "binance", "okx">>
MCQuote == <<"USDT", "USDT", "USDC", "USDT", "USDT", "USDT">>
MCEvery == <<1, 8, 4, 4, 8, 8>>
MCRecorded == <<1, 8, 4, 8, 8, 8>>
MCListed == <<0, 0, 0, 0, 0, 160>>
MCRates == << <<3, -1, 2, 2, 5>>, <<7, 4, -2>>, <<6, 1>>, <<2, -3, 4>>, <<5, 2>>, <<1, 4, 3>> >>
MCLiveRates == << <<3, 2>>, <<8, 8>>, <<16, 7>>, <<5, 5>>, <<4, -4>>, <<8, 2>> >>
Comparison(a, s, c, n, m) == [assets |-> a, sections |-> s, compare |-> c, norm |-> n, min |-> m]
MCRequests == { Comparison({}, {}, "", 0, -1), Comparison({"BTC"}, {}, "", 8, -1),
                Comparison({}, {"okx"}, "binance", 8, 4), Comparison({"all"}, {}, "bybit", 24, 0) }
(* Ranges are the same for every request; two of them have the pairs of all. *)
MCRangeRequests == { Comparison({}, {}, "", 0, -1), Comparison({}, {"okx"}, "binance", 8, 4) }
MCDays == {1, 3}
MCSpans == {<<16, 8>>, <<8, 0>>, <<16, 0>>, <<20, 4>>, <<4, 1>>}

Init ==
  /\ focus \in {"fleet", "adapters", "tiers", "pages", "history"}
  /\ FleetInit /\ AdapterInit /\ TierInit /\ QueryInit
  /\ focus = "adapters" \/ (venue = "aster" /\ collector = "tracker")
  /\ focus = "pages" \/ live = [c \in Ids |-> 1]
  /\ focus # "history" \/ request \in MCRangeRequests
  /\ focus \in {"pages", "history"} \/ request = Comparison({}, {}, "", 0, -1)

FleetMoves ==
  focus = "fleet" /\ FleetNext /\ UNCHANGED <<focus, adapterVars, tierVars, queryVars>>
AdaptersMove ==
  focus = "adapters" /\ AdapterNext /\ UNCHANGED <<focus, fleetVars, tierVars, queryVars>>
TiersMove ==
  focus = "tiers" /\ TierNext /\ UNCHANGED <<focus, fleetVars, adapterVars, queryVars>>
PagesMove ==
  focus = "pages" /\ PageNext /\ UNCHANGED <<focus, fleetVars, adapterVars, tierVars>>
HistoryMoves ==
  focus = "history" /\ PointNext /\ UNCHANGED <<focus, fleetVars, adapterVars, tierVars>>

Next == FleetMoves \/ AdaptersMove \/ TiersMove \/ PagesMove \/ HistoryMoves

Spec == Init /\ [][Next]_vars /\ (focus = "fleet" => FleetFairness)

(* The variables of every part have their types. *)
TypeOK == FleetTypeOK /\ AdapterTypeOK /\ TierTypeOK /\ QueryTypeOK

(* The live wall and live_latest agree while samples are stored and the view
   lags behind; the historical endpoints agree while time passes, settlements
   come in late and the view lags behind (LiveEndpointsAgree, EndpointsAgree).
   Normalized rates are compared where the view has the contract's interval. *)
EndpointsAgreeOverTime ==
  /\ focus = "pages" => LiveEndpointsAgree
  /\ focus = "history" => EndpointsAgree

(* SumsSurvivePendingUpdate while time passes and settlements come in late. *)
SumsSurviveOverTime == focus = "history" => SumsSurvivePendingUpdate

(* WindowsAddUp while time passes and settlements come in late. *)
WindowsAddUpOverTime == focus = "history" => WindowsAddUp
====
