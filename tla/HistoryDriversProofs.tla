------------------------- MODULE HistoryDriversProofs -------------------------
(***************************************************************************)
(* Theorems about HistoryDrivers, for an hour of any length and pages of   *)
(* any size.  A backfill ends at an empty page, so what it is worth rests  *)
(* on one fact about every driver: asked for what came before a stored     *)
(* funding that is not the first, it answers something (PagesReachBack).   *)
(* That nothing is skipped rests on one more: whatever a driver answers of *)
(* the time before or after a stored funding leaves no gap to it (JoinsAt).*)
(***************************************************************************)
EXTENDS HistoryDrivers, FiniteSetTheorems, WellFoundedInduction, TLAPS

\* A page has room for two of the longest funding intervals.
LongSteps == 2 * Slow <= Limit

-----------------------------------------------------------------------------
(* Division. *)

LEMMA MultiplesAreOrdered ==
  ASSUME NEW h \in Nat \ {0}, NEW a \in Int, NEW b \in Int
  PROVE  /\ a * h \in Int
         /\ a <= b => a * h <= b * h
         /\ a < b => a * h + h <= b * h
         /\ a * h <= b * h => a <= b
<1>1. a * h \in Int /\ b * h \in Int
  OBVIOUS
<1>2. a <= b => a * h <= b * h
  OBVIOUS
<1>3. a < b => a * h + h <= b * h
  <2> SUFFICES ASSUME a < b
               PROVE  a * h + h <= b * h
    OBVIOUS
  <2>1. (b - (a + 1)) * h >= 0
    OBVIOUS
  <2>2. (b - (a + 1)) * h = b * h - a * h - h
    OBVIOUS
  <2> QED
    BY <1>1, <2>1, <2>2
<1> QED
  BY <1>1, <1>2, <1>3

LEMMA DivisionBounds ==
  ASSUME NEW x \in Int, NEW h \in Nat \ {0}
  PROVE  /\ x \div h \in Int
         /\ (x \div h) * h <= x /\ x < (x \div h) * h + h
         /\ x % h = x - (x \div h) * h
  OBVIOUS

LEMMA DivisionIs ==
  ASSUME NEW h \in Nat \ {0}, NEW x \in Int, NEW q \in Int, q * h <= x, x < q * h + h
  PROVE  x \div h = q
<1> DEFINE d == x \div h
<1>1. d \in Int /\ d * h <= x /\ x < d * h + h /\ d * h \in Int /\ q * h \in Int
  BY DivisionBounds
<1> HIDE DEF d
<1>2. ~(d < q)
  <2>1. d < q => d * h + h <= q * h
    BY <1>1, MultiplesAreOrdered
  <2> QED
    BY <1>1, <2>1
<1>3. ~(q < d)
  <2>1. q < d => q * h + h <= d * h
    BY <1>1, MultiplesAreOrdered
  <2> QED
    BY <1>1, <2>1
<1>4. d = q
  BY <1>1, <1>2, <1>3
<1> QED
  BY <1>4 DEF d

LEMMA DivisionIsMonotone ==
  ASSUME NEW h \in Nat \ {0}, NEW a \in Int, NEW b \in Int, a <= b
  PROVE  a \div h <= b \div h
<1> DEFINE p == a \div h
           q == b \div h
<1>1. /\ p \in Int /\ q \in Int /\ p * h \in Int /\ q * h \in Int
      /\ p * h <= a /\ b < q * h + h
  BY DivisionBounds
<1> HIDE DEF p, q
<1>2. q < p => q * h + h <= p * h
  BY <1>1, MultiplesAreOrdered
<1>3. p <= q
  BY <1>1, <1>2
<1> QED
  BY <1>3 DEF p, q

\* Of two multiples of p the greater is at least p greater.
LEMMA MultiplesApart ==
  ASSUME NEW p \in Nat \ {0}, NEW a \in Nat, NEW b \in Nat, a % p = 0, b % p = 0, b < a
  PROVE  b <= a - p /\ (a - p) % p = 0
<1> DEFINE m == a \div p
           n == b \div p
<1>1. m \in Int /\ n \in Int /\ a = m * p /\ b = n * p
  BY DivisionBounds
<1> HIDE DEF m, n
<1>2. n < m
  BY <1>1, MultiplesAreOrdered
<1>3. n * p + p <= m * p
  BY <1>1, <1>2, MultiplesAreOrdered
<1>4. (m - 1) * p = a - p
  BY <1>1
<1>5. (a - p) \div p = m - 1
  BY <1>1, <1>4, DivisionIs
<1>6. (a - p) % p = (a - p) - ((a - p) \div p) * p
  <2>1. a - p \in Int
    OBVIOUS
  <2> QED
    BY <2>1, DivisionBounds
<1> QED
  BY <1>1, <1>3, <1>4, <1>5, <1>6

-----------------------------------------------------------------------------
(* Least and greatest elements. *)

LEMMA LeastExists ==
  ASSUME NEW S, S \subseteq Int, IsFiniteSet(S), S # {}
  PROVE  Least(S) \in S /\ \A y \in S : Least(S) <= y
<1> DEFINE Below(x) == {q \in S : q < x}
           B == {Below(x) : x \in S}
<1>1. B \subseteq FiniteSubsetsOf(S) /\ B # {}
  <2>1. \A x \in S : Below(x) \in FiniteSubsetsOf(S)
    BY FS_Subset DEF FiniteSubsetsOf
  <2> QED
    BY <2>1
<1>2. PICK b \in B : \A c \in B : ~(<<c, b>> \in StrictSubsetOrdering(S))
  <2> HIDE DEF B
  <2> QED
    BY <1>1, FS_StrictSubsetOrderingWellFounded, WFMin
<1>3. PICK x \in S : b = Below(x)
  OBVIOUS
<1>4. ASSUME NEW y \in S
      PROVE  x <= y
  <2> SUFFICES ASSUME y < x
               PROVE  FALSE
    OBVIOUS
  <2>1. y \in Below(x) /\ y \notin Below(y)
    OBVIOUS
  <2>2. \A q \in Below(y) : q \in Below(x)
    OBVIOUS
  <2>3. Below(y) \subseteq Below(x) /\ Below(y) # Below(x)
    <3> HIDE DEF Below
    <3> QED
      BY <2>1, <2>2
  <2>4. <<Below(y), Below(x)>> \in StrictSubsetOrdering(S)
    BY <2>3 DEF StrictSubsetOrdering
  <2> QED
    BY <1>2, <1>3, <2>4
<1> QED
  BY <1>4 DEF Least

LEMMA GreatestExists ==
  ASSUME NEW S, S \subseteq Int, IsFiniteSet(S), S # {}
  PROVE  \E x \in S : \A y \in S : y <= x
<1> DEFINE D == {-y : y \in S}
<1>1. D \subseteq Int /\ D # {}
  OBVIOUS
<1>2. IsFiniteSet(D)
  <2>1. [y \in S |-> -y] \in Surjection(S, D)
    BY DEF Surjection
  <2> QED
    BY <2>1, FS_Surjection
<1>3. Least(D) \in D /\ \A e \in D : Least(D) <= e
  <2> HIDE DEF D
  <2> QED
    BY <1>1, <1>2, LeastExists
<1>4. PICK x \in S : Least(D) = -x
  BY <1>3
<1>5. \A y \in S : -x <= -y
  BY <1>3, <1>4
<1> QED
  BY <1>5

-----------------------------------------------------------------------------
(* Fundings. *)

LEMMA Constants ==
  /\ Hour \in Nat \ {0} /\ Hour >= 2 /\ Start \in Nat /\ Horizon \in Nat
  /\ First \in Nat \ {0} /\ First * Hour <= Start /\ Start <= Horizon
  /\ Slow \in Nat \ {0} /\ First % Slow = 0 /\ Limit \in Nat /\ Limit >= 3
  /\ CursorPage \in 1..Limit /\ Drivers \subseteq DriverIds
BY ClockAssumption, PageAssumption DEF ClockAssumption, PageAssumption

LEMMA ContractFacts ==
  ASSUME contract \in Contracts
  PROVE  /\ contract.driver \in DriverIds
         /\ contract.every \in {1, Slow} /\ contract.interval \in {1, Slow}
         /\ contract.driver \in Hourly => contract.every = 1
         /\ contract.driver \notin Assumed => contract.interval = contract.every
         /\ contract.keeps \in {"oldest", "newest"}
BY Constants DEF Contracts

\* Time, of a state in which the clock is in its range.
LEMMA FundingFacts ==
  ASSUME now \in Start..Horizon
  PROVE  /\ now \in Nat /\ Calculated \in Nat /\ First <= Calculated
         /\ Calculated * Hour <= now /\ now < Calculated * Hour + Hour
         /\ IsFiniteSet(Fundings) /\ Fundings \subseteq Nat
         /\ \A f \in Fundings : f >= First /\ f * Hour \in Nat /\ f * Hour <= now
<1>1. now \in Nat /\ now <= Horizon /\ First * Hour <= now /\ First * Hour \in Int
  BY Constants
<1>2. Calculated \in Int /\ Calculated * Hour <= now /\ now < Calculated * Hour + Hour
  BY <1>1, Constants, DivisionBounds DEF Calculated
<1>3. First <= Calculated
  <2>1. (First * Hour) \div Hour = First
    BY <1>1, Constants, DivisionIs
  <2>2. (First * Hour) \div Hour <= Calculated
    BY <1>1, Constants, DivisionIsMonotone DEF Calculated
  <2> QED
    BY <2>1, <2>2
<1>4. Fundings \subseteq First..Calculated
  BY DEF Fundings
<1>5. IsFiniteSet(Fundings)
  <2>1. IsFiniteSet(First..Calculated)
    BY <1>2, Constants, FS_Interval
  <2> QED
    BY <1>4, <2>1, FS_Subset
<1>6. ASSUME NEW f \in Fundings
      PROVE  f >= First /\ f * Hour \in Nat /\ f * Hour <= now
  <2>1. f \in Nat /\ f >= First /\ f <= Calculated
    BY <1>2, <1>4, Constants
  <2>2. f * Hour <= Calculated * Hour
    BY <1>2, <2>1, Constants, MultiplesAreOrdered
  <2>3. f * Hour \in Nat /\ Calculated * Hour \in Int
    BY <1>2, <2>1, Constants
  <2> QED
    BY <1>1, <1>2, <2>1, <2>2, <2>3
<1>8. Calculated \in Nat /\ Fundings \subseteq Nat
  BY <1>2, <1>3, <1>4, Constants
<1> QED
  BY <1>1, <1>2, <1>3, <1>5, <1>6, <1>8

\* Whatever a driver answers has been calculated.
LEMMA AnswersAreFundings ==
  ASSUME contract \in Contracts, now \in Start..Horizon
  PROVE  /\ \A end, at : HistoryBefore(end, at) \subseteq Fundings
         /\ \A after, at : HistoryAfter(after, at) \subseteq Fundings
<1>1. \A start, end : FetchHistory(start, end) \subseteq Fundings \/ contract.driver \in {"backpack", "paradex"}
  BY ContractFacts
  DEF FetchHistory, Aster, BinanceUsdm, BinanceCoinm, Bybit, Kucoin, Extended, Hyperliquid, Lighter,
      Okx, Dydx, Derive, Pacifica, Kept, Newest, Oldest, Within, DriverIds
<1>2. /\ \A offset, limit : Records(offset, limit) \subseteq Fundings
      /\ \A start, end : HourlyAverages(start, end) \subseteq Fundings
  BY DEF Records, HourlyAverages
<1>3. \A after : ParadexAfter(after) \subseteq Fundings
  BY <1>2 DEF ParadexAfter
<1>4. \A end, at : BackpackBefore(end, at) \subseteq Fundings /\ ParadexBefore(end) \subseteq Fundings
  BY <1>2 DEF BackpackBefore, ParadexBefore
<1>5. \A after, at : BackpackAfter(after, at) \subseteq Fundings
  BY <1>2 DEF BackpackAfter
<1> QED
  BY <1>1, <1>3, <1>4, <1>5 DEF HistoryBefore, HistoryAfter, WindowBefore, WindowAfter

\* An error leaves part of the page, or nothing.
LEMMA AnswersAreParts ==
  ASSUME NEW page, NEW answer \in Answers(page)
  PROVE  answer \subseteq page
<1>1. answer = page \/ answer \in Misread(page)
  BY DEF Answers
<1>2. ASSUME answer \in Misread(page)
      PROVE  answer \subseteq page
  <2>1. CASE contract.driver \in Silent
    BY <1>2, <2>1 DEF Misread
  <2>2. CASE contract.driver = "pacifica"
    <3>1. contract.driver \notin Silent
      BY <2>2 DEF Silent
    <3>2. Misread(page) = {{g \in page : CursorOf(g) < CursorOf(f)} : f \in page}
      BY <2>2, <3>1 DEF Misread
    <3> QED
      BY <1>2, <3>2
  <2>3. CASE contract.driver \notin Silent \cup {"pacifica"}
    BY <1>2, <2>3 DEF Misread
  <2> QED
    BY <2>1, <2>2, <2>3
<1> QED
  BY <1>1, <1>2

\* A page of a window that is not empty is not empty.
LEMMA KeptOfSome ==
  ASSUME now \in Start..Horizon, NEW W \in SUBSET Fundings, W # {}
  PROVE  Newest(Limit, W) # {} /\ Oldest(Limit, W) # {} /\ Kept(Limit, W) # {}
<1>1. W \subseteq Int /\ IsFiniteSet(W)
  BY FundingFacts, FS_Subset
<1>2. Cardinality({}) = 0 /\ 0 < Limit
  BY Constants, FS_EmptySet
<1>3. Newest(Limit, W) # {}
  <2>1. PICK x \in W : \A y \in W : y <= x
    BY <1>1, GreatestExists
  <2>2. \A g \in W : ~(g > x)
    BY <1>1, <2>1
  <2>3. {g \in W : g > x} = {}
    BY ONLY <2>2
  <2> QED
    BY <1>2, <2>1, <2>3 DEF Newest
<1>4. Oldest(Limit, W) # {}
  <2>1. PICK x \in W : \A y \in W : x <= y
    BY <1>1, LeastExists
  <2>2. \A g \in W : ~(g < x)
    BY <1>1, <2>1
  <2>3. {g \in W : g < x} = {}
    BY ONLY <2>2
  <2> QED
    BY <1>2, <2>1, <2>3 DEF Oldest
<1> QED
  BY <1>3, <1>4 DEF Kept

-----------------------------------------------------------------------------
(* What came before a stored funding. *)

LEMMA FetchSteps ==
  ASSUME contract \in Contracts, LongSteps
  PROVE  FetchStep \in Nat /\ contract.every <= FetchStep
<1>1. Limit - 2 \in Nat /\ Limit \in Nat /\ Slow \in Nat \ {0} /\ 1 <= Slow /\ Slow <= Limit - 2
  BY Constants DEF LongSteps
<1>2. contract.every \in Nat /\ 1 <= contract.every /\ contract.every <= Slow
  BY <1>1, ContractFacts
<1>3. Slow * Limit \in Nat /\ Slow <= Slow * Limit
  <2>1. 1 * Slow <= Limit * Slow
    BY <1>1, MultiplesAreOrdered
  <2> QED
    BY <1>1, <2>1
<1>4. CASE contract.driver = "extended"
  <2>1. contract.every = 1
    BY <1>4, ContractFacts DEF Hourly
  <2>2. Limit \div 2 \in Nat /\ 1 <= Limit \div 2
    BY Constants
  <2> QED
    BY <1>4, <2>1, <2>2 DEF FetchStep
<1>5. CASE contract.driver # "extended"
  <2>1. FetchStep \in {Slow * Limit, Limit - 2, Limit}
    BY <1>5 DEF FetchStep
  <2> QED
    BY <1>1, <1>2, <1>3, <2>1
<1> QED
  BY <1>4, <1>5

\* The funding before one that is not the first.
LEMMA PreviousFunding ==
  ASSUME contract \in Contracts, now \in Start..Horizon, NEW f \in Fundings, f # First
  PROVE  /\ f - contract.every \in Fundings
         /\ (f - contract.every) * Hour = f * Hour - contract.every * Hour
         /\ contract.every * Hour \in Nat /\ contract.every * Hour >= Hour
<1> DEFINE p == contract.every
<1>1. p \in Nat \ {0} /\ First % p = 0
  BY Constants, ContractFacts
<1>2. f \in Nat /\ First \in Nat /\ First < f /\ f <= Calculated /\ f % p = 0 /\ Calculated \in Nat
  BY Constants, FundingFacts DEF Fundings
<1> HIDE DEF p
<1>3. First <= f - p /\ (f - p) % p = 0
  BY <1>1, <1>2, MultiplesApart
<1>4. f - p \in First..Calculated
  BY <1>1, <1>2, <1>3
<1>5. (f - p) * Hour = f * Hour - p * Hour /\ p * Hour \in Nat /\ p * Hour >= Hour
  <2>1. 1 * Hour <= p * Hour
    BY <1>1, Constants, MultiplesAreOrdered
  <2> QED
    BY <1>1, <1>2, <2>1, Constants
<1> QED
  BY <1>3, <1>4, <1>5 DEF p, Fundings

LEMMA WindowReachesBack ==
  ASSUME contract \in Contracts, now \in Start..Horizon, LongSteps,
         contract.driver \notin {"backpack", "paradex"},
         NEW f \in Fundings, f # First
  PROVE  WindowBefore(f * Hour - 1) # {}
<1> DEFINE g == f - contract.every
           end == f * Hour - 1
           start == end - FetchStep * Hour
<1>1. /\ g \in Fundings /\ g * Hour = f * Hour - contract.every * Hour
      /\ contract.every * Hour \in Nat /\ contract.every * Hour >= Hour
  BY PreviousFunding
<1>2. f * Hour \in Nat /\ g * Hour \in Nat
  BY <1>1, FundingFacts
<1>3. FetchStep * Hour \in Int /\ contract.every * Hour <= FetchStep * Hour
  <2>1. contract.every \in Int
    BY Constants, ContractFacts
  <2> QED
    BY <2>1, Constants, FetchSteps, MultiplesAreOrdered
<1>4. start \in Int /\ end \in Int /\ start + 1 <= g * Hour /\ g * Hour <= end - 1 /\ 0 <= g * Hour
  BY <1>1, <1>2, <1>3, Constants
<1> HIDE DEF start, end, g
<1>5. /\ g \in Within(start, end) /\ g \in Within(start + 1, end - 1) /\ g \in Within(0, end)
      /\ g \in Within(start + 1, end)
  BY <1>1, <1>2, <1>4 DEF Within
<1>6. /\ Kept(Limit, Within(start, end)) # {} /\ Newest(Limit, Within(start, end)) # {}
      /\ Kept(Limit, Within(start + 1, end - 1)) # {} /\ Newest(Limit, Within(0, end)) # {}
  <2>1. \A a, b : Within(a, b) \in SUBSET Fundings
    BY DEF Within
  <2> QED
    BY <1>5, <2>1, KeptOfSome
<1>7. CASE contract.driver = "derive"
  <2>1. FetchStep = Limit
    BY <1>7 DEF FetchStep
  <2>2. start + 1 = end - Limit * Hour + 1
    BY <2>1 DEF start
  <2>3. g \in Derive(start, end)
    BY <1>5, <2>2 DEF Derive
  <2> QED
    BY <1>7, <2>3 DEF WindowBefore, FetchHistory, start, end
<1>8. CASE contract.driver = "pacifica"
  <2> DEFINE W == Within(start, end)
             PageOf(x) == Cardinality({y \in Fundings : y > x}) \div CursorPage
  <2>1. W \subseteq Int /\ IsFiniteSet(W) /\ W # {}
    BY <1>5, FundingFacts, FS_Subset DEF Within
  <2>2. PICK x \in W : \A y \in W : y <= x
    BY <2>1, GreatestExists
  <2>3. ASSUME NEW y \in W
        PROVE  ~(PageOf(y) < PageOf(x))
    <3> DEFINE above(z) == {v \in Fundings : v > z}
    <3>1. above(x) \subseteq above(y)
      BY <2>1, <2>2, FundingFacts
    <3>2. IsFiniteSet(above(y)) /\ above(y) \subseteq Fundings
      BY FundingFacts, FS_Subset
    <3> HIDE DEF above
    <3>3. /\ Cardinality(above(x)) \in Nat /\ Cardinality(above(y)) \in Nat
          /\ Cardinality(above(x)) <= Cardinality(above(y))
      BY <3>1, <3>2, FS_Subset, FS_CardinalityType
    <3>4. CursorPage \in Nat \ {0}
      BY Constants
    <3> DEFINE a == Cardinality(above(x))
               b == Cardinality(above(y))
    <3> HIDE DEF a, b
    <3>5. a \in Int /\ b \in Int /\ a <= b
      BY <3>3 DEF a, b
    <3>6. a \div CursorPage <= b \div CursorPage
      BY <3>4, <3>5, DivisionIsMonotone
    <3>7. a \div CursorPage \in Int /\ b \div CursorPage \in Int
      BY <3>4, <3>5, DivisionBounds
    <3>8. ~(b \div CursorPage < a \div CursorPage)
      BY <3>6, <3>7
    <3> QED
      BY <3>8 DEF a, b, above
  <2>4. {y \in W : PageOf(y) < PageOf(x)} = {}
    BY <2>3
  <2>5. Cardinality({}) = 0 /\ 0 < Limit
    BY Constants, FS_EmptySet
  <2>6. x \in Pacifica(start, end)
    BY <2>2, <2>4, <2>5 DEF Pacifica, CursorOf
  <2> QED
    BY <1>8, <2>6 DEF WindowBefore, FetchHistory, start, end
<1>9. CASE contract.driver \notin {"derive", "pacifica"}
  <2>1. FetchHistory(start, end) # {}
    BY <1>6, <1>9, ContractFacts
    DEF FetchHistory, DriverIds, Aster, BinanceUsdm, BinanceCoinm, Bybit, Kucoin, Extended,
        Hyperliquid, Lighter, Okx, Dydx
  <2> QED
    BY <2>1 DEF WindowBefore, start, end
<1> QED
  BY <1>7, <1>8, <1>9

LEMMA ParadexReachesBack ==
  ASSUME contract \in Contracts, now \in Start..Horizon, LongSteps,
         contract.driver = "paradex", NEW f \in Fundings, f # First
  PROVE  ParadexBefore(f * Hour - 1) # {}
<1>1. contract.every = 1 /\ FetchStep = Limit
  BY ContractFacts DEF Hourly, FetchStep
<1>2. f - 1 \in Fundings /\ f \in Nat /\ f * Hour \in Nat
  BY <1>1, PreviousFunding, FundingFacts
<1>3. (f - 1) * Hour = f * Hour - Hour
  BY <1>2, Constants
<1>4. (f * Hour - 1) \div Hour = f - 1
  BY <1>2, <1>3, Constants, DivisionIs
<1>5. Limit * Hour \in Int /\ 0 < Limit * Hour
  BY Constants, MultiplesAreOrdered
<1>6. f - 1 \in HourlyAverages((f - 1) * Hour - Limit * Hour, (f - 1) * Hour)
  BY <1>2, <1>3, <1>5, Constants DEF HourlyAverages
<1> QED
  BY <1>1, <1>4, <1>6 DEF ParadexBefore

\* Backpack counts in periods: what is calculated at the m-th has the number m.
LEMMA BackpackNumbers ==
  ASSUME contract \in Contracts, now \in Start..Horizon, contract.driver = "backpack",
         NEW f \in Fundings
  PROVE  /\ Period \in Nat \ {0} /\ (f * Hour) \div Period \in Int
         /\ f * Hour = ((f * Hour) \div Period) * Period
<1> DEFINE i == contract.every
           m == f \div i
<1>1. i \in Nat \ {0} /\ contract.interval = i
  BY Constants, ContractFacts DEF Assumed
<1>2. f \in Nat /\ f % i = 0
  BY FundingFacts DEF Fundings
<1> HIDE DEF i
<1>3. m \in Int /\ f = m * i
  BY <1>1, <1>2, DivisionBounds
<1> HIDE DEF m
<1>4. Period = i * Hour
  BY <1>1 DEF Period
<1>5. Period \in Nat \ {0}
  <2>1. 1 * Hour <= i * Hour /\ i * Hour \in Int
    BY <1>1, Constants, MultiplesAreOrdered
  <2> QED
    BY <1>4, <2>1, Constants
<1>6. f * Hour = m * Period
  BY <1>1, <1>3, <1>4, Constants
<1>7. f * Hour \in Int /\ m * Period \in Int
  BY <1>2, <1>3, <1>5, Constants
<1>8. (f * Hour) \div Period = m
  <2>1. m * Period <= f * Hour /\ f * Hour < m * Period + Period
    BY <1>5, <1>6, <1>7
  <2> QED
    BY <1>3, <1>5, <1>7, <2>1, DivisionIs
<1> QED
  BY <1>3, <1>5, <1>6, <1>8

LEMMA BackpackStep ==
  ASSUME contract \in Contracts, contract.driver = "backpack"
  PROVE  /\ Step \in Nat
         /\ LongSteps => Step >= 2
<1> DEFINE i == contract.interval
<1>1. i \in Nat \ {0} /\ Limit \in Nat /\ i <= Slow /\ 2 * i \in Int
  BY Constants, ContractFacts
<1>2. Step = Limit \div i
  BY DEF Step, FetchStep
<1> HIDE DEF i
<1>3. Limit \div i \in Nat
  BY <1>1
<1>4. ASSUME LongSteps
      PROVE  Limit \div i >= 2
  <2>1. 2 * i <= Limit
    BY <1>1, <1>4, Constants DEF LongSteps
  <2>2. (2 * i) \div i = 2
    BY <1>1, DivisionIs
  <2>3. (2 * i) \div i <= Limit \div i
    BY <1>1, <2>1, DivisionIsMonotone
  <2> QED
    BY <1>3, <2>2, <2>3
<1> QED
  BY <1>2, <1>3, <1>4

LEMMA RecordsOf ==
  ASSUME NEW offset, NEW limit, NEW g \in Fundings,
         (now \div Period) - (offset + limit - 2) <= (g * Hour) \div Period,
         (g * Hour) \div Period <= (now \div Period) - (offset - 1)
  PROVE  g \in Records(offset, limit)
BY Zenon DEF Records

\* In the time of one change of the hour at most one period ends.
LEMMA OnePeriodEnds ==
  ASSUME contract \in Contracts, now \in Start..Horizon, contract.driver = "backpack",
         NEW at \in Int, at <= now, Calculated <= at \div Hour + 1
  PROVE  /\ Period \in Nat \ {0}
         /\ now \div Period \in Int /\ at \div Period \in Int
         /\ at \div Period <= now \div Period /\ now \div Period <= at \div Period + 1
<1>1. PICK i, P : i = contract.interval /\ P = Period
  OBVIOUS
<1>2. PICK L, k, q : L = now \div Period /\ k = at \div Period /\ q = at \div Hour
  OBVIOUS
<1>3. i \in Nat \ {0} /\ P = i * Hour /\ P \in Nat \ {0} /\ Hour \in Nat \ {0} /\ now \in Int
  <2>1. i \in Nat \ {0} /\ Hour \in Nat \ {0} /\ now \in Int
    BY <1>1, Constants, ContractFacts
  <2>2. 1 * Hour <= i * Hour /\ i * Hour \in Int
    BY <2>1, MultiplesAreOrdered
  <2> QED
    BY <1>1, <2>1, <2>2 DEF Period
<1>4. L \in Int /\ L * P <= now
  BY ONLY <1>1, <1>2, <1>3, DivisionBounds
<1>5. k \in Int /\ at < k * P + P
  BY ONLY <1>1, <1>2, <1>3, at \in Int, DivisionBounds
<1>6. q \in Int /\ q * Hour <= at
  BY ONLY <1>2, <1>3, at \in Int, DivisionBounds
<1>7. k <= L
  BY <1>1, <1>2, <1>3, DivisionIsMonotone
<1>8. now < q * Hour + Hour + Hour
  <2>1. Calculated \in Int /\ now < Calculated * Hour + Hour /\ Calculated <= q + 1
    BY <1>2, FundingFacts
  <2>2. Calculated * Hour <= (q + 1) * Hour /\ Calculated * Hour \in Int
    BY <1>3, <1>6, <2>1, MultiplesAreOrdered
  <2>3. (q + 1) * Hour = q * Hour + Hour /\ q * Hour \in Int
    BY <1>3, <1>6
  <2> QED
    BY <1>3, <2>1, <2>2, <2>3
<1>9. q + 1 <= (k + 1) * i
  <2>1. PICK m : m = (k + 1) * i
    OBVIOUS
  <2>2. m \in Int /\ m * Hour = (k + 1) * P /\ (k + 1) * P = k * P + P
    BY <1>3, <1>5, <2>1
  <2>3. q * Hour < m * Hour /\ m * Hour \in Int /\ q * Hour \in Int
    BY <1>3, <1>5, <1>6, <2>2
  <2>4. ~(m <= q)
    BY <1>3, <1>6, <2>2, <2>3, MultiplesAreOrdered
  <2> QED
    BY <1>6, <2>1, <2>2, <2>4
<1>10. L <= k + 1
  <2>1. PICK m : m = (k + 1) * i
    OBVIOUS
  <2>2. m \in Int /\ m * Hour = (k + 1) * P /\ m * Hour \in Int
    BY <1>3, <1>5, <2>1
  <2>3. (q + 1) * Hour <= m * Hour /\ (q + 1) * Hour = q * Hour + Hour /\ q * Hour \in Int
    BY <1>3, <1>6, <1>9, <2>1, <2>2, MultiplesAreOrdered
  <2>4. Hour <= P
    <3>1. 1 * Hour <= i * Hour
      BY <1>3, MultiplesAreOrdered
    <3> QED
      BY <1>3, <3>1
  <2>5. (k + 2) * P = (k + 1) * P + P /\ (k + 1) * P \in Int /\ (k + 2) * P \in Int /\ L * P \in Int
    BY <1>3, <1>4, <1>5
  <2>6. L * P < (k + 2) * P
    BY <1>3, <1>4, <1>8, <2>2, <2>3, <2>4, <2>5
  <2>7. ~(k + 2 <= L)
    <3>1. k + 2 <= L => (k + 2) * P <= L * P
      BY <1>3, <1>4, <1>5, MultiplesAreOrdered
    <3> QED
      BY <2>5, <2>6, <3>1
  <2> QED
    BY <1>4, <1>5, <2>7
<1> QED
  BY <1>1, <1>2, <1>3, <1>4, <1>5, <1>7, <1>10

\* The page asked for before the funding of the m-th period ends, when it comes,
\* at the period before the m-th, at the m-th or at the one after it.
LEMMA BackpackOffset ==
  ASSUME contract \in Contracts, now \in Start..Horizon, contract.driver = "backpack",
         NEW at \in Int, at <= now, Calculated <= at \div Hour + 1, NEW f \in Fundings,
         NEW m, m = (f * Hour) \div Period,
         NEW top, top = (now \div Period) - ((at - (f * Hour - 1)) \div Period)
  PROVE  m \in Int /\ top \in Int /\ m - 1 <= top /\ top <= m + 1
<1>1. PICK P, L, k, d : /\ P = Period /\ L = now \div Period /\ k = at \div Period
                        /\ d = (at - (f * Hour - 1)) \div Period
  OBVIOUS
<1>2. /\ P \in Nat \ {0} /\ L \in Int /\ k \in Int /\ k <= L /\ L <= k + 1
      /\ m \in Int /\ f * Hour = m * P /\ m * P \in Int
  BY <1>1, OnePeriodEnds, BackpackNumbers
<1>3. k * P <= at /\ at < k * P + P
  BY ONLY <1>1, <1>2, at \in Int, DivisionBounds
<1>4. PICK x : x = at - (f * Hour - 1)
  OBVIOUS
<1>5. x \in Int /\ x = at + 1 - m * P
  BY <1>2, <1>4
<1>6. d = x \div P
  BY <1>1, <1>4
<1>7. d \in Int /\ d * P <= x /\ x < d * P + P
  BY ONLY <1>2, <1>5, <1>6, DivisionBounds
<1>8. (k - m) * P = k * P - m * P /\ k * P \in Int /\ (k - m) * P \in Int
  BY <1>2
<1>9. k - m <= d
  <2>1. (k - m) * P < d * P + P /\ (d + 1) * P = d * P + P /\ d * P \in Int
    BY <1>2, <1>3, <1>5, <1>7, <1>8
  <2>2. ~(d + 1 <= k - m)
    <3>1. d + 1 <= k - m => (d + 1) * P <= (k - m) * P
      BY <1>2, <1>7, MultiplesAreOrdered
    <3> QED
      BY <1>2, <1>8, <2>1, <3>1
  <2> QED
    BY <1>2, <1>7, <2>2
<1>10. d <= k - m + 1
  <2>1. d * P <= (k - m) * P + P /\ (k - m + 2) * P = (k - m) * P + P + P /\ d * P \in Int
    BY <1>2, <1>3, <1>5, <1>7, <1>8
  <2>2. ~(k - m + 2 <= d)
    <3>1. k - m + 2 <= d => (k - m + 2) * P <= d * P
      BY <1>2, <1>7, MultiplesAreOrdered
    <3> QED
      BY <1>2, <1>8, <2>1, <3>1
  <2> QED
    BY <1>2, <1>7, <2>2
<1>11. top = L - d
  BY <1>1
<1> QED
  BY ONLY <1>2, <1>7, <1>9, <1>10, <1>11

LEMMA BackpackReachesBack ==
  ASSUME contract \in Contracts, now \in Start..Horizon, LongSteps, contract.driver = "backpack",
         NEW at \in Int, at <= now, Calculated <= at \div Hour + 1, NEW f \in Fundings, f # First
  PROVE  BackpackBefore(f * Hour - 1, at) # {}
<1>1. PICK m, d, L, s : /\ m = (f * Hour) \div Period /\ L = now \div Period /\ s = Step
                        /\ d = (at - (f * Hour - 1)) \div Period
  OBVIOUS
<1>2. m \in Int /\ L - d \in Int /\ m - 1 <= L - d /\ L - d <= m + 1
  BY <1>1, BackpackOffset
<1>3. s \in Nat /\ s >= 2
  BY <1>1, BackpackStep
<1>4. L \in Int /\ d \in Int
  <2>1. L \in Int /\ Period \in Nat \ {0}
    BY <1>1, OnePeriodEnds
  <2>2. PICK x : x = at - (f * Hour - 1)
    OBVIOUS
  <2>3. x \in Int
    BY <2>2, FundingFacts
  <2>4. x \div Period \in Int
    BY <2>1, <2>3, DivisionBounds
  <2> QED
    BY <1>1, <2>1, <2>2, <2>4
<1>5. BackpackBefore(f * Hour - 1, at) = Records(1 + d, s)
  BY <1>1 DEF BackpackBefore
<1>6. ASSUME NEW g \in Fundings, NEW k \in Int, k = (g * Hour) \div Period,
             L - d - s + 1 <= k, k <= L - d
      PROVE  g \in Records(1 + d, s)
  <2>1. L - (1 + d + s - 2) <= k /\ k <= L - (1 + d - 1)
    BY <1>3, <1>4, <1>6
  <2> QED
    BY <1>1, <1>6, <2>1, RecordsOf
<1>7. CASE m <= L - d
  <2>1. L - d - s + 1 <= m
    BY ONLY <1>2, <1>3, <1>4
  <2>2. f \in Records(1 + d, s)
    BY <1>1, <1>2, <1>6, <1>7, <2>1
  <2> QED
    BY <1>5, <2>2
<1>8. CASE ~(m <= L - d)
  <2>1. PICK g, k, P : g = f - contract.every /\ k = (g * Hour) \div Period /\ P = Period
    OBVIOUS
  <2>2. /\ g \in Fundings /\ g * Hour = f * Hour - contract.every * Hour
        /\ contract.every * Hour \in Nat
    BY <2>1, PreviousFunding
  <2>3. P = contract.every * Hour
    BY <2>1, ContractFacts DEF Period, Assumed
  <2>4. P \in Nat \ {0} /\ k \in Int /\ g * Hour = k * P /\ f * Hour = m * P
    BY <1>1, <2>1, <2>2, BackpackNumbers
  <2>5. k * P = m * P - P /\ (m - 1) * P = m * P - P
    BY <1>2, <2>2, <2>3, <2>4
  <2>6. k = m - 1
    <3>1. k <= m - 1 /\ m - 1 <= k
      BY <1>2, <2>4, <2>5, MultiplesAreOrdered
    <3> QED
      BY <1>2, <2>4, <3>1
  <2>7. L - d - s + 1 <= k /\ k <= L - d
    BY ONLY <1>2, <1>3, <1>4, <1>8, <2>6
  <2>8. g \in Records(1 + d, s)
    BY <1>6, <2>1, <2>2, <2>4, <2>7
  <2> QED
    BY <1>5, <2>8
<1> QED
  BY <1>7, <1>8

\* Asked for what came before a stored funding that is not the first, every
\* driver answers something, if not misread.
LEMMA PagesReachBack ==
  ASSUME contract \in Contracts, now \in Start..Horizon, LongSteps,
         NEW at \in Int, at <= now, Calculated <= at \div Hour + 1,
         NEW f \in Fundings, f # First
  PROVE  HistoryBefore(f * Hour - 1, at) # {}
BY WindowReachesBack, ParadexReachesBack, BackpackReachesBack DEF HistoryBefore

-----------------------------------------------------------------------------
(* The invariant. *)

\* A run pages on only while its contract is not synced, and neither a run nor a
\* request of Backpack's spans two changes of the hour.
DriversInv ==
  /\ TypeOK
  /\ paging => ~synced /\ Calculated <= since + 1
  /\ ~IsBackpack => waiting = "nobody"
  /\ waiting = "backfill" => paging
  /\ waiting # "nobody" => since <= asked \div Hour
  /\ waiting = "update" => Calculated <= asked \div Hour + 1 /\ asked % Hour \in UpdateSeconds

\* What is known of the tick of the request when its answer is there.
LEMMA AnsweredFacts ==
  ASSUME DriversInv, (paging /\ Answered("backfill")) \/ Answered("update")
  PROVE  /\ At \in Nat /\ At <= now /\ Calculated <= At \div Hour + 1
         /\ since <= At \div Hour
         /\ ~IsBackpack => At = now
         /\ IsBackpack /\ Answered("update") => At % Hour \in UpdateSeconds
<1>1. now \in Start..Horizon /\ Calculated \in Nat /\ Start \in Nat /\ since \in 0..Calculated
      /\ (waiting # "nobody" => asked \in Start..now)
  BY FundingFacts, Constants DEF DriversInv, TypeOK
<1>2. CASE IsBackpack
  <2>1. At = asked /\ asked \in Nat /\ asked <= now
    BY <1>1, <1>2 DEF At, Answered
  <2>2. asked \div Hour \in Int
    BY <2>1, Constants, DivisionBounds
  <2>3. Calculated <= asked \div Hour + 1 /\ since <= asked \div Hour
    <3>1. CASE Answered("update")
      BY <1>2, <3>1 DEF Answered, DriversInv, TypeOK
    <3>2. CASE paging /\ Answered("backfill")
      <4>1. Calculated <= since + 1 /\ since <= asked \div Hour
        BY <1>2, <3>2 DEF Answered, DriversInv
      <4> QED
        BY <1>1, <2>2, <4>1
    <3> QED
      BY <3>1, <3>2
  <2> QED
    BY <1>2, <2>1, <2>3 DEF Answered, DriversInv
<1>3. CASE ~IsBackpack
  <2>1. At = now /\ now \in Nat
    BY <1>1, <1>3 DEF At
  <2> QED
    BY <1>1, <1>3, <2>1 DEF Calculated
<1> QED
  BY <1>2, <1>3

LEMMA StoringFundings ==
  ASSUME DriversInv, NEW S \in SUBSET Fundings
  PROVE  /\ stored \cup S \subseteq Fundings
         /\ S # {} => Least(S) \in S
<1>1. S \subseteq Int /\ IsFiniteSet(S)
  BY FundingFacts, FS_Subset DEF DriversInv, TypeOK
<1> QED
  BY <1>1, LeastExists DEF DriversInv, TypeOK

LEMMA DriversInvInit == Init => DriversInv
<1> SUFFICES ASSUME Init
             PROVE  DriversInv
  OBVIOUS
<1>1. now \in Start..Horizon
  BY Constants DEF Init
<1>2. Calculated \in Nat
  BY <1>1, FundingFacts
<1>3. TypeOK
  <2>1. since \in 0..Calculated
    BY <1>2 DEF Init
  <2>2. /\ contract \in Contracts /\ stored \subseteq Fundings
        /\ synced \in BOOLEAN /\ paging \in BOOLEAN
        /\ before \in {None} \cup {f * Hour - 1 : f \in stored}
        /\ waiting = "nobody" /\ asked = None /\ trouble \subseteq Troubles
        /\ (synced => stored # {})
    BY DEF Init
  <2> QED
    BY <1>1, <2>1, <2>2 DEF TypeOK
<1> QED
  BY <1>3 DEF Init, DriversInv

LEMMA SameClock ==
  UNCHANGED <<contract, now>> =>
    /\ Fundings' = Fundings /\ Calculated' = Calculated /\ Contracts' = Contracts
    /\ IsBackpack' = IsBackpack
BY DEF Fundings, Calculated, Contracts, IsBackpack

LEMMA BackfillKeepsDriversInv ==
  ASSUME DriversInv, BackfillStart \/ BackfillPage \/ BackfillEnd \/ BackfillAbort
  PROVE  DriversInv'
<1>1. /\ UNCHANGED <<contract, now>>
      /\ Fundings' = Fundings /\ Calculated' = Calculated /\ Contracts' = Contracts
      /\ IsBackpack' = IsBackpack
  BY SameClock DEF BackfillStart, BackfillPage, BackfillEnd, BackfillAbort
<1>2. Calculated \in Nat
  BY FundingFacts DEF DriversInv, TypeOK
<1>3. waiting' = "nobody" /\ asked' = None
  BY DEF BackfillStart, BackfillPage, BackfillEnd, BackfillAbort, DriversInv, TypeOK
<1>4. trouble' \subseteq Troubles
  BY DEF BackfillStart, BackfillPage, BackfillEnd, BackfillAbort, DriversInv, TypeOK, When, Troubles
<1> USE <1>1, <1>2, <1>3, <1>4 DEF DriversInv, TypeOK
<1>5. CASE BackfillStart
  <2>1. stored # {} => Least(stored) \in stored
    <3>1. stored \in SUBSET Fundings
      OBVIOUS
    <3> QED
      BY <3>1, StoringFundings
  <2>2. before' \in {None} \cup {f * Hour - 1 : f \in stored'}
    BY <1>5, <2>1 DEF BackfillStart
  <2>3. since' \in 0..Calculated /\ Calculated <= since' + 1
    BY <1>5 DEF BackfillStart
  <2> QED
    BY <1>5, <2>2, <2>3 DEF BackfillStart
<1>6. CASE BackfillPage
  <2>1. PICK P \in Answers(BackfillAsked) \ {{}} :
           stored' = stored \cup P /\ before' = Least(P) * Hour - 1
    BY <1>6 DEF BackfillPage
  <2>2. P \in SUBSET Fundings
    BY <2>1, AnswersAreFundings, AnswersAreParts DEF BackfillAsked
  <2>3. stored' \subseteq Fundings /\ Least(P) \in stored'
    BY <2>1, <2>2, StoringFundings
  <2>4. before' \in {None} \cup {f * Hour - 1 : f \in stored'}
    BY <2>1, <2>3
  <2> QED
    BY <1>6, <2>3, <2>4 DEF BackfillPage
<1>7. CASE BackfillEnd
  <2>1. before # None => stored # {}
    OBVIOUS
  <2> QED
    BY <1>7, <2>1 DEF BackfillEnd
<1>8. CASE BackfillAbort
  BY <1>8 DEF BackfillAbort
<1> QED
  BY <1>5, <1>6, <1>7, <1>8

LEMMA UpdateKeepsDriversInv ==
  ASSUME DriversInv, Update \/ UpdateAbort
  PROVE  DriversInv'
<1>1. /\ UNCHANGED <<contract, now, synced, paging, before, since>>
      /\ waiting' = "nobody" /\ asked' = None
  BY DEF Update, UpdateAbort
<1>2. /\ Fundings' = Fundings /\ Calculated' = Calculated /\ Contracts' = Contracts
      /\ IsBackpack' = IsBackpack
  BY <1>1, SameClock
<1>3. stored \subseteq stored' /\ stored' \subseteq Fundings
  <2>1. CASE Update
    <3>1. PICK P \in Answers(HistoryAfter(After(At), At)) : stored' = stored \cup P
      BY <2>1 DEF Update
    <3>2. P \in SUBSET Fundings
      BY <3>1, AnswersAreFundings, AnswersAreParts DEF DriversInv, TypeOK
    <3> QED
      BY <3>1, <3>2 DEF DriversInv, TypeOK
  <2> QED
    BY <2>1 DEF UpdateAbort, DriversInv, TypeOK
<1>4. trouble' \subseteq Troubles
  BY DEF Update, UpdateAbort, DriversInv, TypeOK, When, Troubles
<1> QED
  BY <1>1, <1>2, <1>3, <1>4 DEF DriversInv, TypeOK

LEMMA AskKeepsDriversInv ==
  ASSUME DriversInv, BackpackAsk
  PROVE  DriversInv'
<1>1. /\ UNCHANGED <<contract, now, stored, synced, paging, before, since, trouble>>
      /\ asked' = now /\ IsBackpack
      /\ \/ paging /\ waiting' = "backfill"
         \/ now % Hour \in UpdateSeconds /\ waiting' = "update"
  BY DEF BackpackAsk, Due
<1>2. /\ Fundings' = Fundings /\ Calculated' = Calculated /\ Contracts' = Contracts
      /\ IsBackpack' = IsBackpack
  BY <1>1, SameClock
<1>3. now \in Start..now /\ Calculated \in Nat /\ asked' \div Hour = Calculated
  BY <1>1, FundingFacts, Constants DEF DriversInv, TypeOK, Calculated
<1> QED
  BY <1>1, <1>2, <1>3 DEF DriversInv, TypeOK

LEMMA TickKeepsDriversInv ==
  ASSUME DriversInv, Tick
  PROVE  DriversInv'
<1>1. /\ now' = now + 1 /\ now \in Start..Horizon /\ now < Horizon
      /\ UNCHANGED <<contract, stored, synced, paging, before, since, waiting, asked, trouble>>
  BY DEF Tick, DriversInv, TypeOK
<1>2. now' \in Start..Horizon /\ now \in Int /\ now' \in Int
  BY <1>1, Constants
<1>3. Calculated <= Calculated' /\ Calculated \in Int /\ Calculated' \in Int
  BY <1>1, <1>2, Constants, DivisionIsMonotone, DivisionBounds DEF Calculated
<1>4. Fundings \subseteq Fundings'
  BY <1>1, <1>3, Constants DEF Fundings
<1>5. 0..Calculated \subseteq 0..Calculated' /\ Start..now \subseteq Start..now'
  BY <1>1, <1>2, <1>3, Constants
<1>6. contract' \in Contracts' /\ IsBackpack' = IsBackpack
  BY <1>1 DEF DriversInv, TypeOK, Contracts, IsBackpack
<1>7. TypeOK'
  BY <1>1, <1>2, <1>4, <1>5, <1>6 DEF DriversInv, TypeOK
<1>8. /\ paging' => Calculated' <= since' + 1
      /\ waiting' = "update" => Calculated' <= asked' \div Hour + 1
  BY <1>1 DEF Tick, Calculated
<1> QED
  BY <1>1, <1>6, <1>7, <1>8 DEF DriversInv

LEMMA DriversInvStep == DriversInv /\ [Next]_vars => DriversInv'
<1> SUFFICES ASSUME DriversInv, [Next]_vars
             PROVE  DriversInv'
  OBVIOUS
<1>1. CASE BackfillStart \/ BackfillPage \/ BackfillEnd \/ BackfillAbort
  BY <1>1, BackfillKeepsDriversInv
<1>2. CASE Update \/ UpdateAbort
  BY <1>2, UpdateKeepsDriversInv
<1>3. CASE BackpackAsk
  BY <1>3, AskKeepsDriversInv
<1>4. CASE Tick
  BY <1>4, TickKeepsDriversInv
<1>5. CASE UNCHANGED vars
  <2>1. /\ Fundings' = Fundings /\ Calculated' = Calculated /\ Contracts' = Contracts
        /\ IsBackpack' = IsBackpack
    BY <1>5, SameClock DEF vars
  <2> QED
    BY <1>5, <2>1 DEF vars, DriversInv, TypeOK
<1> QED
  BY <1>1, <1>2, <1>3, <1>4, <1>5 DEF Next

\* The variables have their types: what is stored has been calculated, and a
\* run stays before a stored funding.
THEOREM DriversTypeCorrect == Spec => []TypeOK
<1>1. DriversInv => TypeOK
  BY DEF DriversInv
<1> QED
  BY <1>1, DriversInvInit, DriversInvStep, PTL DEF Spec

\* Whatever a driver makes of the instant it is given, and however late Backpack
\* answers, a backfill that no error ends does not end above the first funding,
\* at any moment of the hour, if a page has room for two of the longest funding
\* intervals.
THEOREM SyncedReachesTheFirst == ASSUME LongSteps PROVE Spec => []SyncedFromTheFirst
<1> DEFINE I == DriversInv /\ SyncedFromTheFirst
<1>1. Init => I
  BY DriversInvInit DEF Init, SyncedFromTheFirst
<1>2. I /\ [Next]_vars => I'
  <2> SUFFICES ASSUME I, [Next]_vars
               PROVE  SyncedFromTheFirst'
    BY DriversInvStep
  <2>1. CASE BackfillEnd
    <3> SUFFICES ASSUME synced', "misread" \notin trouble'
                 PROVE  First \in stored
      BY <2>1 DEF BackfillEnd, SyncedFromTheFirst
    <3>1. before # None /\ BackfillAsked = {}
      BY <2>1 DEF BackfillEnd, When
    <3>2. HistoryBefore(before, At) = {}
      BY <3>1 DEF BackfillAsked
    <3>3. PICK f \in stored : before = f * Hour - 1
      BY <3>1 DEF DriversInv, TypeOK
    <3>4. f \in Fundings
      BY <3>3 DEF DriversInv, TypeOK
    <3>5. At \in Nat /\ At <= now /\ Calculated <= At \div Hour + 1
      BY <2>1, AnsweredFacts DEF BackfillEnd
    <3>6. f = First
      BY <3>2, <3>3, <3>4, <3>5, PagesReachBack DEF DriversInv, TypeOK
    <3> QED
      BY <3>3, <3>6
  <2>2. CASE ~BackfillEnd
    <3>1. synced' = synced /\ stored \subseteq stored' /\ trouble \subseteq trouble'
      BY <2>2 DEF Next, vars, BackfillStart, BackfillPage, BackfillAbort, BackpackAsk, Update,
                  UpdateAbort, Tick
    <3> QED
      BY <3>1 DEF SyncedFromTheFirst
  <2> QED
    BY <2>1, <2>2
<1>3. I => SyncedFromTheFirst
  OBVIOUS
<1> QED
  BY <1>1, <1>2, <1>3, PTL DEF Spec

-----------------------------------------------------------------------------
(* What is stored is all of F between its bounds, and what is answered next
   leaves no gap to it. *)

Contiguous(S, F) == \A f \in S, g \in S, z \in F : f <= z /\ z <= g => z \in S

\* Nothing of F between a stored c and the elements of P is left out of P.
JoinsAt(P, c, F) ==
  \A p \in P, z \in F : (c < z /\ z <= p) \/ (p <= z /\ z < c) => z \in P

LEMMA JoinedSets ==
  ASSUME NEW F \in SUBSET Nat, NEW S \in SUBSET F, NEW P \in SUBSET F, NEW c \in S,
         Contiguous(S, F), JoinsAt(P, c, F)
  PROVE  Contiguous(S \cup P, F)
<1> SUFFICES ASSUME NEW f \in S \cup P, NEW g \in S \cup P, NEW z \in F, f <= z, z <= g,
                    z # c, z \notin P
             PROVE  z \in S
  BY DEF Contiguous
<1>1. f \in Nat /\ g \in Nat /\ z \in Nat /\ c \in Nat
  OBVIOUS
<1>2. CASE c < z
  <2>1. g \in S
    BY <1>1, <1>2 DEF JoinsAt
  <2> QED
    BY <1>1, <1>2, <2>1 DEF Contiguous
<1>3. CASE z < c
  <2>1. f \in S
    BY <1>1, <1>3 DEF JoinsAt
  <2> QED
    BY <1>1, <1>3, <2>1 DEF Contiguous
<1> QED
  BY <1>1, <1>2, <1>3

LEMMA JoinedAtTop ==
  ASSUME NEW F \in SUBSET Nat, NEW P \in SUBSET F, NEW c \in Nat, \A z \in F : z <= c,
         JoinsAt(P, c, F)
  PROVE  /\ Contiguous(P, F)
         /\ \A f \in F : c - 1 <= f => JoinsAt(P, f, F)
<1>1. Contiguous(P, F)
  <2> SUFFICES ASSUME NEW f \in P, NEW g \in P, NEW z \in F, f <= z, z <= g
               PROVE  z \in P
    BY DEF Contiguous
  <2>1. f \in Nat /\ g \in Nat /\ z \in Nat /\ g <= c /\ z <= c
    OBVIOUS
  <2>2. CASE z = c
    BY <2>1, <2>2
  <2>3. CASE z # c
    BY <2>1, <2>3 DEF JoinsAt
  <2> QED
    BY <2>2, <2>3
<1>2. ASSUME NEW f \in F, c - 1 <= f
      PROVE  JoinsAt(P, f, F)
  <2> SUFFICES ASSUME NEW p \in P, NEW z \in F, (f < z /\ z <= p) \/ (p <= z /\ z < f)
               PROVE  z \in P
    BY DEF JoinsAt
  <2>1. f \in Nat /\ p \in Nat /\ z \in Nat /\ p <= c /\ z <= c /\ f <= c
    OBVIOUS
  <2>2. CASE z = c
    BY <1>2, <2>1, <2>2
  <2>3. CASE z # c
    BY <1>2, <2>1, <2>3 DEF JoinsAt
  <2> QED
    BY <2>2, <2>3
<1> QED
  BY <1>1, <1>2

-----------------------------------------------------------------------------
(* Pages of a window. *)

LEMMA SmallerCount ==
  ASSUME NEW T, IsFiniteSet(T), NEW S \in SUBSET T, NEW n \in Nat, Cardinality(T) < n
  PROVE  IsFiniteSet(S) /\ Cardinality(S) < n
BY FS_Subset, FS_CardinalityType

LEMMA CountWithout ==
  ASSUME NEW T, IsFiniteSet(T), NEW n \in Nat, Cardinality(T) <= n, NEW z \in T,
         NEW S \in SUBSET T, z \notin S
  PROVE  Cardinality(S) < n
<1>1. S \subseteq T \ {z} /\ IsFiniteSet(T \ {z})
      /\ Cardinality(T \ {z}) = Cardinality(T) - 1 /\ Cardinality(T) \in Nat
  BY FS_RemoveElement, FS_CardinalityType, FS_Subset
<1>2. Cardinality(S) <= Cardinality(T \ {z}) /\ Cardinality(S) \in Nat
  BY <1>1, FS_Subset, FS_CardinalityType
<1> QED
  BY <1>1, <1>2

LEMMA NewestIsUpperPart ==
  ASSUME NEW W, IsFiniteSet(W), W \subseteq Nat, NEW n \in Nat,
         NEW p \in Newest(n, W), NEW z \in W, p <= z
  PROVE  z \in Newest(n, W)
<1> DEFINE above(x) == {g \in W : g > x}
<1>1. p \in W /\ p \in Nat /\ z \in Nat /\ \A g \in W : g \in Nat
  BY DEF Newest
<1>2. \A g \in W : g > z => g > p
  BY <1>1
<1>3. above(z) \subseteq above(p)
  BY <1>2
<1>4. IsFiniteSet(above(p))
  BY FS_Subset
<1>5. Cardinality(above(p)) < n
  BY DEF Newest
<1>6. Cardinality(above(z)) < n
  <2> HIDE DEF above
  <2> QED
    BY <1>3, <1>4, <1>5, SmallerCount
<1> QED
  BY <1>6 DEF Newest

LEMMA OldestIsLowerPart ==
  ASSUME NEW W, IsFiniteSet(W), W \subseteq Nat, NEW n \in Nat,
         NEW p \in Oldest(n, W), NEW z \in W, z <= p
  PROVE  z \in Oldest(n, W)
<1> DEFINE below(x) == {g \in W : g < x}
<1>1. p \in W /\ p \in Nat /\ z \in Nat /\ \A g \in W : g \in Nat
  BY DEF Oldest
<1>2. \A g \in W : g < z => g < p
  BY <1>1
<1>3. below(z) \subseteq below(p)
  BY <1>2
<1>4. IsFiniteSet(below(p))
  BY FS_Subset
<1>5. Cardinality(below(p)) < n
  BY DEF Oldest
<1>6. Cardinality(below(z)) < n
  <2> HIDE DEF below
  <2> QED
    BY <1>3, <1>4, <1>5, SmallerCount
<1> QED
  BY <1>6 DEF Oldest

\* No page is full of fundings that lie within as many settlements of z.
LEMMA FewInReach ==
  ASSUME contract \in Contracts, now \in Start..Horizon,
         NEW S \in SUBSET Fundings, NEW z \in Fundings,
         \A g \in S : g < z /\ z - g < Limit * contract.every
  PROVE  Cardinality(S) < Limit
<1> DEFINE e == contract.every
           f == [g \in S |-> (z - g) \div e]
<1>1. e \in Nat \ {0} /\ Limit \in Nat /\ Limit >= 3
  BY Constants, ContractFacts
<1>2. /\ z \in Nat /\ z % e = 0 /\ \A g \in S : g \in Nat /\ g % e = 0
  BY FundingFacts DEF Fundings
<1>3. \A g \in S : g < z /\ z - g < Limit * e
  OBVIOUS
<1> HIDE DEF e
<1>4. ASSUME NEW g \in S
      PROVE  (z - g) \div e \in 1..(Limit - 1) /\ z - g = ((z - g) \div e) * e
  <2> DEFINE a == z \div e
             b == g \div e
  <2>1. a \in Int /\ b \in Int /\ z = a * e /\ g = b * e
    BY <1>1, <1>2, DivisionBounds
  <2> HIDE DEF a, b
  <2>2. (a - b) * e = z - g /\ a - b \in Int /\ z - g \in Int
    BY <1>1, <1>2, <2>1
  <2>3. (z - g) \div e = a - b
    BY <1>1, <2>2, DivisionIs
  <2>4. 0 * e < (a - b) * e /\ (a - b) * e < Limit * e
    BY <1>1, <1>2, <1>3, <2>2
  <2>5. 0 < a - b /\ a - b < Limit
    <3>1. ~(a - b <= 0) /\ ~(Limit <= a - b)
      BY <1>1, <2>2, <2>4, MultiplesAreOrdered
    <3> QED
      BY <1>1, <2>2, <3>1
  <2> QED
    BY <1>1, <2>2, <2>3, <2>5
<1>5. f \in Injection(S, 1..(Limit - 1))
  <2>1. f \in [S -> 1..(Limit - 1)]
    BY <1>4
  <2>2. ASSUME NEW g \in S, NEW h \in S, f[g] = f[h]
        PROVE  g = h
    <3>1. z - g = z - h
      BY <1>4, <2>2
    <3> QED
      BY <1>2, <3>1
  <2> QED
    BY <2>1, <2>2 DEF Injection, IsInjective
<1>6. IsFiniteSet(1..(Limit - 1)) /\ Cardinality(1..(Limit - 1)) = Limit - 1
  BY <1>1, FS_Interval
<1>7. IsFiniteSet(S) /\ Cardinality(S) <= Limit - 1
  <2> HIDE DEF f
  <2> QED
    BY <1>5, <1>6, FS_Injection
<1> QED
  BY <1>1, <1>7, FS_CardinalityType
LEMMA NewestJoins ==
  ASSUME now \in Start..Horizon, NEW W \in SUBSET Fundings, NEW c \in Nat,
         \A p \in W : p <= c,
         \A p \in W, z \in Fundings : p <= z /\ z < c => z \in W
  PROVE  JoinsAt(Newest(Limit, W), c, Fundings)
<1>1. IsFiniteSet(W) /\ W \subseteq Nat /\ Fundings \subseteq Nat /\ Limit \in Nat
  BY FundingFacts, FS_Subset, Constants
<1>2. Newest(Limit, W) \subseteq W
  BY DEF Newest
<1> SUFFICES ASSUME NEW p \in Newest(Limit, W), NEW z \in Fundings,
                    (c < z /\ z <= p) \/ (p <= z /\ z < c)
             PROVE  z \in Newest(Limit, W)
  BY DEF JoinsAt
<1>3. p \in W /\ p <= c /\ p \in Nat /\ z \in Nat
  BY <1>1, <1>2
<1>4. z \in W /\ p <= z
  BY <1>3
<1> QED
  BY <1>1, <1>4, NewestIsUpperPart

LEMMA OldestJoins ==
  ASSUME now \in Start..Horizon, NEW W \in SUBSET Fundings, NEW c \in Nat,
         \A p \in W : p <= c,
         \A p \in W, z \in Fundings : p <= z /\ z < c => z \in W,
         \A z \in W : z < c => Cardinality({g \in W : g < z}) < Limit
  PROVE  JoinsAt(Oldest(Limit, W), c, Fundings)
<1>1. W \subseteq Nat /\ Fundings \subseteq Nat
  BY FundingFacts
<1> SUFFICES ASSUME NEW p \in Oldest(Limit, W), NEW z \in Fundings,
                    (c < z /\ z <= p) \/ (p <= z /\ z < c)
             PROVE  z \in Oldest(Limit, W)
  BY DEF JoinsAt
<1>2. p \in W /\ p <= c /\ p \in Nat /\ z \in Nat
  BY <1>1 DEF Oldest
<1>3. z \in W /\ z < c
  BY <1>2
<1> QED
  BY <1>3 DEF Oldest

\* Pacifica's pages, filtered: what is newer is on no later page.
LEMMA PacificaIsUpperPart ==
  ASSUME now \in Start..Horizon, NEW start, NEW end, NEW p \in Pacifica(start, end),
         NEW z \in Within(start, end), p <= z
  PROVE  z \in Pacifica(start, end)
<1> DEFINE above(x) == {v \in Fundings : v > x}
           PageOf(x) == Cardinality(above(x)) \div CursorPage
<1>0. PICK W : W = Within(start, end)
  OBVIOUS
<1>1. /\ W \subseteq Fundings /\ IsFiniteSet(W) /\ Fundings \subseteq Nat /\ IsFiniteSet(Fundings)
      /\ p \in W /\ z \in W /\ CursorPage \in Nat \ {0} /\ Limit \in Nat
  BY <1>0, FundingFacts, FS_Subset, Constants DEF Within, Pacifica, CursorOf
<1>2. \A x \in Fundings : /\ IsFiniteSet(above(x)) /\ Cardinality(above(x)) \in Nat
                          /\ PageOf(x) \in Int
  <2> SUFFICES ASSUME NEW x \in Fundings
               PROVE  /\ IsFiniteSet(above(x)) /\ Cardinality(above(x)) \in Nat
                      /\ PageOf(x) \in Int
    OBVIOUS
  <2>1. above(x) \subseteq Fundings
    OBVIOUS
  <2> HIDE DEF above
  <2>2. IsFiniteSet(above(x)) /\ Cardinality(above(x)) \in Nat
    BY <1>1, <2>1, FS_Subset, FS_CardinalityType
  <2> QED
    BY <1>1, <2>2, DivisionBounds
<1>3. PageOf(z) <= PageOf(p)
  <2>1. \A v \in Fundings : v > z => v > p
    BY <1>1
  <2>2. above(z) \subseteq above(p)
    BY <2>1
  <2>3. z \in Fundings /\ p \in Fundings
    BY <1>1
  <2>4. IsFiniteSet(above(p)) /\ Cardinality(above(z)) \in Int /\ Cardinality(above(p)) \in Int
    BY <1>2, <2>3
  <2> HIDE DEF above
  <2>5. Cardinality(above(z)) <= Cardinality(above(p))
    BY <2>2, <2>4, FS_Subset
  <2> QED
    BY <1>1, <2>4, <2>5, DivisionIsMonotone
<1>4. Cardinality({g \in W : PageOf(g) < PageOf(p)}) < Limit
  BY <1>0 DEF Pacifica, CursorOf
<1>5. {g \in W : PageOf(g) < PageOf(z)} \subseteq {g \in W : PageOf(g) < PageOf(p)}
  <2>1. \A g \in W : PageOf(g) \in Int /\ PageOf(z) \in Int /\ PageOf(p) \in Int
    BY <1>1, <1>2
  <2> HIDE DEF PageOf
  <2> QED
    BY <1>3, <2>1
<1>6. IsFiniteSet({g \in W : PageOf(g) < PageOf(p)})
  BY <1>1, FS_Subset
<1>7. Cardinality({g \in W : PageOf(g) < PageOf(z)}) < Limit
  <2> DEFINE sooner(x) == {g \in W : PageOf(g) < PageOf(x)}
  <2>1. /\ sooner(z) \subseteq sooner(p) /\ IsFiniteSet(sooner(p))
        /\ Cardinality(sooner(p)) < Limit
    BY <1>4, <1>5, <1>6
  <2>2. Cardinality(sooner(z)) < Limit
    <3> HIDE DEF sooner
    <3> QED
      BY <1>1, <2>1, SmallerCount
  <2> QED
    BY <2>2
<1> QED
  BY <1>0, <1>1, <1>7 DEF Pacifica, CursorOf

\* What is newer is behind no later cursor.
LEMMA CursorsDescend ==
  ASSUME now \in Start..Horizon, NEW p \in Fundings, NEW z \in Fundings, p <= z
  PROVE  CursorOf(z) \in Int /\ CursorOf(p) \in Int /\ CursorOf(z) <= CursorOf(p)
<1>1. PICK A, B : A = {g \in Fundings : g > p} /\ B = {g \in Fundings : g > z}
  OBVIOUS
<1>2. Fundings \subseteq Nat /\ IsFiniteSet(Fundings) /\ CursorPage \in Nat \ {0}
  BY FundingFacts, Constants
<1>3. B \subseteq A /\ A \subseteq Fundings
  <2>1. \A g \in Fundings : g > z => g > p
    BY <1>2
  <2> QED
    BY <1>1, <2>1
<1>4. IsFiniteSet(A) /\ IsFiniteSet(B) /\ Cardinality(B) <= Cardinality(A)
  BY <1>2, <1>3, FS_Subset
<1>5. Cardinality(A) \in Int /\ Cardinality(B) \in Int
  BY <1>4, FS_CardinalityType
<1>6. CursorOf(p) = Cardinality(A) \div CursorPage /\ CursorOf(z) = Cardinality(B) \div CursorPage
  BY <1>1 DEF CursorOf
<1> QED
  BY <1>2, <1>4, <1>5, <1>6, DivisionIsMonotone, DivisionBounds

\* What an error leaves of a page below c joins at c where the page does.
LEMMA PartsJoin ==
  ASSUME now \in Start..Horizon, NEW page \in SUBSET Fundings, NEW c \in Nat,
         contract.driver = "pacifica" => \A p \in page : p <= c,
         JoinsAt(page, c, Fundings), NEW answer \in Answers(page)
  PROVE  JoinsAt(answer, c, Fundings)
<1>1. CASE answer = page \/ answer = {}
  BY <1>1 DEF JoinsAt
<1>2. CASE ~(answer = page \/ answer = {})
  <2>1. answer \in Misread(page)
    BY <1>2 DEF Answers
  <2>2. contract.driver = "pacifica"
    BY <1>2, <2>1 DEF Misread
  <2>3. contract.driver \notin Silent
    BY <2>2 DEF Silent
  <2>4. PICK f \in page : answer = {g \in page : CursorOf(g) < CursorOf(f)}
    BY <2>1, <2>2, <2>3 DEF Misread
  <2> SUFFICES ASSUME NEW p \in answer, NEW z \in Fundings, (c < z /\ z <= p) \/ (p <= z /\ z < c)
               PROVE  z \in answer
    BY DEF JoinsAt
  <2>5. p \in page /\ p \in Fundings /\ CursorOf(p) < CursorOf(f)
    BY <2>4
  <2>6. p \in Nat /\ z \in Nat /\ p <= c
    BY <2>2, <2>5, FundingFacts
  <2>7. p <= z /\ z < c
    BY <2>6
  <2>8. z \in page
    BY <2>5, <2>7 DEF JoinsAt
  <2>9. CursorOf(z) <= CursorOf(p) /\ CursorOf(z) \in Int /\ CursorOf(p) \in Int
    BY <2>5, <2>7, CursorsDescend
  <2>10. CursorOf(f) \in Int
    BY <2>4, CursorsDescend, FundingFacts
  <2> QED
    BY <2>4, <2>5, <2>8, <2>9, <2>10
<1> QED
  BY <1>1, <1>2

\* A window up to the moment right above c joins at c, whichever end of it the
\* exchange keeps.
LEMMA WindowBeforeJoins ==
  ASSUME contract \in Contracts, now \in Start..Horizon, StepFitsPage,
         contract.driver \notin {"backpack", "paradex"},
         NEW c \in Nat, NEW end \in Int,
         \A z \in Fundings : (z < c => z * Hour < end) /\ (z * Hour <= end => z <= c)
  PROVE  JoinsAt(WindowBefore(end), c, Fundings)
<1> DEFINE e == contract.every
<1>0. PICK start : start = end - FetchStep * Hour
  OBVIOUS
<1>1. WindowBefore(end) = FetchHistory(start, end)
  BY <1>0 DEF WindowBefore
<1>2. /\ Hour \in Nat \ {0} /\ Limit \in Nat /\ e \in Nat \ {0} /\ FetchStep \in Int
      /\ FetchStep <= Limit * e /\ Limit * e \in Int
      /\ FetchStep * Hour \in Int /\ start \in Int
  <2>1. Slow * Limit \in Int /\ Limit - 2 \in Int /\ Limit \div 2 \in Int
    BY Constants
  <2>2. FetchStep \in Int
    BY <2>1, Constants DEF FetchStep
  <2> QED
    BY <1>0, <2>2, Constants, ContractFacts DEF StepFitsPage
<1>3. Fundings \subseteq Nat /\ \A f \in Fundings : f * Hour \in Nat
  BY FundingFacts
<1>4. ASSUME NEW W, NEW a \in Int, NEW b \in {end - 1, end}, W = Within(a, b)
      PROVE  /\ W \in SUBSET Fundings /\ W \subseteq Nat
             /\ \A p \in W : p <= c
             /\ \A p \in W, z \in Fundings : p <= z /\ z < c => z \in W
  <2>1. \A z \in Fundings : z \in W <=> a <= z * Hour /\ z * Hour <= b
    BY <1>4 DEF Within
  <2>2. W \in SUBSET Fundings
    BY <1>4 DEF Within
  <2>3. \A p \in W : p <= c
    BY <1>3, <2>1, <2>2
  <2>4. ASSUME NEW p \in W, NEW z \in Fundings, p <= z, z < c
        PROVE  z \in W
    <3>1. p \in Int /\ z \in Int /\ p * Hour \in Int /\ z * Hour \in Int
      BY <1>3, <2>2
    <3>2. p * Hour <= z * Hour
      BY <1>2, <2>4, <3>1, MultiplesAreOrdered
    <3>3. z * Hour < end /\ a <= p * Hour
      BY <2>1, <2>2, <2>4
    <3> QED
      BY <2>1, <3>1, <3>2, <3>3
  <2> QED
    BY <1>3, <2>2, <2>3, <2>4
<1>5. ASSUME NEW W, NEW a \in Int, NEW b \in {end - 1, end}, W = Within(a, b)
      PROVE  JoinsAt(Newest(Limit, W), c, Fundings)
  BY <1>4, <1>5, NewestJoins
<1>6. ASSUME NEW W, NEW a \in Int, NEW b \in {end - 1, end}, W = Within(a, b), start <= a
      PROVE  JoinsAt(Kept(Limit, W), c, Fundings)
  <2>1. ASSUME NEW z \in W, z < c
        PROVE  Cardinality({g \in W : g < z}) < Limit
    <3>1. ASSUME NEW g \in W, g < z
          PROVE  z - g < Limit * e
      <4>1. z \in Fundings /\ g \in Fundings /\ z \in Int /\ g \in Int
            /\ z * Hour \in Int /\ g * Hour \in Int
        BY <1>3, <1>4, <1>6
      <4>2. z * Hour < end /\ a <= g * Hour
        BY <1>6, <2>1, <4>1 DEF Within
      <4>3. (z - g) * Hour = z * Hour - g * Hour
        BY <1>2, <4>1
      <4>4. (z - g) * Hour < FetchStep * Hour
        BY <1>0, <1>2, <1>6, <4>1, <4>2, <4>3
      <4>5. z - g < FetchStep
        <5>1. ~(FetchStep <= z - g)
          BY <1>2, <4>1, <4>3, <4>4, MultiplesAreOrdered
        <5> QED
          BY <1>2, <4>1, <5>1
      <4> HIDE DEF e
      <4> QED
        BY <1>2, <4>1, <4>5
    <3>2. {g \in W : g < z} \in SUBSET Fundings /\ z \in Fundings
      BY <1>4, <1>6
    <3> QED
      BY <3>1, <3>2, FewInReach
  <2>2. JoinsAt(Oldest(Limit, W), c, Fundings)
    BY <1>4, <1>6, <2>1, OldestJoins
  <2> QED
    BY <1>5, <1>6, <2>2 DEF Kept
<1>7. JoinsAt(Kept(Limit, Within(start, end)), c, Fundings)
  <2>1. PICK W : W = Within(start, end)
    OBVIOUS
  <2>2. JoinsAt(Kept(Limit, W), c, Fundings)
    BY <1>2, <1>6, <2>1
  <2> QED
    BY <2>1, <2>2
<1>8. JoinsAt(Kept(Limit, Within(start + 1, end - 1)), c, Fundings)
  <2>1. PICK W : W = Within(start + 1, end - 1)
    OBVIOUS
  <2>2. JoinsAt(Kept(Limit, W), c, Fundings)
    BY <1>2, <1>6, <2>1
  <2> QED
    BY <2>1, <2>2
<1>9. JoinsAt(Newest(Limit, Within(start, end)), c, Fundings)
  <2>1. PICK W : W = Within(start, end)
    OBVIOUS
  <2>2. JoinsAt(Newest(Limit, W), c, Fundings)
    BY <1>2, <1>5, <2>1
  <2> QED
    BY <2>1, <2>2
<1>10. JoinsAt(Newest(Limit, Within(0, end)), c, Fundings)
  <2>1. PICK W : W = Within(0, end)
    OBVIOUS
  <2>2. JoinsAt(Newest(Limit, W), c, Fundings)
    BY <1>5, <2>1
  <2> QED
    BY <2>1, <2>2
<1>11. JoinsAt(Within(end - Limit * Hour + 1, end), c, Fundings)
  <2>1. PICK a : a = end - Limit * Hour + 1
    OBVIOUS
  <2>2. a \in Int
    BY <1>2, <2>1
  <2>3. PICK W : W = Within(a, end)
    OBVIOUS
  <2>4. JoinsAt(W, c, Fundings)
    BY <1>3, <1>4, <2>2, <2>3 DEF JoinsAt
  <2> QED
    BY <2>1, <2>3, <2>4
<1>12. JoinsAt(Pacifica(start, end), c, Fundings)
  <2>1. PICK W : W = Within(start, end)
    OBVIOUS
  <2>2. PICK P : P = Pacifica(start, end)
    OBVIOUS
  <2>3. P \subseteq W /\ \A p \in P, z \in W : p <= z => z \in P
    BY <2>1, <2>2, PacificaIsUpperPart DEF Pacifica
  <2>4. JoinsAt(P, c, Fundings)
    <3>1. /\ \A p \in W : p <= c
          /\ \A p \in W, z \in Fundings : p <= z /\ z < c => z \in W
          /\ W \subseteq Fundings
      BY <1>2, <1>4, <2>1
    <3> SUFFICES ASSUME NEW p \in P, NEW z \in Fundings, (c < z /\ z <= p) \/ (p <= z /\ z < c)
                 PROVE  z \in P
      BY DEF JoinsAt
    <3>2. p \in W /\ p \in Int /\ z \in Int /\ p <= c
      BY <1>3, <2>3, <3>1
    <3>3. p <= z /\ z < c
      BY <3>2
    <3>4. z \in W
      BY <3>1, <3>2, <3>3
    <3> QED
      BY <2>3, <3>3, <3>4
  <2> QED
    BY <2>2, <2>4
<1> QED
  BY <1>1, <1>7, <1>8, <1>9, <1>10, <1>11, <1>12, ContractFacts
  DEF FetchHistory, DriverIds, Aster, BinanceUsdm, BinanceCoinm, Bybit, Kucoin, Extended,
      Hyperliquid, Lighter, Okx, Dydx, Derive

LEMMA ParadexBeforeJoins ==
  ASSUME contract \in Contracts, now \in Start..Horizon,
         NEW c \in Nat, NEW end \in Int,
         \A z \in Fundings : (z < c => z * Hour < end) /\ (z * Hour <= end => z <= c)
  PROVE  JoinsAt(ParadexBefore(end), c, Fundings)
<1>0. PICK top : top = (end \div Hour) * Hour
  OBVIOUS
<1>1. PICK start : start = top - FetchStep * Hour
  OBVIOUS
<1>2. PICK q : q = end \div Hour
  OBVIOUS
<1>3. Hour \in Nat \ {0} /\ q \in Int /\ top = q * Hour /\ top <= end /\ end < top + Hour /\ top \in Int
  BY <1>0, <1>2, Constants, DivisionBounds
<1>4. start \in Int
  <2>1. Slow * Limit \in Int /\ Limit - 2 \in Int /\ Limit \div 2 \in Int /\ Limit \in Int
    BY Constants
  <2>2. FetchStep \in Int
    BY <2>1 DEF FetchStep
  <2> QED
    BY <1>1, <1>3, <2>2
<1>5. Fundings \subseteq Nat /\ \A f \in Fundings : f * Hour \in Nat
  BY FundingFacts
<1>6. PICK W : W = ParadexBefore(end)
  OBVIOUS
<1>7. W \subseteq Fundings /\ \A z \in Fundings : z \in W <=> start < z * Hour /\ z * Hour <= top
  BY <1>0, <1>1, <1>6 DEF ParadexBefore, HourlyAverages
<1> SUFFICES ASSUME NEW p \in W, NEW z \in Fundings, (c < z /\ z <= p) \/ (p <= z /\ z < c)
             PROVE  z \in W
  BY <1>6 DEF JoinsAt
<1>8. p \in Nat /\ z \in Nat /\ p * Hour \in Nat /\ z * Hour \in Nat /\ p * Hour <= top
      /\ start < p * Hour
  BY <1>5, <1>7
<1>9. p <= c
  BY <1>3, <1>7, <1>8
<1>10. p <= z /\ z < c
  BY <1>8, <1>9
<1>11. p * Hour <= z * Hour
  BY <1>3, <1>8, <1>10, MultiplesAreOrdered
<1>12. z * Hour <= top
  <2>1. z * Hour < end
    BY <1>10
  <2>2. ~(q < z)
    <3>1. q < z => q * Hour + Hour <= z * Hour
      BY <1>3, <1>8, MultiplesAreOrdered
    <3> QED
      BY <1>3, <1>8, <2>1, <3>1
  <2> QED
    BY <1>3, <1>8, <2>2, MultiplesAreOrdered
<1> QED
  BY <1>4, <1>7, <1>8, <1>11, <1>12, <1>3

LEMMA RecordsAre ==
  ASSUME NEW offset, NEW limit
  PROVE  \A f \in Fundings :
           f \in Records(offset, limit) <=>
             /\ (now \div Period) - (offset + limit - 2) <= (f * Hour) \div Period
             /\ (f * Hour) \div Period <= (now \div Period) - (offset - 1)
BY Zenon DEF Records

\* Backpack's page "before" may hold the funding it was to come before, and the
\* one after it when the answer is late.
LEMMA BackpackBeforeJoins ==
  ASSUME contract \in Contracts, now \in Start..Horizon, contract.driver = "backpack",
         NEW c \in Nat, NEW end \in Int, NEW at \in Int, at <= now, Calculated <= at \div Hour + 1,
         \/ c \in Fundings /\ end = c * Hour - 1
         \/ c = Calculated /\ end = at
  PROVE  JoinsAt(BackpackBefore(end, at), c, Fundings)
<1> DEFINE n(f) == (f * Hour) \div Period
<1>1. PICK P, L, d, s, W : /\ P = Period /\ L = now \div Period /\ d = (at - end) \div Period
                           /\ s = Step /\ W = BackpackBefore(end, at)
  OBVIOUS
<1>2. Hour \in Nat \ {0} /\ Fundings \subseteq Nat /\ now \in Nat
      /\ \A f \in Fundings : f * Hour \in Nat /\ f * Hour <= now /\ f <= Calculated
  BY FundingFacts, Constants DEF Fundings
<1>3. P \in Nat \ {0} /\ L \in Int /\ s \in Nat
  BY <1>1, OnePeriodEnds, BackpackStep
<1>4. d \in Int
  BY <1>1, <1>3, DivisionBounds
<1>5. \A f \in Fundings : n(f) \in Int /\ f * Hour = n(f) * P
  BY <1>1, BackpackNumbers
<1>6. W \subseteq Fundings
  BY <1>1, AnswersAreFundings DEF HistoryBefore
<1>7. \A f \in Fundings : f \in W <=> L - d - s + 1 <= n(f) /\ n(f) <= L - d
  <2>1. PICK o : o = 1 + d
    OBVIOUS
  <2>2. W = Records(o, s)
    BY <1>1, <2>1 DEF BackpackBefore
  <2>3. \A f \in Fundings : f \in Records(o, s) <=>
             /\ (now \div Period) - (o + s - 2) <= (f * Hour) \div Period
             /\ (f * Hour) \div Period <= (now \div Period) - (o - 1)
    BY RecordsAre
  <2> QED
    BY <1>1, <1>3, <1>4, <1>5, <2>1, <2>2, <2>3
<1>8. \A f \in Fundings, g \in Fundings : f <= g <=> n(f) <= n(g)
  <2> SUFFICES ASSUME NEW f \in Fundings, NEW g \in Fundings
               PROVE  f <= g <=> n(f) <= n(g)
    OBVIOUS
  <2>1. f \in Nat /\ g \in Nat /\ n(f) \in Int /\ n(g) \in Int
        /\ f * Hour = n(f) * P /\ g * Hour = n(g) * P
    BY <1>2, <1>5
  <2> HIDE DEF n
  <2>2. f <= g <=> f * Hour <= g * Hour
    BY <1>2, <2>1, MultiplesAreOrdered
  <2>3. n(f) <= n(g) <=> n(f) * P <= n(g) * P
    BY <1>3, <2>1, MultiplesAreOrdered
  <2> QED
    BY <2>1, <2>2, <2>3
<1> HIDE DEF n
<1> SUFFICES ASSUME NEW p \in W, NEW z \in Fundings, (c < z /\ z <= p) \/ (p <= z /\ z < c)
             PROVE  z \in W
  BY <1>1 DEF JoinsAt
<1>9. /\ p \in Fundings /\ p \in Nat /\ z \in Nat /\ n(p) \in Int /\ n(z) \in Int
      /\ L - d - s + 1 <= n(p) /\ n(p) <= L - d
  BY <1>2, <1>5, <1>6, <1>7
<1>10. s >= 1
  BY ONLY <1>3, <1>4, <1>9
<1>11. CASE c \in Fundings /\ end = c * Hour - 1
  <2>1. n(c) \in Int /\ n(c) - 1 <= L - d /\ L - d <= n(c) + 1
    BY <1>1, <1>11, BackpackOffset DEF n
  <2>2. CASE c < z /\ z <= p
    <3>1. n(z) <= n(p) /\ ~(n(z) <= n(c))
      BY <1>2, <1>8, <1>9, <1>11, <2>2
    <3>2. L - d - s + 1 <= n(z) /\ n(z) <= L - d
      BY ONLY <1>3, <1>4, <1>9, <1>10, <2>1, <3>1
    <3> QED
      BY <1>7, <3>2
  <2>3. CASE p <= z /\ z < c
    <3>1. n(p) <= n(z) /\ ~(n(c) <= n(z))
      BY <1>2, <1>8, <1>9, <1>11, <2>3
    <3>2. L - d - s + 1 <= n(z) /\ n(z) <= L - d
      BY ONLY <1>3, <1>4, <1>9, <2>1, <3>1
    <3> QED
      BY <1>7, <3>2
  <2> QED
    BY <2>2, <2>3
<1>12. CASE c = Calculated /\ end = at
  <2>1. d = 0
    <3>1. at - end = 0 /\ 0 * P <= 0 /\ 0 < 0 * P + P
      BY <1>3, <1>12
    <3> QED
      BY <1>1, <1>3, <3>1, DivisionIs
  <2>2. n(z) <= L
    <3>1. PICK x : x = z * Hour
      OBVIOUS
    <3>2. x \in Int /\ x <= now
      BY <1>2, <3>1
    <3>3. x \div P <= now \div P
      BY <1>2, <1>3, <3>2, DivisionIsMonotone
    <3> QED
      BY <1>1, <3>1, <3>3 DEF n
  <2>3. p <= z
    BY <1>2, <1>9, <1>12, FundingFacts
  <2>4. n(p) <= n(z)
    BY <1>8, <1>9, <2>3
  <2>5. L - d - s + 1 <= n(z) /\ n(z) <= L - d
    BY ONLY <1>3, <1>4, <1>9, <2>1, <2>2, <2>4
  <2> QED
    BY <1>7, <2>5
<1> QED
  BY <1>11, <1>12

\* What a driver answers of the time before a funding, or before now, reaches up
\* to it, also when an error cuts it short.
LEMMA HistoryBeforeJoins ==
  ASSUME contract \in Contracts, now \in Start..Horizon, StepFitsPage,
         NEW c \in Nat, NEW end \in Int, NEW at \in Int, at <= now, Calculated <= at \div Hour + 1,
         ~IsBackpack => at = now,
         \/ c \in Fundings /\ end = c * Hour - 1
         \/ c = Calculated /\ end = at,
         NEW answer \in Answers(HistoryBefore(end, at))
  PROVE  JoinsAt(answer, c, Fundings)
<1>1. ASSUME NEW z \in Fundings, ~IsBackpack
      PROVE  (z < c => z * Hour < end) /\ (z * Hour <= end => z <= c)
  <2>1. z \in Nat /\ Hour \in Nat \ {0} /\ Hour >= 2 /\ z * Hour \in Nat /\ z * Hour <= now
        /\ now \in Nat /\ c * Hour \in Int /\ z <= Calculated /\ Calculated \in Nat
    BY FundingFacts, Constants DEF Fundings
  <2>2. /\ z < c => z * Hour + Hour <= c * Hour
        /\ z * Hour <= c * Hour => z <= c
    BY <2>1, MultiplesAreOrdered
  <2>3. c = Calculated => c * Hour <= now
    BY FundingFacts
  <2> QED
    BY <1>1, <2>1, <2>2, <2>3
<1>2. JoinsAt(HistoryBefore(end, at), c, Fundings)
  BY <1>1, WindowBeforeJoins, ParadexBeforeJoins, BackpackBeforeJoins DEF HistoryBefore, IsBackpack
<1>3. HistoryBefore(end, at) \in SUBSET Fundings
  BY AnswersAreFundings
<1>4. ASSUME contract.driver = "pacifica", NEW p \in HistoryBefore(end, at)
      PROVE  p <= c
  <2>1. HistoryBefore(end, at) = Pacifica(end - FetchStep * Hour, end)
    BY <1>4 DEF HistoryBefore, WindowBefore, FetchHistory
  <2>2. p * Hour <= end /\ p \in Fundings
    BY <1>4, <2>1 DEF Pacifica, Within
  <2> QED
    BY <1>1, <1>4, <2>2 DEF IsBackpack
<1> QED
  BY <1>2, <1>3, <1>4, PartsJoin

-----------------------------------------------------------------------------
(* What came after a stored funding. *)

\* Above the fundings of a page that can hold them all, none is left out.
LEMMA FewerThanLimit ==
  ASSUME now \in Start..Horizon, NEW M \in SUBSET Fundings, Cardinality(M) <= Limit,
         NEW z \in M, NEW S \in SUBSET M, z \notin S
  PROVE  Cardinality(S) < Limit
<1>1. IsFiniteSet(M) /\ Limit \in Nat
  BY FundingFacts, FS_Subset, Constants
<1> QED
  BY <1>1, CountWithout

LEMMA WindowAfterJoins ==
  ASSUME contract \in Contracts, now \in Start..Horizon,
         contract.driver \notin {"backpack", "paradex"},
         NEW m \in Fundings, NEW after, after = m * Hour + 1,
         NEW M, M = {f \in Fundings : f > m}, CatchesUp \/ Cardinality(M) <= Limit
  PROVE  JoinsAt(WindowAfter(after), m, Fundings)
<1>0. PICK t : t = now
  OBVIOUS
<1>1. WindowAfter(after) = FetchHistory(after, t)
  BY <1>0 DEF WindowAfter
<1>2. /\ Hour \in Nat \ {0} /\ Hour >= 2 /\ Limit \in Nat
      /\ Fundings \subseteq Nat /\ m \in Nat /\ m * Hour \in Nat /\ after \in Int
      /\ t \in Nat /\ \A f \in Fundings : f * Hour \in Nat /\ f * Hour <= t
      /\ \A f \in Fundings : f > m => f * Hour >= m * Hour + Hour
  BY <1>0, FundingFacts, Constants, MultiplesAreOrdered
<1>3. contract.keeps # "oldest" => Cardinality(M) <= Limit /\ contract.keeps = "newest"
  BY ContractFacts DEF CatchesUp
<1>4. M \in SUBSET Fundings /\ IsFiniteSet(M)
  BY FundingFacts, FS_Subset
<1>5. ASSUME NEW W, NEW a \in {after, after + 1}, NEW b \in {t - 1, t}, W = Within(a, b)
      PROVE  /\ W \in SUBSET M /\ IsFiniteSet(W) /\ W \subseteq Nat
             /\ \A z \in M, p \in W : z <= p => z \in W
  <2>1. W \subseteq Fundings /\ \A z \in Fundings : z \in W <=> a <= z * Hour /\ z * Hour <= b
    BY <1>5 DEF Within
  <2>2. ASSUME NEW p \in W
        PROVE  p \in M
    <3>1. p \in Nat /\ p * Hour \in Nat /\ p * Hour > m * Hour
      BY <1>2, <1>5, <2>1
    <3>2. ~(p <= m)
      BY <1>2, <3>1, MultiplesAreOrdered
    <3> QED
      BY <1>2, <2>1, <3>1, <3>2
  <2>3. ASSUME NEW z \in M, NEW p \in W, z <= p
        PROVE  z \in W
    <3>1. z \in Fundings /\ p \in Fundings /\ z > m /\ z \in Int /\ p \in Int
          /\ z * Hour \in Int /\ p * Hour \in Int
      BY <1>2, <2>1
    <3>2. z * Hour <= p * Hour
      BY <1>2, <2>3, <3>1, MultiplesAreOrdered
    <3>3. z * Hour >= m * Hour + Hour
      BY <1>2, <3>1
    <3> QED
      BY <1>2, <1>5, <2>1, <3>1, <3>2, <3>3
  <2> QED
    BY <1>2, <1>4, <2>1, <2>2, <2>3, FS_Subset
<1>6. ASSUME NEW P, NEW W \in SUBSET M, P \subseteq W,
             \A z \in M, p \in P : z <= p => z \in P
      PROVE  JoinsAt(P, m, Fundings)
  BY <1>2, <1>4, <1>6 DEF JoinsAt
<1>7. ASSUME NEW W, NEW a \in {after, after + 1}, NEW b \in {t - 1, t}, W = Within(a, b),
             Cardinality(M) <= Limit
      PROVE  Newest(Limit, W) = W
  <2>1. W \in SUBSET M /\ W \subseteq Nat
    BY <1>5, <1>7
  <2>2. ASSUME NEW z \in W
        PROVE  Cardinality({g \in W : g > z}) < Limit
    <3>1. {g \in W : g > z} \in SUBSET M /\ z \in M
      BY <2>1
    <3>2. z \notin {g \in W : g > z}
      BY <2>1
    <3> QED
      BY <1>4, <1>7, <3>1, <3>2, FewerThanLimit
  <2> QED
    BY <2>2 DEF Newest
<1>8. ASSUME NEW W, NEW a \in {after, after + 1}, NEW b \in {t - 1, t}, W = Within(a, b)
      PROVE  JoinsAt(Kept(Limit, W), m, Fundings)
  <2>1. /\ W \in SUBSET M /\ IsFiniteSet(W) /\ W \subseteq Nat
        /\ \A z \in M, p \in W : z <= p => z \in W
    BY <1>5, <1>8
  <2>2. CASE contract.keeps = "oldest"
    <3>1. PICK P : P = Oldest(Limit, W)
      OBVIOUS
    <3>2. P \subseteq W
      BY <3>1 DEF Oldest
    <3>3. ASSUME NEW z \in M, NEW p \in P, z <= p
          PROVE  z \in P
      <4>1. z \in W
        BY <2>1, <3>2, <3>3
      <4> QED
        BY <1>2, <2>1, <3>1, <3>3, <4>1, OldestIsLowerPart
    <3>4. JoinsAt(P, m, Fundings)
      BY <1>6, <2>1, <3>2, <3>3
    <3> QED
      BY <2>2, <3>1, <3>4 DEF Kept
  <2>3. CASE contract.keeps # "oldest"
    <3>1. Newest(Limit, W) = W
      BY <1>3, <1>7, <1>8, <2>3
    <3>2. JoinsAt(W, m, Fundings)
      BY <1>6, <2>1
    <3> QED
      BY <2>3, <3>1, <3>2 DEF Kept
  <2> QED
    BY <2>2, <2>3
<1>9. JoinsAt(Kept(Limit, Within(after, t)), m, Fundings)
  <2>1. PICK W : W = Within(after, t)
    OBVIOUS
  <2>2. JoinsAt(Kept(Limit, W), m, Fundings)
    BY <1>8, <2>1
  <2> QED
    BY <2>1, <2>2
<1>10. JoinsAt(Kept(Limit, Within(after + 1, t - 1)), m, Fundings)
  <2>1. PICK W : W = Within(after + 1, t - 1)
    OBVIOUS
  <2>2. JoinsAt(Kept(Limit, W), m, Fundings)
    BY <1>8, <2>1
  <2> QED
    BY <2>1, <2>2
<1>11. ASSUME Cardinality(M) <= Limit
       PROVE  JoinsAt(Newest(Limit, Within(after, t)), m, Fundings)
  <2>1. PICK W : W = Within(after, t)
    OBVIOUS
  <2>2. Newest(Limit, W) = W
    BY <1>7, <1>11, <2>1
  <2>3. JoinsAt(W, m, Fundings)
    BY <1>5, <1>6, <2>1
  <2> QED
    BY <2>1, <2>2, <2>3
<1>12. ASSUME Cardinality(M) <= Limit
       PROVE  JoinsAt(Newest(Limit, Within(0, t)), m, Fundings)
  <2>1. PICK W : W = Within(0, t)
    OBVIOUS
  <2>2. W = Fundings
    <3>1. \A z \in Fundings : 0 <= z * Hour /\ z * Hour <= t
      BY <1>2
    <3> QED
      BY <2>1, <3>1 DEF Within
  <2> SUFFICES ASSUME NEW p \in Newest(Limit, W), NEW z \in Fundings,
                      (m < z /\ z <= p) \/ (p <= z /\ z < m)
               PROVE  z \in Newest(Limit, W)
    BY <2>1 DEF JoinsAt
  <2>3. p \in Nat /\ z \in Nat /\ z \in W /\ W \subseteq Nat /\ IsFiniteSet(W)
    BY <1>2, <2>2, FundingFacts DEF Newest
  <2>4. CASE p <= z
    BY <1>2, <2>3, <2>4, NewestIsUpperPart
  <2>5. CASE m < z
    <3>1. z \in M /\ \A g \in W : g > z => g \in M
      BY <1>2, <2>2, <2>3, <2>5
    <3>2. {g \in W : g > z} \in SUBSET M
      BY <3>1
    <3>3. z \notin {g \in W : g > z}
      BY <2>3
    <3>4. Cardinality({g \in W : g > z}) < Limit
      BY <1>4, <1>12, <3>1, <3>2, <3>3, FewerThanLimit
    <3> QED
      BY <2>3, <3>4 DEF Newest
  <2> QED
    BY <2>4, <2>5
<1>13. ASSUME Cardinality(M) <= Limit, contract.every = 1
       PROVE  JoinsAt(Within(t - Limit * Hour + 1, t), m, Fundings)
  <2>1. PICK C : C = Calculated
    OBVIOUS
  <2>2. C \in Nat /\ C * Hour <= t /\ t < C * Hour + Hour /\ First \in Nat /\ m \in First..C
        /\ \A z \in Fundings : z <= C
    BY <1>0, <2>1, FundingFacts, Constants DEF Fundings
  <2>3. (m + 1)..C \subseteq M
    <3> SUFFICES ASSUME NEW z \in (m + 1)..C
                 PROVE  z \in M
      OBVIOUS
    <3>1. z \in First..C /\ z > m /\ z % 1 = 0
      BY <1>2, <2>2
    <3> QED
      BY <1>13, <2>1, <3>1 DEF Fundings
  <2>4. C - m <= Limit
    <3>1. /\ Cardinality((m + 1)..C) = IF m + 1 > C THEN 0 ELSE C - m
      <4>1. m + 1 \in Int /\ C \in Int /\ C - (m + 1) + 1 = C - m
        BY <1>2, <2>2
      <4> QED
        BY <4>1, FS_Interval
    <3>2. Cardinality((m + 1)..C) <= Cardinality(M) /\ Cardinality(M) \in Nat
      BY <1>4, <2>3, FS_Subset, FS_CardinalityType
    <3> QED
      BY <1>2, <1>13, <2>2, <3>1, <3>2
  <2>5. PICK W : W = Within(t - Limit * Hour + 1, t)
    OBVIOUS
  <2>6. W \subseteq Fundings
        /\ \A z \in Fundings : z \in W <=> t - Limit * Hour + 1 <= z * Hour /\ z * Hour <= t
    BY <2>5 DEF Within
  <2> SUFFICES ASSUME NEW p \in W, NEW z \in Fundings, (m < z /\ z <= p) \/ (p <= z /\ z < m)
               PROVE  z \in W
    BY <2>5 DEF JoinsAt
  <2>7. /\ p \in Nat /\ z \in Nat /\ p * Hour \in Int /\ z * Hour \in Int /\ z * Hour <= t
        /\ p \in Fundings /\ Limit * Hour \in Int /\ C * Hour \in Int
        /\ (C - Limit) * Hour = C * Hour - Limit * Hour
    BY <1>2, <2>2, <2>6
  <2>8. CASE p <= z
    <3>1. p * Hour <= z * Hour
      BY <1>2, <2>7, <2>8, MultiplesAreOrdered
    <3> QED
      BY <1>2, <2>6, <2>7, <3>1
  <2>9. CASE m < z
    <3>1. C - Limit < z
      BY <1>2, <2>2, <2>4, <2>7, <2>9
    <3>2. (C - Limit) * Hour + Hour <= z * Hour
      BY <1>2, <2>2, <2>7, <3>1, MultiplesAreOrdered
    <3> QED
      BY <1>2, <2>2, <2>6, <2>7, <3>2
  <2> QED
    BY <2>8, <2>9
<1>14. ASSUME Cardinality(M) <= Limit
       PROVE  JoinsAt(Pacifica(after, t), m, Fundings)
  <2> DEFINE PageOf(f) == Cardinality({g \in Fundings : g > f}) \div CursorPage
  <2>1. PICK W : W = Within(after, t)
    OBVIOUS
  <2>2. /\ W \in SUBSET M /\ \A z \in M, p \in W : z <= p => z \in W
    BY <1>5, <2>1
  <2>3. ASSUME NEW z \in W
        PROVE  Cardinality({g \in W : PageOf(g) < PageOf(z)}) < Limit
    <3>1. PageOf(z) \in Int
      <4>1. IsFiniteSet({g \in Fundings : g > z})
        BY FundingFacts, FS_Subset
      <4>2. Cardinality({g \in Fundings : g > z}) \in Int
        BY <4>1, FS_CardinalityType
      <4>3. CursorPage \in Nat \ {0}
        BY Constants
      <4> QED
        BY <4>2, <4>3, DivisionBounds
    <3>2. {g \in W : PageOf(g) < PageOf(z)} \in SUBSET M
          /\ z \notin {g \in W : PageOf(g) < PageOf(z)} /\ z \in M
      <4> HIDE DEF PageOf
      <4> QED
        BY <2>2, <3>1
    <3> HIDE DEF PageOf
    <3> QED
      BY <1>4, <1>14, <3>2, FewerThanLimit
  <2>4. Pacifica(after, t) = W
    BY <2>1, <2>3 DEF Pacifica, CursorOf
  <2>5. JoinsAt(W, m, Fundings)
    BY <1>6, <2>2
  <2> QED
    BY <2>4, <2>5
<1>15. contract.driver \in {"lighter", "dydx", "derive", "pacifica"} => Cardinality(M) <= Limit
  BY <1>3 DEF Contracts
<1>16. contract.driver = "derive" => contract.every = 1
  BY ContractFacts DEF Hourly
<1> QED
  BY <1>1, <1>9, <1>10, <1>11, <1>12, <1>13, <1>14, <1>15, <1>16, ContractFacts
  DEF FetchHistory, DriverIds, Aster, BinanceUsdm, BinanceCoinm, Bybit, Kucoin, Extended,
      Hyperliquid, Lighter, Okx, Dydx, Derive

LEMMA ParadexAfterJoins ==
  ASSUME contract \in Contracts, now \in Start..Horizon, contract.driver = "paradex",
         NEW m \in Fundings, NEW after, after = m * Hour + 1
  PROVE  JoinsAt(ParadexAfter(after), m, Fundings)
<1>1. /\ Hour \in Nat \ {0} /\ Hour >= 2 /\ Fundings \subseteq Nat /\ m \in Nat
      /\ m * Hour \in Int /\ after \in Int
  BY FundingFacts, Constants
<1>2. after \div Hour = m
  BY <1>1, DivisionIs
<1>3. ASSUME NEW z \in Fundings
      PROVE  /\ z \in Nat /\ z <= Calculated /\ Calculated \in Nat
             /\ z \in HourlyAverages((z - 1) * Hour, z * Hour)
  <2>1. z \in First..Calculated /\ z \in Nat /\ Calculated \in Nat
    BY <1>1, FundingFacts DEF Fundings
  <2>2. z - 1 < z /\ z - 1 \in Int /\ (z - 1) * Hour = z * Hour - Hour /\ z * Hour \in Int
    BY <1>1, <2>1
  <2>3. (z - 1) * Hour < z * Hour /\ z * Hour <= z * Hour
    BY <1>1, <2>2
  <2> QED
    BY <2>1, <2>3 DEF HourlyAverages
<1>4. PICK P : P = ParadexAfter(after)
  OBVIOUS
<1>5. \A z \in Fundings : m < z => z \in P
  BY <1>1, <1>2, <1>3, <1>4 DEF ParadexAfter, HoursToFetch
<1>6. \A p \in P : m < p /\ p \in Fundings
  <2>1. P \subseteq Fundings
    BY <1>4 DEF ParadexAfter, HourlyAverages
  <2>2. \A p \in P : m + 1 <= p
    BY <1>1, <1>2, <1>4, FundingFacts DEF ParadexAfter, HoursToFetch
  <2> QED
    BY <1>1, <2>1, <2>2
<1> SUFFICES ASSUME NEW p \in P, NEW z \in Fundings, (m < z /\ z <= p) \/ (p <= z /\ z < m)
             PROVE  z \in P
  BY <1>4 DEF JoinsAt
<1>7. p \in Nat /\ z \in Nat /\ m < p
  BY <1>1, <1>6
<1>8. m < z
  BY <1>1, <1>7
<1> QED
  BY <1>5, <1>8

\* The number of whole intervals since a second after a stored funding counts
\* every later one, unless it was computed at a full hour or the answer is late.
LEMMA BackpackAfterJoins ==
  ASSUME contract \in Contracts, now \in Start..Horizon, contract.driver = "backpack",
         NEW at \in Int, at % Hour # 0, at \div Period = now \div Period,
         NEW m \in Fundings, NEW after, after = m * Hour + 1
  PROVE  JoinsAt(BackpackAfter(after, at), m, Fundings)
<1> DEFINE n(f) == (f * Hour) \div Period
<1>1. PICK P : P = Period
  OBVIOUS
<1>2. PICK L : L = now \div Period
  OBVIOUS
<1>3. PICK limit : limit = (at - after) \div Period
  OBVIOUS
<1>4. PICK W : W = BackpackAfter(after, at)
  OBVIOUS
<1>5. Hour \in Nat \ {0} /\ Hour >= 2 /\ Fundings \subseteq Nat /\ now \in Nat
      /\ \A f \in Fundings : f * Hour \in Nat /\ f * Hour <= now
  BY FundingFacts, Constants
<1>6. PICK i : i = contract.interval
  OBVIOUS
<1>7. i \in Nat \ {0} /\ P = i * Hour /\ P \in Nat \ {0}
  <2>1. i \in Nat \ {0}
    BY <1>6, Constants, ContractFacts
  <2>2. 1 * Hour <= i * Hour /\ i * Hour \in Int
    BY <1>5, <2>1, MultiplesAreOrdered
  <2> QED
    BY <1>1, <1>5, <1>6, <2>1, <2>2 DEF Period
<1>8. L \in Int /\ L * P <= at /\ at < L * P + P /\ L * P \in Int
  <2>1. L = at \div P
    BY <1>1, <1>2
  <2>2. L \in Int /\ L * P <= at /\ at < L * P + P
    <3>1. at \in Int /\ P \in Nat \ {0}
      BY <1>7
    <3> QED
      BY ONLY <2>1, <3>1, DivisionBounds
  <2> QED
    BY <1>7, <2>2
<1>9. at # L * P
  <2> SUFFICES ASSUME at = L * P
               PROVE  FALSE
    OBVIOUS
  <2>1. PICK q : q = L * i
    OBVIOUS
  <2>2. q \in Int /\ at = q * Hour /\ q * Hour \in Int
    BY <1>5, <1>7, <1>8, <2>1
  <2>3. at \div Hour = q
    BY <1>5, <2>2, DivisionIs
  <2>4. at % Hour = at - (at \div Hour) * Hour
    <3>1. at \in Int /\ Hour \in Nat \ {0}
      BY <1>5
    <3> QED
      BY ONLY <3>1, DivisionBounds
  <2>5. at % Hour = at - q * Hour
    BY <2>3, <2>4
  <2> QED
    BY <2>2, <2>5
<1>10. \A f \in Fundings : n(f) \in Int /\ f * Hour = n(f) * P /\ n(f) <= L
  <2> SUFFICES ASSUME NEW f \in Fundings
               PROVE  n(f) \in Int /\ f * Hour = n(f) * P /\ n(f) <= L
    OBVIOUS
  <2>1. n(f) \in Int /\ f * Hour = n(f) * P
    BY <1>1, BackpackNumbers
  <2>2. f * Hour \in Int /\ f * Hour <= now
    BY <1>5
  <2>3. PICK x : x = f * Hour
    OBVIOUS
  <2>4. x \div P <= now \div P
    BY <1>5, <1>7, <2>2, <2>3, DivisionIsMonotone
  <2> QED
    BY <1>1, <1>2, <2>1, <2>3, <2>4
<1>11. \A f \in Fundings : f \in W <=> L - limit < n(f) /\ n(f) <= L /\ f * Hour > after
  <2>1. limit \in Int
    <3>1. PICK x : x = at - after
      OBVIOUS
    <3>2. x \in Int
      BY <1>5, <3>1
    <3>3. x \div P \in Int
      BY <1>7, <3>2, DivisionBounds
    <3> QED
      BY <1>1, <1>3, <3>1, <3>3
  <2>2. \A f \in Fundings : f \in Records(1, limit) <=>
             /\ (now \div Period) - (1 + limit - 2) <= (f * Hour) \div Period
             /\ (f * Hour) \div Period <= (now \div Period) - (1 - 1)
    BY RecordsAre
  <2>3. W = {f \in Records(1, limit) : f * Hour > after}
    BY <1>3, <1>4 DEF BackpackAfter
  <2>4. \A f \in Fundings : L - (1 + limit - 2) <= n(f) <=> L - limit < n(f)
    BY <1>8, <1>10, <2>1
  <2> QED
    BY <1>2, <1>8, <1>10, <2>2, <2>3, <2>4
<1>12. W \subseteq Fundings
  BY <1>4, AnswersAreFundings DEF HistoryAfter
<1> HIDE DEF n
<1>13. n(m) \in Int /\ m * Hour = n(m) * P /\ n(m) * P \in Int /\ m \in Nat /\ m * Hour \in Int
  BY <1>5, <1>7, <1>10
<1>14. limit \in Int /\ L - n(m) <= limit
  <2>1. PICK x : x = at - after
    OBVIOUS
  <2>2. x \in Int /\ x = at - 1 - n(m) * P
    BY <1>5, <1>13, <2>1
  <2>3. (L - n(m)) * P = L * P - n(m) * P /\ L - n(m) \in Int
    BY <1>7, <1>8, <1>13
  <2>4. (L - n(m)) * P <= x
    BY <1>5, <1>8, <1>9, <1>13, <2>2, <2>3
  <2>5. limit \in Int /\ x < limit * P + P /\ limit = x \div P
    BY <1>1, <1>3, <1>7, <2>1, <2>2, DivisionBounds
  <2>6. (limit + 1) * P = limit * P + P /\ limit * P \in Int /\ (L - n(m)) * P \in Int
    BY <1>7, <2>3, <2>5
  <2>7. ~(limit + 1 <= L - n(m))
    <3>1. limit + 1 <= L - n(m) => (limit + 1) * P <= (L - n(m)) * P
      BY <1>7, <2>3, <2>5, MultiplesAreOrdered
    <3>2. PICK a, b, k : a = (limit + 1) * P /\ b = (L - n(m)) * P /\ k = limit * P
      OBVIOUS
    <3>3. a \in Int /\ b \in Int /\ k \in Int /\ a = k + P /\ b <= x /\ x < k + P
      BY <1>7, <2>3, <2>4, <2>5, <2>6, <3>2
    <3>4. ~(a <= b)
      BY ONLY <1>7, <2>2, <3>3
    <3> QED
      BY <3>1, <3>2, <3>4
  <2>8. limit \in Int /\ L - n(m) \in Int
    BY <2>3, <2>5
  <2> QED
    BY ONLY <2>7, <2>8
<1> SUFFICES ASSUME NEW p \in W, NEW z \in Fundings, (m < z /\ z <= p) \/ (p <= z /\ z < m)
             PROVE  z \in W
  BY <1>4 DEF JoinsAt
<1>15. /\ p \in Fundings /\ p \in Nat /\ p * Hour > m * Hour + 1 /\ z \in Nat
       /\ p * Hour \in Int /\ z * Hour \in Int /\ n(z) \in Int /\ z * Hour = n(z) * P /\ n(z) <= L
  BY <1>5, <1>10, <1>11, <1>12
<1>16. m < p
  <2>1. ~(p <= m)
    BY <1>5, <1>13, <1>15, MultiplesAreOrdered
  <2> QED
    BY <1>13, <1>15, <2>1
<1>17. m < z /\ m * Hour + Hour <= z * Hour
  <2>1. m < z
    BY <1>13, <1>15, <1>16
  <2> QED
    BY <1>5, <1>13, <1>15, <2>1, MultiplesAreOrdered
<1>18. n(m) < n(z)
  <2>1. ~(n(z) <= n(m))
    BY <1>5, <1>7, <1>13, <1>15, <1>17, MultiplesAreOrdered
  <2> QED
    BY <1>13, <1>15, <2>1
<1> QED
  BY <1>5, <1>8, <1>11, <1>13, <1>14, <1>15, <1>17, <1>18

LEMMA HistoryAfterJoins ==
  ASSUME contract \in Contracts, now \in Start..Horizon,
         NEW at \in Int, IsBackpack => at % Hour # 0 /\ at \div Period = now \div Period,
         NEW m \in Fundings, NEW after, after = m * Hour + 1,
         CatchesUp \/ Cardinality({f \in Fundings : f * Hour > after}) <= Limit
  PROVE  JoinsAt(HistoryAfter(after, at), m, Fundings)
<1>1. PICK M : M = {f \in Fundings : f > m}
  OBVIOUS
<1>2. \A f \in Fundings : f * Hour > after <=> f > m
  <2> SUFFICES ASSUME NEW f \in Fundings
               PROVE  f * Hour > after <=> f > m
    OBVIOUS
  <2>1. /\ f \in Nat /\ m \in Nat /\ Hour \in Nat \ {0} /\ Hour >= 2
        /\ f * Hour \in Int /\ m * Hour \in Int
    BY FundingFacts, Constants
  <2>2. (m < f => m * Hour + Hour <= f * Hour) /\ (f <= m => f * Hour <= m * Hour)
    BY <2>1, MultiplesAreOrdered
  <2> QED
    BY <2>1, <2>2
<1>3. {f \in Fundings : f * Hour > after} = M
  BY <1>1, <1>2
<1>4. CatchesUp \/ Cardinality(M) <= Limit
  BY <1>3
<1> QED
  BY <1>1, <1>4, WindowAfterJoins, ParadexAfterJoins, BackpackAfterJoins DEF HistoryAfter, IsBackpack

-----------------------------------------------------------------------------
(* The first update, of a contract with nothing stored: it asks for what came
   after the second before the current hour. *)

LEMMA FirstUpdateJoins ==
  ASSUME contract \in Contracts, now \in Start..Horizon, ~IsBackpack,
         NEW after, after = Calculated * Hour - 1
  PROVE  /\ JoinsAt(HistoryAfter(after, now), Calculated, Fundings)
         /\ \A f \in HistoryAfter(after, now) :
              contract.driver \notin {"dydx", "derive"} => f = Calculated
         /\ HistoryAfter(after, now) # {} => Calculated \in HistoryAfter(after, now)
<1>1. PICK C, t : C = Calculated /\ t = now
  OBVIOUS
<1>2. /\ Hour \in Nat \ {0} /\ Hour >= 2 /\ Fundings \subseteq Nat /\ C \in Nat
      /\ C * Hour \in Nat /\ after \in Int /\ after = C * Hour - 1 /\ C * Hour <= t /\ t \in Nat
      /\ t < C * Hour + Hour /\ First <= C /\ First \in Nat
      /\ \A f \in Fundings : f <= C /\ f * Hour \in Nat /\ f * Hour <= t
  BY <1>1, FundingFacts, Constants DEF Fundings
<1>3. PICK P : P = HistoryAfter(after, now)
  OBVIOUS
<1>4. P \subseteq Fundings
  BY <1>3, AnswersAreFundings
<1>5. \A f \in Fundings : after <= f * Hour => f = C
  <2> SUFFICES ASSUME NEW f \in Fundings, after <= f * Hour
               PROVE  f = C
    OBVIOUS
  <2>1. f \in Nat /\ f <= C /\ f * Hour \in Int
    BY <1>2
  <2>2. f < C => f * Hour + Hour <= C * Hour
    BY <1>2, <2>1, MultiplesAreOrdered
  <2> QED
    BY <1>2, <2>1, <2>2
<1>6. ASSUME P \subseteq {C}
      PROVE  JoinsAt(P, C, Fundings) /\ (P # {} => C \in P)
  <2>1. \A p \in P, z \in Fundings : p = C /\ z \in Nat
    BY <1>2, <1>6
  <2>2. JoinsAt(P, C, Fundings)
    BY <1>2, <2>1 DEF JoinsAt
  <2> QED
    BY <1>6, <2>2
<1>7. CASE contract.driver \notin {"dydx", "derive"}
  <2>1. \A a, b : a \in {after, after + 1} => \A f \in Within(a, b) : after <= f * Hour /\ f \in Fundings
    BY <1>2 DEF Within
  <2>2. ASSUME contract.driver \notin {"backpack", "paradex"}
        PROVE  \A f \in FetchHistory(after, t) : after <= f * Hour
    BY <1>7, <2>1, <2>2, ContractFacts
    DEF FetchHistory, DriverIds, Aster, BinanceUsdm, BinanceCoinm, Bybit, Kucoin, Extended,
        Hyperliquid, Lighter, Okx, Pacifica, Kept, Newest, Oldest
  <2>4. ASSUME contract.driver = "paradex"
        PROVE  \A f \in ParadexAfter(after) : f \in Fundings => after <= f * Hour
    <3>1. (C - 1) * Hour = C * Hour - Hour /\ C - 1 \in Int
      BY <1>2
    <3>2. after \div Hour = C - 1
      BY <1>2, <3>1, DivisionIs
    <3>3. ASSUME NEW f \in ParadexAfter(after), f \in Fundings
          PROVE  after <= f * Hour
      <4>1. f \in C..Calculated
        BY <1>2, <3>2 DEF ParadexAfter, HoursToFetch
      <4>2. f \in Nat /\ f * Hour \in Int /\ C <= f
        BY <1>1, <1>2, <3>3, <4>1
      <4>3. C * Hour <= f * Hour
        BY <1>2, <4>2, MultiplesAreOrdered
      <4> QED
        BY <1>2, <4>2, <4>3
    <3> QED
      BY <3>3
  <2>5. \A f \in P : after <= f * Hour
    BY <1>1, <1>3, <1>4, <2>2, <2>4 DEF HistoryAfter, WindowAfter, IsBackpack
  <2>6. P \subseteq {C}
    BY <1>4, <1>5, <2>5
  <2> QED
    BY <1>1, <1>3, <1>6, <2>6
<1>8. CASE contract.driver \in {"dydx", "derive"}
  <2>1. C \in Fundings
    <3>1. contract.every = 1
      BY <1>8, ContractFacts DEF Hourly
    <3>2. C % 1 = 0 /\ C \in First..C
      BY <1>2
    <3> QED
      BY <1>1, <3>1, <3>2 DEF Fundings
  <2>2. CASE contract.driver = "dydx"
    <3>1. PICK W : W = Within(0, t)
      OBVIOUS
    <3>2. W \subseteq Fundings /\ \A z \in Fundings : z \in W
      BY <1>2, <3>1 DEF Within
    <3>3. P = Newest(Limit, W)
      BY <1>1, <1>3, <2>2, <3>1 DEF HistoryAfter, WindowAfter, FetchHistory, Dydx
    <3>4. \A p \in W : p <= C
      BY <1>2, <3>2
    <3>5. JoinsAt(P, C, Fundings)
      BY <1>2, <3>2, <3>3, <3>4, NewestJoins
    <3>6. C \in P
      <4>1. ~\E g \in W : g > C
        BY <1>2, <3>2, <3>4
      <4>2. {g \in W : g > C} = {}
        BY <4>1
      <4>3. Cardinality({}) = 0 /\ 0 < Limit
        BY Constants, FS_EmptySet
      <4> QED
        BY <2>1, <3>2, <3>3, <4>2, <4>3 DEF Newest
    <3> QED
      BY <1>1, <1>3, <2>2, <3>5, <3>6
  <2>3. CASE contract.driver = "derive"
    <3>1. \A z \in Fundings : z \in P <=> t - Limit * Hour + 1 <= z * Hour /\ z * Hour <= t
      BY <1>1, <1>3, <2>3 DEF HistoryAfter, WindowAfter, FetchHistory, Derive, Within
    <3>2. Limit * Hour \in Int /\ 1 * Hour <= Limit * Hour
      BY <1>2, Constants, MultiplesAreOrdered
    <3>3. C \in P
      BY <1>2, <2>1, <3>1, <3>2
    <3>4. JoinsAt(P, C, Fundings)
      <4> SUFFICES ASSUME NEW p \in P, NEW z \in Fundings, (C < z /\ z <= p) \/ (p <= z /\ z < C)
                   PROVE  z \in P
        BY DEF JoinsAt
      <4>1. p \in Nat /\ z \in Nat /\ p * Hour \in Int /\ z * Hour \in Int /\ z * Hour <= t /\ p <= z
        BY <1>2, <1>4
      <4>2. p * Hour <= z * Hour
        BY <1>2, <4>1, MultiplesAreOrdered
      <4> QED
        BY <1>2, <1>4, <3>1, <3>2, <4>1, <4>2
    <3> QED
      BY <1>1, <1>3, <2>3, <3>3, <3>4
  <2> QED
    BY <1>8, <2>2, <2>3
<1> QED
  BY <1>7, <1>8

-----------------------------------------------------------------------------
(* No funding between the stored bounds is left out. *)

\* The first update of a Backpack contract finds all that came since the hour it
\* was asked in, but for what its limit leaves out at the lower end.
LEMMA FirstBackpackUpdateJoins ==
  ASSUME contract \in Contracts, now \in Start..Horizon, contract.driver = "backpack",
         NEW at \in Nat, at <= now, Calculated <= at \div Hour + 1,
         NEW after, after = (at \div Hour) * Hour - 1
  PROVE  /\ JoinsAt(BackpackAfter(after, at), Calculated, Fundings)
         /\ \A f \in BackpackAfter(after, at) : at \div Hour <= f
<1> DEFINE n(f) == (f * Hour) \div Period
<1>1. PICK P, L, q, W, k : /\ P = Period /\ L = now \div Period /\ q = at \div Hour
                           /\ W = BackpackAfter(after, at) /\ k = (at - after) \div Period
  OBVIOUS
<1>2. /\ Hour \in Nat \ {0} /\ Fundings \subseteq Nat /\ q \in Int /\ q * Hour \in Int
      /\ after = q * Hour - 1 /\ P \in Nat \ {0} /\ L \in Int
      /\ \A f \in Fundings : f <= Calculated /\ f * Hour \in Nat /\ f * Hour <= now
  <2>1. Hour \in Nat \ {0} /\ q \in Int /\ q * Hour \in Int
    BY <1>1, Constants, DivisionBounds
  <2>2. P \in Nat \ {0} /\ L \in Int
    BY <1>1, OnePeriodEnds
  <2>3. \A f \in Fundings : f <= Calculated
    BY FundingFacts DEF Fundings
  <2> QED
    BY <1>1, <2>1, <2>2, <2>3, FundingFacts
<1>3. k \in Int
  BY <1>1, <1>2, DivisionBounds
<1>4. \A f \in Fundings : n(f) \in Int /\ f * Hour = n(f) * P /\ n(f) <= L
  <2> SUFFICES ASSUME NEW f \in Fundings
               PROVE  n(f) \in Int /\ f * Hour = n(f) * P /\ n(f) <= L
    OBVIOUS
  <2>1. n(f) \in Int /\ f * Hour = n(f) * P
    BY <1>1, BackpackNumbers
  <2>2. PICK x : x = f * Hour
    OBVIOUS
  <2>3. x \in Int /\ now \in Int /\ x <= now
    BY <1>2, <2>2, FundingFacts
  <2>4. x \div P <= now \div P
    BY <1>2, <2>3, DivisionIsMonotone
  <2> QED
    BY <1>1, <2>1, <2>2, <2>4
<1>5. \A f \in Fundings : f \in W <=> L - k + 1 <= n(f) /\ f * Hour > after
  <2>1. W = {f \in Records(1, k) : f * Hour > after}
    BY <1>1 DEF BackpackAfter
  <2>2. \A f \in Fundings : f \in Records(1, k) <=>
             /\ (now \div Period) - (1 + k - 2) <= (f * Hour) \div Period
             /\ (f * Hour) \div Period <= (now \div Period) - (1 - 1)
    BY RecordsAre
  <2> QED
    BY <1>1, <1>2, <1>3, <1>4, <2>1, <2>2
<1>6. W \subseteq Fundings
  BY <1>1, AnswersAreFundings DEF HistoryAfter
<1> HIDE DEF n
<1>7. ASSUME NEW f \in W
      PROVE  q <= f
  <2>1. f \in Nat /\ f * Hour \in Int /\ f * Hour >= q * Hour
    BY <1>2, <1>5, <1>6
  <2> QED
    BY <1>2, <2>1, MultiplesAreOrdered
<1>8. ASSUME NEW p \in W, NEW z \in Fundings, (Calculated < z /\ z <= p) \/ (p <= z /\ z < Calculated)
      PROVE  z \in W
  <2>1. /\ p \in Fundings /\ p \in Nat /\ z \in Nat /\ n(p) \in Int /\ n(z) \in Int /\ L - k + 1 <= n(p)
        /\ p * Hour > after /\ p * Hour \in Int /\ z * Hour \in Int /\ after \in Int
        /\ p * Hour = n(p) * P /\ z * Hour = n(z) * P
    BY <1>2, <1>4, <1>5, <1>6
  <2>2. p <= z
    BY <1>2, <1>8, <2>1, FundingFacts
  <2>3. p * Hour <= z * Hour
    BY <1>2, <2>1, <2>2, MultiplesAreOrdered
  <2>4. n(p) <= n(z)
    BY <1>2, <2>1, <2>3, MultiplesAreOrdered
  <2>5. L - k + 1 <= n(z) /\ z * Hour > after
    BY ONLY <1>2, <1>3, <2>1, <2>3, <2>4
  <2> QED
    BY <1>5, <2>5
<1> QED
  BY <1>1, <1>7, <1>8 DEF JoinsAt

\* An update of Backpack's is never asked in the first second of an hour: its
\* cron gives it the fifth, and only the pass at the start of the tracker can meet
\* the first.
LateUpdates == 0 \notin UpdateSeconds

\* A run sees one change of the hour at most, so what an update stores while
\* the first page of an empty history is outstanding is next to that page.
SkipsInv ==
  /\ DriversInv
  /\ PagesJoin => Contiguous(stored, Fundings)
  /\ paging /\ before = None /\ stored # {} => \E f \in stored : since <= f

LEMMA SkipsInvSuffices == SkipsInv => NoFundingSkipped
<1> SUFFICES ASSUME SkipsInv, PagesJoin, NEW f \in stored, NEW g \in stored,
                    NEW z \in f..g, z \in Fundings
             PROVE  z \in stored
  BY DEF NoFundingSkipped, PagesJoin
<1>1. f \in Nat /\ g \in Nat /\ f <= z /\ z <= g
  BY FundingFacts DEF SkipsInv, DriversInv, TypeOK
<1> QED
  BY <1>1 DEF SkipsInv, Contiguous

LEMMA SkipsInvInit == Init => SkipsInv
<1> SUFFICES ASSUME Init
             PROVE  SkipsInv
  OBVIOUS
<1>1. stored = {} /\ ~paging
  BY DEF Init
<1> QED
  BY <1>1, DriversInvInit DEF SkipsInv, Contiguous

LEMMA PageKeepsSkipsInv ==
  ASSUME SkipsInv, BackfillPage
  PROVE  SkipsInv'
<1>1. PICK P : /\ P \in Answers(BackfillAsked) \ {{}}
               /\ stored' = stored \cup P /\ before' = Least(P) * Hour - 1
  BY DEF BackfillPage
<1>2. UNCHANGED <<contract, now, paging, since, trouble>> /\ paging /\ Answered("backfill")
  BY DEF BackfillPage
<1>3. Fundings' = Fundings /\ Calculated' = Calculated
  BY <1>2, SameClock
<1>4. contract \in Contracts /\ now \in Start..Horizon /\ stored \in SUBSET Fundings
      /\ before \in {None} \cup {f * Hour - 1 : f \in stored} /\ since \in 0..Calculated
  BY DEF SkipsInv, DriversInv, TypeOK
<1>5. Fundings \in SUBSET Nat /\ Calculated \in Nat /\ now \in Int
      /\ \A f \in Fundings : f <= Calculated /\ f * Hour \in Nat
  BY <1>4, FundingFacts DEF Fundings
<1>6. At \in Int /\ At <= now /\ Calculated <= At \div Hour + 1 /\ (~IsBackpack => At = now)
  BY <1>2, AnsweredFacts DEF SkipsInv
<1>7. P \in SUBSET Fundings /\ P # {}
  BY <1>1, <1>4, AnswersAreFundings, AnswersAreParts DEF BackfillAsked
<1>8. before' # None
  <2>1. Least(P) \in Fundings /\ Least(P) >= First
    BY <1>4, <1>7, StoringFundings, FundingFacts DEF SkipsInv
  <2>2. Least(P) \in Nat /\ First \in Nat \ {0} /\ Hour \in Nat \ {0} /\ Hour >= 2
    BY <1>5, <2>1, Constants
  <2>3. 1 * Hour <= Least(P) * Hour /\ Least(P) * Hour \in Int
    BY <2>1, <2>2, MultiplesAreOrdered
  <2> QED
    BY <1>1, <2>2, <2>3 DEF None
<1>9. ASSUME PagesJoin
      PROVE  Contiguous(stored \cup P, Fundings)
  <2>1. Contiguous(stored, Fundings) /\ StepFitsPage
    BY <1>9 DEF SkipsInv, PagesJoin
  <2>2. CASE before # None
    <3>1. PICK f \in stored : before = f * Hour - 1
      BY <1>4, <2>2
    <3>2. f \in Fundings /\ f \in Nat /\ f * Hour - 1 \in Int
      BY <1>4, <1>5, <3>1
    <3>3. PICK end : end = f * Hour - 1
      OBVIOUS
    <3>4. P \in Answers(HistoryBefore(end, At))
      BY <1>1, <2>2, <3>1, <3>3 DEF BackfillAsked
    <3>5. JoinsAt(P, f, Fundings)
      BY <1>4, <1>6, <2>1, <3>2, <3>3, <3>4, HistoryBeforeJoins
    <3> QED
      BY <1>4, <1>5, <1>7, <2>1, <3>5, JoinedSets
  <2>3. CASE before = None
    <3>1. PICK end, C : end = At /\ C = Calculated
      OBVIOUS
    <3>2. P \in Answers(HistoryBefore(end, At))
      BY <1>1, <2>3, <3>1 DEF BackfillAsked
    <3>3. JoinsAt(P, C, Fundings)
      BY <1>4, <1>5, <1>6, <2>1, <3>1, <3>2, HistoryBeforeJoins
    <3>4. Contiguous(P, Fundings) /\ \A f \in Fundings : C - 1 <= f => JoinsAt(P, f, Fundings)
      BY <1>5, <1>7, <3>1, <3>3, JoinedAtTop
    <3>5. CASE stored = {}
      <4>1. stored \cup P = P
        BY <3>5
      <4> QED
        BY <3>4, <4>1
    <3>6. CASE stored # {}
      <4>1. PICK f \in stored : since <= f
        BY <1>2, <2>3, <3>6 DEF SkipsInv
      <4>2. Calculated <= since + 1
        BY <1>2 DEF SkipsInv, DriversInv
      <4>3. f \in Fundings /\ C - 1 <= f
        BY <1>4, <1>5, <3>1, <4>1, <4>2
      <4>4. JoinsAt(P, f, Fundings)
        BY <3>4, <4>3
      <4> QED
        BY <1>4, <1>5, <1>7, <2>1, <4>1, <4>4, JoinedSets
    <3> QED
      BY <3>5, <3>6
  <2> QED
    BY <2>2, <2>3
<1>10. PagesJoin' = PagesJoin
  BY <1>2 DEF PagesJoin, StepFitsPage, CatchesUp, FetchStep
<1>11. DriversInv'
  BY DriversInvStep DEF SkipsInv, Next
<1>12. PagesJoin' => Contiguous(stored', Fundings')
  BY <1>1, <1>3, <1>9, <1>10
<1> QED
  BY <1>8, <1>11, <1>12 DEF SkipsInv

\* What the first update of a contract stores has no gap, and some of it is as
\* late as the hour of its request.
LEMMA FirstUpdateFacts ==
  ASSUME DriversInv, Update, stored = {}
  PROVE  /\ Contiguous(stored', Fundings)
         /\ stored' # {} => \E f \in stored' : since <= f
<1>1. PICK P, W, after, C : /\ W = HistoryAfter(after, At) /\ after = After(At) /\ C = Calculated
                            /\ P \in Answers(W) /\ stored' = stored \cup P
  BY DEF Update
<1>2. contract \in Contracts /\ now \in Start..Horizon
  BY DEF DriversInv, TypeOK
<1>3. /\ At \in Nat /\ At <= now /\ Calculated <= At \div Hour + 1 /\ (~IsBackpack => At = now)
      /\ since <= At \div Hour
      /\ C \in Nat /\ Fundings \in SUBSET Nat /\ \A f \in Fundings : f <= C
  BY <1>1, <1>2, AnsweredFacts, FundingFacts DEF Update, Fundings
<1>4. W \in SUBSET Fundings
  BY <1>1, <1>2, AnswersAreFundings
<1>5. after = (At \div Hour) * Hour - 1
  BY <1>1 DEF After
<1>6. /\ JoinsAt(W, C, Fundings) /\ (\A f \in W : IsBackpack => At \div Hour <= f)
      /\ ~IsBackpack => (W # {} => C \in W) /\ At \div Hour = C
      /\ contract.driver = "pacifica" => \A f \in W : f = C
  <2>1. CASE IsBackpack
    <3>1. W = BackpackAfter(after, At) /\ contract.driver # "pacifica"
      BY <1>1, <2>1 DEF HistoryAfter, IsBackpack
    <3> QED
      BY <1>1, <1>2, <1>3, <1>5, <2>1, <3>1, FirstBackpackUpdateJoins DEF IsBackpack
  <2>2. CASE ~IsBackpack
    <3>1. At = now /\ At \div Hour = C
      BY <1>1, <1>3, <2>2 DEF Calculated
    <3>2. after = Calculated * Hour - 1 /\ W = HistoryAfter(after, now)
      BY <1>1, <1>5, <3>1
    <3> QED
      BY <1>1, <1>2, <2>2, <3>1, <3>2, FirstUpdateJoins
  <2> QED
    BY <2>1, <2>2
<1>7. P = W \/ P = {}
  <2>1. CASE contract.driver = "pacifica"
    <3>1. P \subseteq W
      BY <1>1, AnswersAreParts
    <3> QED
      BY <1>6, <2>1, <3>1
  <2>2. CASE contract.driver # "pacifica"
    BY <1>1, <2>2 DEF Answers, Misread
  <2> QED
    BY <2>1, <2>2
<1>8. W # {} => \E f \in W : since <= f
  <2>1. Fundings \subseteq Int /\ At \div Hour \in Int /\ since \in Int
    BY <1>2, <1>3, FundingFacts, Constants, DivisionBounds DEF DriversInv, TypeOK
  <2> SUFFICES ASSUME NEW g \in W
               PROVE  \E f \in W : since <= f
    OBVIOUS
  <2>2. \E f \in W : At \div Hour <= f
    <3>1. CASE IsBackpack
      BY <1>6, <3>1
    <3>2. CASE ~IsBackpack
      BY <1>3, <1>6, <3>2
    <3> QED
      BY <3>1, <3>2
  <2>3. PICK f \in W : At \div Hour <= f
    BY <2>2
  <2>4. f \in Int
    BY <1>4, <2>1
  <2>5. since <= f
    BY <1>3, <2>1, <2>3, <2>4
  <2> QED
    BY <2>5
<1>9. Contiguous(W, Fundings) /\ Contiguous({}, Fundings)
  BY <1>3, <1>4, <1>6, JoinedAtTop DEF Contiguous
<1>10. stored' = P
  BY <1>1
<1> QED
  BY <1>7, <1>8, <1>9, <1>10

LEMMA UpdateKeepsSkipsInv ==
  ASSUME SkipsInv, Update, LateUpdates
  PROVE  SkipsInv'
<1>1. PICK P, W, after : /\ after = After(At) /\ W = HistoryAfter(after, At) /\ P \in Answers(W)
                         /\ stored' = stored \cup P
                         /\ trouble' = trouble \cup When(P \notin {{}, W}, "torn")
                                              \cup When(Cardinality(Missing) > Limit, "behind")
                                              \cup When(now \div Period # At \div Period, "late")
  BY DEF Update
<1>2. UNCHANGED <<contract, now, paging, before, since>> /\ Answered("update")
  BY DEF Update
<1>3. Fundings' = Fundings
  BY <1>2, SameClock
<1>4. contract \in Contracts /\ now \in Start..Horizon /\ stored \in SUBSET Fundings
  BY DEF SkipsInv, DriversInv, TypeOK
<1>5. Fundings \in SUBSET Nat /\ IsFiniteSet(Fundings)
  BY <1>4, FundingFacts
<1>6. P \in SUBSET Fundings
  BY <1>1, <1>4, AnswersAreFundings, AnswersAreParts
<1>7. DriversInv'
  BY DriversInvStep DEF SkipsInv, Next
<1>8. CASE stored = {}
  BY <1>2, <1>3, <1>7, <1>8, FirstUpdateFacts DEF SkipsInv
<1>9. CASE stored # {}
  <2>1. PICK m : m = Greatest(stored)
    OBVIOUS
  <2>2. m \in stored
    <3>1. stored \subseteq Int /\ IsFiniteSet(stored)
      <4>1. stored \subseteq Nat
        BY <1>4, <1>5
      <4>2. IsFiniteSet(stored)
        BY <1>4, <1>5, FS_Subset
      <4> QED
        BY <4>1, <4>2
    <3>2. \E f \in stored : \A g \in stored : g <= f
      BY <1>9, <3>1, GreatestExists
    <3>3. \E f \in stored : \A g \in stored : f >= g
      BY <3>1, <3>2
    <3> QED
      BY <2>1, <3>3 DEF Greatest
  <2>3. after = m * Hour + 1
    BY <1>1, <1>9, <2>1 DEF After
  <2>4. ASSUME PagesJoin'
        PROVE  Contiguous(stored', Fundings')
    <3>1. /\ StepFitsPage /\ (CatchesUp \/ "behind" \notin trouble')
          /\ "late" \notin trouble' /\ "torn" \notin trouble'
      BY <1>2, <2>4 DEF PagesJoin, StepFitsPage, CatchesUp, FetchStep
    <3>2. /\ PagesJoin /\ (CatchesUp \/ ~(Cardinality(Missing) > Limit))
          /\ now \div Period = At \div Period /\ P \in {{}, W}
      BY <1>1, <3>1 DEF PagesJoin, When
    <3>3. Contiguous(stored, Fundings)
      BY <3>2 DEF SkipsInv
    <3>4. CASE P = {}
      BY <1>1, <1>3, <3>3, <3>4
    <3>5. CASE P = W
      <4>1. Missing = {f \in Fundings : f * Hour > after}
        BY <1>1 DEF Missing
      <4>2. IsFiniteSet(Missing)
        BY <1>5, <4>1, FS_Subset
      <4>3. Cardinality(Missing) \in Nat /\ Limit \in Nat
        BY <4>2, FS_CardinalityType, Constants
      <4>4. CatchesUp \/ Cardinality({f \in Fundings : f * Hour > after}) <= Limit
        BY <3>2, <4>1, <4>3
      <4>5. At \in Int /\ (IsBackpack => At % Hour # 0 /\ At \div Period = now \div Period)
        BY <1>2, <3>2, AnsweredFacts DEF SkipsInv, LateUpdates
      <4>6. JoinsAt(W, m, Fundings)
        BY <1>1, <1>4, <2>2, <2>3, <4>4, <4>5, HistoryAfterJoins
      <4> QED
        BY <1>1, <1>3, <1>4, <1>5, <1>6, <2>2, <3>3, <3>5, <4>6, JoinedSets
    <3> QED
      BY <3>2, <3>4, <3>5
  <2>5. paging' /\ before' = None => \E f \in stored' : since <= f
    BY <1>1, <1>2, <1>9 DEF SkipsInv
  <2> QED
    BY <1>2, <1>7, <2>4, <2>5 DEF SkipsInv
<1> QED
  BY <1>8, <1>9

LEMMA TickKeepsSkipsInv ==
  ASSUME SkipsInv, Tick
  PROVE  SkipsInv'
<1>1. UNCHANGED <<contract, stored, paging, before, since, trouble>> /\ now' = now + 1
  BY DEF Tick
<1>2. DriversInv'
  BY DriversInvStep DEF SkipsInv, Next
<1>3. PagesJoin' = PagesJoin
  BY <1>1 DEF PagesJoin, StepFitsPage, CatchesUp, FetchStep
<1>4. contract \in Contracts /\ now \in Start..Horizon /\ stored \subseteq Fundings
  BY DEF SkipsInv, DriversInv, TypeOK
<1>5. ASSUME NEW f \in Fundings', f <= Calculated
      PROVE  f \in Fundings
  BY <1>1, <1>4, <1>5, FundingFacts, Constants DEF Fundings
<1>6. ASSUME NEW f \in stored, NEW g \in stored, NEW z \in Fundings', f <= z, z <= g
      PROVE  z \in Fundings
  <2>1. g \in Nat /\ g <= Calculated /\ Calculated \in Nat
    BY <1>4, FundingFacts DEF Fundings
  <2>2. z \in Int
    BY DEF Fundings
  <2>3. z <= Calculated
    BY <1>6, <2>1, <2>2
  <2> QED
    BY <1>5, <2>3
<1>7. PagesJoin' => Contiguous(stored', Fundings')
  BY <1>1, <1>3, <1>6 DEF SkipsInv, Contiguous
<1> QED
  BY <1>1, <1>2, <1>7 DEF SkipsInv

LEMMA SkipsInvStep == ASSUME LateUpdates PROVE SkipsInv /\ [Next]_vars => SkipsInv'
<1> SUFFICES ASSUME SkipsInv, [Next]_vars
             PROVE  SkipsInv'
  OBVIOUS
<1>1. DriversInv'
  BY DriversInvStep DEF SkipsInv
<1>2. ASSUME UNCHANGED <<contract, now, stored>>, trouble \subseteq trouble'
      PROVE  /\ Fundings' = Fundings /\ Calculated' = Calculated
             /\ PagesJoin' => Contiguous(stored', Fundings')
  BY <1>2, SameClock DEF SkipsInv, PagesJoin, StepFitsPage, CatchesUp, FetchStep
<1>3. CASE BackfillStart
  <2>1. paging' /\ since' = Calculated
        /\ before' = IF stored = {} THEN None ELSE Least(stored) * Hour - 1
    BY <1>3 DEF BackfillStart
  <2>2. UNCHANGED <<contract, now, stored, trouble>>
    BY <1>3 DEF BackfillStart
  <2>3. before' = None => stored = {}
    <3> SUFFICES ASSUME stored # {}
                 PROVE  Least(stored) * Hour - 1 # None
      BY <2>1
    <3>1. stored \in SUBSET Fundings /\ now \in Start..Horizon /\ DriversInv
      BY DEF SkipsInv, DriversInv, TypeOK
    <3>2. Least(stored) \in Fundings
      BY <3>1, StoringFundings
    <3>3. PICK f : f = Least(stored)
      OBVIOUS
    <3>4. f * Hour \in Nat /\ f >= 1 /\ f \in Nat /\ Hour \in Nat \ {0}
      BY <3>1, <3>2, <3>3, FundingFacts, Constants
    <3>5. 1 * Hour <= f * Hour
      BY <3>4, MultiplesAreOrdered
    <3> QED
      BY <3>3, <3>4, <3>5 DEF None
  <2>4. Calculated \in Nat
    BY FundingFacts DEF SkipsInv, DriversInv, TypeOK
  <2> QED
    BY <1>1, <1>2, <2>1, <2>2, <2>3, <2>4 DEF SkipsInv
<1>4. CASE BackfillPage
  BY <1>4, PageKeepsSkipsInv
<1>5. CASE BackfillEnd \/ BackfillAbort
  <2>1. ~paging' /\ UNCHANGED <<contract, now, stored>> /\ trouble \subseteq trouble'
    BY <1>5 DEF BackfillEnd, BackfillAbort
  <2> QED
    BY <1>1, <1>2, <2>1 DEF SkipsInv
<1>6. CASE Update
  BY <1>6, UpdateKeepsSkipsInv
<1>7. CASE Tick
  BY <1>7, TickKeepsSkipsInv
<1>8. CASE BackpackAsk \/ UpdateAbort \/ UNCHANGED vars
  <2>1. UNCHANGED <<contract, now, stored, trouble, paging, before, since>>
    BY <1>8 DEF BackpackAsk, UpdateAbort, vars
  <2> QED
    BY <1>1, <1>2, <2>1 DEF SkipsInv
<1> QED
  BY <1>3, <1>4, <1>5, <1>6, <1>7, <1>8 DEF Next

\* Whatever a driver makes of the instant it is given, wherever in the hour the
\* pages of the two jobs fall, however late Backpack answers a backfill and
\* whatever error is taken for the end of a page, no funding between the stored
\* bounds is left out, if a step of the backfill asks for no more than a page
\* holds, a driver that is given the newest only is updated before more than a
\* page is missing, Backpack answers an update in the interval it was asked in and
\* never in the first second of an hour, and no error tears an update of Pacifica.
THEOREM NothingIsSkipped == ASSUME LateUpdates PROVE Spec => []NoFundingSkipped
BY SkipsInvInit, SkipsInvStep, SkipsInvSuffices, PTL DEF Spec

-----------------------------------------------------------------------------
(* The drivers implement the ledger. *)

LedgerIn == SkipsInv /\ SyncedFromTheFirst

\* What is stored next to a synced history is later than all of it: the history
\* begins with the first funding and has no gap.
LEMMA RecordedPage ==
  ASSUME LedgerIn, LedgerIn', PagesJoin, PagesJoin', "misread" \notin trouble,
         UNCHANGED <<contract, now, synced>>,
         NEW S \in SUBSET Fundings, stored' = stored \cup S
  PROVE  [Ledger!LedgerNext]_(Ledger!ledgerVars)
<1>1. Fundings' = Fundings
  BY SameClock
<1>2. PICK page : page = S \ stored
  OBVIOUS
<1>3. page \in SUBSET (Fundings \ stored) /\ stored' = stored \cup page
  BY <1>2
<1>4. Ledger!Consecutive(stored)'
  BY <1>1 DEF LedgerIn, SkipsInv, Contiguous, Ledger!Consecutive
<1>5. ASSUME synced, NEW n \in page, NEW o \in stored
      PROVE  o < n
  <2>1. Contiguous(stored, Fundings) /\ First \in stored /\ stored \subseteq Fundings
    BY <1>5 DEF LedgerIn, SkipsInv, SyncedFromTheFirst, DriversInv, TypeOK
  <2>2. n \in Nat /\ o \in Nat /\ First <= n
    BY <1>3, <2>1, FundingFacts DEF LedgerIn, SkipsInv, DriversInv, TypeOK
  <2>3. ~(n <= o)
    BY <1>3, <2>1, <2>2 DEF Contiguous
  <2> QED
    BY <2>2, <2>3
<1>6. Ledger!Record(page)
  BY <1>1, <1>3, <1>4, <1>5 DEF Ledger!Record, Ledger!Consecutive
<1> QED
  BY <1>3, <1>6 DEF Ledger!LedgerNext

\* The end of a backfill that found a funding closes the ledger.
LEMMA EndIsClose ==
  ASSUME LedgerIn, LedgerIn', BackfillEnd, "misread" \notin trouble'
  PROVE  [Ledger!LedgerNext]_(Ledger!ledgerVars)
<1>1. Fundings' = Fundings /\ stored' = stored /\ synced' \in BOOLEAN /\ ~synced /\ synced \in BOOLEAN
  BY SameClock DEF BackfillEnd, LedgerIn, SkipsInv, DriversInv, TypeOK
<1>2. CASE synced'
  <2>1. First \in stored
    BY <1>1, <1>2 DEF LedgerIn, SyncedFromTheFirst
  <2>2. \A z \in Fundings : First <= z
    BY FundingFacts, Constants DEF LedgerIn, SkipsInv, DriversInv, TypeOK
  <2>3. Ledger!Close
    BY <1>1, <1>2, <2>1, <2>2 DEF Ledger!Close
  <2> QED
    BY <2>3 DEF Ledger!LedgerNext
<1>3. CASE ~synced'
  BY <1>1, <1>3 DEF Ledger!ledgerVars
<1> QED
  BY <1>2, <1>3

\* What the passing time adds to the fundings is later than all of them.
LEMMA TickIsSettle ==
  ASSUME LedgerIn, LedgerIn', Tick
  PROVE  Ledger!Settle
<1>1. /\ UNCHANGED <<contract, stored, synced>> /\ now' = now + 1
      /\ now \in Start..Horizon /\ now' \in Start..Horizon
  BY DEF Tick, LedgerIn, SkipsInv, DriversInv, TypeOK
<1>2. now \in Int /\ now' \in Int /\ now <= now' /\ Hour \in Nat \ {0} /\ First \in Nat
  BY <1>1, Constants
<1>3. Calculated \in Int /\ Calculated' \in Int /\ Calculated <= Calculated'
  BY <1>2, DivisionIsMonotone, DivisionBounds DEF Calculated
<1>4. Fundings \subseteq Fundings' /\ Fundings' \subseteq Int
  BY <1>1, <1>2, <1>3 DEF Fundings
<1>5. ASSUME NEW n \in Fundings' \ Fundings, NEW o \in Fundings
      PROVE  o < n
  <2>1. n \in Int /\ First <= n /\ n % contract.every = 0 /\ o \in Int /\ o <= Calculated
    BY <1>1, <1>2, <1>3 DEF Fundings
  <2>2. ~(n <= Calculated)
    BY <1>2, <1>3, <1>5, <2>1 DEF Fundings
  <2> QED
    BY <1>3, <2>1, <2>2
<1> QED
  BY <1>1, <1>4, <1>5 DEF Ledger!Settle

LEMMA DriversLedgerStep ==
  ASSUME LedgerIn, LedgerIn', [Next]_vars, PagesJoin', "misread" \notin trouble'
  PROVE  [Ledger!LedgerNext]_(Ledger!ledgerVars)
<1>1. CASE BackfillPage \/ Update
  <2>1. PICK S : /\ stored' = stored \cup S
                 /\ S \in Answers(BackfillAsked) \/ S \in Answers(HistoryAfter(After(At), At))
    BY <1>1 DEF BackfillPage, Update
  <2>2. S \in SUBSET Fundings
    BY <2>1, AnswersAreFundings, AnswersAreParts DEF BackfillAsked, LedgerIn, SkipsInv, DriversInv, TypeOK
  <2>3. UNCHANGED <<contract, now, synced>> /\ trouble \subseteq trouble'
    BY <1>1 DEF BackfillPage, Update
  <2>4. PagesJoin /\ "misread" \notin trouble
    BY <2>3 DEF PagesJoin, StepFitsPage, CatchesUp, FetchStep
  <2> QED
    BY <2>1, <2>2, <2>3, <2>4, RecordedPage
<1>2. CASE BackfillEnd
  BY <1>2, EndIsClose
<1>3. CASE Tick
  BY <1>3, TickIsSettle DEF Ledger!LedgerNext
<1>4. CASE BackfillStart \/ BackfillAbort \/ BackpackAsk \/ UpdateAbort \/ UNCHANGED vars
  <2>1. UNCHANGED <<contract, now, stored, synced>>
    BY <1>4 DEF BackfillStart, BackfillAbort, BackpackAsk, UpdateAbort, vars
  <2> QED
    BY <2>1, SameClock DEF Ledger!ledgerVars
<1> QED
  BY <1>1, <1>2, <1>3, <1>4 DEF Next

\* Whatever the drivers make of the instants they are given, at any tick of the
\* hour and through the loss of any request, what is stored is extended at its
\* ends only and closed when it begins with the first funding, as long as the
\* pages join (PagesJoin) and no error is taken for the end of the history.
THEOREM DriversImplementLedger ==
  ASSUME LateUpdates, LongSteps
  PROVE  Spec => ImplementsLedger
<1>1. Init => Ledger!LedgerInit
  <2> SUFFICES ASSUME Init
               PROVE  Ledger!LedgerInit
    OBVIOUS
  <2>1. Fundings \subseteq Int
    BY DEF Fundings
  <2>2. stored = {} /\ synced = FALSE
    BY DEF Init
  <2> QED
    BY <2>1, <2>2 DEF Ledger!LedgerInit
<1>2. Spec => []SkipsInv
  BY SkipsInvInit, SkipsInvStep, PTL DEF Spec
<1>3. SkipsInv /\ SyncedFromTheFirst /\ (SkipsInv /\ SyncedFromTheFirst)' /\ [Next]_vars =>
        [PagesJoin' /\ "misread" \notin trouble' => Ledger!LedgerNext]_(Ledger!ledgerVars)
  <2> SUFFICES ASSUME LedgerIn, LedgerIn', [Next]_vars
               PROVE  [PagesJoin' /\ "misread" \notin trouble' => Ledger!LedgerNext]_(Ledger!ledgerVars)
    BY DEF LedgerIn
  <2> QED
    BY DriversLedgerStep
<1> QED
  BY <1>1, <1>2, <1>3, SyncedReachesTheFirst, PTL DEF Spec, ImplementsLedger
===============================================================================
