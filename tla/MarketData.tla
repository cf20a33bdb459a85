------------------------------ MODULE MarketData ------------------------------
(***************************************************************************)
(* POST /calculate: the route, marketDataCalculateHandler and              *)
(* binanceIntegration, from the request to the response.  A kline of the    *)
(* Binance answer is a record with the columns that                        *)
(* binance.integration.endpoint.ts declares.  Prices and volumes are whole *)
(* numbers of a unit so small that the decimals of the answer and the      *)
(* doubles that JavaScript has for them are all multiples of it.           *)
(***************************************************************************)
EXTENDS Integers, Sequences, FiniteSets, Functions

CONSTANTS
  Kline,      \* klines Binance may answer with
  MaxKlines,  \* bound: klines in one answer
  Double,     \* the numbers that are doubles
  MaxDouble,  \* the greatest of them
  Precision   \* a double is nearer than its 1/Precision: 2^53 in JavaScript

Column == {"openTime", "open", "high", "low", "close", "volume", "closeTime",
           "trades", "takerVolume"}

\* Sums of two doubles; no amount of an answer is greater.
Amount == 0..(2 * MaxDouble)

ASSUME KlineAssumption == Kline \subseteq [Column -> Amount]
ASSUME MaxKlinesAssumption == MaxKlines \in Nat

Min(S) == CHOOSE x \in S : \A y \in S : x <= y
Max(S) == CHOOSE x \in S : \A y \in S : x >= y
Distance(x, y) == IF x <= y THEN y - x ELSE x - y

Nearest(x) == {d \in Double : \A e \in Double : Distance(x, d) <= Distance(x, e)}

\* Mantissas are even and odd in turns.
HasEvenMantissa(d) == Cardinality({e \in Double : e < d}) % 2 = 0

\* The double for x: the nearest one and, half-way, the even one.  JavaScript's
\* Infinity, for numbers that round beyond MaxDouble, is MaxDouble here.
Round[x \in Amount] ==
  LET even == {d \in Nearest(x) : HasEvenMantissa(d)}
  IN  CHOOSE d \in IF even = {} THEN Nearest(x) ELSE even : TRUE

ASSUME DoubleAssumption ==
  /\ Double \subseteq Nat /\ 0 \in Double
  /\ MaxDouble \in Double /\ \A d \in Double : d <= MaxDouble
ASSUME PrecisionAssumption ==
  /\ Precision \in Nat \ {0}
  /\ \A x \in 0..MaxDouble : \A d \in Nearest(x) : Precision * Distance(x, d) <= d

VARIABLES
  phase,   \* "idle", "awaiting" Binance, "answered"
  body,    \* history: the klines Binance answered with
  status,  \* HTTP status of the response
  data     \* data of a successful response

marketVars == <<phase, body, status, data>>

\* The columns getHistoricalData reads, by their positions 1, 2, 5, 0, 6 and 9,
\* the decimals among them by Number().
toChange(kline) ==
  [openPrice |-> Round[kline.open], closePrice |-> Round[kline.high],
   volume |-> Round[kline.volume], openTime |-> kline.openTime,
   closeTime |-> kline.closeTime, numberOfTrades |-> Round[kline.takerVolume]]

toChangeList(klines) == [i \in DOMAIN klines |-> toChange(klines[i])]

-----------------------------------------------------------------------------
(* Array.prototype.sort((a, b) => a[f] - b[f]): stable, and in place.       *)

Precedes(list, f, i, j) ==
  list[i][f] < list[j][f] \/ (list[i][f] = list[j][f] /\ i < j)

Rank(list, f, i) == 1 + Cardinality({j \in DOMAIN list : Precedes(list, f, j, i)})

SortedBy(list, f) ==
  [k \in DOMAIN list |-> list[CHOOSE i \in DOMAIN list : Rank(list, f, i) = k]]

\* Array.prototype.reduce from 0 on: each partial sum is rounded, so the order of
\* the list matters.
Sum(rounding, list, f) ==
  MapThenFoldSet(LAMBDA v, acc : rounding[acc + v], 0, LAMBDA i : list[i][f], Max, DOMAIN list)

\* Mutant: reduce without an initial value.
TotalWithoutFirst(list, f) ==
  MapThenFoldSet(LAMBDA v, acc : Round[acc + v], 0, LAMBDA i : list[i][f], Max,
                 DOMAIN list \ {1})

Total(list, f) == Sum(Round, list, f)

\* The response made of the one sorted array.
Summary(array) ==
  LET changeListSortedByOpenPrice == array
      changeListSortedByClosePrice == array
      n == Len(array)
  IN [lowestOpenPrice |-> changeListSortedByOpenPrice[1].openPrice,
      highestOpenPrice |-> changeListSortedByOpenPrice[n].openPrice,
      lowestClosePrice |-> changeListSortedByClosePrice[1].closePrice,
      highestClosePrice |-> changeListSortedByClosePrice[n].closePrice,
      volumeSum |-> Total(array, "volume"),
      numberOfAllTrades |-> Total(array, "numberOfTrades"),
      changeList |-> array]

\* Mutants: the sorts swapped, and the first one dropped.
calculateSortsSwapped(changeList) ==
  Summary(SortedBy(SortedBy(changeList, "closePrice"), "openPrice"))

calculateOneSort(changeList) == Summary(SortedBy(changeList, "closePrice"))

\* Both sorts are of the one array, so both names see the order of the second.
calculate(changeList) ==
  Summary(SortedBy(SortedBy(changeList, "openPrice"), "closePrice"))

NoData == [changeList |-> << >>]

-----------------------------------------------------------------------------

MarketInit == phase = "idle" /\ body = << >> /\ status = 0 /\ data = NoData

\* The route validates the body and executes the handler, or answers at once.
PostCalculate(valid) ==
  /\ phase = "idle"
  /\ phase' = IF valid THEN "awaiting" ELSE "answered"
  /\ status' = IF valid THEN 0 ELSE 400
  /\ UNCHANGED <<body, data>>

\* An empty array and every body without an element 0 (Binance reports its own
\* errors as an object, whatever the status code) are "no kline data".
AnswerWithKlines(klines) ==
  /\ phase = "awaiting"
  /\ phase' = "answered" /\ body' = klines
  /\ IF klines = << >>
       THEN status' = 409 /\ data' = NoData
       ELSE status' = 200 /\ data' = calculate(toChangeList(klines))

AnswerWithError ==
  /\ phase = "awaiting"
  /\ phase' = "answered" /\ status' = 409
  /\ UNCHANGED <<body, data>>

\* endpoint.request throws, or a text has an element 0 but no map(): the
\* handler's catch makes it a HANDLER_EXECUTION_CAUGHT_ERROR.
RequestThrows ==
  /\ phase = "awaiting"
  /\ phase' = "answered" /\ status' = 500
  /\ UNCHANGED <<body, data>>

\* The connection closes; the next request starts afresh.
NextRequest ==
  /\ phase = "answered"
  /\ phase' = "idle" /\ body' = << >> /\ status' = 0 /\ data' = NoData

Answers == UNION {[1..n -> Kline] : n \in 0..MaxKlines}

MarketNext ==
  \/ \E valid \in BOOLEAN : PostCalculate(valid)
  \/ \E klines \in Answers : AnswerWithKlines(klines)
  \/ AnswerWithError \/ RequestThrows \/ NextRequest

MarketSpec == MarketInit /\ [][MarketNext]_marketVars

-----------------------------------------------------------------------------
(* Properties                                                               *)

Succeeded == phase = "answered" /\ status = 200
Reported == data.changeList
Values(list, f) == {list[i][f] : i \in DOMAIN list}

\* The change reports the columns open, high, volume and takerVolume of kline,
\* each by the double next to it, and its times.
Reports(change, kline) ==
  /\ change.openTime = kline.openTime /\ change.closeTime = kline.closeTime
  /\ change.openPrice = Round[kline.open] /\ change.closePrice = Round[kline.high]
  /\ change.volume = Round[kline.volume]
  /\ change.numberOfTrades = Round[kline.takerVolume]

\* Every kline of the Binance answer is reported by a change of its own, and the
\* changes are in ascending order of closePrice: sorting in place loses their
\* order in time and nothing else.
ReportsEveryChange ==
  Succeeded =>
    /\ \E pi \in Bijection(DOMAIN Reported, DOMAIN body) :
         \A i \in DOMAIN Reported : Reports(Reported[i], body[pi[i]])
    /\ \A i, j \in DOMAIN Reported :
         i < j => Reported[i].closePrice <= Reported[j].closePrice

\* A sum of n doubles, in whatever order they were added, is off by 2 * n
\* roundings at most, unless it overflows.
IsNear(sum, exact, n) == sum < MaxDouble => Precision * Distance(sum, exact) <= 2 * n * sum

Exactly == [x \in Nat |-> x]

\* The reported extremes of closePrice are the doubles of the extreme High prices
\* of the answer.  The sums, added up in the order of closePrice, are near those
\* of the decimals of the answer; the number of trades is that of takerVolume.
ExtremesAndSums ==
  Succeeded =>
    /\ data.lowestClosePrice = Round[Min(Values(body, "high"))]
    /\ data.highestClosePrice = Round[Max(Values(body, "high"))]
    /\ IsNear(data.volumeSum, Sum(Exactly, body, "volume"), Len(body))
    /\ IsNear(data.numberOfAllTrades, Sum(Exactly, body, "takerVolume"), Len(body))

\* What lowestOpenPrice and highestOpenPrice really are: the two stable sorts
\* leave the open price extremes among the changes of extreme closePrice.
OpenPriceOfCloseExtremes ==
  Succeeded =>
    LET With(close) == {c \in {toChange(body[i]) : i \in DOMAIN body} : c.closePrice = close} IN
    /\ data.lowestOpenPrice = Min({c.openPrice : c \in With(data.lowestClosePrice)})
    /\ data.highestOpenPrice = Max({c.openPrice : c \in With(data.highestClosePrice)})

\* calculate.handler.ts:39-42 names the array it takes lowestOpenPrice from
\* changeListSortedByOpenPrice: no change has a lower open price.
LowestOpenPriceIsLowest ==
  Succeeded => data.lowestOpenPrice = Min(Values(Reported, "openPrice"))

\* binance.integration.endpoint.ts declares a close price behind the low one (line
\* 47) and a number of trades behind the quote asset volume (line 51): what is
\* reported as closePrice and as numberOfTrades comes from there.
NamedColumnsAreReported ==
  Succeeded =>
    /\ Values(Reported, "closePrice") = {Round[c] : c \in Values(body, "close")}
    /\ Values(Reported, "numberOfTrades") = {Round[c] : c \in Values(body, "trades")}
=============================================================================
