SPECIFICATION MarketSpec
CONSTANTS
  Kline <- klines
  MaxKlines = 2
  Double <- doubles
  MaxDouble = 128
  Precision = 16
INVARIANTS
  LowestOpenPriceIsLowest
