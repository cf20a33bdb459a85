SPECIFICATION MarketSpec
CONSTANTS
  Kline <- klines
  MaxKlines = 4
  Double <- doubles
  MaxDouble = 128
  Precision = 16
INVARIANTS
  ReportsEveryChange
  ExtremesAndSums
  OpenPriceOfCloseExtremes
