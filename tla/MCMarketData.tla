----------------------------- MODULE MCMarketData -----------------------------
(* MarketData over klines that differ in every column MarketData compares,  *)
(* and doubles of four significant bits.                                    *)
EXTENDS MarketData

kline(t, o, h, v, n) ==
  [openTime |-> t, open |-> o, high |-> h, low |-> 1, close |-> h - 1, volume |-> v,
   closeTime |-> t + 1, trades |-> n + 1, takerVolume |-> n]

\* The high prices 17 and 16 have one double, the volume 19 is half-way between two.
klines == {kline(1, 3, 17, 19, 5), kline(2, 4, 16, 33, 17), kline(3, 3, 16, 3, 1),
           kline(4, 2, 35, 17, 2), kline(5, 4, 33, 35, 9)}

doubles == (0..16) \cup {2 * k : k \in 8..16} \cup {4 * k : k \in 8..16}
                  \cup {8 * k : k \in 8..16}
=============================================================================
