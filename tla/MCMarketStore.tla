---------------------------- MODULE MCMarketStore ----------------------------
(* Small instances of the market data for TLC.                              *)
EXTENDS MarketStore

CONSTANTS spot, ce, pe, bad

Option(underlying, expiry, strike, side) ==
  [underlying |-> underlying, expiry |-> expiry, strike |-> strike, side |-> side]

(* Two options of one strike, and one of an underlying whose name starts    *)
(* with that of theirs, of a strike and an expiry of its own.               *)
MCOptions == (ce :> Option("N", 2, 10, "call") @@ pe :> Option("NB", 1, 12, "put"))

MCMatches == [u \in {"N", "NB"} |-> IF u = "N" THEN {"N", "NB"} ELSE {"NB"}]

(* Two minutes of two days.                                                 *)
MCDayOf == [t \in 0 .. 3 |-> 1 + t \div 2]
=============================================================================
