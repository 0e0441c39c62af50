------------------------------ MODULE FillModel ------------------------------
(***************************************************************************)
(* The execution model of execution/fill.rs: whether an order matches the  *)
(* market at a timestamp, and at which price.  Market data is what         *)
(* MarketDataView answers: for every instrument a function from the        *)
(* timestamps that have a bar to the bar.  Prices are scaled integers.     *)
(***************************************************************************)
EXTENDS Integers

CONSTANTS
  Bars,          (* instrument id -> timestamp -> [low, high, close]        *)
  StaleAfter,    (* threshold of the StaleDetector, or Off                  *)
  Slip,          (* ticks * tick_size of FixedSlippage; 0 without a model   *)
  Off            (* the value of an Option that is None                     *)

ASSUME FillModelAssumption ==
  /\ \A i \in DOMAIN Bars :
       /\ DOMAIN Bars[i] \subseteq Int
       /\ Bars[i] \in [DOMAIN Bars[i] -> [low : Int, high : Int, close : Int]]
  /\ StaleAfter = Off \/ StaleAfter \in Nat
  /\ Slip \in Int

(* The data is finite, so there is a last bar among any of an instrument.   *)
ASSUME BarsAssumption ==
  \A i \in DOMAIN Bars : \A S \in SUBSET DOMAIN Bars[i] :
    S # {} => \E u \in S : \A v \in S : v <= u

Sides == {"buy", "sell"}
OrderTypes == {"market", "limit", "stop"}

-----------------------------------------------------------------------------
(* MarketDataView::get_bar_at_or_before *)

BarTimes(i, t) == {u \in DOMAIN Bars[i] : u <= t}

HasBar(i, t) == BarTimes(i, t) # {}

BarTime(i, t) == CHOOSE u \in BarTimes(i, t) : \A v \in BarTimes(i, t) : v <= u

BarAtOrBefore(i, t) == Bars[i][BarTime(i, t)]

(* StaleDetector::check: the bar found may be older than the threshold.     *)
Fresh(i, t) == StaleAfter = Off \/ t - BarTime(i, t) <= StaleAfter

-----------------------------------------------------------------------------
(* DefaultFillModel::fill_order *)

BuyReaches(type, price, bar) ==
  \/ type = "market"
  \/ type = "limit" /\ bar.low <= price
  \/ type = "stop" /\ bar.high >= price

SellReaches(type, price, bar) ==
  \/ type = "market"
  \/ type = "limit" /\ bar.high >= price
  \/ type = "stop" /\ bar.low <= price

Reaches(order, bar) ==
  IF order.side = "buy" THEN BuyReaches(order.type, order.price, bar)
                        ELSE SellReaches(order.type, order.price, bar)

(* fill_order returns Some: an order fills whole or not at all.             *)
CanFill(order, t) ==
  /\ order.ts <= t
  /\ HasBar(order.inst, t)
  /\ Fresh(order.inst, t)
  /\ Reaches(order, BarAtOrBefore(order.inst, t))

(* FixedSlippage is applied to market orders only.                          *)
Slipped(price, side) == IF side = "buy" THEN price + Slip ELSE price - Slip

FillPrice(order, t) ==
  IF order.type = "market"
    THEN Slipped(BarAtOrBefore(order.inst, t).close, order.side)
    ELSE order.price
=============================================================================
