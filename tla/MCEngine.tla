------------------------------ MODULE MCEngine ------------------------------
(* Small instances of the engine for TLC.                                   *)
EXTENDS EngineRefinement, TLC

CONSTANT i1

(* A bar at 2, 4 and 6; the price falls, then rises.  4 is the last         *)
(* timestamp of the first day.                                              *)
MCBars == (i1 :> (2 :> [low |-> 9, high |-> 11, close |-> 10]
                  @@ 4 :> [low |-> 7, high |-> 9, close |-> 8]
                  @@ 6 :> [low |-> 9, high |-> 13, close |-> 12]))
MCTimes == {2, 4, 6}
MCDayOf == [t \in MCTimes |-> IF t <= 4 THEN 1 ELSE 2]

In1(side, type, price, qty) ==
  [inst |-> i1, side |-> side, type |-> type, price |-> price, qty |-> qty]

MCInputs == {In1("buy", "market", 0, 1), In1("sell", "stop", 8, 1),
             In1("buy", "limit", 8, 2)}

(* The orders of two strategies under an allocator, one of them void.       *)
SharedInputs == {In1("buy", "market", 0, 1), In1("sell", "market", 0, 1),
                 In1("sell", "limit", 12, 0)}

(* -2 stamps an order one bar before the present.                           *)
MCDelays == {-2, 0, 1}

NoRules == [s \in {} |-> 0]

(* Limits of 12 out of 15, and of 10; one lot costs 8 to 12.                *)
CONSTANTS s1, s2
MCRules == (s1 :> [capital |-> 15, pct |-> 80])
MCSharedRules == MCRules @@ (s2 :> [capital |-> 10, pct |-> 120])
=============================================================================
