----------------------------- MODULE MCPortfolio -----------------------------
(* Small instances of a portfolio of two children.                          *)
EXTENDS Portfolio, TLC

CONSTANTS i1, s1, s2, default

(* A bar at 2 and at 4, on two days; the price falls.                       *)
MCBars == (i1 :> (2 :> [low |-> 9, high |-> 11, close |-> 10]
                  @@ 4 :> [low |-> 7, high |-> 9, close |-> 8]))
MCTimes == {2, 4}
MCDayOf == 2 :> 1 @@ 4 :> 2

In1(side, type, price, qty) ==
  [inst |-> i1, side |-> side, type |-> type, price |-> price, qty |-> qty]

MCInputs == {In1("buy", "limit", 8, 1), In1("sell", "market", 0, 1),
             In1("sell", "limit", 9, 0)}

(* An order that rests, for the collision of ids.                           *)
RestingInputs == {In1("buy", "limit", 8, 1)}
FirstTime == {2}
FirstDay == 2 :> 1
NoRules == [s \in {} |-> 0]

(* Limits of 12 out of 15, and of 10; one lot costs 8 to 10.                *)
MCRules == (s1 :> [capital |-> 15, pct |-> 80])
             @@ (s2 :> [capital |-> 10, pct |-> 120])
=============================================================================
