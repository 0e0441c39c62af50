------------------------------ MODULE MCLedger ------------------------------
(* Small instances of the ledger, and of the report after every fill.       *)
EXTENDS Reporting

CONSTANTS
  i1, i2, s1, s2,
  Qtys, Prices,         (* of the fills                                     *)
  SharedQtys,           (* of the fills of several strategies, instruments  *)
  MaxShared,            (* bound: fills of two strategies and instruments   *)
  MaxTrades             (* bound: fills, when all are of i1 and s1          *)

(* One timestamp per fill; two fills a day; bars of i2 come later.          *)
MCTimeline == 1 .. MaxTrades + 1
MCLocalDay == [t \in MCTimeline |-> (t + 1) \div 2]
MCCloses ==
  [i \in {i1, i2} |->
     [t \in {u \in MCTimeline : i = i1 \/ u > 1} |-> IF t % 2 = 0 THEN 12 ELSE 9]]
MCTax == <<1, 3>>
MCBounds == {NoBounds, [from |-> 1, to |-> MaxTrades + 1], [from |-> 2, to |-> 3]}

(* The fill pays a fee when its quantity is odd.                            *)
MCFills ==
  {f \in [of : {0}, id : {0}, inst : Instruments, side : {"buy", "sell"},
          qty : Qtys, price : Prices, fee : {0, 1}, ts : {Len(trades) + 1},
          strat : Strategies] : f.fee = f.qty % 2}

Alone(f) == f.inst = i1 /\ f.strat = s1 /\ \A n \in DOMAIN trades :
              trades[n].inst = i1 /\ trades[n].strat = s1

MCNext ==
  \E f \in MCFills :
    /\ \/ Len(trades) < MaxShared /\ f.qty \in SharedQtys
       \/ Len(trades) < MaxTrades /\ Alone(f)
    /\ OnFill(f)

MCSpec == LedgerInit /\ [][MCNext]_ledgerVars
=============================================================================
