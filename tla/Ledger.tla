------------------------------- MODULE Ledger -------------------------------
(***************************************************************************)
(* The books of one run: Account and Position (portfolio/manager.rs,       *)
(* portfolio/models.rs) and the per-strategy exposure kept by Context      *)
(* (common/context.rs, on_fill_exposure).  Engine.tla extends this module  *)
(* and applies OnFill to the fills of its event queue; LedgerSpec applies  *)
(* any sequence of fills, and is checked on its own.                       *)
(***************************************************************************)
EXTENDS Integers, Sequences, Functions, FiniteSets

CONSTANTS
  Instruments,      (* instrument ids                                       *)
  Strategies,       (* strategy ids                                         *)
  InitialCapital    (* Account::new(initial_capital), scaled                *)

Fills == [of : Int, id : Int, inst : Instruments, side : {"buy", "sell"},
          qty : Nat \ {0}, price : Int, fee : Int, ts : Int,
          strat : Strategies]

ASSUME LedgerAssumption ==
  /\ IsFiniteSet(Instruments) /\ IsFiniteSet(Strategies)
  /\ InitialCapital \in Int

VARIABLES
  cash,                    (* Account.cash                                  *)
  positions,               (* Account.positions; absent entry = NewPosition *)
  trades,                  (* Account.trades; the trade id is the index     *)
  realized_pnl,            (* Account.realized_pnl                          *)
  attribution,             (* Account.strategy_attribution                  *)
  strategy_positions,      (* Context.strategy_positions                    *)
  strategy_mark_prices,    (* Context.strategy_mark_prices                  *)
  strategy_open_notional   (* Context.strategy_open_notional                *)

accountVars == <<cash, positions, trades, realized_pnl, attribution>>
exposureVars == <<strategy_positions, strategy_mark_prices,
                  strategy_open_notional>>
ledgerVars == <<accountVars, exposureVars>>

-----------------------------------------------------------------------------
Abs(n) == IF n < 0 THEN -n ELSE n
Sign(n) == IF n < 0 THEN -1 ELSE IF n = 0 THEN 0 ELSE 1
Least(a, b) == IF a <= b THEN a ELSE b

(* Integer division of Rust: rounds towards zero.                           *)
TruncDiv(a, b) == IF a >= 0 THEN a \div b ELSE -((-a) \div b)

SumOver(f, S) == FoldFunctionOnSet(+, 0, f, S)

SideSign(side) == IF side = "buy" THEN 1 ELSE -1
SignedQty(f) == SideSign(f.side) * f.qty

(* (qty * price) as i64: values stay far from the bounds of i64.            *)
Cost(f) == f.qty * f.price

-----------------------------------------------------------------------------
(* Position::update *)

NewPosition == [qty |-> 0, avg |-> 0, realized |-> 0]

(* Units of the held position a fill closes: all it can, when it is on the  *)
(* other side.                                                              *)
ClosedQty(pos, f) ==
  IF Sign(pos.qty) = -SideSign(f.side) THEN Least(Abs(pos.qty), f.qty) ELSE 0

AddsTo(pos, f) == Sign(pos.qty) = SideSign(f.side)

AveragedCost(pos, f) ==
  TruncDiv(Abs(pos.qty) * pos.avg + Cost(f), Abs(pos.qty) + f.qty)

(* Mutant: a closed position keeps its cost, and so does a flipped one.     *)
CostKept(pos, f) ==
  IF AddsTo(pos, f) THEN AveragedCost(pos, f)
  ELSE IF pos.qty = 0 THEN f.price
  ELSE pos.avg

CostAfter(pos, f) ==
  IF AddsTo(pos, f) THEN AveragedCost(pos, f)
  ELSE IF pos.qty = 0 \/ f.qty > Abs(pos.qty) THEN f.price  \* open or flip
  ELSE IF f.qty = Abs(pos.qty) THEN 0                       \* close
  ELSE pos.avg                                              \* reduce

(* Mutant: profit is counted as if every position were long.                *)
RealizedAsLong(pos, f) == (f.price - pos.avg) * ClosedQty(pos, f)

RealizedBy(pos, f) ==
  (f.price - pos.avg) * Sign(pos.qty) * ClosedQty(pos, f)

(* Mutant: a fill larger than the position it closes only closes it.        *)
PositionClosed(pos, f) ==
  [qty      |-> IF f.qty > Abs(pos.qty) /\ ClosedQty(pos, f) > 0 THEN 0
                ELSE pos.qty + SignedQty(f),
   avg      |-> CostAfter(pos, f),
   realized |-> pos.realized + RealizedBy(pos, f)]

PositionUpdate(pos, f) ==
  [qty      |-> pos.qty + SignedQty(f),
   avg      |-> CostAfter(pos, f),
   realized |-> pos.realized + RealizedBy(pos, f)]

-----------------------------------------------------------------------------
(* Account::on_fill *)

CashAfter(f) ==
  IF f.side = "buy" THEN cash - Cost(f) - f.fee ELSE cash + Cost(f) - f.fee

(* Mutant: sells are netted against buys in the gross notional.             *)
AttributionNetted(old, f, gain) ==
  [count    |-> old.count + 1,
   realized |-> old.realized + gain,
   fees     |-> old.fees + f.fee,
   gross    |-> old.gross + SignedQty(f) * f.price]

(* Mutant: the strategy's profit is booked net of the fee.                  *)
AttributionNetOfFee(old, f, gain) ==
  [count    |-> old.count + 1,
   realized |-> old.realized + gain - f.fee,
   fees     |-> old.fees + f.fee,
   gross    |-> old.gross + Abs(Cost(f))]

(* StrategyAttribution of one strategy after a fill that realized gain.     *)
AttributionUpdate(old, f, gain) ==
  [count    |-> old.count + 1,
   realized |-> old.realized + gain,
   fees     |-> old.fees + f.fee,
   gross    |-> old.gross + Abs(Cost(f))]

AccountOnFill(f) ==
  LET gain == RealizedBy(positions[f.inst], f)
  IN  /\ cash' = CashAfter(f)
      /\ positions' = [positions EXCEPT ![f.inst] = PositionUpdate(@, f)]
      /\ realized_pnl' = realized_pnl + gain
      /\ attribution' =
           [attribution EXCEPT ![f.strat] = AttributionUpdate(@, f, gain)]
      /\ trades' = Append(trades, f)

(* Account::equity, given the mark of every instrument.                     *)
Equity(marks) ==
  cash + SumOver([i \in Instruments |-> positions[i].qty * marks[i]],
                 Instruments)

-----------------------------------------------------------------------------
(* Context::on_fill_exposure *)

(* Mutant: short positions offset long ones.                                *)
NetExposure(held, marks) ==
  SumOver([i \in Instruments |-> held[i] * marks[i]], Instruments)

Exposure(held, marks) ==
  SumOver([i \in Instruments |-> Abs(held[i]) * marks[i]], Instruments)

OnFillExposure(f) ==
  LET s     == f.strat
      held  == [strategy_positions[s] EXCEPT ![f.inst] = @ + SignedQty(f)]
      marks == [strategy_mark_prices[s] EXCEPT ![f.inst] = f.price]
  IN  /\ strategy_positions' = [strategy_positions EXCEPT ![s] = held]
      /\ strategy_mark_prices' = [strategy_mark_prices EXCEPT ![s] = marks]
      /\ strategy_open_notional' =
           [strategy_open_notional EXCEPT ![s] = Exposure(held, marks)]

(* Engine::handle_fill_event up to the strategy's on_fill callback.         *)
OnFill(f) == OnFillExposure(f) /\ AccountOnFill(f)

-----------------------------------------------------------------------------
LedgerInit ==
  /\ cash = InitialCapital
  /\ positions = [i \in Instruments |-> NewPosition]
  /\ trades = <<>>
  /\ realized_pnl = 0
  /\ attribution = [s \in Strategies |->
                      [count |-> 0, realized |-> 0, fees |-> 0, gross |-> 0]]
  /\ strategy_positions = [s \in Strategies |-> [i \in Instruments |-> 0]]
  /\ strategy_mark_prices = [s \in Strategies |-> [i \in Instruments |-> 0]]
  /\ strategy_open_notional = [s \in Strategies |-> 0]

LedgerNext == \E f \in Fills : OnFill(f)

LedgerSpec == LedgerInit /\ [][LedgerNext]_ledgerVars

-----------------------------------------------------------------------------
(* The variables range over the types of the structs of the source.         *)
LedgerTypeOK ==
  /\ cash \in Int
  /\ positions \in [Instruments -> [qty : Int, avg : Int, realized : Int]]
  /\ trades \in Seq(Fills)
  /\ realized_pnl \in Int
  /\ attribution \in [Strategies -> [count : Nat, realized : Int,
                                     fees : Int, gross : Nat]]
  /\ strategy_positions \in [Strategies -> [Instruments -> Int]]
  /\ strategy_mark_prices \in [Strategies -> [Instruments -> Int]]
  /\ DOMAIN strategy_open_notional = Strategies

(* What a set of trades adds up to; the reference for the running totals.   *)
TradesWith(P(_)) == {n \in DOMAIN trades : P(trades[n])}
TotalQty(N) == SumOver([n \in N |-> SignedQty(trades[n])], N)
TotalFees(N) == SumOver([n \in N |-> trades[n].fee], N)
TotalGross(N) == SumOver([n \in N |-> Abs(Cost(trades[n]))], N)
TotalPaid(N) ==
  SumOver([n \in N |-> SignedQty(trades[n]) * trades[n].price + trades[n].fee], N)

(* The incrementally kept books can be recomputed from Account.trades: cash *)
(* is the capital less what the trades paid and their fees, and the         *)
(* account's and the strategies' positions, counts, fees and notional are   *)
(* those of the trade log (reports are built from the log, the guards of    *)
(* place_order from the running totals).                                    *)
BooksReplayTrades ==
  /\ cash = InitialCapital - TotalPaid(DOMAIN trades)
  /\ \A i \in Instruments :
       positions[i].qty = TotalQty(TradesWith(LAMBDA t : t.inst = i))
  /\ \A s \in Strategies :
       LET mine == TradesWith(LAMBDA t : t.strat = s)
       IN  /\ attribution[s].count = Cardinality(mine)
           /\ attribution[s].fees = TotalFees(mine)
           /\ attribution[s].gross = TotalGross(mine)
           /\ \A i \in Instruments :
                strategy_positions[s][i] =
                  TotalQty({n \in mine : trades[n].inst = i})

(* Realized profit is booked three times (account, instrument, strategy)    *)
(* and the three agree, although an instrument may be opened by one         *)
(* strategy and closed by another.                                          *)
RealizedAgrees ==
  /\ realized_pnl = SumOver([i \in Instruments |-> positions[i].realized],
                            Instruments)
  /\ realized_pnl = SumOver([s \in Strategies |-> attribution[s].realized],
                            Strategies)

(* Cash plus positions at cost, against capital plus realized profit less   *)
(* fees: the difference is what integer division of average costs dropped.  *)
RoundingDrift ==
  Equity([i \in Instruments |-> positions[i].avg])
    - (InitialCapital + realized_pnl
         - SumOver([s \in Strategies |-> attribution[s].fees], Strategies))

(* A fill creates or destroys money only by rounding an average cost: by    *)
(* less than one price unit per unit held, and only when it adds to a       *)
(* position that is already open on its side.                               *)
MoneyConserved ==
  [][\A i \in Instruments :
       positions'[i] # positions[i] =>
         \/ RoundingDrift' = RoundingDrift
         \/ /\ Sign(positions[i].qty) = Sign(positions'[i].qty)
            /\ Abs(positions'[i].qty) > Abs(positions[i].qty)
            /\ Abs(RoundingDrift' - RoundingDrift) < Abs(positions'[i].qty)
    ]_ledgerVars

(* The trades of an instrument that built the position it now has: those on *)
(* its side, since it was last flat or on the other side.                   *)
QtyUpTo(i, n) ==
  TotalQty({m \in TradesWith(LAMBDA t : t.inst = i) : m <= n})

Building(i) ==
  {n \in TradesWith(LAMBDA t : t.inst = i) :
     /\ SideSign(trades[n].side) = Sign(positions[i].qty)
     /\ \A m \in n .. Len(trades) : Sign(QtyUpTo(i, m)) = Sign(positions[i].qty)}

(* An open position costs on average no less than the cheapest of the       *)
(* trades that built it and no more than the dearest, however the position  *)
(* was reached; a flat one carries no cost into the next opening.           *)
CostWithinTrades ==
  \A i \in Instruments :
    IF positions[i].qty = 0 THEN positions[i].avg = 0
    ELSE /\ \E n \in Building(i) : trades[n].price <= positions[i].avg
         /\ \E n \in Building(i) : trades[n].price >= positions[i].avg

(* The exposure the allocator is asked about is the strategy's present      *)
(* holdings at the price of its own last fill in each instrument.           *)
LastFill(s, i) ==
  LET N == {n \in DOMAIN trades : trades[n].strat = s /\ trades[n].inst = i}
  IN  CHOOSE n \in N : \A m \in N : m <= n

ExposureIsMarked ==
  \A s \in Strategies :
    LET held == {i \in Instruments : strategy_positions[s][i] # 0}
    IN  strategy_open_notional[s] =
          SumOver([i \in held |-> Abs(strategy_positions[s][i])
                                    * trades[LastFill(s, i)].price], held)
=============================================================================
