----------------------------- MODULE Allocator -----------------------------
(***************************************************************************)
(* PortfolioAllocator (portfolio/allocator.rs): the guardrail that         *)
(* place_order_at asks before it accepts an order.  The ratio of a rule is *)
(* a f64 in the code; here it is a percentage, and the rounding is the one *)
(* of f64::round for the non-negative limits a configuration holds.        *)
(***************************************************************************)
EXTENDS Integers, Functions, FiniteSets

CONSTANTS
  HasAllocator,   (* Context.allocator is Some                              *)
  TotalCapital,   (* PortfolioAllocator.total_capital                       *)
  Rules           (* PortfolioAllocator.rules: strategy -> [capital, pct]   *)

ASSUME AllocatorAssumption ==
  /\ HasAllocator \in BOOLEAN
  /\ TotalCapital \in Nat
  /\ IsFiniteSet(DOMAIN Rules)
  /\ Rules \in [DOMAIN Rules -> [capital : Nat, pct : Int]]

(* register_strategy clamps the ratio to 0.0 .. 1.0.                        *)
Ratio(rule) == IF rule.pct < 0 THEN 0 ELSE IF rule.pct > 100 THEN 100
               ELSE rule.pct

IsWithinTotalBudget ==
  FoldFunctionOnSet(+, 0, [s \in DOMAIN Rules |-> Rules[s].capital],
                    DOMAIN Rules) <= TotalCapital

Limit(s) ==
  LET byExposure == (Rules[s].capital * Ratio(Rules[s]) + 50) \div 100
  IN  IF Rules[s].capital <= byExposure THEN Rules[s].capital ELSE byExposure

CanAcceptNotional(s, current, additional) ==
  /\ s \in DOMAIN Rules
  /\ IsWithinTotalBudget
  /\ current + additional <= Limit(s)

(* The check of place_order_at: no allocator, no limit.                     *)
AllocatorAccepts(s, current, additional) ==
  HasAllocator => CanAcceptNotional(s, current, additional)
=============================================================================
