------------------------------ MODULE Portfolio ------------------------------
(***************************************************************************)
(* PortfolioStrategy (strategy/portfolio.rs): several strategies run as    *)
(* the one strategy of the engine.  Lifecycle callbacks and market events  *)
(* are broadcast to the children, in the unspecified order of a HashMap;   *)
(* alarms, orders, rejections and fills go to the child they name.  Each   *)
(* child's callback runs under that child's id, and may call the Context   *)
(* as it likes (Engine.ContextCall without SetStrategyId).                 *)
(*                                                                         *)
(* asked is history: the child whose callback made the n-th call, which is *)
(* what the ids that events carry are compared with.                       *)
(***************************************************************************)
EXTENDS Engine, Sequences

CONSTANTS
  Children,     (* PortfolioStrategy.strategies: ids of the children         *)
  NoChild       (* no child's callback is running                           *)

ASSUME PortfolioAssumption ==
  Children \subseteq Strategies /\ NoChild \notin Strategies

VARIABLES
  order_map,    (* PortfolioStrategy.order_map: order id -> child            *)
  stage,        (* of the callback: "enter", "serving", "left"               *)
  waiting,      (* children this callback is still to be passed to           *)
  child,        (* the child whose callback is running                      *)
  served,       (* children this callback was passed to, in order (history) *)
  asked         (* asked[n]: the child that made call n (history)           *)

deskVars == <<order_map, stage, waiting, child, served, asked>>
portfolioVars == <<vars, deskVars>>

Broadcasts == LifeCallbacks \cup {"on_market_event"}

-----------------------------------------------------------------------------
(* Passing a callback on                                                    *)

Mapped(id) == IF id \in DOMAIN order_map THEN {order_map[id]} ELSE {}

(* Mutant: the order map is asked before the strategy id of a fill.         *)
TargetByMap ==
  CASE cur.kind = "fill" ->
         (IF cur.fill.id \in DOMAIN order_map THEN Mapped(cur.fill.id)
          ELSE {cur.fill.strat}) \cap Children
    [] cur.kind = "order" -> {cur.order.strat} \cap Children
    [] OTHER -> {cur.strat} \cap Children

(* The child of a routed event, if there is one; only fills fall back on    *)
(* the order map.                                                           *)
Target ==
  CASE cur.kind = "fill" ->
         (IF cur.fill.strat \in Children THEN {cur.fill.strat}
          ELSE Mapped(cur.fill.id)) \cap Children
    [] cur.kind = "order" -> {cur.order.strat} \cap Children
    [] OTHER -> {cur.strat} \cap Children

Broadcast ==
  /\ cb \in Broadcasts
  /\ waiting' = Children
  /\ UNCHANGED order_map

(* An event without a child is warned about and dropped.                    *)
Route ==
  /\ cb \in EventCallbacks
  /\ waiting' = Target
  /\ order_map' = IF cb # "on_order_event" THEN order_map
                  ELSE [id \in DOMAIN order_map \cup {cur.order.id} |->
                          IF id = cur.order.id THEN cur.order.strat
                          ELSE order_map[id]]

BeginCallback ==
  /\ pc = "callback" /\ stage = "enter"
  /\ stage' = "serving"
  /\ Broadcast \/ Route
  /\ UNCHANGED <<vars, child, served, asked>>

CallChild(s) ==
  /\ stage = "serving" /\ s \in waiting
  /\ SetStrategyId(s)
  /\ waiting' = waiting \ {s} /\ child' = s /\ served' = Append(served, s)
  /\ UNCHANGED <<order_map, stage, asked>>

(* A call on the Context in the callback of the child that is running.      *)
ChildCalls ==
  /\ stage = "serving" /\ child # NoChild
  /\ \/ \E in \in OrderInputs, d \in PlaceDelays : PlaceOrderAt(in, now + d)
     \/ \E o \in order_events : o.strat = child /\ CancelOrder(o.id)
     \/ \E d \in AlarmDelays : ScheduleAlarmAt(now + d)
  /\ asked' = Append(asked, child)
  /\ UNCHANGED <<order_map, stage, waiting, child, served>>

(* The last child has returned: back to the id "default".                   *)
LeaveCallback ==
  /\ stage = "serving" /\ waiting = {}
  /\ SetStrategyId(Default)
  /\ stage' = "left" /\ child' = NoChild
  /\ UNCHANGED <<order_map, waiting, served, asked>>

(* The engine goes on only when the portfolio's callback has returned.      *)
EngineGoesOn ==
  /\ pc = "callback" => stage = "left"
  /\ Run
  /\ stage' = "enter" /\ served' = <<>>
  /\ UNCHANGED <<order_map, waiting, child, asked>>

PortfolioInit ==
  /\ Init
  /\ order_map = [id \in {} |-> NoChild]
  /\ stage = "enter" /\ waiting = {} /\ child = NoChild
  /\ served = <<>> /\ asked = <<>>

PortfolioNext ==
  \/ BeginCallback
  \/ \E s \in Children : CallChild(s)
  \/ LeaveCallback
  \/ ChildCalls
  \/ EngineGoesOn
  \/ Terminating /\ UNCHANGED deskVars

PortfolioSpec == PortfolioInit /\ [][PortfolioNext]_portfolioVars
-----------------------------------------------------------------------------
(* The portfolio's own variables have their types.                          *)
DeskTypeOK ==
  /\ DOMAIN order_map \subseteq Nat
  /\ \A id \in DOMAIN order_map : order_map[id] \in Strategies
  /\ stage \in {"enter", "serving", "left"}
  /\ waiting \subseteq Children
  /\ child \in Children \cup {NoChild}
  /\ served \in Seq(Children) /\ asked \in Seq(Children)
  /\ Len(asked) = born
  /\ child # NoChild => pc = "callback" /\ stage = "serving" /\ active = child

(* The child that asked for the event of the running callback.              *)
Asker == asked[IF cur.kind = "fill" THEN cur.fill.of ELSE cur.uid]

(* A callback is passed to the right children before the engine goes on: an *)
(* alarm, order, rejection or fill to the child that asked for it and to no *)
(* other; a market event or a lifecycle callback to every child, once.      *)
RoutedToAsker ==
  pc = "callback" /\ stage = "left" =>
    IF cb \in EventCallbacks THEN served = <<Asker>>
    ELSE IsInjective(served) /\ Range(served) = Children

(* What a child's order trades is attributed to that child: in the trade    *)
(* log, in Account.strategy_attribution and in its exposure.                *)
AttributedToAsker ==
  /\ \A n \in DOMAIN trades : trades[n].strat = asked[trades[n].of]
  /\ \A s \in Children :
       LET mine == {n \in DOMAIN trades : asked[trades[n].of] = s}
       IN  /\ attribution[s].count = Cardinality(mine)
           /\ \A i \in Instruments :
                strategy_positions[s][i] = TotalQty({n \in mine : trades[n].inst = i})

(* "Each strategy manages its own positions, orders, and PnL attribution":  *)
(* a cancel a child asked for takes no order of another child.              *)
CancelsTakeOwnOrders ==
  \A e \in event_queue : e.kind = "cancel" =>
    \A o \in pending_orders : o.id = e.id => o.strat = asked[e.uid]
=============================================================================
