------------------------------- MODULE Engine -------------------------------
(***************************************************************************)
(* The event loop of a backtest: Engine (engine/runner.rs), its EventQueue *)
(* (common/event.rs), and the Context through which a strategy acts        *)
(* (common/context.rs).  The strategy is any program: inside a callback it *)
(* may call the Context API as it likes, up to MaxCalls calls in a run.    *)
(*                                                                         *)
(* The loop is single-threaded.  What makes it hard is the order of things *)
(* inside one timestamp: orders, cancels, fills and callbacks of the same  *)
(* timestamp are popped from a heap that orders by timestamp only, and the *)
(* buffer of the Context reaches that heap only at certain points.         *)
(*                                                                         *)
(* Every event and order carries uid, an identity the program does not     *)
(* have: order ids are not unique.  Heap, buffer and pending list are sets *)
(* of such events; none of the three orders events of equal timestamp.     *)
(***************************************************************************)
EXTENDS FillModel, Ledger, Allocator

CONSTANTS
  Times,        (* timestamps of market_timeline() in hours and bounds       *)
  DayOf,        (* local_date_key of each of them                            *)
  OrderInputs,  (* [inst, side, type, price, qty] a strategy may ask for     *)
  PlaceDelays,  (* timestamp asked for, relative to now                      *)
  AlarmDelays,  (* the same for alarms                                       *)
  MaxCalls,     (* bound: Context calls of the strategy in one run           *)
  Default       (* the strategy id a Context starts with                     *)

ASSUME EngineAssumption ==
  /\ DOMAIN Bars = Instruments
  /\ IsFiniteSet(Times) /\ Times # {} /\ Times \subseteq Nat \ {0}
  /\ DayOf \in [Times -> Nat \ {0}]
  /\ \A t, u \in Times : t <= u => DayOf[t] <= DayOf[u]
  /\ OrderInputs \subseteq [inst : Instruments, side : Sides,
                            type : OrderTypes, price : Int, qty : Int]
  /\ PlaceDelays \subseteq Int /\ AlarmDelays \subseteq Int
  /\ MaxCalls \in Nat
  /\ Default \in Strategies

VARIABLES
  pc,                (* where run() is                                      *)
  cb,                (* the strategy callback run() is in, or was last in   *)
  phase,             (* 1: due events before the market event, 2: after it  *)
  cur,               (* the event taken from the queue, during its callback *)
  step,              (* the timeline timestamp of this iteration, 0 at first*)
  day,               (* current_day, 0 for None                             *)
  now,               (* Context.current_timestamp                           *)
  active,            (* Context.active_strategy_id                          *)
  event_queue,       (* Engine.event_queue                                  *)
  event_buffer,      (* Context.event_buffer                                *)
  pending_orders,    (* Engine.pending_orders                               *)
  order_events,      (* Context.order_events                                *)
  next_alarm_id,     (* Context.next_alarm_id                               *)
  cancelled,         (* uids a cancel took from pending_orders (history)    *)
  born               (* uids given out (model only), also counts the calls  *)

loopVars == <<pc, cb, phase, cur, step, day>>
clockVars == <<now, active>>
orderVars == <<event_queue, event_buffer, pending_orders, order_events,
               next_alarm_id, cancelled, born>>
vars == <<loopVars, clockVars, orderVars, ledgerVars>>

NoEvent == [kind |-> "none"]

LifeCallbacks == {"init", "on_start", "after_close", "on_date_change",
                  "before_open", "on_stop"}
EventCallbacks == {"on_alarm", "on_order_event", "on_order_rejected",
                   "on_fill"}
IntradayCallbacks == {"on_market_event"} \cup EventCallbacks

Uids(orders) == {o.uid : o \in orders}

-----------------------------------------------------------------------------
(* The calls of the strategy on its Context, inside a callback.             *)

MayCall == pc = "callback" /\ born < MaxCalls

Emit(e) == event_buffer' = event_buffer \cup {e}

(* estimate_order_notional: a market order at the present close, 0 without. *)
EstimateNotional(in) ==
  LET price == IF in.type # "market" THEN in.price
               ELSE IF HasBar(in.inst, now) THEN BarAtOrBefore(in.inst, now).close
               ELSE 0
  IN  Abs(in.qty) * price

(* The first check of place_order_at that fails; "none" if all pass.        *)
AlreadyBreached(in) ==
  /\ in.type = "stop"
  /\ HasBar(in.inst, now)
  /\ Reaches(in, BarAtOrBefore(in.inst, now))

(* Mutant: the quantity is not checked.                                     *)
RejectReasonAnyQty(in) ==
  IF in.side = "buy" /\ EstimateNotional(in) > cash THEN "capital"
  ELSE IF ~AllocatorAccepts(active, strategy_open_notional[active],
                            EstimateNotional(in)) THEN "allocator"
  ELSE IF AlreadyBreached(in) THEN "breached"
  ELSE "none"

RejectReason(in) ==
  IF in.qty <= 0 THEN "quantity"
  ELSE IF in.side = "buy" /\ EstimateNotional(in) > cash THEN "capital"
  ELSE IF ~AllocatorAccepts(active, strategy_open_notional[active],
                            EstimateNotional(in)) THEN "allocator"
  ELSE IF AlreadyBreached(in) THEN "breached"
  ELSE "none"

(* generate_order_id: seconds * 1000 + length of the buffer.                *)
GenerateOrderId == now * 1000 + Cardinality(event_buffer)

NewOrder(in, ts) ==
  [uid |-> born + 1, id |-> GenerateOrderId, inst |-> in.inst,
   side |-> in.side, type |-> in.type, price |-> in.price, qty |-> in.qty,
   ts |-> ts, at |-> now, strat |-> active]

PlaceAccepted(in, ts) ==
  /\ RejectReason(in) = "none"
  /\ LET o == NewOrder(in, ts)
     IN  /\ order_events' = order_events \cup {o}
         /\ Emit([kind |-> "order", uid |-> o.uid, ts |-> ts, order |-> o])

PlaceRejected(in, ts) ==
  /\ RejectReason(in) # "none"
  /\ Emit([kind |-> "rejection", uid |-> born + 1, ts |-> ts, inst |-> in.inst,
           side |-> in.side, qty |-> in.qty, strat |-> active,
           reason |-> RejectReason(in)])
  /\ UNCHANGED order_events

PlaceOrderAt(in, ts) ==
  /\ MayCall
  /\ PlaceAccepted(in, ts) \/ PlaceRejected(in, ts)
  /\ born' = born + 1
  /\ UNCHANGED <<loopVars, clockVars, event_queue, pending_orders,
                 next_alarm_id, cancelled, ledgerVars>>

(* resting and intraday are history: what the strategy was cancelling.      *)
CancelOrder(id) ==
  /\ MayCall
  /\ id # 0
  /\ Emit([kind |-> "cancel", uid |-> born + 1, ts |-> now, id |-> id,
           resting |-> Uids({o \in pending_orders : o.id = id}),
           intraday |-> cb \in IntradayCallbacks])
  /\ born' = born + 1
  /\ UNCHANGED <<loopVars, clockVars, event_queue, pending_orders,
                 order_events, next_alarm_id, cancelled, ledgerVars>>

ScheduleAlarmAt(ts) ==
  /\ MayCall
  /\ Emit([kind |-> "alarm", uid |-> born + 1, ts |-> ts, strat |-> active,
           alarm |-> next_alarm_id])
  /\ next_alarm_id' = next_alarm_id + 1
  /\ born' = born + 1
  /\ UNCHANGED <<loopVars, clockVars, event_queue, pending_orders,
                 order_events, cancelled, ledgerVars>>

(* Costs no call: PortfolioStrategy makes it before each child's callback.  *)
SetStrategyId(s) ==
  /\ pc = "callback"
  /\ active' = s
  /\ UNCHANGED <<loopVars, now, orderVars, ledgerVars>>

ContextCall ==
  \/ \E in \in OrderInputs, d \in PlaceDelays : PlaceOrderAt(in, now + d)
  \/ \E o \in order_events : CancelOrder(o.id)
  \/ \E d \in AlarmDelays : ScheduleAlarmAt(now + d)
  \/ \E s \in Strategies : SetStrategyId(s)

-----------------------------------------------------------------------------
(* run(), outside the timestamps *)

Enter(callback) == pc' = "callback" /\ cb' = callback
Resume(place) == pc' = place /\ cb' = "none"

In(callback) == pc = "callback" /\ cb = callback

First(T) == CHOOSE t \in T : \A u \in T : t <= u

(* Engine::init returns and run() sets the clock to the first timestamp.    *)
BeginRun ==
  /\ In("init")
  /\ now' = First(Times)
  /\ Enter("on_start")
  /\ UNCHANGED <<phase, cur, step, day, active, orderVars, ledgerVars>>

(* The lifecycle callbacks that only lead to the next point of run().       *)
ReturnLife ==
  /\ \/ In("on_start") /\ Resume("next")
     \/ In("after_close") /\ phase = 3 /\ Enter("on_stop")
     \/ In("after_close") /\ phase # 3 /\ Enter("on_date_change")
     \/ In("on_date_change") /\ Enter("before_open")
     \/ In("before_open") /\ Resume("due")
     \/ In("on_stop") /\ Resume("done")
  /\ day' = IF cb = "before_open" THEN DayOf[step] ELSE day
  /\ UNCHANGED <<phase, cur, step, clockVars, orderVars, ledgerVars>>

Later == {t \in Times : t > step}

(* The next timestamp; a new day first closes the day before, under the     *)
(* clock of the new one.                                                    *)
NextTimestamp ==
  /\ pc = "next" /\ Later # {}
  /\ step' = First(Later)
  /\ now' = step'
  /\ phase' = 1
  /\ IF day = DayOf[step'] THEN Resume("due")
     ELSE Enter(IF day = 0 THEN "on_date_change" ELSE "after_close")
  /\ UNCHANGED <<cur, day, active, orderVars, ledgerVars>>

EndLoop ==
  /\ pc = "next" /\ Later = {}
  /\ phase' = 3
  /\ Enter("after_close")
  /\ UNCHANGED <<cur, step, day, clockVars, orderVars, ledgerVars>>

-----------------------------------------------------------------------------
(* process_due_non_market_events: pop, dispatch, then drain the buffer.     *)

FillOf(o, t) ==
  [of |-> o.uid, id |-> o.id, inst |-> o.inst, side |-> o.side,
   qty |-> o.qty, price |-> FillPrice(o, t), fee |-> 0, ts |-> t,
   strat |-> o.strat]

(* Mutants: a trade carries the time of its order, or the strategy that is  *)
(* active when the order matches.                                           *)
FillEventAtOrder(o, t) ==
  [kind |-> "fill", uid |-> o.uid, ts |-> t,
   fill |-> [FillOf(o, t) EXCEPT !.ts = o.ts]]
FillEventOfActive(o, t) ==
  [kind |-> "fill", uid |-> o.uid, ts |-> t,
   fill |-> [FillOf(o, t) EXCEPT !.strat = active]]

FillEvent(o, t) ==
  [kind |-> "fill", uid |-> o.uid, ts |-> t, fill |-> FillOf(o, t)]

(* Mutant: any due event may be popped, not the earliest.                   *)
DueInAnyOrder == {e \in event_queue : e.ts <= step}

(* Equal timestamps compare Equal: any earliest event may be popped.        *)
Due == {e \in event_queue : /\ e.ts <= step
                            /\ \A f \in event_queue : e.ts <= f.ts}

(* Mutant: the event stays in the queue.                                    *)
Peek(e) == pc = "due" /\ e \in Due /\ UNCHANGED event_queue

Pop(e) == /\ pc = "due" /\ e \in Due
          /\ event_queue' = event_queue \ {e}

(* Mutant: what is not yet due is dropped.                                  *)
CollectDue(queue) ==
  /\ event_queue' = queue \cup {e \in event_buffer : e.ts <= now}
  /\ event_buffer' = {}

(* collect_events, pushed on top of what the handler itself pushed.         *)
Collect(queue) == /\ event_queue' = queue \cup event_buffer
                  /\ event_buffer' = {}

DispatchAlarm(e) ==
  /\ e.kind = "alarm" /\ Pop(e)
  /\ cur' = e /\ active' = e.strat
  /\ Enter("on_alarm")
  /\ UNCHANGED <<phase, step, day, now, event_buffer, pending_orders,
                 order_events, next_alarm_id, cancelled, born, ledgerVars>>

DispatchRejection(e) ==
  /\ e.kind = "rejection" /\ Pop(e)
  /\ cur' = e /\ active' = e.strat
  /\ Enter("on_order_rejected")
  /\ UNCHANGED <<phase, step, day, now, event_buffer, pending_orders,
                 order_events, next_alarm_id, cancelled, born, ledgerVars>>

DispatchOrder(e) ==
  /\ e.kind = "order" /\ Pop(e)
  /\ cur' = e
  /\ Enter("on_order_event")
  /\ UNCHANGED <<phase, step, day, clockVars, event_buffer, pending_orders,
                 order_events, next_alarm_id, cancelled, born, ledgerVars>>

DispatchFill(e) ==
  /\ e.kind = "fill" /\ Pop(e)
  /\ cur' = e
  /\ OnFill(e.fill)
  /\ Enter("on_fill")
  /\ UNCHANGED <<phase, step, day, clockVars, event_buffer, pending_orders,
                 order_events, next_alarm_id, cancelled, born>>

(* A cancel has no callback: it takes every pending order with its id.      *)
DispatchCancel(e) ==
  /\ pc = "due" /\ e \in Due /\ e.kind = "cancel"
  /\ LET taken == {o \in pending_orders : o.id = e.id}
     IN  /\ pending_orders' = pending_orders \ taken
         /\ cancelled' = cancelled \cup Uids(taken)
  /\ Collect(event_queue \ {e})
  /\ UNCHANGED <<loopVars, clockVars, order_events, next_alarm_id, born,
                 ledgerVars>>

(* on_alarm, on_order_rejected and on_fill return.                          *)
ReturnEvent ==
  /\ In("on_alarm") \/ In("on_order_rejected") \/ In("on_fill")
  /\ Collect(event_queue)
  /\ cur' = NoEvent
  /\ Resume("due")
  /\ UNCHANGED <<phase, step, day, clockVars, pending_orders, order_events,
                 next_alarm_id, cancelled, born, ledgerVars>>

(* A handled order matches at its own timestamp, or is put to rest.         *)
Match(o) ==
  /\ Collect(event_queue \cup {FillEvent(o, o.ts)})
  /\ UNCHANGED pending_orders

Rest(o) ==
  /\ Collect(event_queue)
  /\ pending_orders' = pending_orders \cup {o}

(* Mutants: an order that does not match at once is forgotten; one that     *)
(* does is put to rest as well; none is matched before the next bar.        *)
MatchOrForget(o) ==
  IF CanFill(o, o.ts) THEN Match(o)
                      ELSE Collect(event_queue) /\ UNCHANGED pending_orders
MatchAndRest(o) ==
  IF CanFill(o, o.ts)
    THEN /\ Collect(event_queue \cup {FillEvent(o, o.ts)})
         /\ pending_orders' = pending_orders \cup {o}
    ELSE Rest(o)
RestAlways(o) == Rest(o)

MatchOrRest(o) == IF CanFill(o, o.ts) THEN Match(o) ELSE Rest(o)

(* on_order_event returns; only then is the order matched.                  *)
ReturnOrder ==
  /\ In("on_order_event")
  /\ MatchOrRest(cur.order)
  /\ cur' = NoEvent
  /\ Resume("due")
  /\ UNCHANGED <<phase, step, day, clockVars, order_events, next_alarm_id,
                 cancelled, born, ledgerVars>>

-----------------------------------------------------------------------------
(* handle_market_event: resting orders are matched and their fills queued   *)
(* before the strategy sees the bar, and booked after it.                   *)

MatchResting ==
  LET matched == {o \in pending_orders : CanFill(o, step)}
  IN  /\ pending_orders' = pending_orders \ matched
      /\ event_queue' = event_queue \cup {FillEvent(o, step) : o \in matched}

(* Mutant: the market event comes before the events of its time.            *)
MarketFirst == pc = "due" /\ phase = 1

(* The first draining of due events is over: the market event comes.        *)
MarketReady == pc = "due" /\ phase = 1 /\ Due = {}

HandleMarketEvent ==
  /\ MarketReady
  /\ MatchResting
  /\ Enter("on_market_event")
  /\ UNCHANGED <<phase, cur, step, day, clockVars, event_buffer,
                 order_events, next_alarm_id, cancelled, born, ledgerVars>>

(* Mutant: events are not drained a second time after the market event.     *)
ReturnMarketToNext ==
  /\ In("on_market_event")
  /\ Collect(event_queue)
  /\ phase' = 2
  /\ Resume("next")
  /\ UNCHANGED <<cur, step, day, clockVars, pending_orders, order_events,
                 next_alarm_id, cancelled, born, ledgerVars>>

ReturnMarket ==
  /\ In("on_market_event")
  /\ Collect(event_queue)
  /\ phase' = 2
  /\ Resume("due")
  /\ UNCHANGED <<cur, step, day, clockVars, pending_orders, order_events,
                 next_alarm_id, cancelled, born, ledgerVars>>

EndOfStep ==
  /\ pc = "due" /\ phase = 2 /\ Due = {}
  /\ Resume("next")
  /\ UNCHANGED <<phase, cur, step, day, clockVars, orderVars, ledgerVars>>

-----------------------------------------------------------------------------
Init ==
  /\ pc = "callback" /\ cb = "init"
  /\ phase = 1 /\ cur = NoEvent /\ step = 0 /\ day = 0
  /\ now = 0 /\ active = Default
  /\ event_queue = {} /\ event_buffer = {} /\ pending_orders = {}
  /\ order_events = {} /\ cancelled = {}
  /\ next_alarm_id = 1 /\ born = 0
  /\ LedgerInit

Dispatch == \E e \in event_queue :
  \/ DispatchAlarm(e)
  \/ DispatchRejection(e)
  \/ DispatchOrder(e)
  \/ DispatchFill(e)
  \/ DispatchCancel(e)

Run ==
  \/ BeginRun
  \/ ReturnLife
  \/ NextTimestamp
  \/ EndLoop
  \/ Dispatch
  \/ ReturnEvent
  \/ ReturnOrder
  \/ HandleMarketEvent
  \/ ReturnMarket
  \/ EndOfStep

(* The run is over; nothing happens any more.                               *)
Terminating == pc = "done" /\ UNCHANGED vars

Next == ContextCall \/ Run \/ Terminating

(* One thread runs the loop to its end, and every callback returns.         *)
Spec == Init /\ [][Next]_vars /\ WF_vars(Run)
-----------------------------------------------------------------------------
(* Where an order is.                                                       *)

OrdersIn(events) == {e.uid : e \in {f \in events : f.kind = "order"}}
FillsIn(events) == {e.uid : e \in {f \in events : f.kind = "fill"}}

Announced == OrdersIn(event_buffer \cup event_queue \cup {cur})
Resting == Uids(pending_orders)
Matched == FillsIn(event_queue)
Booked == {trades[n].of : n \in DOMAIN trades}

Orders ==
  [uid : Nat \ {0}, id : Nat, inst : Instruments, side : Sides,
   type : OrderTypes, price : Int, qty : Nat \ {0}, ts : Int, at : Nat,
   strat : Strategies]

Events ==
  [kind : {"order"}, uid : Nat \ {0}, ts : Int, order : Orders]
    \cup [kind : {"rejection"}, uid : Nat \ {0}, ts : Int,
          inst : Instruments, side : Sides, qty : Int, strat : Strategies,
          reason : {"quantity", "capital", "allocator", "breached"}]
    \cup [kind : {"cancel"}, uid : Nat \ {0}, ts : Int, id : Nat,
          resting : SUBSET Nat, intraday : BOOLEAN]
    \cup [kind : {"alarm"}, uid : Nat \ {0}, ts : Int, strat : Strategies,
          alarm : Nat]
    \cup [kind : {"fill"}, uid : Nat \ {0}, ts : Int, fill : Fills]

(* The state of run(), of the queue and of the Context have their types.    *)
TypeOK ==
  /\ pc \in {"callback", "next", "due", "done"}
  /\ cb \in LifeCallbacks \cup IntradayCallbacks \cup {"none"}
  /\ phase \in 1 .. 3
  /\ cur \in Events \cup {NoEvent}
  /\ step \in Times \cup {0} /\ now \in Times \cup {0} /\ day \in Nat
  /\ active \in Strategies
  /\ event_queue \subseteq Events
  /\ event_buffer \subseteq Events /\ IsFiniteSet(event_buffer)
  /\ pending_orders \subseteq Orders
  /\ order_events \subseteq Orders
  /\ next_alarm_id \in Nat
  /\ cancelled \subseteq Nat
  /\ born \in Nat
  /\ LedgerTypeOK

(* An accepted order is never lost and never duplicated: at any moment it   *)
(* is on its way to the engine, resting, matched with its fill queued,      *)
(* booked, or cancelled, in exactly one of these, and booked at most once.  *)
OrderConservation ==
  LET places == <<Announced, Resting, Matched, Booked, cancelled>>
  IN  /\ Uids(order_events) = UNION {places[k] : k \in 1 .. 5}
      /\ \A j, k \in 1 .. 5 : j # k => places[j] \cap places[k] = {}
      /\ \A m, n \in DOMAIN trades :
           trades[m].of = trades[n].of => m = n

(* Time advances only when nothing is left to do at the current timestamp:  *)
(* no event due and none waiting in the Context's buffer.                   *)
StepDrained ==
  pc = "next" /\ step # 0 =>
    /\ event_buffer = {}
    /\ \A e \in event_queue : e.ts > now

(* An order that could trade at a bar does not rest through it, whether it  *)
(* was resting before, or was placed in any callback of that timestamp.     *)
(* (Not so for an order stamped before the moment it was placed, and for    *)
(* one placed by init, before the clock is set.)                            *)
NoMissedFill ==
  pc = "next" /\ step # 0 =>
    \A o \in pending_orders : o.at # 0 /\ o.ts >= o.at => ~CanFill(o, now)

(* Every trade is justified: it is the whole of an accepted order, at a     *)
(* time not before the order's and not after the present, at a bar known    *)
(* then which reaches the order, at the price of the fill model.            *)
TradesJustified ==
  \A n \in DOMAIN trades :
    LET t == trades[n]
    IN  /\ t.ts <= now
        /\ \E o \in order_events : /\ t.of = o.uid
                                   /\ CanFill(o, t.ts)
                                   /\ t = FillOf(o, t.ts)

(* The trade log is chronological (reports replay it in order), as long as  *)
(* no order is stamped before the moment it was placed.                     *)
TradesInOrder ==
  (\A o \in order_events : o.ts >= o.at) =>
    \A m, n \in DOMAIN trades : m < n => trades[m].ts <= trades[n].ts

(* A cancel asked for in an intraday callback takes effect: the orders with *)
(* its id that rested when it was asked for do not trade; they keep resting *)
(* until the cancel is handled, which is before time advances.              *)
CancelHonoured ==
  \A e \in event_buffer \cup event_queue :
    e.kind = "cancel" /\ e.intraday => e.resting \subseteq Resting \cup cancelled

-----------------------------------------------------------------------------
(* What the documents of the repository say, and the code does not do.      *)

(* generate_order_id: "Simple distinct ID generation".                      *)
OrderIdsDistinct ==
  \A o, p \in order_events : o.id = p.id => o.uid = p.uid

(* After an allocator rejection, "close existing positions": an order that  *)
(* closes is not itself rejected by the allocator.                          *)
ClosingNotRejected ==
  \A e \in event_buffer :
    e.kind = "rejection" /\ e.reason = "allocator" =>
      LET held == strategy_positions[e.strat][e.inst]
      IN  Abs(held + SignedQty(e)) >= Abs(held)

-----------------------------------------------------------------------------
(* The run ends, whatever the strategy asks for in its bounded calls.       *)
Terminates == <>(pc = "done")

(* What the strategy asks for reaches it: an alarm rings, an order is       *)
(* announced, a rejection is reported and a fill booked and reported, each  *)
(* once its time is within the run.  (Not so for what is asked for in the   *)
(* last after_close, or in on_stop: no event is handled after the loop.)    *)
Asked(kind, u) ==
  /\ phase # 3
  /\ \E e \in event_buffer \cup event_queue :
       e.kind = kind /\ e.uid = u /\ \E t \in Times : e.ts <= t

EventsDelivered ==
  \A u \in 1 .. MaxCalls, kind \in {"alarm", "order", "rejection", "fill"} :
    Asked(kind, u) ~> (pc = "callback" /\ cur.kind = kind /\ cur.uid = u)
=============================================================================
