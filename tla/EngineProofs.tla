---------------------------- MODULE EngineProofs ----------------------------
(***************************************************************************)
(* The engine, for any data, any strategy and any number of calls.  First  *)
(* its types, and that no accepted order is lost, duplicated or booked     *)
(* twice; then what the event loop promises about time and orders: time    *)
(* moves on when nothing is due, trades are justified and in order,        *)
(* cancels take effect, and no order rests through a bar that reaches it.  *)
(***************************************************************************)
EXTENDS EngineRefinement, LedgerProofs, FiniteSetTheorems, WellFoundedInduction

-----------------------------------------------------------------------------
(* Any program: the calls a strategy can make, with any arguments of their  *)
(* types.  Next, the portfolio and the shipped strategies each make some of *)
(* them, so what is proved of AnyNext holds of them all.                    *)

OrderArgs == [inst : Instruments, side : Sides, type : OrderTypes,
              price : Int, qty : Int]

AnyCall ==
  \/ \E in \in OrderArgs, ts \in Int : PlaceOrderAt(in, ts)
  \/ \E id \in Nat : CancelOrder(id)
  \/ \E ts \in Int : ScheduleAlarmAt(ts)
  \/ \E s \in Strategies : SetStrategyId(s)

AnyNext == AnyCall \/ Run \/ Terminating

-----------------------------------------------------------------------------
(* Types *)

LEMMA BarIsBar ==
  ASSUME NEW i \in Instruments, NEW t \in Int, HasBar(i, t)
  PROVE  BarAtOrBefore(i, t) \in [low : Int, high : Int, close : Int]
<1>1. BarTimes(i, t) \in SUBSET DOMAIN Bars[i]
  BY DEF BarTimes
<1>2. \E u \in BarTimes(i, t) : \A v \in BarTimes(i, t) : v <= u
  BY <1>1, BarsAssumption, EngineAssumption DEF HasBar
<1>3. BarTime(i, t) \in DOMAIN Bars[i]
  BY <1>1, <1>2 DEF BarTime
<1>. QED
  BY <1>3, FillModelAssumption, EngineAssumption DEF BarAtOrBefore

(* A nonempty set of timestamps has an earliest one.                        *)
LEMMA FirstIsElement ==
  ASSUME NEW T \in SUBSET Times, T # {}
  PROVE  First(T) \in T /\ \A u \in T : First(T) <= u
<1>1. T \in SUBSET Nat
  BY EngineAssumption
<1>2. \E t \in T : \A u \in T : ~(<<u, t>> \in OpToRel(<, Nat))
  BY <1>1, NatLessThanWellFounded, WFMin, Zenon
<1>3. PICK t \in T : \A u \in T : ~(<<u, t>> \in OpToRel(<, Nat))
  BY <1>2
<1>4. \A u \in T : t <= u
  <2>1. TAKE u \in T
  <2>2. ~(<<u, t>> \in OpToRel(<, Nat))
    BY <1>3
  <2>3. ~(u < t)
    BY <1>1, <2>2 DEF OpToRel
  <2>. QED
    BY <1>1, <2>3
<1>. QED
  BY <1>4 DEF First

LEMMA FillOfType ==
  ASSUME NEW o \in Orders, NEW t \in Int, CanFill(o, t)
  PROVE  /\ FillOf(o, t) \in Fills
         /\ FillEvent(o, t) \in Events
<1>1. /\ o.uid \in Nat \ {0} /\ o.id \in Nat /\ o.inst \in Instruments
      /\ o.side \in {"buy", "sell"} /\ o.price \in Int
      /\ o.qty \in Nat \ {0} /\ o.strat \in Strategies
  BY DEF Orders, Sides
<1>2. BarAtOrBefore(o.inst, t).close \in Int
  BY <1>1, BarIsBar DEF CanFill
<1>3. FillPrice(o, t) \in Int
  BY <1>1, <1>2, FillModelAssumption DEF FillPrice, Slipped
<1>4. FillOf(o, t) \in Fills
  BY <1>1, <1>3 DEF FillOf, Fills
<1>. QED
  BY <1>1, <1>4 DEF FillEvent, Events

(* TypeOK in three parts, with what ties the callback to the event in hand  *)
(* and to the timeline.                                                     *)
LoopOK ==
  /\ pc \in {"callback", "next", "due", "done"}
  /\ cb \in LifeCallbacks \cup IntradayCallbacks \cup {"none"}
  /\ phase \in 1 .. 3
  /\ cur \in Events \cup {NoEvent}
  /\ step \in Times \cup {0} /\ now \in Times \cup {0} /\ day \in Nat
  /\ active \in Strategies
  /\ cur.kind = "order" <=> cb = "on_order_event"
  /\ cb \in {"on_date_change", "before_open"} => step # 0
  /\ cb = "after_close" /\ phase # 3 => step # 0
  /\ pc = "callback" <=> cb # "none"

QueuesOK ==
  /\ event_queue \subseteq Events
  /\ event_buffer \subseteq Events /\ IsFiniteSet(event_buffer)
  /\ pending_orders \subseteq Orders
  /\ order_events \subseteq Orders
  /\ next_alarm_id \in Nat
  /\ cancelled \subseteq Nat
  /\ born \in Nat

TypeInv == LoopOK /\ QueuesOK /\ LedgerTypeOK

LEMMA TypeInvImpliesTypeOK == TypeInv => TypeOK
  BY DEF TypeInv, LoopOK, QueuesOK, TypeOK

LEMMA InitTypeInv == Init => TypeInv
<1>. SUFFICES ASSUME Init PROVE TypeInv
  OBVIOUS
<1>1. LedgerTypeOK
  BY LedgerInitType DEF Init
<1>2. QueuesOK
  BY FS_EmptySet DEF Init, QueuesOK
<1>3. LoopOK
  BY EngineAssumption DEF Init, LoopOK, NoEvent, LifeCallbacks
<1>. QED
  BY <1>1, <1>2, <1>3 DEF TypeInv

LEMMA LedgerUnchanged ==
  ASSUME LedgerTypeOK, UNCHANGED ledgerVars
  PROVE  LedgerTypeOK'
  BY DEF LedgerTypeOK, ledgerVars, accountVars, exposureVars

(* What a strategy can put into the buffer is an event, and one more event  *)
(* leaves the buffer finite.                                                *)
LEMMA EmitType ==
  ASSUME QueuesOK, NEW e \in Events, Emit(e)
  PROVE  event_buffer' \subseteq Events /\ IsFiniteSet(event_buffer')
<1>1. IsFiniteSet(event_buffer \cup {e})
  BY FS_AddElement DEF QueuesOK
<1>. QED
  BY <1>1 DEF Emit, QueuesOK

LEMMA NewOrderType ==
  ASSUME TypeInv, NEW in \in OrderArgs, NEW ts \in Int, in.qty > 0
  PROVE  NewOrder(in, ts) \in Orders
<1>1. /\ in.inst \in Instruments /\ in.side \in Sides
      /\ in.type \in OrderTypes /\ in.price \in Int /\ in.qty \in Nat \ {0}
  BY DEF OrderArgs
<1>2. Cardinality(event_buffer) \in Nat
  BY FS_CardinalityType DEF TypeInv, QueuesOK
<1>3. now \in Nat /\ born \in Nat /\ active \in Strategies
  BY EngineAssumption DEF TypeInv, LoopOK, QueuesOK
<1>4. GenerateOrderId \in Nat /\ born + 1 \in Nat \ {0}
  BY <1>2, <1>3 DEF GenerateOrderId
<1>. QED
  BY <1>1, <1>3, <1>4 DEF NewOrder, Orders

LEMMA PlaceType ==
  ASSUME TypeInv, NEW in \in OrderArgs, NEW ts \in Int,
         PlaceOrderAt(in, ts)
  PROVE  TypeInv'
<1>. USE DEF PlaceOrderAt
<1>1. LedgerTypeOK'
  BY LedgerUnchanged DEF TypeInv
<1>2. LoopOK'
  BY DEF TypeInv, LoopOK, loopVars, clockVars
<1>3. born + 1 \in Nat \ {0} /\ active \in Strategies
  BY DEF TypeInv, LoopOK, QueuesOK
<1>4. /\ in.inst \in Instruments /\ in.side \in Sides /\ in.qty \in Int
  BY DEF OrderArgs
<1>5. /\ event_buffer' \subseteq Events /\ IsFiniteSet(event_buffer')
      /\ order_events' \subseteq Orders
  <2>1. CASE PlaceAccepted(in, ts)
    <3>. DEFINE o == NewOrder(in, ts)
                e == [kind |-> "order", uid |-> o.uid, ts |-> ts, order |-> o]
    <3>1. in.qty > 0
      BY <2>1, <1>4 DEF PlaceAccepted, RejectReason
    <3>2. o \in Orders
      BY <3>1, NewOrderType
    <3>3. e \in Events
      BY <3>2, <1>3 DEF Events, NewOrder
    <3>4. order_events' = order_events \cup {o} /\ Emit(e)
      BY <2>1 DEF PlaceAccepted
    <3>. HIDE DEF o, e
    <3>. QED
      BY <3>2, <3>3, <3>4, EmitType DEF TypeInv, QueuesOK
  <2>2. CASE PlaceRejected(in, ts)
    <3>. DEFINE e == [kind |-> "rejection", uid |-> born + 1, ts |-> ts,
                      inst |-> in.inst, side |-> in.side, qty |-> in.qty,
                      strat |-> active, reason |-> RejectReason(in)]
    <3>1. RejectReason(in) \in {"quantity", "capital", "allocator", "breached"}
      BY <2>2 DEF PlaceRejected, RejectReason
    <3>2. e \in Events
      BY <3>1, <1>3, <1>4 DEF Events
    <3>3. Emit(e) /\ order_events' = order_events
      BY <2>2 DEF PlaceRejected
    <3>. HIDE DEF e
    <3>. QED
      BY <3>2, <3>3, EmitType DEF TypeInv, QueuesOK
  <2>. QED
    BY <2>1, <2>2
<1>6. QueuesOK'
  BY <1>3, <1>5 DEF TypeInv, QueuesOK
<1>. QED
  BY <1>1, <1>2, <1>6 DEF TypeInv

LEMMA CallType ==
  ASSUME TypeInv, AnyCall
  PROVE  TypeInv'
<1>. SUFFICES ASSUME TypeInv, AnyCall PROVE TypeInv'
  OBVIOUS
<1>1. now \in Int /\ born + 1 \in Nat \ {0} /\ active \in Strategies
  <2>1. now \in Int
    BY EngineAssumption DEF TypeInv, LoopOK
  <2>. QED
    BY <2>1 DEF TypeInv, LoopOK, QueuesOK
<1>2. ASSUME NEW in \in OrderArgs, NEW ts \in Int, PlaceOrderAt(in, ts)
      PROVE  TypeInv'
  BY <1>2, PlaceType
<1>3. ASSUME NEW id \in Nat, CancelOrder(id) PROVE TypeInv'
  <2>. DEFINE e == [kind |-> "cancel", uid |-> born + 1, ts |-> now,
                    id |-> id,
                    resting |-> Uids({p \in pending_orders : p.id = id}),
                    intraday |-> cb \in IntradayCallbacks]
  <2>1. Uids({p \in pending_orders : p.id = id}) \in SUBSET Nat
    BY DEF TypeInv, QueuesOK, Orders, Uids
  <2>2. e \in Events
    BY <1>1, <2>1 DEF Events
  <2>3. Emit(e)
    BY <1>3 DEF CancelOrder
  <2>. HIDE DEF e
  <2>4. event_buffer' \subseteq Events /\ IsFiniteSet(event_buffer')
    BY <2>2, <2>3, EmitType DEF TypeInv
  <2>. QED
    BY <1>1, <1>3, <2>4, LedgerUnchanged
       DEF TypeInv, CancelOrder, LoopOK, QueuesOK, loopVars, clockVars
<1>4. ASSUME NEW ts \in Int, ScheduleAlarmAt(ts) PROVE TypeInv'
  <2>. DEFINE e == [kind |-> "alarm", uid |-> born + 1, ts |-> ts,
                    strat |-> active, alarm |-> next_alarm_id]
  <2>1. e \in Events
    BY <1>1 DEF Events, TypeInv, QueuesOK
  <2>2. Emit(e)
    BY <1>4 DEF ScheduleAlarmAt
  <2>. HIDE DEF e
  <2>3. event_buffer' \subseteq Events /\ IsFiniteSet(event_buffer')
    BY <2>1, <2>2, EmitType DEF TypeInv
  <2>. QED
    BY <1>1, <1>4, <2>3, LedgerUnchanged
       DEF TypeInv, ScheduleAlarmAt, LoopOK, QueuesOK, loopVars, clockVars
<1>5. ASSUME NEW s \in Strategies, SetStrategyId(s) PROVE TypeInv'
  BY <1>1, <1>5, LedgerUnchanged
     DEF TypeInv, SetStrategyId, LoopOK, QueuesOK, loopVars, orderVars
<1>. QED
  BY <1>2, <1>3, <1>4, <1>5 DEF AnyCall

(* The points of run() outside the timestamps.                              *)
LEMMA LoopType ==
  ASSUME TypeInv, BeginRun \/ ReturnLife \/ NextTimestamp \/ EndLoop
                    \/ EndOfStep
  PROVE  TypeInv'
<1>. USE DEF Enter, Resume, In, LifeCallbacks, IntradayCallbacks,
             EventCallbacks
<1>1. LedgerTypeOK' /\ QueuesOK'
  BY LedgerUnchanged DEF TypeInv, QueuesOK, BeginRun, ReturnLife,
     NextTimestamp, EndLoop, EndOfStep, orderVars
<1>2. CASE BeginRun
  <2>1. now' \in Times
    BY <1>2, FirstIsElement, EngineAssumption DEF BeginRun
  <2>. QED
    BY <1>1, <1>2, <2>1 DEF TypeInv, LoopOK, BeginRun
<1>3. CASE ReturnLife
  <2>1. day' \in Nat
    BY <1>3, EngineAssumption DEF TypeInv, LoopOK, ReturnLife
  <2>. QED
    BY <1>1, <1>3, <2>1 DEF TypeInv, LoopOK, ReturnLife, clockVars
<1>4. CASE NextTimestamp
  <2>1. step' \in Times /\ now' \in Times
    BY <1>4, FirstIsElement DEF NextTimestamp, Later
  <2>2. step' # 0
    BY <2>1, EngineAssumption
  <2>. QED
    BY <1>1, <1>4, <2>1, <2>2 DEF TypeInv, LoopOK, NextTimestamp
<1>5. CASE EndLoop
  BY <1>1, <1>5 DEF TypeInv, LoopOK, EndLoop, clockVars
<1>6. CASE EndOfStep
  BY <1>1, <1>6 DEF TypeInv, LoopOK, EndOfStep, clockVars
<1>. QED
  BY <1>2, <1>3, <1>4, <1>5, <1>6

(* What an event of each kind carries.                                      *)
LEMMA EventFields ==
  ASSUME NEW e \in Events
  PROVE  /\ e.uid \in Nat \ {0} /\ e.ts \in Int
         /\ e.kind \in {"order", "rejection", "cancel", "alarm", "fill"}
         /\ e.kind = "order" => e.order \in Orders
         /\ e.kind = "fill" => e.fill \in Fills
         /\ e.kind \in {"rejection", "alarm"} => e.strat \in Strategies
  BY DEF Events

LEMMA CollectType ==
  ASSUME QueuesOK, NEW queue \in SUBSET Events, Collect(queue)
  PROVE  /\ event_queue' \subseteq Events
         /\ event_buffer' \subseteq Events /\ IsFiniteSet(event_buffer')
  BY FS_EmptySet DEF Collect, QueuesOK

(* Popping an event and entering its callback.                              *)
LEMMA DispatchType ==
  ASSUME TypeInv, Dispatch
  PROVE  TypeInv'
<1>. USE DEF Enter, LifeCallbacks, IntradayCallbacks, EventCallbacks, Pop
<1>1. PICK e \in event_queue :
        \/ DispatchAlarm(e) \/ DispatchRejection(e) \/ DispatchOrder(e)
        \/ DispatchFill(e) \/ DispatchCancel(e)
  BY DEF Dispatch
<1>2. e \in Events
  BY DEF TypeInv, QueuesOK
<1>3. CASE DispatchAlarm(e)
  BY <1>2, <1>3, EventFields, LedgerUnchanged
     DEF DispatchAlarm, TypeInv, LoopOK, QueuesOK
<1>4. CASE DispatchRejection(e)
  BY <1>2, <1>4, EventFields, LedgerUnchanged
     DEF DispatchRejection, TypeInv, LoopOK, QueuesOK
<1>5. CASE DispatchOrder(e)
  BY <1>2, <1>5, LedgerUnchanged
     DEF DispatchOrder, TypeInv, LoopOK, QueuesOK, clockVars
<1>6. CASE DispatchFill(e)
  <2>1. LedgerTypeOK'
    BY <1>2, <1>6, EventFields, OnFillType DEF DispatchFill, TypeInv
  <2>. QED
    BY <1>2, <1>6, <2>1
       DEF DispatchFill, TypeInv, LoopOK, QueuesOK, clockVars
<1>7. CASE DispatchCancel(e)
  <2>1. Uids({o \in pending_orders : o.id = e.id}) \subseteq Nat
    BY DEF TypeInv, QueuesOK, Orders, Uids
  <2>2. event_queue \ {e} \in SUBSET Events
    BY DEF TypeInv, QueuesOK
  <2>3. /\ event_queue' \subseteq Events
        /\ event_buffer' \subseteq Events /\ IsFiniteSet(event_buffer')
    BY <1>7, <2>2, CollectType DEF DispatchCancel, TypeInv
  <2>4. QueuesOK'
    BY <1>7, <2>1, <2>3 DEF DispatchCancel, TypeInv, QueuesOK
  <2>. QED
    BY <1>7, <2>4, LedgerUnchanged
       DEF DispatchCancel, TypeInv, LoopOK, loopVars, clockVars
<1>. QED
  BY <1>1, <1>3, <1>4, <1>5, <1>6, <1>7

(* Leaving a callback of the event loop, and the market event.              *)
LEMMA ReturnType ==
  ASSUME TypeInv, ReturnEvent \/ ReturnOrder \/ HandleMarketEvent
                    \/ ReturnMarket
  PROVE  TypeInv'
<1>. USE DEF Enter, Resume, In, LifeCallbacks, IntradayCallbacks,
             EventCallbacks
<1>1. event_queue \in SUBSET Events
  BY DEF TypeInv, QueuesOK
<1>2. NoEvent.kind # "order"
  BY DEF NoEvent
<1>3. CASE ReturnEvent
  <2>1. QueuesOK'
    BY <1>1, <1>3, CollectType DEF ReturnEvent, TypeInv, QueuesOK
  <2>. QED
    BY <1>2, <1>3, <2>1, LedgerUnchanged
       DEF ReturnEvent, TypeInv, LoopOK, clockVars
<1>4. CASE ReturnOrder
  <2>1. cur \in Events /\ cur.order \in Orders /\ cur.order.ts \in Int
    BY <1>2, <1>4, EventFields DEF ReturnOrder, TypeInv, LoopOK, Orders
  <2>2. QueuesOK'
    <3>1. CASE CanFill(cur.order, cur.order.ts)
      <4>1. FillEvent(cur.order, cur.order.ts) \in Events
        BY <2>1, <3>1, FillOfType
      <4>. QED
        BY <1>1, <1>4, <3>1, <4>1, CollectType
           DEF ReturnOrder, MatchOrRest, Match, TypeInv, QueuesOK
    <3>2. CASE ~CanFill(cur.order, cur.order.ts)
      BY <1>1, <1>4, <2>1, <3>2, CollectType
         DEF ReturnOrder, MatchOrRest, Rest, TypeInv, QueuesOK
    <3>. QED
      BY <3>1, <3>2
  <2>. QED
    BY <1>2, <1>4, <2>2, LedgerUnchanged
       DEF ReturnOrder, TypeInv, LoopOK, clockVars
<1>5. CASE HandleMarketEvent
  <2>1. step \in Int
    BY EngineAssumption DEF TypeInv, LoopOK
  <2>2. {FillEvent(o, step) : o \in {p \in pending_orders : CanFill(p, step)}}
          \subseteq Events
    BY <2>1, FillOfType DEF TypeInv, QueuesOK
  <2>3. QueuesOK'
    BY <1>5, <2>2 DEF HandleMarketEvent, MatchResting, TypeInv, QueuesOK
  <2>. QED
    BY <1>5, <2>3, LedgerUnchanged
       DEF HandleMarketEvent, MarketReady, TypeInv, LoopOK, clockVars
<1>6. CASE ReturnMarket
  <2>1. QueuesOK'
    BY <1>1, <1>6, CollectType DEF ReturnMarket, TypeInv, QueuesOK
  <2>. QED
    BY <1>6, <2>1, LedgerUnchanged
       DEF ReturnMarket, TypeInv, LoopOK, clockVars
<1>. QED
  BY <1>3, <1>4, <1>5, <1>6

LEMMA StepTypeInv == TypeInv /\ [AnyNext]_vars => TypeInv'
<1>. SUFFICES ASSUME TypeInv, [AnyNext]_vars PROVE TypeInv'
  OBVIOUS
<1>1. CASE AnyCall
  BY <1>1, CallType
<1>2. CASE Run
  BY <1>2, LoopType, DispatchType, ReturnType DEF Run
<1>3. CASE UNCHANGED vars
  BY <1>3, LedgerUnchanged
     DEF vars, loopVars, clockVars, orderVars, TypeInv, LoopOK, QueuesOK
<1>. QED
  BY <1>1, <1>2, <1>3 DEF AnyNext, Terminating

LEMMA NextIsAnyNext == TypeInv /\ [Next]_vars => [AnyNext]_vars
<1>. SUFFICES ASSUME TypeInv, ContextCall PROVE AnyCall
  BY DEF Next, AnyNext
<1>1. now \in Int /\ \A o \in order_events : o.id \in Nat
  BY EngineAssumption DEF TypeInv, LoopOK, QueuesOK, Orders
<1>2. ASSUME NEW in \in OrderInputs, NEW d \in PlaceDelays,
             PlaceOrderAt(in, now + d)
      PROVE  AnyCall
  <2>1. in \in OrderArgs /\ now + d \in Int
    BY <1>1, EngineAssumption DEF OrderArgs
  <2>. QED
    BY <1>2, <2>1 DEF AnyCall
<1>3. ASSUME NEW d \in AlarmDelays, ScheduleAlarmAt(now + d) PROVE AnyCall
  <2>1. now + d \in Int
    BY <1>1, EngineAssumption
  <2>. QED
    BY <1>3, <2>1 DEF AnyCall
<1>. QED
  BY <1>1, <1>2, <1>3 DEF ContextCall, AnyCall

(* Every variable of the engine keeps its type, whatever the data and       *)
(* whatever the strategy calls.                                             *)
THEOREM TypeCorrect == Spec => []TypeOK
<1>. QED
  BY InitTypeInv, NextIsAnyNext, StepTypeInv, TypeInvImpliesTypeOK, PTL DEF Spec

-----------------------------------------------------------------------------
(* The books change where a fill event is dispatched, and nowhere else.     *)

LEMMA StepBooks == TypeInv /\ [AnyNext]_vars => [LedgerNext]_ledgerVars
<1>. SUFFICES ASSUME TypeInv, [AnyNext]_vars PROVE [LedgerNext]_ledgerVars
  OBVIOUS
<1>1. CASE AnyCall
  BY <1>1 DEF AnyCall, PlaceOrderAt, CancelOrder, ScheduleAlarmAt, SetStrategyId
<1>2. CASE BeginRun \/ ReturnLife \/ NextTimestamp \/ EndLoop \/ EndOfStep
  BY <1>2 DEF BeginRun, ReturnLife, NextTimestamp, EndLoop, EndOfStep
<1>3. CASE ReturnEvent \/ ReturnOrder \/ HandleMarketEvent \/ ReturnMarket
  BY <1>3 DEF ReturnEvent, ReturnOrder, HandleMarketEvent, ReturnMarket
<1>4. CASE Dispatch
  <2>1. PICK e \in event_queue :
          \/ DispatchAlarm(e) \/ DispatchRejection(e) \/ DispatchOrder(e)
          \/ DispatchFill(e) \/ DispatchCancel(e)
    BY <1>4 DEF Dispatch
  <2>2. CASE DispatchFill(e)
    <3>1. e.fill \in Fills /\ OnFill(e.fill)
      BY <2>2, EventFields DEF DispatchFill, TypeInv, QueuesOK
    <3>. QED
      BY <3>1 DEF LedgerNext
  <2>3. CASE ~DispatchFill(e)
    BY <2>1, <2>3 DEF DispatchAlarm, DispatchRejection, DispatchOrder, DispatchCancel
  <2>. QED
    BY <2>2, <2>3
<1>5. CASE UNCHANGED vars
  BY <1>5 DEF vars
<1>. QED
  BY <1>1, <1>2, <1>3, <1>4, <1>5 DEF AnyNext, Run, Terminating

(* The engine implements the books: what it does to the account and to the  *)
(* exposures in Context is a sequence of fills, booked whole.               *)
THEOREM EngineKeepsBooks == Spec => LedgerSpec
<1>1. Init => LedgerInit
  BY DEF Init
<1>. QED
  BY <1>1, InitTypeInv, NextIsAnyNext, StepTypeInv, StepBooks, PTL
     DEF Spec, LedgerSpec

(* So all that holds of the books holds in every run of the engine: they    *)
(* agree with Account.trades, and money is neither made nor lost.           *)
THEOREM BooksOfARun ==
  Spec => /\ [](/\ BooksReplayTrades /\ RealizedAgrees
               /\ ExposureIsMarked /\ CostWithinTrades)
          /\ MoneyConserved
<1>. QED
  BY EngineKeepsBooks, LedgerBooks, LedgerMoney, PTL

-----------------------------------------------------------------------------
(* Conservation of orders.  OrderConservation is not inductive: that an     *)
(* order leaves one place when it enters the next needs the events to be    *)
(* whole, and each of them to be in one place of the loop.                  *)

OrderEvent(o) == [kind |-> "order", uid |-> o.uid, ts |-> o.ts, order |-> o]

UidsIdentify ==
  /\ \A o \in order_events : o.uid <= born
  /\ \A o, p \in order_events : o.uid = p.uid => o = p
  /\ pending_orders \subseteq order_events

EventsWhole ==
  /\ \A e \in event_buffer \cup event_queue \cup {cur} :
       e.kind = "order" => e.order \in order_events /\ e = OrderEvent(e.order)
  /\ \A e \in event_buffer : e.kind # "fill"
  /\ \A e \in event_queue : e.kind = "fill" => e.fill.of = e.uid
  /\ \A e, f \in event_queue :
       e.kind = "fill" /\ f.kind = "fill" /\ e.uid = f.uid => e = f

OneCopy ==
  /\ \A e \in event_queue : e.kind = "order" => e \notin event_buffer /\ e # cur
  /\ \A e \in event_buffer : e.kind = "order" => e # cur

(* U is split into five parts.                                              *)
Split(U, A, R, M, B, C) ==
  /\ U = A \cup R \cup M \cup B \cup C
  /\ A \cap R = {} /\ A \cap M = {} /\ A \cap B = {} /\ A \cap C = {}
  /\ R \cap M = {} /\ R \cap B = {} /\ R \cap C = {}
  /\ M \cap B = {} /\ M \cap C = {} /\ B \cap C = {}

OnePlace ==
  /\ Split(Uids(order_events), Announced, Resting, Matched, Booked, cancelled)
  /\ \A m, n \in DOMAIN trades : trades[m].of = trades[n].of => m = n

ConservationInv ==
  TypeInv /\ UidsIdentify /\ EventsWhole /\ OneCopy /\ OnePlace

LEMMA SplitIsConservation == OnePlace => OrderConservation
<1>. SUFFICES ASSUME OnePlace PROVE OrderConservation
  OBVIOUS
<1>. DEFINE places == <<Announced, Resting, Matched, Booked, cancelled>>
<1>1. UNION {places[k] : k \in 1 .. 5}
        = Announced \cup Resting \cup Matched \cup Booked \cup cancelled
  <2>1. 1 .. 5 = {1, 2, 3, 4, 5}
    OBVIOUS
  <2>2. {places[k] : k \in 1 .. 5}
          = {Announced, Resting, Matched, Booked, cancelled}
    BY <2>1
  <2>. QED
    BY <2>2
<1>2. \A j, k \in 1 .. 5 : j # k => places[j] \cap places[k] = {}
  <2>1. 1 .. 5 = {1, 2, 3, 4, 5}
    OBVIOUS
  <2>. QED
    BY <2>1 DEF OnePlace, Split
<1>. QED
  BY <1>1, <1>2 DEF OnePlace, Split, OrderConservation

LEMMA InitConservation == Init => ConservationInv
<1>. SUFFICES ASSUME Init PROVE ConservationInv
  OBVIOUS
<1>1. cur.kind = "none" /\ trades = <<>>
  BY DEF Init, NoEvent, LedgerInit
<1>2. UidsIdentify /\ EventsWhole /\ OneCopy
  BY <1>1 DEF Init, UidsIdentify, EventsWhole, OneCopy
<1>3. /\ Announced = {} /\ Resting = {} /\ Matched = {} /\ Booked = {}
      /\ cancelled = {} /\ Uids(order_events) = {}
  BY <1>1 DEF Init, Announced, Resting, Matched, Booked, OrdersIn, FillsIn, Uids
<1>4. OnePlace
  BY <1>1, <1>3 DEF OnePlace, Split
<1>. QED
  BY <1>2, <1>4, InitTypeInv DEF ConservationInv

(* Orders and fills of a set of events, piece by piece.                     *)
LEMMA EventSets ==
  ASSUME NEW S, NEW T
  PROVE  /\ OrdersIn(S \cup T) = OrdersIn(S) \cup OrdersIn(T)
         /\ FillsIn(S \cup T) = FillsIn(S) \cup FillsIn(T)
         /\ (\A e \in S : e.kind # "order") => OrdersIn(S) = {}
         /\ (\A e \in S : e.kind # "fill") => FillsIn(S) = {}
  BY DEF OrdersIn, FillsIn

LEMMA OneEvent ==
  ASSUME NEW e
  PROVE  /\ OrdersIn({e}) = IF e.kind = "order" THEN {e.uid} ELSE {}
         /\ FillsIn({e}) = IF e.kind = "fill" THEN {e.uid} ELSE {}
  BY DEF OrdersIn, FillsIn

LEMMA AnnouncedParts ==
  Announced = OrdersIn(event_buffer) \cup OrdersIn(event_queue)
                \cup OrdersIn({cur})
  BY DEF Announced, OrdersIn

(* A call of the strategy that is not an order changes no place.            *)
LEMMA QuietEmit ==
  ASSUME ConservationInv, NEW e, Emit(e), e.kind \notin {"order", "fill"},
         born' = born + 1,
         UNCHANGED <<event_queue, cur, pending_orders, order_events, trades,
                     cancelled>>
  PROVE  UidsIdentify' /\ EventsWhole' /\ OneCopy' /\ OnePlace'
<1>1. UidsIdentify'
  BY DEF ConservationInv, UidsIdentify, TypeInv, QueuesOK, Orders
<1>2. EventsWhole' /\ OneCopy'
  BY DEF ConservationInv, EventsWhole, OneCopy, Emit, OrderEvent
<1>3. Announced' = Announced
  BY DEF Announced, OrdersIn, Emit
<1>. QED
  BY <1>1, <1>2, <1>3
     DEF ConservationInv, OnePlace, Resting, Matched, Booked

LEMMA PlaceConservation ==
  ASSUME ConservationInv, NEW in \in OrderArgs, NEW ts \in Int,
         PlaceOrderAt(in, ts)
  PROVE  UidsIdentify' /\ EventsWhole' /\ OneCopy' /\ OnePlace'
<1>1. /\ UNCHANGED <<event_queue, cur, pending_orders, trades, cancelled>>
      /\ born' = born + 1 /\ born \in Nat
  BY DEF PlaceOrderAt, loopVars, ledgerVars, accountVars, ConservationInv,
         TypeInv, QueuesOK
<1>2. CASE PlaceRejected(in, ts)
  <2>. DEFINE e == [kind |-> "rejection", uid |-> born + 1, ts |-> ts,
                    inst |-> in.inst, side |-> in.side, qty |-> in.qty,
                    strat |-> active, reason |-> RejectReason(in)]
  <2>1. Emit(e) /\ order_events' = order_events
    BY <1>2 DEF PlaceRejected
  <2>2. e.kind \notin {"order", "fill"}
    OBVIOUS
  <2>. HIDE DEF e
  <2>. QED
    BY <1>1, <2>1, <2>2, QuietEmit
<1>3. CASE PlaceAccepted(in, ts)
  <2>. DEFINE o == NewOrder(in, ts)
              e == OrderEvent(o)
  <2>1. o.uid = born + 1 /\ o.ts = ts
    BY DEF NewOrder
  <2>2. order_events' = order_events \cup {o} /\ event_buffer' = event_buffer \cup {e}
    BY <1>3, <2>1 DEF PlaceAccepted, Emit, OrderEvent
  <2>3. e.kind = "order" /\ e.order = o /\ e.uid = o.uid
    BY DEF OrderEvent
  <2>4. \A p \in order_events : p.uid \in Nat /\ p.uid # born + 1
    BY <1>1 DEF ConservationInv, UidsIdentify, TypeInv, QueuesOK, Orders
  <2>. HIDE DEF o, e
  <2>5. UidsIdentify'
    BY <1>1, <2>1, <2>2, <2>4 DEF ConservationInv, UidsIdentify
  <2>6. \A f \in event_buffer \cup event_queue \cup {cur} :
          f.kind = "order" => f # e
    BY <2>1, <2>3, <2>4 DEF ConservationInv, EventsWhole
  <2>7. EventsWhole'
    <3>1. e = OrderEvent(e.order)
      BY <2>3 DEF e
    <3>. QED
      BY <1>1, <2>2, <2>3, <3>1 DEF ConservationInv, EventsWhole, OrderEvent
  <2>8. OneCopy'
    BY <1>1, <2>2, <2>3, <2>6 DEF ConservationInv, OneCopy
  <2>9. Announced' = Announced \cup {o.uid}
    BY <1>1, <2>2, <2>3 DEF Announced, OrdersIn
  <2>10. Uids(order_events)' = Uids(order_events) \cup {o.uid}
    BY <2>2 DEF Uids
  <2>11. o.uid \notin Uids(order_events)
    BY <2>1, <2>4 DEF Uids
  <2>12. OnePlace'
    BY <1>1, <2>9, <2>10, <2>11
       DEF ConservationInv, OnePlace, Split, Resting, Matched, Booked
  <2>. QED
    BY <2>5, <2>7, <2>8, <2>12
<1>. QED
  BY <1>2, <1>3 DEF PlaceOrderAt

LEMMA CallConservation ==
  ASSUME ConservationInv, AnyCall
  PROVE  UidsIdentify' /\ EventsWhole' /\ OneCopy' /\ OnePlace'
<1>. USE DEF loopVars, ledgerVars, accountVars
<1>1. ASSUME NEW in \in OrderArgs, NEW ts \in Int, PlaceOrderAt(in, ts)
      PROVE  UidsIdentify' /\ EventsWhole' /\ OneCopy' /\ OnePlace'
  BY <1>1, PlaceConservation
<1>2. ASSUME NEW id \in Nat, CancelOrder(id)
      PROVE  UidsIdentify' /\ EventsWhole' /\ OneCopy' /\ OnePlace'
  <2>. DEFINE e == [kind |-> "cancel", uid |-> born + 1, ts |-> now,
                    id |-> id,
                    resting |-> Uids({p \in pending_orders : p.id = id}),
                    intraday |-> cb \in IntradayCallbacks]
  <2>1. Emit(e)
    BY <1>2 DEF CancelOrder
  <2>2. e.kind \notin {"order", "fill"}
    OBVIOUS
  <2>. HIDE DEF e
  <2>. QED
    BY <1>2, <2>1, <2>2, QuietEmit DEF CancelOrder
<1>3. ASSUME NEW ts \in Int, ScheduleAlarmAt(ts)
      PROVE  UidsIdentify' /\ EventsWhole' /\ OneCopy' /\ OnePlace'
  <2>. DEFINE e == [kind |-> "alarm", uid |-> born + 1, ts |-> ts,
                    strat |-> active, alarm |-> next_alarm_id]
  <2>1. Emit(e)
    BY <1>3 DEF ScheduleAlarmAt
  <2>2. e.kind \notin {"order", "fill"}
    OBVIOUS
  <2>. HIDE DEF e
  <2>. QED
    BY <1>3, <2>1, <2>2, QuietEmit DEF ScheduleAlarmAt
<1>4. ASSUME NEW s \in Strategies, SetStrategyId(s)
      PROVE  UidsIdentify' /\ EventsWhole' /\ OneCopy' /\ OnePlace'
  <2>1. UNCHANGED <<event_queue, event_buffer, cur, pending_orders,
                    order_events, trades, cancelled, born>>
    BY <1>4 DEF SetStrategyId, loopVars, orderVars, ledgerVars, accountVars
  <2>2. UidsIdentify'
    BY <2>1 DEF ConservationInv, UidsIdentify, TypeInv, QueuesOK, Orders
  <2>. QED
    BY <2>1, <2>2
       DEF ConservationInv, EventsWhole, OneCopy, OnePlace, Announced, Resting,
           Matched, Booked
<1>. QED
  BY <1>1, <1>2, <1>3, <1>4 DEF AnyCall

(* Outside a callback, no order is in hand.                                 *)
LEMMA NothingInHand ==
  ASSUME TypeInv, pc = "due"
  PROVE  cur.kind # "order"
  BY DEF TypeInv, LoopOK

LEMMA PopConservation ==
  ASSUME ConservationInv, NEW e \in event_queue, Pop(e), cur' = e,
         UNCHANGED <<event_buffer, pending_orders, order_events, cancelled,
                     born>>,
         IF e.kind = "fill" THEN trades' = Append(trades, e.fill)
                            ELSE UNCHANGED trades
  PROVE  UidsIdentify' /\ EventsWhole' /\ OneCopy' /\ OnePlace'
<1>. USE DEF Pop
<1>1. cur.kind # "order"
  BY NothingInHand DEF ConservationInv
<1>2. UidsIdentify'
  BY DEF ConservationInv, UidsIdentify
<1>3. EventsWhole'
  BY DEF ConservationInv, EventsWhole, OrderEvent
<1>4. OneCopy'
  BY DEF ConservationInv, OneCopy
<1>5. Announced' = Announced
  BY <1>1 DEF Announced, OrdersIn
<1>6. UNCHANGED <<Resting, Uids(order_events)>>
  BY DEF Resting, Uids
<1>7. CASE e.kind # "fill"
  <2>1. Matched' = Matched /\ trades' = trades
    BY <1>7 DEF Matched, FillsIn
  <2>. QED
    BY <1>2, <1>3, <1>4, <1>5, <1>6, <2>1
       DEF ConservationInv, OnePlace, Booked
<1>8. CASE e.kind = "fill"
  <2>1. Matched' = Matched \ {e.uid} /\ e.uid \in Matched
    BY <1>8 DEF ConservationInv, EventsWhole, Matched, FillsIn
  <2>2. e.fill.of = e.uid /\ trades' = Append(trades, e.fill)
    BY <1>8 DEF ConservationInv, EventsWhole
  <2>3. trades \in Seq(Fills) /\ e.fill \in Fills
    BY <1>8, EventFields
       DEF ConservationInv, TypeInv, QueuesOK, LedgerTypeOK
  <2>4. /\ DOMAIN trades' = DOMAIN trades \cup {Len(trades) + 1}
        /\ \A n \in DOMAIN trades : trades'[n] = trades[n]
        /\ trades'[Len(trades) + 1] = e.fill
    BY <2>2, <2>3
  <2>5. Booked' = Booked \cup {e.uid}
    BY <2>2, <2>4 DEF Booked
  <2>6. e.uid \notin Booked
    BY <2>1 DEF ConservationInv, OnePlace, Split
  <2>7. \A n \in DOMAIN trades : trades[n].of # e.uid
    BY <2>6 DEF Booked
  <2>8. (\A m, n \in DOMAIN trades : trades[m].of = trades[n].of => m = n)'
    BY <2>2, <2>4, <2>7 DEF ConservationInv, OnePlace
  <2>9. Split(Uids(order_events), Announced, Resting, Matched, Booked,
              cancelled)'
    BY <1>5, <1>6, <2>1, <2>5 DEF ConservationInv, OnePlace, Split
  <2>. QED
    BY <1>2, <1>3, <1>4, <2>8, <2>9 DEF OnePlace
<1>. QED
  BY <1>7, <1>8

(* The buffer reaches the queue: no order changes its place.                *)
LEMMA CollectConservation ==
  ASSUME ConservationInv, Collect(event_queue), cur.kind # "order",
         cur'.kind # "order",
         UNCHANGED <<pending_orders, order_events, cancelled, born, trades>>
  PROVE  UidsIdentify' /\ EventsWhole' /\ OneCopy' /\ OnePlace'
<1>. USE DEF Collect
<1>1. UidsIdentify'
  BY DEF ConservationInv, UidsIdentify
<1>2. EventsWhole'
  BY DEF ConservationInv, EventsWhole, OrderEvent
<1>3. OneCopy'
  BY DEF ConservationInv, OneCopy
<1>4. Announced' = Announced
  BY DEF Announced, OrdersIn
<1>5. Matched' = Matched
  BY DEF Matched, FillsIn, ConservationInv, EventsWhole
<1>. QED
  BY <1>1, <1>2, <1>3, <1>4, <1>5
     DEF ConservationInv, OnePlace, Booked, Resting

LEMMA CancelConservation ==
  ASSUME ConservationInv, NEW e \in event_queue, DispatchCancel(e)
  PROVE  UidsIdentify' /\ EventsWhole' /\ OneCopy' /\ OnePlace'
<1>. DEFINE taken == {o \in pending_orders : o.id = e.id}
<1>1. /\ pending_orders' = pending_orders \ taken
      /\ cancelled' = cancelled \cup Uids(taken)
      /\ event_queue' = (event_queue \ {e}) \cup event_buffer
      /\ event_buffer' = {} /\ cur' = cur /\ trades' = trades
      /\ order_events' = order_events /\ born' = born
      /\ e.kind = "cancel"
  BY DEF DispatchCancel, Collect, loopVars, ledgerVars, accountVars
<1>2. UidsIdentify'
  BY <1>1 DEF ConservationInv, UidsIdentify
<1>3. EventsWhole'
  BY <1>1 DEF ConservationInv, EventsWhole, OrderEvent
<1>4. OneCopy'
  BY <1>1 DEF ConservationInv, OneCopy
<1>5. Announced' = Announced
  BY <1>1 DEF Announced, OrdersIn
<1>6. Matched' = Matched
  BY <1>1 DEF Matched, FillsIn, ConservationInv, EventsWhole
<1>7. Resting' = Resting \ Uids(taken)
  BY <1>1 DEF Resting, Uids, ConservationInv, UidsIdentify
<1>8. Uids(taken) \subseteq Resting
  BY DEF Resting, Uids
<1>9. Booked' = Booked /\ Uids(order_events)' = Uids(order_events)
  BY <1>1 DEF Booked, Uids
<1>. HIDE DEF taken
<1>10. Split(Uids(order_events), Announced, Resting, Matched, Booked,
             cancelled)'
  BY <1>1, <1>5, <1>6, <1>7, <1>8, <1>9 DEF ConservationInv, OnePlace, Split
<1>. QED
  BY <1>1, <1>2, <1>3, <1>4, <1>10 DEF ConservationInv, OnePlace

(* The order in hand goes from announced to matched or to resting.          *)
LEMMA ReturnOrderConservation ==
  ASSUME ConservationInv, ReturnOrder
  PROVE  UidsIdentify' /\ EventsWhole' /\ OneCopy' /\ OnePlace'
<1>. DEFINE o == cur.order
            f == FillEvent(o, o.ts)
<1>1. cur.kind = "order"
  BY DEF ReturnOrder, In, ConservationInv, TypeInv, LoopOK
<1>2. o \in order_events /\ cur = OrderEvent(o) /\ o.uid = cur.uid
  BY <1>1 DEF ConservationInv, EventsWhole, OrderEvent
<1>3. /\ event_buffer' = {} /\ cur'.kind = "none"
      /\ trades' = trades /\ order_events' = order_events
      /\ born' = born /\ cancelled' = cancelled
      /\ \/ /\ event_queue' = event_queue \cup {f} \cup event_buffer
            /\ pending_orders' = pending_orders
         \/ /\ event_queue' = event_queue \cup event_buffer
            /\ pending_orders' = pending_orders \cup {o}
  BY DEF ReturnOrder, MatchOrRest, Match, Rest, Collect, NoEvent, ledgerVars,
     accountVars
<1>4. f.kind = "fill" /\ f.uid = cur.uid /\ f.fill.of = cur.uid
  BY <1>2 DEF FillEvent, FillOf
<1>. HIDE DEF f, o
<1>5. cur.uid \in Announced
  BY <1>1 DEF Announced, OrdersIn
<1>6. /\ cur.uid \notin Resting /\ cur.uid \notin Matched
      /\ cur.uid \notin Booked /\ cur.uid \notin cancelled
  BY <1>5 DEF ConservationInv, OnePlace, Split
<1>7. Announced' = Announced \ {cur.uid}
  <2>1. \A e \in event_buffer \cup event_queue :
          e.kind = "order" => e.uid # cur.uid
    BY <1>1 DEF ConservationInv, EventsWhole, UidsIdentify, OneCopy, OrderEvent
  <2>. QED
    BY <1>1, <1>3, <1>4, <2>1 DEF Announced, OrdersIn
<1>8. UidsIdentify'
  BY <1>2, <1>3 DEF ConservationInv, UidsIdentify
<1>9. OneCopy'
  BY <1>3 DEF ConservationInv, OneCopy
<1>10. EventsWhole'
  <2>1. \A e \in event_queue : e.kind = "fill" => e.uid # cur.uid
    BY <1>6 DEF Matched, FillsIn
  <2>. QED
    BY <1>3, <1>4, <2>1 DEF ConservationInv, EventsWhole, OrderEvent
<1>11. Booked' = Booked /\ Uids(order_events)' = Uids(order_events)
  BY <1>3 DEF Booked, Uids
<1>12. \/ Matched' = Matched \cup {cur.uid} /\ Resting' = Resting
       \/ Matched' = Matched /\ Resting' = Resting \cup {cur.uid}
  <2>1. \A e \in event_buffer : e.kind # "fill"
    BY DEF ConservationInv, EventsWhole
  <2>. QED
    BY <1>2, <1>3, <1>4, <2>1 DEF Matched, FillsIn, Resting, Uids
<1>13. Split(Uids(order_events), Announced, Resting, Matched, Booked,
             cancelled)'
  BY <1>3, <1>5, <1>6, <1>7, <1>11, <1>12 DEF ConservationInv, OnePlace, Split
<1>. QED
  BY <1>3, <1>8, <1>9, <1>10, <1>13 DEF ConservationInv, OnePlace

(* The resting orders that match go to the queue as fills.                  *)
LEMMA MarketConservation ==
  ASSUME ConservationInv, HandleMarketEvent
  PROVE  UidsIdentify' /\ EventsWhole' /\ OneCopy' /\ OnePlace'
<1>. DEFINE matched == {o \in pending_orders : CanFill(o, step)}
            fills == {FillEvent(o, step) : o \in matched}
<1>1. /\ pending_orders' = pending_orders \ matched
      /\ event_queue' = event_queue \cup fills
      /\ event_buffer' = event_buffer /\ cur' = cur /\ trades' = trades
      /\ order_events' = order_events /\ born' = born
      /\ cancelled' = cancelled
  BY DEF HandleMarketEvent, MatchResting, ledgerVars, accountVars
<1>2. matched \subseteq pending_orders
  OBVIOUS
<1>3. \A e \in fills : \E o \in matched :
        e = FillEvent(o, step) /\ e.kind = "fill" /\ e.uid = o.uid
          /\ e.fill.of = e.uid
  BY DEF FillEvent, FillOf
<1>4. \A o \in matched : \E e \in fills : e.kind = "fill" /\ e.uid = o.uid
  <2>1. TAKE o \in matched
  <2>2. FillEvent(o, step) \in fills
    OBVIOUS
  <2>3. FillEvent(o, step).kind = "fill" /\ FillEvent(o, step).uid = o.uid
    BY DEF FillEvent
  <2>. QED
    BY <2>2, <2>3
<1>. HIDE DEF matched, fills
<1>5. \A o, p \in pending_orders : o.uid = p.uid => o = p
  BY DEF ConservationInv, UidsIdentify
<1>6. UidsIdentify'
  BY <1>1 DEF ConservationInv, UidsIdentify
<1>7. OneCopy'
  BY <1>1, <1>3 DEF ConservationInv, OneCopy
<1>8. Uids(matched) \subseteq Resting
  BY <1>2 DEF Resting, Uids
<1>9. \A e \in event_queue : e.kind = "fill" => e.uid \notin Uids(matched)
  <2>1. Resting \cap Matched = {}
    BY DEF ConservationInv, OnePlace, Split
  <2>. QED
    BY <1>8, <2>1 DEF Matched, FillsIn
<1>10. EventsWhole'
  <2>1. \A e \in fills : e.uid \in Uids(matched)
    BY <1>3 DEF Uids
  <2>2. \A e, g \in fills : e.uid = g.uid => e = g
    BY <1>2, <1>3, <1>5
  <2>3. (\A e, f \in event_queue :
           e.kind = "fill" /\ f.kind = "fill" /\ e.uid = f.uid => e = f)'
    BY <1>1, <1>9, <2>1, <2>2 DEF ConservationInv, EventsWhole
  <2>4. (\A e \in event_queue : e.kind = "fill" => e.fill.of = e.uid)'
    BY <1>1, <1>3 DEF ConservationInv, EventsWhole
  <2>5. (\A e \in event_buffer \cup event_queue \cup {cur} :
           e.kind = "order" => e.order \in order_events
                                 /\ e = OrderEvent(e.order))'
    BY <1>1, <1>3 DEF ConservationInv, EventsWhole, OrderEvent
  <2>. QED
    BY <1>1, <2>3, <2>4, <2>5 DEF ConservationInv, EventsWhole
<1>11. Announced' = Announced
  BY <1>1, <1>3 DEF Announced, OrdersIn
<1>12. Resting' = Resting \ Uids(matched)
  BY <1>1, <1>2, <1>5 DEF Resting, Uids
<1>13. Matched' = Matched \cup Uids(matched)
  BY <1>1, <1>3, <1>4 DEF Matched, FillsIn, Uids
<1>14. Booked' = Booked /\ Uids(order_events)' = Uids(order_events)
  BY <1>1 DEF Booked, Uids
<1>15. Split(Uids(order_events), Announced, Resting, Matched, Booked,
             cancelled)'
  BY <1>1, <1>8, <1>11, <1>12, <1>13, <1>14
     DEF ConservationInv, OnePlace, Split
<1>. QED
  BY <1>1, <1>6, <1>7, <1>10, <1>15 DEF ConservationInv, OnePlace

LEMMA StepConservation == ConservationInv /\ [AnyNext]_vars => ConservationInv'
<1>. SUFFICES ASSUME ConservationInv, [AnyNext]_vars
              PROVE  UidsIdentify' /\ EventsWhole' /\ OneCopy' /\ OnePlace'
  BY StepTypeInv DEF ConservationInv
<1>. USE DEF ledgerVars, accountVars
<1>1. CASE AnyCall
  BY <1>1, CallConservation
<1>2. CASE Dispatch
  <2>1. PICK e \in event_queue :
          \/ DispatchAlarm(e) \/ DispatchRejection(e) \/ DispatchOrder(e)
          \/ DispatchFill(e) \/ DispatchCancel(e)
    BY <1>2 DEF Dispatch
  <2>2. CASE DispatchCancel(e)
    BY <2>2, CancelConservation
  <2>3. CASE DispatchFill(e)
    BY <2>3, PopConservation DEF DispatchFill, OnFill, AccountOnFill
  <2>4. CASE DispatchAlarm(e)
    BY <2>4, PopConservation DEF DispatchAlarm
  <2>5. CASE DispatchRejection(e)
    BY <2>5, PopConservation DEF DispatchRejection
  <2>6. CASE DispatchOrder(e)
    BY <2>6, PopConservation DEF DispatchOrder
  <2>. QED
    BY <2>1, <2>2, <2>3, <2>4, <2>5, <2>6
<1>3. CASE ReturnEvent \/ ReturnMarket
  <2>1. cur.kind # "order"
    BY <1>3 DEF ConservationInv, TypeInv, LoopOK, ReturnEvent, ReturnMarket, In
  <2>2. cur'.kind # "order"
    BY <1>3, <2>1 DEF ReturnEvent, ReturnMarket, NoEvent
  <2>. QED
    BY <1>3, <2>1, <2>2, CollectConservation DEF ReturnEvent, ReturnMarket
<1>4. CASE ReturnOrder
  BY <1>4, ReturnOrderConservation
<1>5. CASE HandleMarketEvent
  BY <1>5, MarketConservation
<1>6. CASE \/ BeginRun \/ ReturnLife \/ NextTimestamp \/ EndLoop \/ EndOfStep
           \/ UNCHANGED vars
  <2>1. UNCHANGED <<orderVars, cur, trades>>
    BY <1>6 DEF BeginRun, ReturnLife, NextTimestamp, EndLoop, EndOfStep, vars,
       loopVars
  <2>. QED
    BY <2>1 DEF orderVars, ConservationInv, UidsIdentify, EventsWhole, OneCopy,
       OnePlace, Announced, Resting, Matched, Booked
<1>. QED
  BY <1>1, <1>2, <1>3, <1>4, <1>5, <1>6 DEF AnyNext, Run, Terminating

(* No accepted order is lost, duplicated or booked twice: at any moment it  *)
(* is in exactly one of the places an order can be, for any data, strategy  *)
(* and number of calls.                                                     *)
THEOREM OrdersConserved == Spec => []OrderConservation
<1>1. ConservationInv => OrderConservation /\ TypeInv
  BY SplitIsConservation DEF ConservationInv
<1>. QED
  BY <1>1, InitConservation, NextIsAnyNext, StepConservation, PTL DEF Spec

-----------------------------------------------------------------------------
(* The invariant, one part for each promise, over that above.               *)

(* The clock is that of the timestamp of the loop, and before the first     *)
(* timestamp that of the first one; and which callbacks each phase has.     *)
ClockInv ==
  /\ now = IF step # 0 THEN step ELSE IF cb = "init" THEN 0 ELSE First(Times)
  /\ cb \in {"init", "on_start"} => step = 0
  /\ pc = "due" \/ cb \in IntradayCallbacks => step # 0
  /\ phase = 2 => step # 0 /\ cb \in EventCallbacks \cup {"none"}
  /\ pc = "next" /\ step # 0 => phase = 2
  /\ cb = "on_market_event" => phase = 1

FiniteInv == IsFiniteSet(event_queue) /\ IsFiniteSet(pending_orders)

(* The second draining starts without a buffer, and every dispatch in it    *)
(* empties it again.                                                        *)
DrainedInv ==
  /\ pc = "due" /\ phase = 2 => event_buffer = {}
  /\ pc = "next" /\ step # 0 =>
       event_buffer = {} /\ \A e \in event_queue : e.ts > step

Justified(f) ==
  /\ f.ts <= now
  /\ \E o \in order_events : /\ f.of = o.uid
                             /\ CanFill(o, f.ts)
                             /\ f = FillOf(o, f.ts)

(* A fill is justified from the moment it is queued.                        *)
JustifiedInv ==
  /\ \A e \in event_queue :
       e.kind = "fill" => Justified(e.fill) /\ e.fill.ts = e.ts
  /\ \A n \in DOMAIN trades : Justified(trades[n])
  /\ cb = "on_order_event" => cur.ts <= now

(* Nothing has reached the engine yet.                                      *)
Untouched == event_queue = {} /\ pending_orders = {} /\ trades = <<>>

(* Orders that wait in the buffer were placed under the present clock, or   *)
(* by init.                                                                 *)
BufferInv ==
  /\ step = 0 => Untouched
  /\ \A e \in event_buffer : e.kind = "order" =>
       e.order.at = now \/ (Untouched /\ e.order.at = 0)

NoneInThePast == \A o \in order_events : o.ts >= o.at

(* No order or fill on its way is older than a trade.                       *)
OrderedInv ==
  NoneInThePast =>
    /\ \A e \in event_queue : e.kind \in {"order", "fill"} =>
         \A n \in DOMAIN trades : trades[n].ts <= e.ts
    /\ cb = "on_order_event" => \A n \in DOMAIN trades : trades[n].ts <= cur.ts
    /\ \A m, n \in DOMAIN trades : m < n => trades[m].ts <= trades[n].ts

Intraday(e) == e.kind = "cancel" /\ e.intraday

CancelInv ==
  /\ \A e \in event_buffer : Intraday(e) => cb \in IntradayCallbacks
  /\ \A e \in event_buffer \cup event_queue : Intraday(e) =>
       e.ts <= now /\ e.resting \subseteq Resting \cup cancelled

(* The market event of the timestamp has come.                              *)
Scanned == phase = 2 \/ cb = "on_market_event"
Prompt(o) == o.at # 0 /\ o.ts >= o.at

ScannedInv ==
  Scanned =>
    /\ \A o \in pending_orders : Prompt(o) => ~CanFill(o, step)
    /\ \A e \in event_buffer \cup event_queue \cup {cur} :
         e.kind = "order" /\ Prompt(e.order) => e.ts >= step

LoopInv ==
  /\ ConservationInv /\ ClockInv /\ FiniteInv /\ DrainedInv /\ JustifiedInv
  /\ BufferInv /\ OrderedInv /\ CancelInv /\ ScannedInv

-----------------------------------------------------------------------------
(* Lemmas                                                                   *)

(* Among finitely many events there is an earliest: a set without one of    *)
(* the least size would leave a smaller one without the event taken away.   *)
LEMMA EarliestExists ==
  ASSUME NEW S, IsFiniteSet(S), S # {}, \A e \in S : e.ts \in Int
  PROVE  \E e \in S : \A f \in S : e.ts <= f.ts
<1>. DEFINE Has(T) == \E e \in T : \A f \in T : e.ts <= f.ts
            Bad == {n \in Nat : \E T \in SUBSET S :
                      T # {} /\ Cardinality(T) = n /\ ~Has(T)}
<1>1. SUFFICES ASSUME ~Has(S) PROVE FALSE
  OBVIOUS
<1>2. Cardinality(S) \in Bad
  BY <1>1, FS_CardinalityType
<1>3. PICK n \in Bad : \A m \in Bad : ~(<<m, n>> \in OpToRel(<, Nat))
  <2>1. Bad \subseteq Nat /\ Bad # {}
    BY <1>2
  <2>. HIDE DEF Bad
  <2>. QED
    BY <2>1, NatLessThanWellFounded, WFMin, Zenon
<1>4. PICK T \in SUBSET S : T # {} /\ Cardinality(T) = n /\ ~Has(T)
  BY <1>3
<1>5. PICK x \in T : TRUE
  BY <1>4
<1>. DEFINE U == T \ {x}
<1>6. IsFiniteSet(T) /\ IsFiniteSet(U)
  BY FS_Subset
<1>7. Cardinality(U) = n - 1 /\ n \in Nat /\ Cardinality(U) \in Nat
  BY <1>4, <1>5, <1>6, FS_RemoveElement, FS_CardinalityType
<1>8. U # {}
  <2>1. SUFFICES ASSUME U = {} PROVE FALSE
    OBVIOUS
  <2>2. \A f \in T : f = x
    BY <2>1
  <2>. QED
    BY <1>4, <1>5, <2>2
<1>9. Has(U)
  <2>1. SUFFICES ASSUME ~Has(U) PROVE FALSE
    OBVIOUS
  <2>2. Cardinality(U) \in Bad
    BY <1>7, <1>8, <2>1
  <2>3. <<Cardinality(U), n>> \in OpToRel(<, Nat)
    BY <1>7 DEF OpToRel
  <2>. QED
    BY <1>3, <2>2, <2>3
<1>10. PICK y \in U : \A f \in U : y.ts <= f.ts
  BY <1>9
<1>11. \A f \in T : f = x \/ f \in U
  OBVIOUS
<1>12. x.ts \in Int /\ y.ts \in Int /\ \A f \in T : f.ts \in Int
  BY <1>5
<1>13. CASE x.ts <= y.ts
  <2>1. \A f \in T : x.ts <= f.ts
    BY <1>10, <1>11, <1>12, <1>13
  <2>. QED
    BY <1>4, <1>5, <2>1
<1>14. CASE ~(x.ts <= y.ts)
  <2>1. \A f \in T : y.ts <= f.ts
    BY <1>10, <1>11, <1>12, <1>14
  <2>. QED
    BY <1>4, <2>1
<1>. QED
  BY <1>13, <1>14

(* When nothing is due, every event in the queue is of a later time.        *)
LEMMA NothingDue ==
  ASSUME TypeInv, FiniteInv, Due = {}
  PROVE  \A e \in event_queue : e.ts > step
<1>1. step \in Int /\ \A e \in event_queue : e.ts \in Int
  BY EventFields, EngineAssumption DEF TypeInv, LoopOK, QueuesOK
<1>. DEFINE S == {e \in event_queue : e.ts <= step}
<1>2. SUFFICES ASSUME S # {} PROVE FALSE
  BY <1>1
<1>3. IsFiniteSet(S)
  BY FS_Subset DEF FiniteInv
<1>4. PICK e \in S : \A f \in S : e.ts <= f.ts
  BY <1>1, <1>2, <1>3, EarliestExists
<1>5. \A f \in event_queue : e.ts <= f.ts
  BY <1>1, <1>4
<1>. QED
  BY <1>4, <1>5 DEF Due

(* A call of the strategy only adds to the buffer, and what it adds is of   *)
(* the present.                                                             *)
CallFrame ==
  /\ pc = "callback"
  /\ UNCHANGED <<pc, cb, phase, cur, step, day, now, event_queue,
                 pending_orders, cancelled, trades>>
  /\ order_events \subseteq order_events'

Fresher(e) ==
  /\ e.kind = "order" => /\ e.order \in order_events'
                         /\ e.order.at = now /\ e.ts = e.order.ts
  /\ Intraday(e) => /\ cb \in IntradayCallbacks
                    /\ e.ts = now /\ e.resting \subseteq Resting

LEMMA PlaceEffect ==
  ASSUME NEW in, NEW ts, PlaceOrderAt(in, ts)
  PROVE  /\ CallFrame
             /\ \E e : event_buffer' = event_buffer \cup {e} /\ Fresher(e)
<1>1. CallFrame
  BY DEF PlaceOrderAt, PlaceAccepted, PlaceRejected, MayCall, CallFrame,
         loopVars, clockVars, ledgerVars, accountVars
<1>2. CASE PlaceAccepted(in, ts)
  <2>. DEFINE o == NewOrder(in, ts)
              e == [kind |-> "order", uid |-> o.uid, ts |-> ts, order |-> o]
  <2>1. o \in order_events' /\ event_buffer' = event_buffer \cup {e}
    BY <1>2 DEF PlaceAccepted, Emit
  <2>2. o.at = now /\ o.ts = ts
    BY DEF NewOrder
  <2>3. e.kind = "order" /\ e.order = o /\ e.ts = ts
    OBVIOUS
  <2>. HIDE DEF o, e
  <2>4. Fresher(e)
    BY <2>1, <2>2, <2>3 DEF Fresher, Intraday
  <2>. QED
    BY <1>1, <2>1, <2>4
<1>3. CASE PlaceRejected(in, ts)
  <2>. DEFINE e == [kind |-> "rejection", uid |-> born + 1, ts |-> ts,
                    inst |-> in.inst, side |-> in.side, qty |-> in.qty,
                    strat |-> active, reason |-> RejectReason(in)]
  <2>1. event_buffer' = event_buffer \cup {e}
    BY <1>3 DEF PlaceRejected, Emit
  <2>2. e.kind = "rejection"
    OBVIOUS
  <2>. HIDE DEF e
  <2>3. Fresher(e)
    BY <2>2 DEF Fresher, Intraday
  <2>. QED
    BY <1>1, <2>1, <2>3
<1>. QED
  BY <1>2, <1>3 DEF PlaceOrderAt

LEMMA CallEffect ==
  ASSUME AnyCall
  PROVE  /\ CallFrame
         /\ event_buffer \subseteq event_buffer'
         /\ \A e \in event_buffer' : e \in event_buffer \/ Fresher(e)
<1>1. ASSUME NEW id, CancelOrder(id)
      PROVE  /\ CallFrame
             /\ \E e : event_buffer' = event_buffer \cup {e} /\ Fresher(e)
  <2>. DEFINE e == [kind |-> "cancel", uid |-> born + 1, ts |-> now,
                    id |-> id,
                    resting |-> Uids({p \in pending_orders : p.id = id}),
                    intraday |-> cb \in IntradayCallbacks]
  <2>1. CallFrame /\ event_buffer' = event_buffer \cup {e}
    BY <1>1 DEF CancelOrder, MayCall, Emit, CallFrame, loopVars, clockVars,
       ledgerVars, accountVars
  <2>2. /\ e.kind = "cancel" /\ e.ts = now
        /\ e.intraday <=> cb \in IntradayCallbacks
        /\ e.resting \subseteq Resting
    BY DEF Resting, Uids
  <2>. HIDE DEF e
  <2>3. Fresher(e)
    BY <2>2 DEF Fresher, Intraday
  <2>. QED
    BY <2>1, <2>3
<1>2. ASSUME NEW ts, ScheduleAlarmAt(ts)
      PROVE  /\ CallFrame
             /\ \E e : event_buffer' = event_buffer \cup {e} /\ Fresher(e)
  <2>. DEFINE e == [kind |-> "alarm", uid |-> born + 1, ts |-> ts,
                    strat |-> active, alarm |-> next_alarm_id]
  <2>1. CallFrame /\ event_buffer' = event_buffer \cup {e}
    BY <1>2 DEF ScheduleAlarmAt, MayCall, Emit, CallFrame, loopVars, clockVars,
       ledgerVars, accountVars
  <2>2. e.kind = "alarm"
    OBVIOUS
  <2>. HIDE DEF e
  <2>3. Fresher(e)
    BY <2>2 DEF Fresher, Intraday
  <2>. QED
    BY <2>1, <2>3
<1>3. ASSUME NEW s, SetStrategyId(s)
      PROVE  CallFrame /\ event_buffer' = event_buffer
  BY <1>3 DEF SetStrategyId, CallFrame, loopVars, orderVars, ledgerVars,
     accountVars
<1>. QED
  BY <1>1, <1>2, <1>3, PlaceEffect DEF AnyCall

(* What the steps of run() do to the loop and to the places of orders.      *)
LEMMA QuietEffect ==
  ASSUME BeginRun \/ ReturnLife \/ NextTimestamp \/ EndLoop \/ EndOfStep
  PROVE  UNCHANGED <<cur, event_queue, event_buffer, pending_orders,
                     order_events, cancelled, trades>>
  BY DEF BeginRun, ReturnLife, NextTimestamp, EndLoop, EndOfStep, orderVars,
         ledgerVars, accountVars

PopFrame(e) ==
  /\ pc = "due" /\ e \in Due
  /\ event_queue' = event_queue \ {e}
  /\ cur' = e
  /\ pc' = "callback" /\ cb' \in EventCallbacks
  /\ UNCHANGED <<phase, step, now, event_buffer, pending_orders, order_events,
                 cancelled>>
  /\ IF e.kind = "fill" THEN trades' = Append(trades, e.fill)
                        ELSE UNCHANGED trades

CancelFrame(e) ==
  /\ pc = "due" /\ e \in Due
  /\ event_queue' = (event_queue \ {e}) \cup event_buffer
  /\ event_buffer' = {}
  /\ pending_orders' \subseteq pending_orders
  /\ Resting \cup cancelled \subseteq Resting' \cup cancelled'
  /\ UNCHANGED <<pc, cb, phase, cur, step, now, order_events, trades>>

LEMMA DispatchEffect ==
  ASSUME Dispatch
  PROVE  \E e \in event_queue : PopFrame(e) \/ CancelFrame(e)
<1>1. PICK e \in event_queue :
        \/ DispatchAlarm(e) \/ DispatchRejection(e) \/ DispatchOrder(e)
        \/ DispatchFill(e) \/ DispatchCancel(e)
  BY DEF Dispatch
<1>. USE DEF Pop, Enter, EventCallbacks, PopFrame, ledgerVars, accountVars
<1>2. CASE DispatchAlarm(e)
  BY <1>2 DEF DispatchAlarm
<1>3. CASE DispatchRejection(e)
  BY <1>3 DEF DispatchRejection
<1>4. CASE DispatchOrder(e)
  BY <1>4 DEF DispatchOrder, clockVars
<1>5. CASE DispatchFill(e)
  BY <1>5 DEF DispatchFill, OnFill, AccountOnFill, clockVars
<1>6. CASE DispatchCancel(e)
  <2>1. Resting \cup cancelled \subseteq Resting' \cup cancelled'
    BY <1>6 DEF DispatchCancel, Resting, Uids
  <2>. QED
    BY <1>6, <2>1 DEF DispatchCancel, CancelFrame, Collect, loopVars, clockVars
<1>. QED
  BY <1>1, <1>2, <1>3, <1>4, <1>5, <1>6

(* The callback over, the buffer reaches the queue.                         *)
CollectFrame ==
  /\ pc = "callback" /\ pc' = "due" /\ cb' = "none"
  /\ event_queue' = event_queue \cup event_buffer
  /\ event_buffer' = {}
  /\ UNCHANGED <<step, now, pending_orders, order_events, cancelled, trades>>

LEMMA CollectEffect ==
  ASSUME ReturnEvent \/ ReturnMarket
  PROVE  /\ CollectFrame
         /\ cb \in IntradayCallbacks
         /\ cur' \in {cur, NoEvent}
         /\ IF cb = "on_market_event" THEN phase' = 2 ELSE phase' = phase
  BY DEF ReturnEvent, ReturnMarket, In, Resume, Collect, CollectFrame,
         IntradayCallbacks, EventCallbacks, clockVars, ledgerVars, accountVars

LEMMA OrderEffect ==
  ASSUME ConservationInv, ReturnOrder
  PROVE  /\ pc = "callback" /\ cb = "on_order_event"
         /\ pc' = "due" /\ cb' = "none" /\ cur' = NoEvent
         /\ cur.kind = "order" /\ cur.ts = cur.order.ts
         /\ cur.order \in order_events
         /\ event_buffer' = {}
         /\ UNCHANGED <<phase, step, now, order_events, cancelled, trades>>
         /\ \/ /\ CanFill(cur.order, cur.ts)
               /\ event_queue' = event_queue \cup {FillEvent(cur.order, cur.ts)}
                                   \cup event_buffer
               /\ pending_orders' = pending_orders
            \/ /\ ~CanFill(cur.order, cur.ts)
               /\ event_queue' = event_queue \cup event_buffer
               /\ pending_orders' = pending_orders \cup {cur.order}
<1>1. cur.kind = "order"
  BY DEF ReturnOrder, In, ConservationInv, TypeInv, LoopOK
<1>2. /\ cur.order \in order_events
      /\ cur.ts = cur.order.ts
  BY <1>1 DEF ConservationInv, EventsWhole, OrderEvent
<1>. QED
  BY <1>1, <1>2 DEF ReturnOrder, In, Resume, MatchOrRest, Match, Rest, Collect,
     clockVars, ledgerVars, accountVars

LEMMA MarketEffect ==
  ASSUME HandleMarketEvent
  PROVE  /\ pc = "due" /\ phase = 1 /\ Due = {}
         /\ pc' = "callback" /\ cb' = "on_market_event"
         /\ UNCHANGED <<phase, cur, step, now, event_buffer, order_events,
                        cancelled, trades>>
         /\ pending_orders' = {o \in pending_orders : ~CanFill(o, step)}
         /\ \A e \in event_queue' :
              \/ e \in event_queue
              \/ \E o \in pending_orders : /\ CanFill(o, step)
                                           /\ e = FillEvent(o, step)
  BY DEF HandleMarketEvent, MarketReady, MatchResting, Enter, clockVars,
         ledgerVars, accountVars

-----------------------------------------------------------------------------
(* The parts of the invariant, one after the other.                         *)

LEMMA TimesArePositive ==
  ASSUME TypeInv
  PROVE  step \in Nat /\ now \in Nat /\ Times \subseteq Nat \ {0}
  BY EngineAssumption DEF TypeInv, LoopOK

(* The first timestamp that comes after none is the first one.              *)
LEMMA NextIsLater ==
  ASSUME TypeInv, ClockInv, NextTimestamp
  PROVE  /\ step' \in Times /\ step' # 0 /\ now' = step' /\ step' > step
         /\ now' >= now
         /\ step = 0 => now' = now
<1>1. Later \subseteq Times /\ Later # {}
  BY DEF NextTimestamp, Later
<1>2. step' \in Later /\ now' = step' /\ step' = First(Later)
  BY <1>1, FirstIsElement DEF NextTimestamp
<1>3. step' > step /\ step' \in Nat \ {0} /\ step \in Nat
  BY <1>2, TimesArePositive DEF Later
<1>4. cb = "none"
  BY DEF NextTimestamp, TypeInv, LoopOK
<1>5. CASE step = 0
  <2>1. Later = Times
    BY <1>5, TimesArePositive DEF Later
  <2>. QED
    BY <1>1, <1>2, <1>3, <1>4, <1>5, <2>1 DEF ClockInv
<1>6. CASE step # 0
  BY <1>1, <1>2, <1>3, <1>4, <1>6 DEF ClockInv
<1>. QED
  BY <1>5, <1>6

LEMMA StepClock ==
  ASSUME LoopInv, AnyCall \/ Run
  PROVE  ClockInv'
<1>. USE DEF ClockInv, IntradayCallbacks, EventCallbacks
<1>1. ClockInv /\ TypeInv /\ ConservationInv
  BY DEF LoopInv, ConservationInv
<1>2. CASE AnyCall
  BY <1>1, <1>2, CallEffect DEF CallFrame
<1>3. CASE BeginRun
  <2>1. step = 0 /\ step' = 0 /\ phase' = phase
    BY <1>1, <1>3 DEF BeginRun, In
  <2>. QED
    BY <1>1, <1>3, <2>1 DEF BeginRun, In, Enter
<1>4. CASE ReturnLife
  <2>1. cb \in LifeCallbacks \ {"init"} /\ pc = "callback"
    BY <1>4 DEF ReturnLife, In, LifeCallbacks
  <2>2. phase # 2
    BY <1>1, <2>1 DEF LifeCallbacks
  <2>3. UNCHANGED <<phase, step, now>>
    BY <1>4 DEF ReturnLife, clockVars
  <2>4. /\ cb' \in {"none", "on_stop", "on_date_change", "before_open"}
        /\ pc' = "due" => cb = "before_open"
        /\ pc' = "next" => cb = "on_start"
    BY <1>4 DEF ReturnLife, In, Enter, Resume
  <2>5. cb = "before_open" => step # 0
    BY <1>1 DEF TypeInv, LoopOK
  <2>. QED
    BY <1>1, <2>1, <2>2, <2>3, <2>4, <2>5 DEF LifeCallbacks
<1>5. CASE NextTimestamp
  <2>1. /\ phase' = 1 /\ cb' \in {"none", "on_date_change", "after_close"}
        /\ pc' # "next"
    BY <1>5 DEF NextTimestamp, Enter, Resume
  <2>. QED
    BY <1>1, <1>5, <2>1, NextIsLater
<1>6. CASE EndLoop
  <2>1. cb = "none"
    BY <1>1, <1>6 DEF EndLoop, TypeInv, LoopOK
  <2>. QED
    BY <1>1, <1>6, <2>1 DEF EndLoop, Enter, clockVars
<1>7. CASE EndOfStep
  <2>1. cb = "none"
    BY <1>1, <1>7 DEF EndOfStep, TypeInv, LoopOK
  <2>. QED
    BY <1>1, <1>7, <2>1 DEF EndOfStep, Resume, clockVars
<1>8. CASE Dispatch
  <2>1. PICK e \in event_queue : PopFrame(e) \/ CancelFrame(e)
    BY <1>8, DispatchEffect
  <2>2. pc = "due" /\ cb = "none" /\ step # 0
    BY <1>1, <2>1 DEF PopFrame, CancelFrame, TypeInv, LoopOK
  <2>. QED
    BY <1>1, <2>1, <2>2 DEF PopFrame, CancelFrame
<1>9. CASE ReturnEvent \/ ReturnMarket
  BY <1>1, <1>9, CollectEffect DEF CollectFrame
<1>10. CASE ReturnOrder
  BY <1>1, <1>10, OrderEffect
<1>11. CASE HandleMarketEvent
  <2>1. cb = "none"
    BY <1>1, <1>11 DEF HandleMarketEvent, MarketReady, TypeInv, LoopOK
  <2>. QED
    BY <1>1, <1>11, <2>1, MarketEffect
<1>. QED
  BY <1>2, <1>3, <1>4, <1>5, <1>6, <1>7, <1>8, <1>9, <1>10, <1>11 DEF Run

(* Time never goes back.                                                    *)
LEMMA TimeGoesOn ==
  ASSUME TypeInv, ConservationInv, ClockInv, AnyCall \/ Run
  PROVE  now' >= now
<1>1. now \in Nat
  BY TimesArePositive
<1>2. CASE BeginRun
  <2>1. now = 0 /\ now' \in Times
    BY <1>2, FirstIsElement, EngineAssumption DEF BeginRun, In, ClockInv
  <2>. QED
    BY <2>1, TimesArePositive
<1>3. CASE NextTimestamp
  BY <1>3, NextIsLater
<1>4. CASE ~BeginRun /\ ~NextTimestamp
  <2>1. now' = now
    BY <1>4, CallEffect, DispatchEffect, CollectEffect, OrderEffect,
       MarketEffect
       DEF Run, ReturnLife, EndLoop, EndOfStep, CallFrame, PopFrame,
           CancelFrame, CollectFrame, clockVars
  <2>. QED
    BY <1>1, <2>1
<1>. QED
  BY <1>2, <1>3, <1>4

LEMMA StepFinite ==
  ASSUME LoopInv, AnyCall \/ Run
  PROVE  FiniteInv'
<1>1. /\ FiniteInv /\ IsFiniteSet(event_buffer) /\ TypeInv /\ ConservationInv
  BY DEF LoopInv, ConservationInv, TypeInv, QueuesOK
<1>2. CASE AnyCall
  BY <1>1, <1>2, CallEffect DEF CallFrame, FiniteInv
<1>3. CASE BeginRun \/ ReturnLife \/ NextTimestamp \/ EndLoop \/ EndOfStep
  BY <1>1, <1>3, QuietEffect DEF FiniteInv
<1>4. CASE Dispatch
  <2>1. PICK e \in event_queue : PopFrame(e) \/ CancelFrame(e)
    BY <1>4, DispatchEffect
  <2>2. IsFiniteSet(event_queue \ {e})
    BY <1>1, FS_RemoveElement DEF FiniteInv
  <2>3. IsFiniteSet((event_queue \ {e}) \cup event_buffer)
    BY <1>1, <2>2, FS_Union
  <2>4. pending_orders' \subseteq pending_orders
    BY <2>1 DEF PopFrame, CancelFrame
  <2>5. IsFiniteSet(pending_orders')
    BY <1>1, <2>4, FS_Subset DEF FiniteInv
  <2>. QED
    BY <2>1, <2>2, <2>3, <2>5 DEF PopFrame, CancelFrame, FiniteInv
<1>5. CASE ReturnEvent \/ ReturnMarket
  <2>1. IsFiniteSet(event_queue \cup event_buffer)
    BY <1>1, FS_Union DEF FiniteInv
  <2>. QED
    BY <1>1, <1>5, <2>1, CollectEffect DEF CollectFrame, FiniteInv
<1>6. CASE ReturnOrder
  <2>1. /\ IsFiniteSet(event_queue \cup event_buffer)
        /\ IsFiniteSet(pending_orders \cup {cur.order})
    BY <1>1, FS_Union, FS_AddElement DEF FiniteInv
  <2>2. IsFiniteSet((event_queue \cup {FillEvent(cur.order, cur.ts)})
                      \cup event_buffer)
    BY <1>1, FS_Union, FS_AddElement DEF FiniteInv
  <2>. QED
    BY <1>1, <1>6, <2>1, <2>2, OrderEffect DEF FiniteInv
<1>7. CASE HandleMarketEvent
  <2>. DEFINE matched == {o \in pending_orders : CanFill(o, step)}
              fills == {FillEvent(o, step) : o \in matched}
              filling == [o \in matched |-> FillEvent(o, step)]
  <2>1. /\ pending_orders' = pending_orders \ matched
        /\ event_queue' = event_queue \cup fills
    BY <1>7 DEF HandleMarketEvent, MatchResting
  <2>2. IsFiniteSet(matched) /\ IsFiniteSet(pending_orders')
    BY <1>1, <2>1, FS_Subset DEF FiniteInv
  <2>3. filling \in Surjection(matched, fills)
    BY DEF Surjection
  <2>. HIDE DEF matched, fills, filling
  <2>4. IsFiniteSet(fills)
    BY <2>2, <2>3, FS_Surjection
  <2>. QED
    BY <1>1, <2>1, <2>2, <2>4, FS_Union DEF FiniteInv
<1>. QED
  BY <1>2, <1>3, <1>4, <1>5, <1>6, <1>7 DEF Run

LEMMA StepDrainedInv ==
  ASSUME LoopInv, AnyCall \/ Run
  PROVE  DrainedInv'
<1>. USE DEF DrainedInv
<1>1. DrainedInv /\ TypeInv /\ ConservationInv /\ ClockInv /\ FiniteInv
  BY DEF LoopInv, ConservationInv
<1>2. CASE EndOfStep
  <2>1. /\ event_buffer = {} /\ Due = {}
        /\ UNCHANGED <<step, event_queue, event_buffer>>
    BY <1>1, <1>2, QuietEffect DEF EndOfStep
  <2>. QED
    BY <1>1, <1>2, <2>1, NothingDue DEF EndOfStep, Resume
<1>3. CASE ReturnLife
  <2>1. cb \in LifeCallbacks \ {"init"} /\ cb \notin EventCallbacks
    BY <1>3 DEF ReturnLife, In, LifeCallbacks, EventCallbacks
  <2>2. phase # 2 /\ phase' = phase /\ step' = step
    BY <1>1, <1>3, <2>1 DEF ClockInv, LifeCallbacks, ReturnLife
  <2>3. pc' = "next" => step = 0
    BY <1>1, <1>3 DEF ReturnLife, In, Enter, Resume, ClockInv
  <2>. QED
    BY <2>2, <2>3
<1>4. CASE AnyCall \/ BeginRun \/ NextTimestamp \/ EndLoop
  BY <1>4, CallEffect
     DEF CallFrame, BeginRun, NextTimestamp, EndLoop, Enter, Resume
<1>5. CASE Dispatch
  BY <1>1, <1>5, DispatchEffect DEF PopFrame, CancelFrame
<1>6. CASE ReturnEvent \/ ReturnMarket \/ ReturnOrder \/ HandleMarketEvent
  BY <1>1, <1>6, CollectEffect, OrderEffect, MarketEffect DEF CollectFrame
<1>. QED
  BY <1>2, <1>3, <1>4, <1>5, <1>6 DEF Run

(* A fill stays justified: the past does not change.                        *)
LEMMA StaysJustified ==
  ASSUME LoopInv, AnyCall \/ Run, NEW f \in Fills, Justified(f)
  PROVE  Justified(f)'
<1>1. now' >= now /\ now \in Nat /\ now' \in Nat /\ f.ts \in Int
  <2>1. TypeInv'
    BY StepTypeInv DEF LoopInv, ConservationInv, AnyNext
  <2>2. now \in Nat /\ now' \in Nat
    BY <2>1, EngineAssumption DEF LoopInv, ConservationInv, TypeInv, LoopOK
  <2>. QED
    BY <2>2, TimeGoesOn DEF LoopInv, ConservationInv, Fills
<1>2. order_events \subseteq order_events'
  BY CallEffect, QuietEffect, DispatchEffect, CollectEffect, OrderEffect,
     MarketEffect
     DEF LoopInv, Run, CallFrame, PopFrame, CancelFrame, CollectFrame
<1>. QED
  BY <1>1, <1>2 DEF Justified

LEMMA StepJustified ==
  ASSUME LoopInv, AnyCall \/ Run
  PROVE  JustifiedInv'
<1>1. JustifiedInv /\ TypeInv /\ ConservationInv /\ ClockInv
  BY DEF LoopInv, ConservationInv
<1>2. \A e \in event_queue : e.kind = "fill" =>
        e.fill \in Fills /\ Justified(e.fill)' /\ e.fill.ts = e.ts
  BY <1>1, EventFields, StaysJustified DEF JustifiedInv, TypeInv, QueuesOK
<1>3. /\ trades \in Seq(Fills) /\ \A n \in DOMAIN trades : Justified(trades[n])
      /\ \A f \in Fills : Justified(f) => Justified(f)'
  BY <1>1, StaysJustified DEF JustifiedInv, TypeInv, LedgerTypeOK
<1>4. \A e \in event_buffer : e.kind # "fill"
  BY <1>1 DEF ConservationInv, EventsWhole
<1>5. \A o \in order_events, t \in Int :
        CanFill(o, t) /\ t <= now /\ UNCHANGED <<order_events, now>> =>
          /\ Justified(FillEvent(o, t).fill)'
          /\ FillEvent(o, t).kind = "fill"
          /\ FillEvent(o, t).fill.ts = FillEvent(o, t).ts
  BY DEF Justified, FillEvent, FillOf
<1>6. CASE AnyCall
  BY <1>1, <1>2, <1>3, <1>6, CallEffect DEF CallFrame, JustifiedInv
<1>7. CASE BeginRun \/ ReturnLife \/ NextTimestamp \/ EndLoop \/ EndOfStep
  <2>1. cb' # "on_order_event"
    BY <1>7 DEF BeginRun, ReturnLife, NextTimestamp, EndLoop, EndOfStep, Enter,
       Resume
  <2>. QED
    BY <1>1, <1>2, <1>3, <1>7, <2>1, QuietEffect DEF JustifiedInv
<1>8. CASE Dispatch
  <2>1. PICK e \in event_queue : PopFrame(e) \/ CancelFrame(e)
    BY <1>8, DispatchEffect
  <2>2. e.ts <= now /\ now' = now /\ pc = "due"
    BY <1>1, <2>1 DEF PopFrame, CancelFrame, Due, ClockInv
  <2>3. CASE PopFrame(e) /\ e.kind = "fill"
    <3>1. trades' = Append(trades, e.fill) /\ e.fill \in Fills
      BY <1>2, <2>3 DEF PopFrame
    <3>2. /\ DOMAIN trades' = DOMAIN trades \cup {Len(trades) + 1}
          /\ \A n \in DOMAIN trades : trades'[n] = trades[n]
          /\ trades'[Len(trades) + 1] = e.fill
      BY <1>3, <3>1
    <3>3. Justified(e.fill)'
      BY <1>2, <2>3
    <3>4. (\A n \in DOMAIN trades : Justified(trades[n]))'
      BY <1>3, <3>2, <3>3
    <3>. QED
      BY <1>2, <2>2, <2>3, <3>4 DEF PopFrame, JustifiedInv
  <2>4. CASE PopFrame(e) /\ e.kind # "fill"
    BY <1>2, <1>3, <2>2, <2>4 DEF PopFrame, JustifiedInv
  <2>5. CASE CancelFrame(e)
    <3>1. cb # "on_order_event"
      BY <1>1, <2>2 DEF TypeInv, LoopOK
    <3>. QED
      BY <1>2, <1>3, <1>4, <2>5, <3>1 DEF CancelFrame, JustifiedInv
  <2>. QED
    BY <2>1, <2>3, <2>4, <2>5
<1>9. CASE ReturnEvent \/ ReturnMarket
  BY <1>1, <1>2, <1>3, <1>4, <1>9, CollectEffect DEF CollectFrame, JustifiedInv
<1>10. CASE ReturnOrder
  <2>1. /\ cur.ts <= now /\ cur.ts \in Int
    <3>1. cur \in Events
      BY <1>1, <1>10, OrderEffect DEF TypeInv, LoopOK, NoEvent
    <3>. QED
      BY <1>1, <1>10, <3>1, OrderEffect, EventFields DEF JustifiedInv
  <2>. QED
    BY <1>1, <1>2, <1>3, <1>4, <1>5, <1>10, <2>1, OrderEffect DEF JustifiedInv
<1>11. CASE HandleMarketEvent
  <2>1. step = now /\ step \in Int /\ pending_orders \subseteq order_events
    BY <1>1, <1>11, MarketEffect, TimesArePositive
       DEF ClockInv, ConservationInv, UidsIdentify
  <2>. QED
    BY <1>1, <1>2, <1>3, <1>5, <1>11, <2>1, MarketEffect DEF JustifiedInv
<1>. QED
  BY <1>6, <1>7, <1>8, <1>9, <1>10, <1>11 DEF Run

LEMMA StepBuffer ==
  ASSUME LoopInv, AnyCall \/ Run
  PROVE  BufferInv'
<1>. USE DEF BufferInv
<1>1. BufferInv /\ TypeInv /\ ConservationInv /\ ClockInv /\ DrainedInv
  BY DEF LoopInv, ConservationInv
<1>2. CASE AnyCall
  BY <1>1, <1>2, CallEffect DEF CallFrame, Fresher, Untouched
<1>3. CASE BeginRun
  <2>1. step = 0 /\ now = 0 /\ step' = 0
    BY <1>1, <1>3 DEF BeginRun, In, ClockInv
  <2>. QED
    BY <1>1, <1>3, <2>1, QuietEffect DEF Untouched
<1>4. CASE NextTimestamp
  <2>1. step # 0 => event_buffer = {}
    BY <1>1, <1>4 DEF DrainedInv, NextTimestamp
  <2>. QED
    BY <1>1, <1>4, <2>1, NextIsLater, QuietEffect DEF Untouched
<1>5. CASE ReturnLife \/ EndLoop \/ EndOfStep
  BY <1>1, <1>5, QuietEffect
     DEF Untouched, ReturnLife, EndLoop, EndOfStep, clockVars
<1>6. CASE Dispatch
  <2>1. PICK e \in event_queue : PopFrame(e) \/ CancelFrame(e)
    BY <1>6, DispatchEffect
  <2>2. /\ step # 0 /\ step' = step /\ now' = now
        /\ event_buffer' \subseteq event_buffer
    BY <1>1, <2>1 DEF PopFrame, CancelFrame, ClockInv
  <2>. QED
    BY <1>1, <2>2 DEF Untouched
<1>7. CASE ReturnEvent \/ ReturnMarket \/ ReturnOrder
  <2>1. step # 0 /\ step' = step /\ event_buffer' = {}
    BY <1>1, <1>7, CollectEffect, OrderEffect
       DEF CollectFrame, ClockInv, IntradayCallbacks, EventCallbacks
  <2>. QED
    BY <2>1
<1>8. CASE HandleMarketEvent
  <2>1. step # 0
    BY <1>1, <1>8, MarketEffect DEF ClockInv
  <2>2. Untouched => Untouched'
    BY <1>8, MarketEffect DEF Untouched
  <2>. QED
    BY <1>1, <1>8, <2>1, <2>2, MarketEffect
<1>. QED
  BY <1>2, <1>3, <1>4, <1>5, <1>6, <1>7, <1>8 DEF Run

(* What waits in the buffer is not older than any trade.                    *)
LEMMA BufferIsFresh ==
  ASSUME LoopInv, NoneInThePast
  PROVE  \A e \in event_buffer : e.kind = "order" =>
           \A n \in DOMAIN trades : trades[n].ts <= e.ts
<1>. SUFFICES ASSUME NEW e \in event_buffer, e.kind = "order",
                     NEW n \in DOMAIN trades
              PROVE  trades[n].ts <= e.ts
  OBVIOUS
<1>1. e.order \in order_events /\ e.ts = e.order.ts /\ e.order \in Orders
  BY DEF LoopInv, ConservationInv, EventsWhole, OrderEvent, TypeInv, QueuesOK
<1>2. trades # <<>>
  OBVIOUS
<1>3. e.order.at = now
  BY <1>2 DEF LoopInv, BufferInv, Untouched
<1>4. trades[n].ts <= now /\ trades[n].ts \in Int /\ now \in Int /\ e.ts \in Int
  <2>1. trades[n] \in Fills
    BY DEF LoopInv, ConservationInv, TypeInv, LedgerTypeOK
  <2>2. trades[n].ts <= now
    BY DEF LoopInv, JustifiedInv, Justified
  <2>3. now \in Int
    BY EngineAssumption DEF LoopInv, ConservationInv, TypeInv, LoopOK
  <2>. QED
    BY <1>1, <2>1, <2>2, <2>3 DEF Fills, Orders
<1>5. e.ts >= now
  BY <1>1, <1>3 DEF NoneInThePast
<1>. QED
  BY <1>4, <1>5

LEMMA StepOrdered ==
  ASSUME LoopInv, AnyCall \/ Run
  PROVE  OrderedInv'
<1>1. /\ OrderedInv /\ TypeInv /\ ConservationInv /\ ClockInv /\ JustifiedInv
  BY DEF LoopInv, ConservationInv
<1>2. order_events \subseteq order_events'
  BY <1>1, CallEffect, QuietEffect, DispatchEffect, CollectEffect, OrderEffect,
     MarketEffect DEF Run, CallFrame, PopFrame, CancelFrame, CollectFrame
<1>3. SUFFICES ASSUME NoneInThePast PROVE OrderedInv'
  BY <1>2 DEF OrderedInv, NoneInThePast
<1>4. /\ \A e \in event_queue : e.kind \in {"order", "fill"} =>
           \A n \in DOMAIN trades : trades[n].ts <= e.ts
      /\ cb = "on_order_event" =>
           \A n \in DOMAIN trades : trades[n].ts <= cur.ts
      /\ \A m, n \in DOMAIN trades : m < n => trades[m].ts <= trades[n].ts
  BY <1>1, <1>3 DEF OrderedInv
<1>5. \A e \in event_buffer : e.kind \in {"order", "fill"} =>
        \A n \in DOMAIN trades : trades[n].ts <= e.ts
  BY <1>1, <1>3, BufferIsFresh DEF ConservationInv, EventsWhole
<1>6. CASE AnyCall
  BY <1>4, <1>6, CallEffect DEF CallFrame, OrderedInv
<1>7. CASE BeginRun \/ ReturnLife \/ NextTimestamp \/ EndLoop \/ EndOfStep
  <2>1. cb' # "on_order_event"
    BY <1>7 DEF BeginRun, ReturnLife, NextTimestamp, EndLoop, EndOfStep, Enter,
       Resume
  <2>. QED
    BY <1>4, <1>7, <2>1, QuietEffect DEF OrderedInv
<1>8. CASE Dispatch
  <2>1. PICK e \in event_queue : PopFrame(e) \/ CancelFrame(e)
    BY <1>8, DispatchEffect
  <2>2. /\ pc = "due" /\ cb = "none" /\ \A f \in event_queue : e.ts <= f.ts
        /\ cb' = "on_order_event" => e.kind = "order"
    <3>1. TypeInv'
      BY <1>1, <1>8, StepTypeInv DEF AnyNext, Run
    <3>. QED
      BY <1>1, <2>1, <3>1 DEF PopFrame, CancelFrame, Due, TypeInv, LoopOK
  <2>3. CASE PopFrame(e) /\ e.kind = "fill"
    <3>1. trades \in Seq(Fills) /\ e.fill \in Fills /\ e.fill.ts = e.ts
      BY <1>1, <2>3, EventFields
         DEF TypeInv, QueuesOK, LedgerTypeOK, JustifiedInv
    <3>2. trades' = Append(trades, e.fill)
      BY <2>3 DEF PopFrame
    <3>3. /\ DOMAIN trades' = DOMAIN trades \cup {Len(trades) + 1}
          /\ DOMAIN trades = 1 .. Len(trades) /\ Len(trades) \in Nat
          /\ \A n \in DOMAIN trades : trades'[n] = trades[n]
          /\ trades'[Len(trades) + 1] = e.fill
      BY <3>1, <3>2
    <3>4. \A n \in DOMAIN trades' : trades'[n].ts <= e.ts
      <4>1. e.ts <= e.ts
        BY <3>1 DEF Fills
      <4>. QED
        BY <1>4, <2>3, <3>1, <3>3, <4>1
    <3>5. \A f \in event_queue : \A n \in DOMAIN trades' : trades'[n].ts <= f.ts
      <4>1. e.ts \in Int /\ \A f \in event_queue : f.ts \in Int
        BY <1>1, EventFields DEF TypeInv, QueuesOK
      <4>2. \A n \in DOMAIN trades' : trades'[n] \in Fills
        BY <3>1, <3>3
      <4>3. \A n \in DOMAIN trades' : trades'[n].ts \in Int
        BY <4>2 DEF Fills
      <4>. QED
        BY <2>2, <3>4, <4>1, <4>3
    <3>6. \A m, n \in DOMAIN trades' : m < n => trades'[m].ts <= trades'[n].ts
      <4>1. TAKE m, n \in DOMAIN trades'
      <4>2. CASE n \in DOMAIN trades
        <5>1. m < n => m \in DOMAIN trades
          BY <3>3, <4>2
        <5>. QED
          BY <1>4, <3>3, <4>2, <5>1
      <4>3. CASE n = Len(trades) + 1
        BY <3>1, <3>3, <3>4, <4>3
      <4>. QED
        BY <3>3, <4>2, <4>3
    <3>7. cb' # "on_order_event" /\ event_queue' \subseteq event_queue
      BY <2>2, <2>3 DEF PopFrame
    <3>. QED
      BY <3>5, <3>6, <3>7 DEF OrderedInv
  <2>4. CASE PopFrame(e) /\ e.kind # "fill"
    BY <1>4, <2>2, <2>4 DEF PopFrame, OrderedInv
  <2>5. CASE CancelFrame(e)
    BY <1>4, <1>5, <2>2, <2>5 DEF CancelFrame, OrderedInv
  <2>. QED
    BY <2>1, <2>3, <2>4, <2>5
<1>9. CASE ReturnEvent \/ ReturnMarket
  BY <1>4, <1>5, <1>9, CollectEffect DEF CollectFrame, OrderedInv
<1>10. CASE ReturnOrder
  <2>1. FillEvent(cur.order, cur.ts).ts = cur.ts
    BY DEF FillEvent
  <2>. QED
    BY <1>1, <1>4, <1>5, <1>10, <2>1, OrderEffect DEF OrderedInv
<1>11. CASE HandleMarketEvent
  <2>1. step = now
    BY <1>1, <1>11, MarketEffect DEF ClockInv
  <2>2. \A n \in DOMAIN trades : trades[n].ts <= step
    BY <1>1, <2>1 DEF JustifiedInv, Justified
  <2>3. \A o : FillEvent(o, step).ts = step
    BY DEF FillEvent
  <2>. QED
    BY <1>4, <1>11, <2>2, <2>3, MarketEffect DEF OrderedInv
<1>. QED
  BY <1>6, <1>7, <1>8, <1>9, <1>10, <1>11 DEF Run

LEMMA StepCancel ==
  ASSUME LoopInv, AnyCall \/ Run
  PROVE  CancelInv'
<1>1. CancelInv /\ TypeInv /\ ConservationInv /\ ClockInv /\ FiniteInv
  BY DEF LoopInv, ConservationInv
<1>2. now' >= now /\ now \in Int /\ now' \in Int
  <2>1. TypeInv'
    BY <1>1, StepTypeInv DEF AnyNext
  <2>. QED
    BY <1>1, <2>1, TimeGoesOn, EngineAssumption DEF TypeInv, LoopOK
<1>3. \A e \in event_buffer \cup event_queue : e.ts \in Int
  BY <1>1, EventFields DEF TypeInv, QueuesOK
<1>4. CASE AnyCall
  <2>1. \A e \in event_buffer' : Intraday(e) =>
          /\ cb \in IntradayCallbacks /\ e.ts <= now
          /\ e.resting \subseteq Resting \cup cancelled
    BY <1>1, <1>2, <1>4, CallEffect DEF Fresher, CancelInv
  <2>. QED
    BY <1>1, <1>4, <2>1, CallEffect DEF CallFrame, CancelInv, Resting
<1>5. CASE BeginRun \/ ReturnLife \/ NextTimestamp \/ EndLoop \/ EndOfStep
  <2>1. cb \notin IntradayCallbacks
    BY <1>1, <1>5 DEF BeginRun, ReturnLife, NextTimestamp, EndLoop, EndOfStep,
       In, TypeInv, LoopOK, IntradayCallbacks, EventCallbacks
  <2>. QED
    BY <1>1, <1>2, <1>3, <1>5, <2>1, QuietEffect DEF CancelInv, Resting
<1>6. CASE Dispatch
  <2>1. PICK e \in event_queue : PopFrame(e) \/ CancelFrame(e)
    BY <1>6, DispatchEffect
  <2>. QED
    BY <1>1, <2>1
       DEF PopFrame, CancelFrame, CancelInv, Resting, IntradayCallbacks
<1>7. CASE ReturnEvent \/ ReturnMarket
  BY <1>1, <1>7, CollectEffect DEF CollectFrame, CancelInv, Resting
<1>8. CASE ReturnOrder
  <2>1. ~Intraday(FillEvent(cur.order, cur.ts))
    BY DEF Intraday, FillEvent
  <2>2. Resting \subseteq Resting'
    BY <1>1, <1>8, OrderEffect DEF Resting, Uids
  <2>. QED
    BY <1>1, <1>8, <2>1, <2>2, OrderEffect DEF CancelInv
<1>9. CASE HandleMarketEvent
  <2>1. cb = "none" /\ now = step
    BY <1>1, <1>9, MarketEffect DEF TypeInv, LoopOK, ClockInv
  <2>2. \A e \in event_buffer : ~Intraday(e)
    BY <1>1, <2>1 DEF CancelInv, IntradayCallbacks, EventCallbacks
  <2>3. \A e \in event_queue : e.ts > now
    BY <1>1, <1>9, <2>1, MarketEffect, NothingDue
  <2>4. \A e \in event_queue : ~Intraday(e)
    BY <1>1, <1>2, <1>3, <2>3 DEF CancelInv
  <2>5. \A o : ~Intraday(FillEvent(o, step))
    BY DEF Intraday, FillEvent
  <2>. QED
    BY <1>9, <2>2, <2>4, <2>5, MarketEffect DEF CancelInv
<1>. QED
  BY <1>4, <1>5, <1>6, <1>7, <1>8, <1>9 DEF Run

(* In the timestamp that is scanned, an order is matched at the bar that    *)
(* was scanned, not at an earlier one.                                      *)
LEMMA StepScanned ==
  ASSUME LoopInv, AnyCall \/ Run
  PROVE  ScannedInv'
<1>1. /\ ScannedInv /\ TypeInv /\ ConservationInv /\ ClockInv /\ BufferInv
      /\ JustifiedInv /\ FiniteInv
  BY DEF LoopInv, ConservationInv
<1>2. Scanned => step # 0 /\ now = step
  BY <1>1 DEF Scanned, ClockInv, IntradayCallbacks
<1>3. NoEvent.kind # "order"
  BY DEF NoEvent
<1>. USE DEF ScannedInv
<1>4. CASE AnyCall
  <2>1. Scanned => \A e \in event_buffer' :
          e.kind = "order" /\ Prompt(e.order) => e.ts >= step
    BY <1>1, <1>2, <1>4, CallEffect DEF Fresher, Prompt
  <2>. QED
    BY <1>1, <1>4, <2>1, CallEffect DEF CallFrame, Scanned
<1>5. CASE BeginRun \/ ReturnLife \/ NextTimestamp \/ EndLoop
  <2>1. phase' # 2 /\ cb' # "on_market_event"
    <3>1. phase = 2 => cb \in EventCallbacks \cup {"none"}
      BY <1>1 DEF ClockInv
    <3>. QED
      BY <1>5, <3>1 DEF BeginRun, ReturnLife, NextTimestamp, EndLoop, In, Enter,
         Resume, EventCallbacks
  <2>. QED
    BY <2>1 DEF Scanned
<1>6. CASE EndOfStep
  BY <1>1, <1>6, QuietEffect DEF EndOfStep, Scanned, Resume
<1>7. CASE Dispatch
  <2>1. PICK e \in event_queue : PopFrame(e) \/ CancelFrame(e)
    BY <1>7, DispatchEffect
  <2>2. /\ event_buffer' \cup event_queue' \cup {cur'}
             \subseteq event_buffer \cup event_queue \cup {cur}
        /\ pending_orders' \subseteq pending_orders /\ step' = step
        /\ phase' = phase
    BY <2>1 DEF PopFrame, CancelFrame
  <2>3. Scanned' => Scanned
    BY <1>1, <2>1 DEF PopFrame, CancelFrame, Scanned, EventCallbacks
  <2>. QED
    BY <1>1, <2>2, <2>3
<1>8. CASE ReturnEvent \/ ReturnMarket
  <2>1. Scanned' => Scanned
    BY <1>8, CollectEffect DEF CollectFrame, Scanned
  <2>. QED
    BY <1>1, <1>3, <1>8, <2>1, CollectEffect DEF CollectFrame
<1>9. CASE ReturnOrder
  <2>1. Scanned' => Scanned
    BY <1>1, <1>9, OrderEffect DEF Scanned
  <2>2. cur.order \in Orders /\ cur.ts \in Int /\ cur.ts <= now
    BY <1>1, <1>9, OrderEffect
       DEF JustifiedInv, ConservationInv, TypeInv, QueuesOK, Orders
  <2>3. Scanned /\ Prompt(cur.order) /\ ~CanFill(cur.order, cur.ts) =>
          ~CanFill(cur.order, step)
    <3>1. Scanned /\ Prompt(cur.order) => cur.ts >= step
      BY <1>1, <1>9, OrderEffect
    <3>2. step \in Int
      BY <1>1, TimesArePositive
    <3>3. Scanned /\ Prompt(cur.order) => cur.ts = step
      BY <1>2, <2>2, <3>1, <3>2
    <3>. QED
      BY <3>3
  <2>4. FillEvent(cur.order, cur.ts).kind # "order"
    BY DEF FillEvent
  <2>. QED
    BY <1>1, <1>3, <1>9, <2>1, <2>3, <2>4, OrderEffect
<1>10. CASE HandleMarketEvent
  <2>1. cb = "none" /\ step # 0 /\ now = step /\ step \in Int
    BY <1>1, <1>10, MarketEffect, TimesArePositive DEF TypeInv, LoopOK, ClockInv
  <2>2. cur.kind # "order"
    BY <1>1, <2>1 DEF TypeInv, LoopOK
  <2>3. \A e \in event_queue : e.ts > step /\ e.ts \in Int
    BY <1>1, <1>10, MarketEffect, NothingDue, EventFields DEF TypeInv, QueuesOK
  <2>4. \A e \in event_buffer :
          e.kind = "order" /\ Prompt(e.order) => e.ts >= step
    BY <1>1, <2>1
       DEF BufferInv, Prompt, ConservationInv, EventsWhole, OrderEvent
  <2>5. \A o : FillEvent(o, step).kind # "order"
    BY DEF FillEvent
  <2>6. \A e \in event_queue' : e.kind = "order" => e.ts >= step
    BY <1>10, <2>1, <2>3, <2>5, MarketEffect
  <2>. QED
    BY <1>10, <2>2, <2>4, <2>6, MarketEffect
<1>. QED
  BY <1>4, <1>5, <1>6, <1>7, <1>8, <1>9, <1>10 DEF Run

-----------------------------------------------------------------------------
LEMMA InitLoopInv == Init => LoopInv
<1>. SUFFICES ASSUME Init PROVE LoopInv
  OBVIOUS
<1>1. ConservationInv
  BY InitConservation
<1>2. ClockInv /\ FiniteInv /\ DrainedInv
  BY FS_EmptySet DEF Init, ClockInv, FiniteInv, DrainedInv, IntradayCallbacks,
     EventCallbacks
<1>3. trades = <<>> /\ cur.kind # "order"
  BY DEF Init, LedgerInit, NoEvent
<1>4. JustifiedInv /\ BufferInv /\ OrderedInv /\ CancelInv /\ ScannedInv
  BY <1>3 DEF Init, JustifiedInv, BufferInv, Untouched, OrderedInv, CancelInv,
     ScannedInv, Scanned
<1>. QED
  BY <1>1, <1>2, <1>4 DEF LoopInv

LEMMA StepLoopInv == LoopInv /\ [AnyNext]_vars => LoopInv'
<1>. SUFFICES ASSUME LoopInv, [AnyNext]_vars PROVE LoopInv'
  OBVIOUS
<1>1. ConservationInv'
  BY StepConservation DEF LoopInv
<1>2. CASE AnyCall \/ Run
  BY <1>1, <1>2, StepClock, StepFinite, StepDrainedInv, StepJustified,
     StepBuffer, StepOrdered, StepCancel, StepScanned DEF LoopInv
<1>3. CASE UNCHANGED vars
  <2>1. UNCHANGED <<pc, cb, phase, cur, step, now, event_queue, event_buffer,
                    pending_orders, order_events, cancelled, trades>>
    BY <1>3 DEF vars, loopVars, clockVars, orderVars, ledgerVars, accountVars
  <2>. QED
    BY <1>1, <2>1
       DEF LoopInv, ClockInv, FiniteInv, DrainedInv, JustifiedInv, Justified,
           BufferInv, Untouched, OrderedInv, NoneInThePast, CancelInv, Resting,
           ScannedInv, Scanned
<1>. QED
  BY <1>2, <1>3 DEF AnyNext, Terminating

LEMMA LoopInvariant == Spec => []LoopInv
<1>1. LoopInv => TypeInv
  BY DEF LoopInv, ConservationInv
<1>. QED
  BY <1>1, InitLoopInv, NextIsAnyNext, StepLoopInv, PTL DEF Spec

(* Time moves on only when nothing is left to do at the present timestamp:  *)
(* run() drains its queue twice around the market event, and the second     *)
(* draining leaves neither a due event nor a buffered one.                  *)
THEOREM TimeMovesOnDrained == Spec => []StepDrained
<1>1. LoopInv => StepDrained
  BY DEF LoopInv, DrainedInv, ClockInv, StepDrained
<1>. QED
  BY <1>1, LoopInvariant, PTL

(* Every trade of the account is the whole of an accepted order, at a bar   *)
(* that was known and reached the order, at the price of the fill model.    *)
THEOREM EveryTradeJustified == Spec => []TradesJustified
<1>1. LoopInv => TradesJustified
  BY DEF LoopInv, JustifiedInv, Justified, TradesJustified
<1>. QED
  BY <1>1, LoopInvariant, PTL

(* The trade log that reports replay is chronological, as long as no order  *)
(* is stamped before the moment it was placed.                              *)
THEOREM TradeLogInOrder == Spec => []TradesInOrder
<1>1. LoopInv => TradesInOrder
  BY DEF LoopInv, OrderedInv, NoneInThePast, TradesInOrder
<1>. QED
  BY <1>1, LoopInvariant, PTL

(* An order that rested when an intraday callback cancelled it does not     *)
(* trade before the cancel is handled.                                      *)
THEOREM CancelsHonoured == Spec => []CancelHonoured
<1>1. LoopInv => CancelHonoured
  BY DEF LoopInv, CancelInv, Intraday, CancelHonoured
<1>. QED
  BY <1>1, LoopInvariant, PTL

(* An order that the bar of a timestamp reaches does not rest through it,   *)
(* wherever in the timestamp it was placed.                                 *)
THEOREM NoFillMissed == Spec => []NoMissedFill
<1>1. LoopInv => NoMissedFill
  BY DEF LoopInv, ClockInv, ScannedInv, Scanned, Prompt, NoMissedFill
<1>. QED
  BY <1>1, LoopInvariant, PTL

-----------------------------------------------------------------------------
(* The engine implements OrderLife, for any data, strategy and number of    *)
(* calls: every step of run() and every call of the Context is a step in    *)
(* the life of orders, or none.  (That a match is booked soon is liveness,  *)
(* and model-checked.)                                                      *)

CallsCounted == born <= MaxCalls

RefinementInv == ConservationInv /\ CallsCounted

Working == Announced \cup Resting
BookedLog == [n \in DOMAIN trades |-> trades[n].of]

(* What is working follows from the other places, so a step is known by     *)
(* what it does to those.                                                   *)
TheRestIsWorking ==
  /\ Working = Uids(order_events) \ (Matched \cup Booked \cup cancelled)
  /\ Matched \subseteq Uids(order_events) \ (Booked \cup cancelled)
  /\ cancelled \subseteq Uids(order_events) \ (Matched \cup Booked)
  /\ Booked \subseteq Uids(order_events)
  /\ Life!Known = Uids(order_events)

LEMMA WorkingIsTheRest == ConservationInv => TheRestIsWorking
<1>. SUFFICES ASSUME ConservationInv PROVE TheRestIsWorking
  OBVIOUS
<1>1. Split(Uids(order_events), Announced, Resting, Matched, Booked, cancelled)
  BY DEF ConservationInv, OnePlace
<1>2. Life!Range(BookedLog) = Booked
  BY DEF Life!Range, BookedLog, Booked
<1>. QED
  BY <1>1, <1>2 DEF TheRestIsWorking, Split, Working, Life!Known, BookedLog

LEMMA StepCallsCounted ==
  ASSUME RefinementInv, [AnyNext]_vars
  PROVE  CallsCounted'
<1>1. born \in Nat /\ MaxCalls \in Nat /\ born <= MaxCalls /\ ConservationInv
  BY EngineAssumption
     DEF RefinementInv, CallsCounted, ConservationInv, TypeInv, QueuesOK
<1>2. CASE AnyCall
  <2>1. born' = born \/ (born < MaxCalls /\ born' = born + 1)
    BY <1>2 DEF AnyCall, PlaceOrderAt, CancelOrder, ScheduleAlarmAt,
       SetStrategyId, MayCall, orderVars
  <2>. QED
    BY <1>1, <2>1 DEF CallsCounted
<1>3. CASE Run \/ UNCHANGED vars
  <2>1. UNCHANGED born
    BY <1>3 DEF Run, BeginRun, ReturnLife, NextTimestamp, EndLoop, EndOfStep,
       Dispatch, DispatchAlarm, DispatchRejection, DispatchOrder, DispatchFill,
       DispatchCancel, ReturnEvent, ReturnMarket, ReturnOrder,
       HandleMarketEvent, orderVars, vars
  <2>. QED
    BY <1>1, <2>1 DEF CallsCounted
<1>. QED
  BY <1>2, <1>3 DEF AnyNext, Terminating

(* The five things a step may do to the life of orders.                     *)
Quiet == UNCHANGED <<Uids(order_events), Matched, trades, cancelled>>
Accepts == /\ \E u \in 1 .. MaxCalls \ Uids(order_events) :
                Uids(order_events)' = Uids(order_events) \cup {u}
           /\ UNCHANGED <<Matched, trades, cancelled>>
Matches == /\ Matched \subseteq Matched'
           /\ UNCHANGED <<Uids(order_events), trades, cancelled>>
Cancels == /\ cancelled \subseteq cancelled'
           /\ UNCHANGED <<Uids(order_events), Matched, trades>>
Books == /\ \E f \in Fills : /\ f.of \in Matched
                             /\ Matched' = Matched \ {f.of}
                             /\ trades' = Append(trades, f)
         /\ UNCHANGED <<Uids(order_events), cancelled>>

LEMMA LifeStep ==
  ASSUME RefinementInv, ConservationInv',
         Quiet \/ Accepts \/ Matches \/ Cancels \/ Books
  PROVE  [Life!Next]_(Life!vars)
<1>. DEFINE S == Uids(order_events)
            B == Matched \cup Booked \cup cancelled
<1>1. /\ Working = S \ B
      /\ Matched \subseteq S \ (Booked \cup cancelled)
      /\ cancelled \subseteq S \ (Matched \cup Booked)
      /\ Booked \subseteq S
      /\ Life!Known = S
  BY WorkingIsTheRest DEF RefinementInv, TheRestIsWorking
<1>2. /\ Working' = S' \ B'
      /\ Matched' \subseteq S' \ (Booked' \cup cancelled')
      /\ cancelled' \subseteq S' \ (Matched' \cup Booked')
  <2>1. TheRestIsWorking'
    BY WorkingIsTheRest, PTL
  <2>. QED
    BY <2>1 DEF TheRestIsWorking
<1>3. UNCHANGED trades => UNCHANGED <<Booked, BookedLog>>
  BY DEF Booked, BookedLog
<1>. USE DEF Life!vars
<1>4. CASE Quiet
  BY <1>1, <1>2, <1>3, <1>4 DEF Quiet, Working, BookedLog
<1>5. CASE Accepts
  <2>1. PICK u \in 1 .. MaxCalls \ S : S' = S \cup {u}
    BY <1>5 DEF Accepts
  <2>2. u \notin S /\ u \in 1 .. MaxCalls
    BY <2>1
  <2>3. Life!Place(u)
    BY <1>1, <1>2, <1>3, <1>5, <2>1, <2>2
       DEF Accepts, Life!Place, Working, BookedLog
  <2>. QED
    BY <2>2, <2>3 DEF Life!Next
<1>6. CASE Matches
  <2>. DEFINE M == Matched' \ Matched
  <2>1. M \subseteq Working /\ Working' = Working \ M
    BY <1>1, <1>2, <1>3, <1>6 DEF Matches
  <2>2. CASE M = {}
    <3>1. Quiet
      BY <1>6, <2>2 DEF Matches, Quiet
    <3>. QED
      BY <1>4, <3>1
  <2>3. CASE M # {}
    <3>1. Life!Match(M)
      BY <1>3, <1>6, <2>1, <2>3 DEF Matches, Life!Match, Working, BookedLog
    <3>2. M \in SUBSET (Announced \cup Resting)
      BY <2>1 DEF Working
    <3>. QED
      BY <3>1, <3>2 DEF Life!Next
  <2>. QED
    BY <2>2, <2>3
<1>7. CASE Cancels
  <2>. DEFINE C == cancelled' \ cancelled
  <2>1. C \subseteq Working /\ Working' = Working \ C
    BY <1>1, <1>2, <1>3, <1>7 DEF Cancels
  <2>2. CASE C = {}
    <3>1. Quiet
      BY <1>7, <2>2 DEF Cancels, Quiet
    <3>. QED
      BY <1>4, <3>1
  <2>3. CASE C # {}
    <3>1. Life!Cancel(C)
      BY <1>3, <1>7, <2>1, <2>3 DEF Cancels, Life!Cancel, Working, BookedLog
    <3>2. C \in SUBSET (Announced \cup Resting)
      BY <2>1 DEF Working
    <3>. QED
      BY <3>1, <3>2 DEF Life!Next
  <2>. QED
    BY <2>2, <2>3
<1>8. CASE Books
  <2>1. PICK f \in Fills : /\ f.of \in Matched
                           /\ Matched' = Matched \ {f.of}
                           /\ trades' = Append(trades, f)
    BY <1>8 DEF Books
  <2>2. trades \in Seq(Fills)
    BY DEF RefinementInv, ConservationInv, TypeInv, LedgerTypeOK
  <2>3. BookedLog' = Append(BookedLog, f.of) /\ Booked' = Booked \cup {f.of}
    BY <2>1, <2>2 DEF BookedLog, Booked
  <2>4. Working' = Working
    BY <1>1, <1>2, <1>8, <2>1, <2>3 DEF Books
  <2>5. f.of \in 1 .. MaxCalls
    <3>1. PICK o \in order_events : o.uid = f.of
      BY <1>1, <2>1 DEF Uids
    <3>. QED
      BY <3>1, EngineAssumption DEF RefinementInv, CallsCounted, ConservationInv,
         UidsIdentify, TypeInv, QueuesOK, Orders
  <2>6. Life!Book(f.of)
    BY <1>8, <2>1, <2>3, <2>4 DEF Books, Life!Book, Working, BookedLog
  <2>. QED
    BY <2>5, <2>6 DEF Life!Next
<1>. QED
  BY <1>4, <1>5, <1>6, <1>7, <1>8

LEMMA CallIsLifeStep ==
  ASSUME RefinementInv, AnyCall
  PROVE  Quiet \/ Accepts
<1>1. UNCHANGED <<Matched, trades, cancelled>>
  BY CallEffect DEF CallFrame, Matched
<1>2. ASSUME NEW in, NEW ts, PlaceOrderAt(in, ts), PlaceAccepted(in, ts)
      PROVE  Accepts
  <2>. DEFINE o == NewOrder(in, ts)
  <2>1. order_events' = order_events \cup {o} /\ o.uid = born + 1
    BY <1>2 DEF PlaceAccepted, NewOrder
  <2>. HIDE DEF o
  <2>2. Uids(order_events)' = Uids(order_events) \cup {born + 1}
    BY <2>1 DEF Uids
  <2>3. born \in Nat /\ born < MaxCalls /\ MaxCalls \in Nat
    BY <1>2, EngineAssumption
       DEF RefinementInv, ConservationInv, TypeInv, QueuesOK, PlaceOrderAt,
           MayCall
  <2>4. born + 1 \notin Uids(order_events)
    <3>1. \A p \in order_events : p.uid \in Nat /\ p.uid <= born
      BY DEF RefinementInv, ConservationInv, UidsIdentify, TypeInv, QueuesOK,
         Orders
    <3>. QED
      BY <2>3, <3>1 DEF Uids
  <2>5. born + 1 \in 1 .. MaxCalls
    BY <2>3
  <2>. QED
    BY <1>1, <2>2, <2>4, <2>5 DEF Accepts
<1>3. CASE UNCHANGED order_events
  BY <1>1, <1>3 DEF Quiet, Uids
<1>4. CASE ~UNCHANGED order_events
  <2>1. PICK in, ts : PlaceOrderAt(in, ts)
    BY <1>4 DEF AnyCall, CancelOrder, ScheduleAlarmAt, SetStrategyId,
       orderVars
  <2>2. PlaceAccepted(in, ts)
    BY <1>4, <2>1 DEF PlaceOrderAt, PlaceRejected
  <2>. QED
    BY <1>2, <2>1, <2>2
<1>. QED
  BY <1>3, <1>4

LEMMA RunIsLifeStep ==
  ASSUME RefinementInv, Run
  PROVE  Quiet \/ Matches \/ Cancels \/ Books
<1>1. ConservationInv /\ \A e \in event_buffer : e.kind # "fill"
  BY DEF RefinementInv, ConservationInv, EventsWhole
<1>. USE DEF Quiet, Uids
<1>2. CASE BeginRun \/ ReturnLife \/ NextTimestamp \/ EndLoop \/ EndOfStep
  BY <1>2, QuietEffect DEF Matched
<1>3. CASE Dispatch
  <2>1. PICK e \in event_queue :
          \/ DispatchAlarm(e) \/ DispatchRejection(e) \/ DispatchOrder(e)
          \/ DispatchFill(e) \/ DispatchCancel(e)
    BY <1>3 DEF Dispatch
  <2>2. CASE DispatchAlarm(e) \/ DispatchRejection(e) \/ DispatchOrder(e)
    <3>1. /\ e.kind # "fill" /\ event_queue' = event_queue \ {e}
          /\ UNCHANGED <<order_events, trades, cancelled>>
      BY <2>2 DEF DispatchAlarm, DispatchRejection, DispatchOrder, Pop,
         ledgerVars, accountVars
    <3>. QED
      BY <3>1 DEF Matched, FillsIn
  <2>3. CASE DispatchFill(e)
    <3>1. /\ e.kind = "fill" /\ event_queue' = event_queue \ {e}
          /\ UNCHANGED <<order_events, cancelled>>
          /\ trades' = Append(trades, e.fill)
      BY <2>3 DEF DispatchFill, Pop, OnFill, AccountOnFill
    <3>2. e.fill \in Fills /\ e.fill.of = e.uid
      BY <1>1, <3>1, EventFields
         DEF ConservationInv, EventsWhole, TypeInv, QueuesOK
    <3>3. Matched' = Matched \ {e.uid} /\ e.uid \in Matched
      BY <1>1, <3>1 DEF ConservationInv, EventsWhole, Matched, FillsIn
    <3>. QED
      BY <3>1, <3>2, <3>3 DEF Books
  <2>4. CASE DispatchCancel(e)
    <3>1. /\ e.kind = "cancel" /\ UNCHANGED <<order_events, trades>>
          /\ event_queue' = (event_queue \ {e}) \cup event_buffer
          /\ cancelled \subseteq cancelled'
      BY <2>4 DEF DispatchCancel, Collect, ledgerVars, accountVars
    <3>2. UNCHANGED Matched
      BY <1>1, <3>1 DEF Matched, FillsIn
    <3>. QED
      BY <3>1, <3>2 DEF Cancels
  <2>. QED
    BY <2>1, <2>2, <2>3, <2>4
<1>4. CASE ReturnEvent \/ ReturnMarket
  <2>1. UNCHANGED Matched
    BY <1>1, <1>4, CollectEffect DEF CollectFrame, Matched, FillsIn
  <2>. QED
    BY <1>4, <2>1, CollectEffect DEF CollectFrame
<1>5. CASE ReturnOrder \/ HandleMarketEvent
  <2>1. /\ event_queue \subseteq event_queue'
        /\ UNCHANGED <<order_events, trades, cancelled>>
    BY <1>1, <1>5, OrderEffect, MarketEffect
       DEF HandleMarketEvent, MatchResting
  <2>2. Matched \subseteq Matched'
    BY <2>1 DEF Matched, FillsIn
  <2>. QED
    BY <2>1, <2>2 DEF Matches
<1>. QED
  BY <1>2, <1>3, <1>4, <1>5 DEF Run

(* The engine keeps the promises about orders that OrderLife makes, up to   *)
(* its liveness: nothing but accepting, matching, cancelling and booking    *)
(* ever happens to an order, and in no other succession.                    *)
THEOREM EngineKeepsOrderLife == Spec => Life!Safe
<1>1. Init => RefinementInv /\ Life!Init
  <2>. SUFFICES ASSUME Init PROVE RefinementInv /\ Life!Init
    OBVIOUS
  <2>1. RefinementInv
    BY InitConservation, EngineAssumption DEF Init, RefinementInv, CallsCounted
  <2>2. trades = <<>> /\ cur.kind = "none"
    BY DEF Init, LedgerInit, NoEvent
  <2>. QED
    BY <2>1, <2>2 DEF Init, Life!Init, Announced, OrdersIn, Resting, Uids,
       Matched, FillsIn
<1>2. RefinementInv /\ [AnyNext]_vars => RefinementInv' /\ [Life!Next]_(Life!vars)
  <2>. SUFFICES ASSUME RefinementInv, [AnyNext]_vars
                PROVE  RefinementInv' /\ [Life!Next]_(Life!vars)
    OBVIOUS
  <2>1. RefinementInv' /\ ConservationInv'
    BY StepConservation, StepCallsCounted DEF RefinementInv
  <2>2. CASE UNCHANGED vars
    <3>1. Quiet
      BY <2>2 DEF vars, orderVars, ledgerVars, accountVars, Quiet, Uids,
         Matched
    <3>. QED
      BY <2>1, <3>1, LifeStep
  <2>. QED
    BY <2>1, <2>2, CallIsLifeStep, RunIsLifeStep, LifeStep DEF AnyNext, Terminating
<1>3. RefinementInv => TypeInv
  BY DEF RefinementInv, ConservationInv
<1>. QED
  BY <1>1, <1>2, <1>3, NextIsAnyNext, PTL DEF Spec, Life!Safe
=============================================================================
