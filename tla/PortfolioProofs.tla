-------------------------- MODULE PortfolioProofs --------------------------
(***************************************************************************)
(* The portfolio strategy, for any children and any calls they make: what  *)
(* the engine promises still holds under it, and every callback reaches    *)
(* the child that asked for it, or every child once.                       *)
(***************************************************************************)
EXTENDS Portfolio, EngineProofs

-----------------------------------------------------------------------------
(* A portfolio is one strategy of those the engine is open to.              *)

LEMMA PortfolioStepIsEngineStep ==
  TypeInv /\ [PortfolioNext]_portfolioVars => [AnyNext]_vars
<1>. SUFFICES ASSUME [PortfolioNext]_portfolioVars PROVE [Next]_vars
  BY NextIsAnyNext
<1>1. Default \in Strategies /\ Children \subseteq Strategies
  BY EngineAssumption, PortfolioAssumption
<1>2. CASE BeginCallback \/ UNCHANGED portfolioVars
  BY <1>2 DEF BeginCallback, portfolioVars
<1>3. ASSUME NEW s \in Children, CallChild(s) PROVE Next
  BY <1>1, <1>3 DEF CallChild, Next, ContextCall
<1>4. CASE LeaveCallback
  BY <1>1, <1>4 DEF LeaveCallback, Next, ContextCall
<1>5. CASE ChildCalls
  BY <1>5 DEF ChildCalls, Next, ContextCall
<1>6. CASE EngineGoesOn
  BY <1>6 DEF EngineGoesOn, Next
<1>. QED
  BY <1>2, <1>3, <1>4, <1>5, <1>6 DEF PortfolioNext, Next

(* All that is proved of the engine for any strategy holds of a portfolio:  *)
(* its steps are steps of run() and calls of the Context.                   *)
THEOREM EngineInvariantUnderPortfolio == PortfolioSpec => []LoopInv
<1>1. (PortfolioInit => Init) /\ (LoopInv => TypeInv)
  BY DEF PortfolioInit, LoopInv, ConservationInv
<1>. QED
  BY <1>1, InitLoopInv, StepLoopInv, PortfolioStepIsEngineStep, PTL
     DEF PortfolioSpec

-----------------------------------------------------------------------------
(* Who asked for what.                                                      *)

AskedCalls == Len(asked) = born

(* Every order carries the id of the child that placed it, and so does what *)
(* is on its way to a child.                                                *)
AskedBy(strat, n) == n \in 1 .. born /\ strat = asked[n]

CarriesAsker(e) ==
  /\ e.kind \in {"alarm", "rejection"} => AskedBy(e.strat, e.uid)
  /\ e.kind = "order" => e.order \in order_events /\ e.uid = e.order.uid
  /\ e.kind = "fill" => AskedBy(e.fill.strat, e.fill.of)

AskedInv ==
  /\ \A o \in order_events : AskedBy(o.strat, o.uid)
  /\ \A e \in event_buffer \cup event_queue \cup {cur} : CarriesAsker(e)

CurInv ==
  cb \in EventCallbacks => cur.kind \in {"alarm", "order", "rejection", "fill"}

(* How far the present callback has got with its children.                  *)
StageInv ==
  /\ stage = "enter" => served = <<>>
  /\ pc # "callback" => stage = "enter"
  /\ stage = "left" => waiting = {}
  /\ stage # "enter" =>
       IF cb \in EventCallbacks
         THEN \/ waiting = {Asker} /\ served = <<>>
              \/ waiting = {} /\ served = <<Asker>>
         ELSE /\ IsInjective(served)
              /\ Range(served) \cup waiting = Children
              /\ Range(served) \cap waiting = {}

PortfolioInv == LoopInv /\ DeskTypeOK /\ AskedInv /\ CurInv /\ StageInv

LEMMA InitPortfolioInv == PortfolioInit => PortfolioInv
<1>. SUFFICES ASSUME PortfolioInit PROVE PortfolioInv
  OBVIOUS
<1>1. LoopInv
  BY InitLoopInv DEF PortfolioInit
<1>2. DeskTypeOK
  BY DEF PortfolioInit, DeskTypeOK, Init
<1>3. AskedInv
  BY DEF PortfolioInit, Init, AskedInv, CarriesAsker, NoEvent
<1>4. CurInv /\ StageInv
  BY DEF PortfolioInit, Init, CurInv, StageInv, EventCallbacks
<1>. QED
  BY <1>1, <1>2, <1>3, <1>4 DEF PortfolioInv

-----------------------------------------------------------------------------
(* What a step of run() does to events: it moves them and makes fills.      *)

LEMMA RunMoves ==
  ASSUME ConservationInv, Run
  PROVE  /\ UNCHANGED <<born, order_events>>
         /\ event_buffer' \subseteq event_buffer
         /\ cur' \in event_queue \cup {cur, NoEvent}
         /\ \A e \in event_queue' :
              \/ e \in event_queue \cup event_buffer
              \/ \E o \in order_events, t \in Int : e = FillEvent(o, t)
<1>1. UNCHANGED born
  BY DEF Run, BeginRun, ReturnLife, NextTimestamp, EndLoop, EndOfStep, Dispatch,
     DispatchAlarm, DispatchRejection, DispatchOrder, DispatchFill,
     DispatchCancel, ReturnEvent, ReturnMarket, ReturnOrder,
     HandleMarketEvent, orderVars
<1>2. CASE BeginRun \/ ReturnLife \/ NextTimestamp \/ EndLoop \/ EndOfStep
  BY <1>1, <1>2, QuietEffect
<1>3. CASE Dispatch
  BY <1>1, <1>3, DispatchEffect DEF PopFrame, CancelFrame
<1>4. CASE ReturnEvent \/ ReturnMarket
  BY <1>1, <1>4, CollectEffect DEF CollectFrame
<1>5. CASE ReturnOrder
  <2>1. cur.order.ts \in Int
    BY <1>5, OrderEffect DEF ConservationInv, TypeInv, QueuesOK, Orders
  <2>. QED
    BY <1>1, <1>5, <2>1, OrderEffect
<1>6. CASE HandleMarketEvent
  <2>1. pending_orders \subseteq order_events /\ step \in Int
    BY TimesArePositive DEF ConservationInv, UidsIdentify
  <2>. QED
    BY <1>1, <1>6, <2>1, MarketEffect
<1>. QED
  BY <1>2, <1>3, <1>4, <1>5, <1>6 DEF Run

LEMMA RunHasEvent ==
  ASSUME TypeInv, Run
  PROVE  CurInv'
<1>. USE DEF CurInv
<1>1. CASE Dispatch
  <2>1. PICK e \in event_queue :
          \/ DispatchAlarm(e) \/ DispatchRejection(e) \/ DispatchOrder(e)
          \/ DispatchFill(e) \/ DispatchCancel(e)
    BY <1>1 DEF Dispatch
  <2>2. CASE DispatchCancel(e)
    <3>1. cb' = "none"
      BY <2>2 DEF DispatchCancel, loopVars, TypeInv, LoopOK
    <3>. QED
      BY <3>1 DEF EventCallbacks
  <2>. QED
    BY <2>1, <2>2
       DEF DispatchAlarm, DispatchRejection, DispatchOrder, DispatchFill
<1>2. CASE ~Dispatch
  <2>1. cb' \notin EventCallbacks
    BY <1>2 DEF Run, BeginRun, ReturnLife, NextTimestamp, EndLoop, EndOfStep,
       ReturnEvent, ReturnMarket, ReturnOrder, HandleMarketEvent, Enter, Resume,
       EventCallbacks
  <2>. QED
    BY <2>1
<1>. QED
  BY <1>1, <1>2

(* What a child's call puts into the buffer carries the child.              *)
CallPuts(e) ==
  /\ event_buffer' = event_buffer \cup {e}
  /\ e.kind \in {"alarm", "rejection", "order", "cancel"}
  /\ e.kind \in {"alarm", "rejection"} =>
       e.uid = born + 1 /\ e.strat = active
  /\ e.kind = "order" => /\ order_events' = order_events \cup {e.order}
                         /\ e.uid = e.order.uid
                         /\ e.order.uid = born + 1 /\ e.order.strat = active
  /\ e.kind # "order" => UNCHANGED order_events

LEMMA CallCarries ==
  ASSUME ChildCalls
  PROVE  /\ born' = born + 1
         /\ UNCHANGED <<pc, cb, cur, active, event_queue>>
         /\ \E e : CallPuts(e)
<1>. DEFINE Goal == /\ born' = born + 1
                    /\ UNCHANGED <<pc, cb, cur, active, event_queue>>
                    /\ \E e : CallPuts(e)
<1>. USE DEF CallPuts
<1>1. ASSUME NEW in, NEW ts, PlaceOrderAt(in, ts) PROVE Goal
  <2>1. CASE PlaceAccepted(in, ts)
    <3>. DEFINE o == NewOrder(in, ts)
                e == [kind |-> "order", uid |-> o.uid, ts |-> ts, order |-> o]
    <3>1. /\ order_events' = order_events \cup {o}
          /\ event_buffer' = event_buffer \cup {e}
      BY <2>1 DEF PlaceAccepted, Emit
    <3>2. o.uid = born + 1 /\ o.strat = active
      BY DEF NewOrder
    <3>3. e.kind = "order" /\ e.order = o /\ e.uid = o.uid
      OBVIOUS
    <3>. HIDE DEF o, e
    <3>. QED
      BY <1>1, <3>1, <3>2, <3>3 DEF PlaceOrderAt, loopVars, clockVars
  <2>2. CASE PlaceRejected(in, ts)
    <3>. DEFINE e == [kind |-> "rejection", uid |-> born + 1, ts |-> ts,
                      inst |-> in.inst, side |-> in.side, qty |-> in.qty,
                      strat |-> active, reason |-> RejectReason(in)]
    <3>1. event_buffer' = event_buffer \cup {e} /\ order_events' = order_events
      BY <2>2 DEF PlaceRejected, Emit
    <3>2. e.kind = "rejection" /\ e.uid = born + 1 /\ e.strat = active
      OBVIOUS
    <3>. HIDE DEF e
    <3>. QED
      BY <1>1, <3>1, <3>2 DEF PlaceOrderAt, loopVars, clockVars
  <2>. QED
    BY <1>1, <2>1, <2>2 DEF PlaceOrderAt
<1>2. ASSUME NEW o, CancelOrder(o.id) PROVE Goal
  <2>. DEFINE e == [kind |-> "cancel", uid |-> born + 1, ts |-> now,
                    id |-> o.id,
                    resting |-> Uids({p \in pending_orders : p.id = o.id}),
                    intraday |-> cb \in IntradayCallbacks]
  <2>1. event_buffer' = event_buffer \cup {e} /\ order_events' = order_events
    BY <1>2 DEF CancelOrder, Emit
  <2>2. e.kind = "cancel"
    OBVIOUS
  <2>. HIDE DEF e
  <2>. QED
    BY <1>2, <2>1, <2>2 DEF CancelOrder, loopVars, clockVars
<1>3. ASSUME NEW ts, ScheduleAlarmAt(ts) PROVE Goal
  <2>. DEFINE e == [kind |-> "alarm", uid |-> born + 1, ts |-> ts,
                    strat |-> active, alarm |-> next_alarm_id]
  <2>1. event_buffer' = event_buffer \cup {e} /\ order_events' = order_events
    BY <1>3 DEF ScheduleAlarmAt, Emit
  <2>2. e.kind = "alarm" /\ e.uid = born + 1 /\ e.strat = active
    OBVIOUS
  <2>. HIDE DEF e
  <2>. QED
    BY <1>3, <2>1, <2>2 DEF ScheduleAlarmAt, loopVars, clockVars
<1>. QED
  BY <1>1, <1>2, <1>3 DEF ChildCalls

(* A call adds one name to the history and leaves the names before it.      *)
LEMMA AskedGrows ==
  ASSUME PortfolioInv, ChildCalls
  PROVE  /\ \A n \in 1 .. born : asked'[n] = asked[n] /\ n \in 1 .. born'
         /\ asked'[born + 1] = active /\ born + 1 \in 1 .. born'
         /\ asked' \in Seq(Children) /\ Len(asked') = born'
<1>1. asked \in Seq(Children) /\ Len(asked) = born /\ born \in Nat
  BY DEF PortfolioInv, DeskTypeOK, LoopInv, ConservationInv, TypeInv, QueuesOK
<1>2. asked' = Append(asked, child) /\ active = child /\ child \in Children
  BY DEF PortfolioInv, ChildCalls, DeskTypeOK
<1>3. born' = born + 1
  BY CallCarries
<1>. QED
  BY <1>1, <1>2, <1>3

LEMMA StepAsked ==
  ASSUME PortfolioInv, PortfolioNext
  PROVE  AskedInv'
<1>1. /\ AskedInv /\ TypeInv /\ ConservationInv /\ DeskTypeOK
  BY DEF PortfolioInv, LoopInv, ConservationInv
<1>2. CASE ChildCalls
  <2>1. PICK e : CallPuts(e)
    BY <1>2, CallCarries
  <2>2. UNCHANGED <<cur, event_queue>> /\ order_events \subseteq order_events'
    BY <1>2, <2>1, CallCarries DEF CallPuts
  <2>3. \A f : CarriesAsker(f) => CarriesAsker(f)'
    BY <1>2, <2>2, AskedGrows DEF CarriesAsker, AskedBy
  <2>4. CarriesAsker(e)'
    BY <1>2, <2>1, AskedGrows DEF CallPuts, CarriesAsker, AskedBy
  <2>5. (\A o \in order_events : AskedBy(o.strat, o.uid))'
    BY <1>1, <1>2, <2>1, AskedGrows DEF CallPuts, AskedInv, AskedBy
  <2>6. \A f \in event_buffer' \cup event_queue' \cup {cur'} : CarriesAsker(f)'
    BY <1>1, <2>1, <2>2, <2>3, <2>4 DEF CallPuts, AskedInv
  <2>. QED
    BY <2>5, <2>6 DEF AskedInv, CarriesAsker
<1>3. CASE EngineGoesOn
  <2>1. /\ UNCHANGED <<born, order_events, asked>>
        /\ event_buffer' \subseteq event_buffer
        /\ cur' \in event_queue \cup {cur, NoEvent}
        /\ \A e \in event_queue' :
             \/ e \in event_queue \cup event_buffer
             \/ \E o \in order_events, t \in Int : e = FillEvent(o, t)
    BY <1>1, <1>3, RunMoves DEF EngineGoesOn
  <2>2. \A f : CarriesAsker(f) => CarriesAsker(f)'
    BY <2>1 DEF CarriesAsker, AskedBy
  <2>3. \A o \in order_events, t \in Int : CarriesAsker(FillEvent(o, t))
    BY <1>1 DEF AskedInv, CarriesAsker, FillEvent, FillOf
  <2>4. CarriesAsker(NoEvent)
    BY DEF CarriesAsker, NoEvent
  <2>5. \A f \in event_buffer' \cup event_queue' \cup {cur'} : CarriesAsker(f)'
    BY <1>1, <2>1, <2>2, <2>3, <2>4 DEF AskedInv
  <2>6. (\A o \in order_events : AskedBy(o.strat, o.uid))'
    BY <1>1, <2>1 DEF AskedInv, AskedBy
  <2>. QED
    BY <2>5, <2>6 DEF AskedInv, CarriesAsker
<1>4. CASE ~ChildCalls /\ ~EngineGoesOn
  <2>1. UNCHANGED <<born, order_events, asked, event_buffer, event_queue, cur>>
    BY <1>4 DEF PortfolioNext, BeginCallback, CallChild, LeaveCallback,
       Terminating, SetStrategyId, vars, loopVars, orderVars, deskVars
  <2>. QED
    BY <1>1, <2>1 DEF AskedInv, CarriesAsker, AskedBy
<1>. QED
  BY <1>2, <1>3, <1>4

LEMMA StepDesk ==
  ASSUME PortfolioInv, PortfolioNext
  PROVE  DeskTypeOK'
<1>1. /\ AskedInv /\ TypeInv /\ ConservationInv /\ DeskTypeOK
  BY DEF PortfolioInv, LoopInv, ConservationInv
<1>. USE DEF DeskTypeOK
<1>2. CASE BeginCallback
  <2>1. /\ UNCHANGED <<pc, active, born, child, served, asked>>
        /\ stage = "enter" /\ stage' = "serving"
    BY <1>2 DEF BeginCallback, vars, loopVars, clockVars, orderVars
  <2>2. CASE Broadcast
    BY <1>1, <2>1, <2>2 DEF Broadcast
  <2>3. CASE Route
    <3>1. waiting' \subseteq Children
      BY <2>3 DEF Route, Target
    <3>2. cb = "on_order_event" =>
            cur.order.id \in Nat /\ cur.order.strat \in Strategies
      BY <1>1, EventFields DEF TypeInv, LoopOK, NoEvent, Orders
    <3>3. DOMAIN order_map' \subseteq Nat
      BY <1>1, <2>3, <3>2 DEF Route
    <3>4. \A id \in DOMAIN order_map' : order_map'[id] \in Strategies
      BY <1>1, <2>3, <3>2 DEF Route
    <3>. QED
      BY <1>1, <2>1, <3>1, <3>3, <3>4
  <2>. QED
    BY <1>2, <2>2, <2>3 DEF BeginCallback
<1>3. ASSUME NEW s \in Children, CallChild(s) PROVE DeskTypeOK'
  BY <1>1, <1>3 DEF CallChild, SetStrategyId, loopVars, orderVars
<1>4. CASE LeaveCallback
  BY <1>1, <1>4 DEF LeaveCallback, SetStrategyId, loopVars, orderVars
<1>5. CASE ChildCalls
  <2>1. UNCHANGED <<pc, active, order_map, stage, waiting, child, served>>
    BY <1>1, <1>5, CallCarries DEF ChildCalls
  <2>. QED
    BY <1>1, <1>5, <2>1, AskedGrows
<1>6. CASE EngineGoesOn
  <2>1. child = NoChild
    BY <1>1, <1>6 DEF EngineGoesOn
  <2>2. UNCHANGED born
    BY <1>1, <1>6, RunMoves DEF EngineGoesOn
  <2>. QED
    BY <1>1, <1>6, <2>1, <2>2 DEF EngineGoesOn
<1>7. CASE Terminating /\ UNCHANGED deskVars
  BY <1>1, <1>7
     DEF Terminating, deskVars, vars, loopVars, clockVars, orderVars
<1>. QED
  BY <1>2, <1>3, <1>4, <1>5, <1>6, <1>7 DEF PortfolioNext

(* The child of a routed event is the one that asked for it.                *)
LEMMA TargetIsAsker ==
  ASSUME PortfolioInv, cb \in EventCallbacks
  PROVE  Target = {Asker} /\ Asker \in Children
<1>1. /\ AskedInv /\ CurInv /\ asked \in Seq(Children) /\ Len(asked) = born
  BY DEF PortfolioInv, DeskTypeOK
<1>2. CarriesAsker(cur) /\ cur.kind \in {"alarm", "order", "rejection", "fill"}
  BY <1>1 DEF AskedInv, CurInv
<1>3. \A strat, n :
        AskedBy(strat, n) => strat = asked[n] /\ asked[n] \in Children
  BY <1>1 DEF AskedBy
<1>4. CASE cur.kind = "fill"
  BY <1>2, <1>3, <1>4 DEF CarriesAsker, Target, Asker
<1>5. CASE cur.kind = "order"
  <2>1. AskedBy(cur.order.strat, cur.uid)
    BY <1>1, <1>2, <1>5 DEF CarriesAsker, AskedInv
  <2>. QED
    BY <1>3, <1>5, <2>1 DEF Target, Asker
<1>6. CASE cur.kind \in {"alarm", "rejection"}
  BY <1>2, <1>3, <1>6 DEF CarriesAsker, Target, Asker
<1>. QED
  BY <1>2, <1>4, <1>5, <1>6

LEMMA StepStage ==
  ASSUME PortfolioInv, PortfolioNext
  PROVE  StageInv'
<1>1. /\ AskedInv /\ CurInv /\ TypeInv /\ ConservationInv /\ DeskTypeOK
      /\ StageInv
  BY DEF PortfolioInv, LoopInv, ConservationInv
<1>. USE DEF StageInv
<1>2. CASE BeginCallback
  <2>1. /\ UNCHANGED <<pc, cb, cur, served, asked>>
        /\ pc = "callback" /\ served = <<>> /\ stage' = "serving"
    BY <1>1, <1>2 DEF BeginCallback, vars, loopVars
  <2>2. CASE Broadcast
    <3>1. cb \notin EventCallbacks /\ waiting' = Children
      BY <2>2 DEF Broadcast, Broadcasts, LifeCallbacks, EventCallbacks
    <3>. QED
      BY <2>1, <3>1 DEF IsInjective, Range
  <2>3. CASE Route
    <3>1. cb \in EventCallbacks /\ waiting' = {Asker} /\ Asker' = Asker
      BY <2>1, <2>3, TargetIsAsker DEF Route, Asker
    <3>. QED
      BY <2>1, <3>1
  <2>. QED
    BY <1>2, <2>2, <2>3 DEF BeginCallback
<1>3. ASSUME NEW s \in Children, CallChild(s) PROVE StageInv'
  <2>1. /\ UNCHANGED <<pc, cb, cur, asked, stage>> /\ pc = "callback"
        /\ stage = "serving" /\ s \in waiting /\ waiting' = waiting \ {s}
        /\ served' = Append(served, s) /\ served \in Seq(Children)
    BY <1>1, <1>3 DEF CallChild, SetStrategyId, loopVars, DeskTypeOK
  <2>2. CASE cb \in EventCallbacks
    <3>1. waiting = {Asker} /\ served = <<>> /\ Asker' = Asker
      BY <1>1, <2>1, <2>2 DEF Asker
    <3>. QED
      BY <2>1, <2>2, <3>1
  <2>3. CASE cb \notin EventCallbacks
    <3>1. /\ IsInjective(served) /\ Range(served) \cup waiting = Children
          /\ Range(served) \cap waiting = {}
      BY <1>1, <2>1, <2>3
    <3>2. /\ DOMAIN served' = DOMAIN served \cup {Len(served) + 1}
          /\ \A n \in DOMAIN served :
               served'[n] = served[n] /\ n # Len(served) + 1
          /\ served'[Len(served) + 1] = s
      BY <2>1
    <3>3. Range(served') = Range(served) \cup {s}
      BY <3>2 DEF Range
    <3>4. IsInjective(served')
      BY <2>1, <3>1, <3>2 DEF IsInjective, Range
    <3>. QED
      BY <2>1, <2>3, <3>1, <3>3, <3>4
  <2>. QED
    BY <2>2, <2>3
<1>4. CASE LeaveCallback
  <2>1. UNCHANGED <<pc, cb, cur, asked, waiting, served>>
    BY <1>4 DEF LeaveCallback, SetStrategyId, loopVars
  <2>. QED
    BY <1>1, <1>4, <2>1 DEF LeaveCallback, SetStrategyId, Asker
<1>5. CASE ChildCalls
  <2>1. UNCHANGED <<pc, cb, cur, stage, waiting, served>>
    BY <1>1, <1>5, CallCarries DEF ChildCalls
  <2>2. cb \in EventCallbacks => Asker' = Asker
    <3>1. SUFFICES ASSUME cb \in EventCallbacks PROVE Asker' = Asker
      OBVIOUS
    <3>2. /\ CarriesAsker(cur)
          /\ cur.kind \in {"alarm", "order", "rejection", "fill"}
      BY <1>1, <3>1 DEF AskedInv, CurInv
    <3>3. (IF cur.kind = "fill" THEN cur.fill.of ELSE cur.uid) \in 1 .. born
      BY <1>1, <3>2 DEF CarriesAsker, AskedInv, AskedBy
    <3>. QED
      BY <1>5, <2>1, <3>3, AskedGrows DEF Asker
  <2>. QED
    BY <1>1, <2>1, <2>2
<1>6. CASE EngineGoesOn
  BY <1>6 DEF EngineGoesOn
<1>7. CASE Terminating /\ UNCHANGED deskVars
  BY <1>1, <1>7 DEF Terminating, deskVars, vars, loopVars, Asker
<1>. QED
  BY <1>2, <1>3, <1>4, <1>5, <1>6, <1>7 DEF PortfolioNext

LEMMA StepPortfolioInv ==
  PortfolioInv /\ [PortfolioNext]_portfolioVars => PortfolioInv'
<1>. SUFFICES ASSUME PortfolioInv, [PortfolioNext]_portfolioVars
              PROVE  PortfolioInv'
  OBVIOUS
<1>1. LoopInv'
  BY PortfolioStepIsEngineStep, StepLoopInv
     DEF PortfolioInv, LoopInv, ConservationInv
<1>2. CASE PortfolioNext
  <2>1. CurInv'
    <3>1. CASE EngineGoesOn
      BY <3>1, RunHasEvent
         DEF EngineGoesOn, PortfolioInv, LoopInv, ConservationInv
    <3>2. CASE ~EngineGoesOn
      <4>1. UNCHANGED <<cb, cur>>
        BY <1>2, <3>2, CallCarries
           DEF PortfolioNext, BeginCallback, CallChild, LeaveCallback,
               Terminating, SetStrategyId, vars, loopVars, PortfolioInv,
               LoopInv, ConservationInv
      <4>. QED
        BY <4>1 DEF PortfolioInv, CurInv
    <3>. QED
      BY <3>1, <3>2
  <2>. QED
    BY <1>1, <1>2, <2>1, StepAsked, StepDesk, StepStage DEF PortfolioInv
<1>3. CASE UNCHANGED portfolioVars
  <2>1. UNCHANGED <<pc, cb, cur, active, born, order_events, event_buffer,
                    event_queue, order_map, stage, waiting, child, served,
                    asked>>
    BY <1>3 DEF portfolioVars, vars, loopVars, clockVars, orderVars, deskVars
  <2>. QED
    BY <1>1, <2>1 DEF PortfolioInv, DeskTypeOK, AskedInv, CarriesAsker, AskedBy,
       CurInv, StageInv, Asker
<1>. QED
  BY <1>2, <1>3

(* A callback has been passed to the right children when the portfolio      *)
(* returns from it: an event to the child that asked for it and to no       *)
(* other, a broadcast to every child once, in whatever order.               *)
THEOREM CallbacksReachTheirChild == PortfolioSpec => []RoutedToAsker
<1>1. PortfolioInv => RoutedToAsker
  BY DEF PortfolioInv, StageInv, RoutedToAsker
<1>. QED
  BY <1>1, InitPortfolioInv, StepPortfolioInv, PTL DEF PortfolioSpec

-----------------------------------------------------------------------------
(* Attribution.                                                             *)

(* Under a portfolio too, the books are written by fills alone.             *)
THEOREM PortfolioKeepsBooks == PortfolioSpec => LedgerSpec
<1>1. PortfolioInit => TypeInv /\ LedgerInit
  BY InitTypeInv DEF PortfolioInit, Init
<1>. QED
  BY <1>1, PortfolioStepIsEngineStep, StepTypeInv, StepBooks, PTL
     DEF PortfolioSpec, LedgerSpec

LEMMA TradesCarryAsker ==
  ASSUME PortfolioInv, NEW n \in DOMAIN trades
  PROVE  trades[n].strat = asked[trades[n].of]
<1>1. PICK o \in order_events :
        trades[n].of = o.uid /\ trades[n] = FillOf(o, trades[n].ts)
  BY DEF PortfolioInv, LoopInv, JustifiedInv, Justified
<1>2. trades[n].strat = o.strat
  <2>. DEFINE ts == trades[n].ts
  <2>1. trades[n] = FillOf(o, ts)
    BY <1>1
  <2>. HIDE DEF ts
  <2>. QED
    BY <2>1 DEF FillOf
<1>3. o.strat = asked[o.uid]
  BY DEF PortfolioInv, AskedInv, AskedBy
<1>. QED
  BY <1>1, <1>2, <1>3

(* What a child's order trades is the child's in the trade log, in its      *)
(* attribution and in its exposure: the id under which the order was placed *)
(* is carried by the order and by its fill, whatever child is active when   *)
(* they are handled, and the books add up by that id.                       *)
THEOREM TradesAttributed == PortfolioSpec => []AttributedToAsker
<1>1. ASSUME PortfolioInv, BooksReplayTrades PROVE AttributedToAsker
  <2>1. \A n \in DOMAIN trades : trades[n].strat = asked[trades[n].of]
    BY <1>1, TradesCarryAsker
  <2>2. ASSUME NEW s \in Children
        PROVE  {n \in DOMAIN trades : asked[trades[n].of] = s}
                 = TradesWith(LAMBDA t : t.strat = s)
    BY <2>1 DEF TradesWith
  <2>3. Children \subseteq Strategies
    BY PortfolioAssumption
  <2>4. ASSUME NEW s \in Children, NEW mine,
               mine = TradesWith(LAMBDA t : t.strat = s)
        PROVE  /\ attribution[s].count = Cardinality(mine)
               /\ \A i \in Instruments :
                    strategy_positions[s][i] = TotalQty({n \in mine : trades[n].inst = i})
    BY <1>1, <2>3, <2>4 DEF BooksReplayTrades
  <2>. QED
    BY <2>1, <2>2, <2>4 DEF AttributedToAsker
<1>2. PortfolioSpec => []BooksReplayTrades
  BY PortfolioKeepsBooks, LedgerBooks, PTL
<1>3. PortfolioSpec => []PortfolioInv
  BY InitPortfolioInv, StepPortfolioInv, PTL DEF PortfolioSpec
<1>. QED
  BY <1>1, <1>2, <1>3, PTL
=============================================================================
