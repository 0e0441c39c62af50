--------------------------- MODULE ExamplesProofs ---------------------------
(***************************************************************************)
(* The built-in examples, for any data and any number of days: the legs a  *)
(* day sells are of its nearest expiry; what was sold in the entry hour is *)
(* bought back from the exit hour on; and the crossover's flag and the     *)
(* account never point to opposite sides.                                  *)
(***************************************************************************)
EXTENDS Examples, EngineProofs, SequenceTheorems

BuiltIn == {"atm", "nearest", "sma", "random"}
Sellers == {"atm", "nearest"}

-----------------------------------------------------------------------------
(* The handlers and the engine: what is asked for is called, one by one.    *)

(* The examples only place orders, and remember the id of none.             *)
Calls == [op : {"place"}, tag : {<<>>}, in : OrderArgs]

CallsOK ==
  /\ handled \in BOOLEAN
  /\ handled => pc = "callback"
  /\ todo # <<>> => handled /\ cb = "on_market_event"
  /\ todo \in Seq(Calls)

LegPair == [leg : [ce : Instruments, pe : Instruments]]

LegsOK ==
  /\ IsFiniteSet(entered) /\ exited \subseteq entered
  /\ day_state \in [entered -> LegPair]
  /\ subscribed \subseteq Instruments

HostInv == LoopInv /\ CallsOK /\ LegsOK

(* The steps of a run of one of the examples.                               *)
Idle == ~ExampleActsIn(cb) /\ Nothing /\ UNCHANGED exampleVars
Handler == AtmStraddleSell \/ NearestExpiryStraddle \/ SmaCrossover \/ Random \/ Idle
CallStep == /\ MakeCall /\ RememberStop
            /\ UNCHANGED <<variant, windows, market, entered, exampleVars>>
RunStep == Proceed /\ UNCHANGED <<straddleVars, exampleVars>>
StopStep == UNCHANGED <<allVars, exampleVars>>

LEMMA StepsOfExamples ==
  ASSUME variant \in BuiltIn, [ShippedNext]_<<allVars, exampleVars>>
  PROVE  Handler \/ CallStep \/ RunStep \/ StopStep
  BY DEF BuiltIn, AlarmDriven, ShippedNext, StraddleNext, Handler, Idle,
         CallStep, RunStep, StopStep, HostStops, Terminating, allVars

LEMMA HandlerFrame ==
  ASSUME Handler
  PROVE  /\ pc = "callback" /\ ~handled /\ handled' = TRUE
         /\ UNCHANGED <<vars, variant, market>>
  BY DEF Handler, Idle, AtmStraddleSell, SellerOnMarket, SellForTheHour,
         BuyBackAtTheHour, NearestExpiryStraddle, Subscribe, SmaCrossover,
         FollowCrossing,
         Random, Nothing, Handle, straddleVars

LEMMA PlaceIsCall ==
  ASSUME NEW i \in Instruments, NEW s \in Sides, NEW t \in OrderTypes,
         NEW p \in Int
  PROVE  Place(i, s, t, p, Quantity, <<>>) \in Calls
  BY StraddleAssumption DEF Place, Calls, OrderArgs

LEMMA CallIsPlaceOrder ==
  ASSUME CallsOK, CallStep
  PROVE  /\ Head(todo) \in Calls /\ todo' = Tail(todo)
         /\ PlaceOrderAt(Head(todo).in, now)
         /\ handled /\ cb = "on_market_event"
         /\ UNCHANGED <<handled, straddleVars, exampleVars>>
<1>1. todo # <<>> /\ todo \in Seq(Calls)
  BY DEF CallStep, MakeCall, CallsOK
<1>2. Head(todo) \in Calls
  BY <1>1, HeadTailProperties
<1>3. Head(todo).op = "place" /\ Head(todo).tag = <<>>
  BY <1>2 DEF Calls
<1>. QED
  BY <1>1, <1>2, <1>3 DEF CallStep, MakeCall, RememberStop, CallsOK,
     straddleVars

LEMMA ExampleStepIsEngineStep ==
  ASSUME TypeInv, CallsOK, variant \in BuiltIn,
         [ShippedNext]_<<allVars, exampleVars>>
  PROVE  [AnyNext]_vars
<1>1. CASE Handler \/ StopStep
  BY <1>1, HandlerFrame DEF StopStep, allVars
<1>2. CASE CallStep
  <2>1. Head(todo).in \in OrderArgs /\ PlaceOrderAt(Head(todo).in, now)
    BY <1>2, CallIsPlaceOrder DEF Calls
  <2>2. now \in Int
    BY TimesArePositive
  <2>. QED
    BY <2>1, <2>2 DEF AnyNext, AnyCall
<1>3. CASE RunStep
  BY <1>3 DEF RunStep, Proceed, AnyNext
<1>. QED
  BY <1>1, <1>2, <1>3, StepsOfExamples

-----------------------------------------------------------------------------
(* What each handler does.                                                  *)

Today == <<DayOf[now], 1>>

(* Two orders, one for each leg of a pair.                                  *)
LegCalls(ce, pe, s) ==
  [l \in 1 .. 2 |-> IF l = 1 THEN Place(ce, s, "market", 0, Quantity, <<>>)
                             ELSE Place(pe, s, "market", 0, Quantity, <<>>)]

LEMMA LegCallsAreCalls ==
  ASSUME NEW ce \in Instruments, NEW pe \in Instruments, NEW s \in Sides
  PROVE  LegCalls(ce, pe, s) \in Seq(Calls)
<1>1. /\ Place(ce, s, "market", 0, Quantity, <<>>) \in Calls
      /\ Place(pe, s, "market", 0, Quantity, <<>>) \in Calls
  BY PlaceIsCall DEF OrderTypes
<1>2. LegCalls(ce, pe, s) \in [1 .. 2 -> Calls]
  BY <1>1 DEF LegCalls
<1>. HIDE DEF LegCalls
<1>3. 2 \in Nat
  OBVIOUS
<1>. QED
  BY <1>2, <1>3, SeqDef

(* The pairs a seller may choose from.                                      *)
Pairs == IF variant = "atm" THEN AtmSellPairs ELSE NearestExpiryPairs

SellsToday(ce, pe) ==
  /\ Today \notin entered /\ Hours.entry <= Hour /\ Hour < Hours.exit
  /\ <<ce, pe>> \in Pairs
  /\ todo' = LegCalls(ce, pe, "sell")
  /\ entered' = entered \cup {Today} /\ exited' = exited
  /\ DOMAIN day_state' = DOMAIN day_state \cup {Today}
  /\ day_state'[Today] = [leg |-> [ce |-> ce, pe |-> pe]]
  /\ \A k \in DOMAIN day_state \ {Today} : day_state'[k] = day_state[k]
  /\ day_state' = [k \in DOMAIN day_state' |-> day_state'[k]]

BuysToday ==
  /\ Today \in entered /\ Today \notin exited /\ Hour >= Hours.exit
  /\ todo' = LegCalls(day_state[Today].leg.ce, day_state[Today].leg.pe, "buy")
  /\ exited' = exited \cup {Today}
  /\ UNCHANGED <<day_state, entered>>

WaitsToday ==
  /\ ~(Today \in entered /\ Today \notin exited /\ Hour >= Hours.exit)
  /\ todo' = <<>>
  /\ UNCHANGED <<day_state, entered, exited>>

Sellings ==
  /\ variant \in Sellers /\ cb = "on_market_event"
  /\ UNCHANGED <<subscribed, side>>
  /\ \/ \E ce, pe \in Instruments : SellsToday(ce, pe)
     \/ BuysToday
     \/ WaitsToday

Subscribings ==
  /\ variant = "nearest" /\ todo' = <<>>
  /\ \/ cb = "before_open" /\ subscribed' = DayChain
     \/ cb = "after_close" /\ subscribed' = {}
  /\ UNCHANGED <<day_state, entered, exited, side>>

Crossings ==
  /\ variant = "sma" /\ cb = "on_market_event"
  /\ UNCHANGED <<day_state, entered, exited, subscribed>>
  /\ \E i \in Index, s \in {-1, 0, 1} :
       /\ s = 1 => side <= 0
       /\ s = -1 => side >= 0
       /\ todo' = SideOrder(i, s)
       /\ side' = IF s = 0 THEN side ELSE s

(* One of the random strategy's orders, or nothing at all: out of its hour, *)
(* by choice, or because the index has no bar.                              *)
Others ==
  /\ \/ todo' = <<>> /\ ~ExampleActsIn(cb)
     \/ variant \in {"random", "sma"} /\ todo' = <<>>
     \/ /\ variant = "random" /\ cb = "on_market_event"
        /\ \E i \in Instruments, s \in Sides, p \in Int :
             todo' = <<Place(i, s, "limit", p, Quantity, <<>>)>>
  /\ UNCHANGED <<day_state, entered, exited, subscribed, side>>

LEMMA PairsAreInstruments ==
  ASSUME LegsOK
  PROVE  Pairs \subseteq Instruments \X Instruments
  BY DEF LegsOK, Pairs, AtmSellPairs, NearestExpiryPairs, Nearest,
         NearestToSpot, OptionsListed, Listed

LEMMA SellerEffect ==
  ASSUME LegsOK, variant \in Sellers, SellerOnMarket(Pairs)
  PROVE  Sellings
<1>1. /\ cb = "on_market_event" /\ UNCHANGED <<subscribed, side>>
      /\ \/ SellForTheHour(Today, Pairs)
         \/ BuyBackAtTheHour(Today)
         \/ /\ ~(Today \in entered /\ Today \notin exited /\ Hour >= Hours.exit)
            /\ Nothing /\ UNCHANGED exited
  BY DEF SellerOnMarket, Today, In
<1>2. CASE SellForTheHour(Today, Pairs)
  <2>1. PICK p \in Pairs :
          /\ todo' = [l \in 1 .. 2 |-> Place(p[l], "sell", "market", 0, Quantity, <<>>)]
          /\ day_state' = [k \in DOMAIN day_state \cup {Today} |->
                             IF k = Today THEN [leg |-> [ce |-> p[1], pe |-> p[2]]]
                             ELSE day_state[k]]
    BY <1>2 DEF SellForTheHour, Handle
  <2>2. /\ p[1] \in Instruments /\ p[2] \in Instruments /\ p = <<p[1], p[2]>>
    BY PairsAreInstruments
  <2>3. todo' = LegCalls(p[1], p[2], "sell")
    BY <2>1 DEF LegCalls
  <2>4. /\ DOMAIN day_state' = DOMAIN day_state \cup {Today}
        /\ day_state'[Today] = [leg |-> [ce |-> p[1], pe |-> p[2]]]
        /\ \A k \in DOMAIN day_state \ {Today} : day_state'[k] = day_state[k]
        /\ day_state' = [k \in DOMAIN day_state' |-> day_state'[k]]
    BY <2>1
  <2>5. SellsToday(p[1], p[2])
    BY <1>2, <2>2, <2>3, <2>4 DEF SellForTheHour, SellsToday
  <2>. QED
    BY <1>1, <2>2, <2>5 DEF Sellings
<1>3. CASE BuyBackAtTheHour(Today)
  <2>1. todo' = [l \in 1 .. 2 |->
          Place(day_state[Today].leg[<<"ce", "pe">>[l]], "buy", "market", 0, Quantity, <<>>)]
    BY <1>3 DEF BuyBackAtTheHour, Handle
  <2>2. todo' = LegCalls(day_state[Today].leg.ce, day_state[Today].leg.pe, "buy")
    BY <2>1 DEF LegCalls
  <2>3. BuysToday
    BY <1>3, <2>2 DEF BuyBackAtTheHour, BuysToday, straddleVars
  <2>. QED
    BY <1>1, <2>3 DEF Sellings
<1>4. CASE /\ ~(Today \in entered /\ Today \notin exited /\ Hour >= Hours.exit)
           /\ Nothing /\ UNCHANGED exited
  BY <1>1, <1>4 DEF Nothing, Handle, straddleVars, WaitsToday, Sellings
<1>. QED
  BY <1>1, <1>2, <1>3, <1>4

LEMMA CrossingEffect ==
  ASSUME SmaCrossover, FollowCrossing
  PROVE  Crossings
<1>1. /\ variant = "sma" /\ cb = "on_market_event"
      /\ UNCHANGED <<day_state, entered, exited, subscribed>>
  BY DEF SmaCrossover, FollowCrossing, In, straddleVars
<1>2. PICK i, kept, s :
        /\ i \in Index
        /\ \/ s = 0
           \/ \E short \in Sma(kept, ShortPeriod), long \in Sma(kept, LongPeriod) :
                s = Signal(short, long)
        /\ Handle(SideOrder(i, s))
        /\ side' = IF s = 0 THEN side ELSE s
  <2>1. PICK i \in Index :
       LET all == Append(closes, BarAtOrBefore(i, now).close)
           kept == SubSeq(all, IF Len(all) > LongPeriod THEN 2 ELSE 1, Len(all))
           signals == {Signal(p[1], p[2]) :
                            p \in Sma(kept, ShortPeriod) \X Sma(kept, LongPeriod)}
       IN  \E s \in IF signals = {} THEN {0} ELSE signals :
             /\ closes' = kept
             /\ Handle(SideOrder(i, s))
             /\ side' = IF s = 0 THEN side ELSE s
             /\ UNCHANGED straddleVars
    BY Zenon DEF FollowCrossing
  <2>. DEFINE all == Append(closes, BarAtOrBefore(i, now).close)
              kept == SubSeq(all, IF Len(all) > LongPeriod THEN 2 ELSE 1, Len(all))
              signals == {Signal(p[1], p[2]) :
                               p \in Sma(kept, ShortPeriod) \X Sma(kept, LongPeriod)}
  <2>2. PICK s \in IF signals = {} THEN {0} ELSE signals :
             /\ Handle(SideOrder(i, s))
             /\ side' = IF s = 0 THEN side ELSE s
    BY <2>1
  <2>. HIDE DEF kept
  <2>3. \/ s = 0
        \/ \E short \in Sma(kept, ShortPeriod), long \in Sma(kept, LongPeriod) :
             s = Signal(short, long)
    BY <2>2
  <2>. QED
    BY <2>2, <2>3
<1>3. s \in {-1, 0, 1} /\ (s = 1 => side <= 0) /\ (s = -1 => side >= 0)
  BY <1>2 DEF Signal
<1>4. todo' = SideOrder(i, s)
  BY <1>2 DEF Handle
<1>. QED
  BY <1>1, <1>2, <1>3, <1>4 DEF Crossings

LEMMA HandlerEffect ==
  ASSUME TypeInv, LegsOK, variant \in BuiltIn, Handler
  PROVE  Sellings \/ Subscribings \/ Crossings \/ Others
<1>1. CASE AtmStraddleSell
  BY <1>1, SellerEffect DEF AtmStraddleSell, Pairs, Sellers
<1>2. CASE NearestExpiryStraddle
  <2>1. CASE SellerOnMarket(NearestExpiryPairs)
    BY <1>2, <2>1, SellerEffect DEF NearestExpiryStraddle, Pairs, Sellers
  <2>2. CASE \/ In("before_open") /\ Subscribe(DayChain)
             \/ In("after_close") /\ Subscribe({})
    BY <1>2, <2>2 DEF NearestExpiryStraddle, Subscribe, ApplySubscriptionDiff,
       Nothing, Handle, In, straddleVars, Subscribings
  <2>. QED
    BY <1>2, <2>1, <2>2 DEF NearestExpiryStraddle
<1>3. CASE SmaCrossover
  <2>1. CASE FollowCrossing
    BY <1>3, <2>1, CrossingEffect
  <2>2. CASE Index = {} /\ Nothing /\ UNCHANGED <<closes, side>>
    <3>1. todo' = <<>> /\ UNCHANGED straddleVars
      BY <2>2 DEF Nothing, Handle
    <3>. QED
      BY <1>3, <2>2, <3>1 DEF SmaCrossover, Others, straddleVars
  <2>. QED
    BY <1>3, <2>1, <2>2 DEF SmaCrossover
<1>4. CASE Random
  <2>1. variant = "random" /\ cb = "on_market_event" /\ UNCHANGED exampleVars
    BY <1>4 DEF Random, In
  <2>2. CASE Nothing
    BY <2>1, <2>2 DEF Nothing, Handle, straddleVars, exampleVars, Others
  <2>3. CASE \E i \in Index, s \in Sides :
          /\ Handle(<<Place(i, s, "limit",
                            MarketableLimit(BarAtOrBefore(i, now).close, s),
                            Quantity, <<>>)>>)
          /\ UNCHANGED straddleVars
    <3>1. PICK i \in Index, s \in Sides :
          /\ Handle(<<Place(i, s, "limit",
                            MarketableLimit(BarAtOrBefore(i, now).close, s),
                            Quantity, <<>>)>>)
          /\ UNCHANGED straddleVars
      BY <2>3
    <3>. DEFINE p == MarketableLimit(BarAtOrBefore(i, now).close, s)
    <3>2. i \in Instruments /\ HasBar(i, now)
      BY DEF Index, Listed
    <3>3. p \in Int
      <4>1. now \in Int
        BY TimesArePositive
      <4>2. BarAtOrBefore(i, now).close \in Int
        BY <3>2, <4>1, BarIsBar
      <4>. QED
        BY <4>2 DEF MarketableLimit
    <3>. HIDE DEF p
    <3>4. todo' = <<Place(i, s, "limit", p, Quantity, <<>>)>>
      BY <3>1 DEF Handle, p
    <3>. QED
      BY <2>1, <3>1, <3>2, <3>3, <3>4 DEF Others, straddleVars, exampleVars
  <2>. QED
    BY <1>4, <2>2, <2>3 DEF Random
<1>5. CASE Idle
  BY <1>5 DEF Idle, Nothing, Handle, straddleVars, exampleVars, Others
<1>. QED
  BY <1>1, <1>2, <1>3, <1>4, <1>5 DEF Handler

-----------------------------------------------------------------------------
(* The types of the examples.                                               *)

LEMMA EmptyCalls == <<>> \in Seq(Calls)
  OBVIOUS

LEMMA InitExamples ==
  ASSUME ShippedInit, variant \notin AlarmDriven
  PROVE  /\ variant \in BuiltIn /\ HostInv
         /\ entered = {} /\ exited = {} /\ subscribed = {} /\ side = 0
<1>1. /\ Init /\ todo = <<>> /\ handled = FALSE /\ variant \in BuiltIn
      /\ entered = {} /\ exited = {} /\ subscribed = {} /\ side = 0
      /\ day_state = [k \in {} |-> 0]
  BY DEF ShippedInit, StraddleInit, ExamplesInit, HostInit, BuiltIn
<1>2. LoopInv
  BY <1>1, InitLoopInv
<1>3. CallsOK
  BY <1>1, EmptyCalls DEF CallsOK
<1>4. LegsOK
  BY <1>1, FS_EmptySet DEF LegsOK
<1>. QED
  BY <1>1, <1>2, <1>3, <1>4 DEF HostInv

LEMMA SideOrderIsCall ==
  ASSUME NEW i \in Instruments, NEW s \in {-1, 0, 1}
  PROVE  SideOrder(i, s) \in Seq(Calls)
<1>1. CASE s = 0
  BY <1>1, EmptyCalls DEF SideOrder
<1>2. CASE s # 0
  <2>. DEFINE c == Place(i, IF s = 1 THEN "buy" ELSE "sell", "market", 0, Quantity, <<>>)
  <2>1. c \in Calls
    BY PlaceIsCall DEF Sides, OrderTypes
  <2>2. SideOrder(i, s) = <<c>>
    BY <1>2 DEF SideOrder
  <2>. HIDE DEF c
  <2>. QED
    BY <2>1, <2>2
<1>. QED
  BY <1>1, <1>2

LEMMA HandlerTypes ==
  ASSUME LegsOK, CallsOK, variant \in BuiltIn, Handler,
         Sellings \/ Subscribings \/ Crossings \/ Others
  PROVE  CallsOK' /\ LegsOK'
<1>1. /\ pc = "callback" /\ handled' = TRUE /\ UNCHANGED <<pc, cb>>
  BY HandlerFrame DEF vars, loopVars
<1>. DEFINE Goal == /\ todo' \in Seq(Calls)
                    /\ todo' # <<>> => cb = "on_market_event"
<1>2. CASE Sellings
  <2>1. CASE \E ce, pe \in Instruments : SellsToday(ce, pe)
    <3>1. PICK ce \in Instruments, pe \in Instruments : SellsToday(ce, pe)
      BY <2>1
    <3>2. Goal
      BY <1>2, <3>1, LegCallsAreCalls DEF SellsToday, Sellings, Sides
    <3>3. IsFiniteSet(entered')
      BY <3>1, FS_AddElement DEF SellsToday, LegsOK
    <3>4. DOMAIN day_state' = entered'
      BY <3>1 DEF SellsToday, LegsOK
    <3>5. \A k \in entered' : day_state'[k] \in LegPair
      <4>1. day_state'[Today] \in LegPair
        BY <3>1 DEF SellsToday, LegPair
      <4>2. \A k \in entered : k # Today => day_state'[k] \in LegPair
        BY <3>1 DEF SellsToday, LegsOK
      <4>. QED
        BY <3>1, <4>1, <4>2 DEF SellsToday
    <3>6. day_state' = [k \in DOMAIN day_state' |-> day_state'[k]]
      BY <3>1 DEF SellsToday
    <3>7. day_state' \in [entered' -> LegPair]
      BY <3>4, <3>5, <3>6
    <3>8. exited' \subseteq entered' /\ subscribed' \subseteq Instruments
      BY <1>2, <3>1 DEF SellsToday, Sellings, LegsOK
    <3>. QED
      BY <1>1, <3>2, <3>3, <3>7, <3>8 DEF CallsOK, LegsOK
  <2>2. CASE BuysToday
    <3>1. day_state[Today].leg.ce \in Instruments /\ day_state[Today].leg.pe \in Instruments
      BY <2>2 DEF BuysToday, LegsOK, LegPair
    <3>2. Goal
      BY <1>2, <2>2, <3>1, LegCallsAreCalls DEF BuysToday, Sellings, Sides
    <3>3. LegsOK'
      BY <1>2, <2>2 DEF BuysToday, Sellings, LegsOK
    <3>. QED
      BY <1>1, <3>2, <3>3 DEF CallsOK
  <2>3. CASE WaitsToday
    <3>1. Goal
      BY <2>3, EmptyCalls DEF WaitsToday
    <3>2. LegsOK'
      BY <1>2, <2>3 DEF WaitsToday, Sellings, LegsOK
    <3>. QED
      BY <1>1, <3>1, <3>2 DEF CallsOK
  <2>. QED
    BY <1>2, <2>1, <2>2, <2>3 DEF Sellings
<1>3. CASE Subscribings
  <2>1. Goal /\ LegsOK'
    BY <1>3, EmptyCalls
       DEF Subscribings, LegsOK, DayChain, OptionsListed, Listed
  <2>. QED
    BY <1>1, <2>1 DEF CallsOK
<1>4. CASE Crossings
  <2>1. Goal
    BY <1>4, SideOrderIsCall DEF Crossings, Index, Listed
  <2>2. LegsOK'
    BY <1>4 DEF Crossings, LegsOK
  <2>. QED
    BY <1>1, <2>1, <2>2 DEF CallsOK
<1>5. CASE Others
  <2>1. Goal
    <3>1. CASE todo' = <<>>
      BY <3>1, EmptyCalls
    <3>2. CASE /\ cb = "on_market_event"
               /\ \E i \in Instruments, s \in Sides, p \in Int :
                    todo' = <<Place(i, s, "limit", p, Quantity, <<>>)>>
      BY <3>2, PlaceIsCall DEF OrderTypes
    <3>. QED
      BY <1>5, <3>1, <3>2 DEF Others
  <2>2. LegsOK'
    BY <1>5 DEF Others, LegsOK
  <2>. QED
    BY <1>1, <2>1, <2>2 DEF CallsOK
<1>. QED
  BY <1>2, <1>3, <1>4, <1>5

LEMMA RunFrame ==
  ASSUME CallsOK, RunStep
  PROVE  /\ Run /\ todo = <<>> /\ todo' = <<>> /\ handled' = FALSE
         /\ pc = "callback" => handled
         /\ UNCHANGED <<straddleVars, exampleVars>>
  BY DEF CallsOK, RunStep, Proceed

LEMMA StepHost ==
  ASSUME HostInv, variant \in BuiltIn, [ShippedNext]_<<allVars, exampleVars>>
  PROVE  HostInv' /\ UNCHANGED variant
<1>1. LoopInv /\ TypeInv /\ CallsOK /\ LegsOK
  BY DEF HostInv, LoopInv, ConservationInv
<1>2. LoopInv'
  BY <1>1, ExampleStepIsEngineStep, StepLoopInv
<1>3. CASE Handler
  BY <1>1, <1>2, <1>3, HandlerFrame, HandlerEffect, HandlerTypes DEF HostInv
<1>4. CASE CallStep
  <2>1. /\ todo # <<>> /\ todo' = Tail(todo) /\ todo \in Seq(Calls)
        /\ UNCHANGED <<handled, straddleVars, exampleVars>>
    BY <1>1, <1>4, CallIsPlaceOrder DEF CallStep, MakeCall, CallsOK
  <2>2. Tail(todo) \in Seq(Calls)
    BY <2>1, HeadTailProperties
  <2>3. UNCHANGED <<pc, cb>>
    BY <1>1, <1>4, CallIsPlaceOrder DEF PlaceOrderAt, loopVars
  <2>4. CallsOK'
    BY <1>1, <2>1, <2>2, <2>3 DEF CallsOK
  <2>5. LegsOK'
    BY <1>1, <2>1 DEF LegsOK, straddleVars, exampleVars
  <2>. QED
    BY <1>2, <2>1, <2>4, <2>5 DEF HostInv, straddleVars
<1>5. CASE RunStep
  <2>1. CallsOK'
    BY <1>1, <1>5, RunFrame, EmptyCalls DEF CallsOK
  <2>2. LegsOK' /\ UNCHANGED variant
    BY <1>1, <1>5, RunFrame DEF LegsOK, straddleVars, exampleVars
  <2>. QED
    BY <1>2, <2>1, <2>2 DEF HostInv
<1>6. CASE StopStep
  <2>1. CallsOK' /\ LegsOK' /\ UNCHANGED variant
    BY <1>1, <1>6 DEF StopStep, allVars, vars, loopVars, hostVars,
       straddleVars, exampleVars, CallsOK, LegsOK
  <2>. QED
    BY <1>2, <2>1 DEF HostInv
<1>. QED
  BY <1>3, <1>4, <1>5, <1>6, StepsOfExamples

-----------------------------------------------------------------------------
(* The legs of a day.                                                       *)

ExpiriesFrom(d) == {Meta[i].expiry : i \in OptionsListed} \cap {e \in Nat : e >= d}

(* The options of the nearest expiry from day d on.                         *)
ChainOf(d) ==
  {i \in OptionsListed : /\ Meta[i].expiry \in ExpiriesFrom(d)
                         /\ \A e \in ExpiriesFrom(d) : Meta[i].expiry <= e}

(* What is subscribed is of the day that the loop is in, and once           *)
(* before_open has acted of the day it is about to be in.                   *)
ChainInv ==
  /\ subscribed \subseteq
       ChainOf(IF cb = "before_open" /\ handled THEN DayOf[step] ELSE day)
  /\ pc = "due" \/ cb \in IntradayCallbacks => day = DayOf[step]
  /\ \A key \in entered, l \in {"ce", "pe"} :
       day_state[key].leg[l] \in ChainOf(key[1])

LEMMA HandlerChain ==
  ASSUME HostInv, ChainInv, variant = "nearest", Handler
  PROVE  ChainInv'
<1>1. TypeInv /\ ClockInv /\ LegsOK /\ CallsOK
  BY DEF HostInv, LoopInv, ConservationInv
<1>2. /\ ~handled /\ handled' = TRUE /\ pc = "callback"
      /\ UNCHANGED <<pc, cb, step, day, market>>
  BY HandlerFrame DEF vars, loopVars
<1>3. \A d : ChainOf(d)' = ChainOf(d)
  BY <1>2 DEF ChainOf, ExpiriesFrom, OptionsListed, Listed
<1>4. CASE Sellings
  <2>1. now = step /\ day = DayOf[step] /\ cb = "on_market_event"
    BY <1>1, <1>4 DEF Sellings, ClockInv, ChainInv, IntradayCallbacks
  <2>2. subscribed' = subscribed /\ subscribed \subseteq ChainOf(DayOf[now])
    BY <1>4, <2>1 DEF Sellings, ChainInv
  <2>3. CASE UNCHANGED <<entered, day_state>>
    BY <1>2, <1>3, <2>1, <2>2, <2>3 DEF ChainInv
  <2>4. CASE \E ce, pe \in Instruments : SellsToday(ce, pe)
    <3>1. PICK ce \in Instruments, pe \in Instruments : SellsToday(ce, pe)
      BY <2>4
    <3>2. ce \in subscribed /\ pe \in subscribed
      BY <3>1 DEF SellsToday, Pairs, NearestExpiryPairs, Nearest, NearestToSpot
    <3>3. \A l \in {"ce", "pe"} : day_state'[Today].leg[l] \in ChainOf(Today[1])
      BY <2>2, <3>1, <3>2 DEF SellsToday, Today
    <3>4. \A k \in entered : k # Today => day_state'[k] = day_state[k]
      BY <1>1, <3>1 DEF SellsToday, LegsOK
    <3>5. \A k \in entered', l \in {"ce", "pe"} : day_state'[k].leg[l] \in ChainOf(k[1])
      BY <3>1, <3>3, <3>4 DEF SellsToday, ChainInv
    <3>. QED
      BY <1>2, <1>3, <2>1, <2>2, <3>5 DEF ChainInv
  <2>. QED
    BY <1>4, <2>3, <2>4 DEF Sellings, BuysToday, WaitsToday
<1>5. CASE Subscribings
  <2>1. UNCHANGED <<entered, day_state>>
    BY <1>5 DEF Subscribings
  <2>2. CASE cb = "before_open" /\ subscribed' = DayChain
    <3>1. now = step
      BY <1>1, <2>2 DEF TypeInv, LoopOK, ClockInv
    <3>2. subscribed' = ChainOf(DayOf[step])
      BY <2>2, <3>1 DEF DayChain, DayExpiries, ChainOf, ExpiriesFrom
    <3>. QED
      BY <1>2, <1>3, <2>1, <2>2, <3>2 DEF ChainInv
  <2>3. CASE cb = "after_close" /\ subscribed' = {}
    BY <1>2, <1>3, <2>1, <2>3 DEF ChainInv
  <2>. QED
    BY <1>5, <2>2, <2>3 DEF Subscribings
<1>6. CASE Others
  <2>1. cb # "before_open" /\ UNCHANGED <<entered, day_state, subscribed>>
    BY <1>6 DEF Others, ExampleActsIn
  <2>. QED
    BY <1>2, <1>3, <2>1 DEF ChainInv
<1>. QED
  BY <1>1, <1>4, <1>5, <1>6, HandlerEffect DEF Crossings, BuiltIn

LEMMA RunChain ==
  ASSUME HostInv, ChainInv, RunStep
  PROVE  ChainInv'
<1>1. /\ Run /\ handled' = FALSE /\ (pc = "callback" => handled)
      /\ UNCHANGED <<straddleVars, exampleVars>>
  BY RunFrame DEF HostInv
<1>2. TypeInv /\ ConservationInv /\ (pc = "callback" <=> cb # "none")
  BY DEF HostInv, LoopInv, ConservationInv, TypeInv, LoopOK
<1>3. UNCHANGED <<subscribed, entered, day_state, market>>
  BY <1>1 DEF straddleVars, exampleVars
<1>4. \A d : ChainOf(d)' = ChainOf(d)
  BY <1>3 DEF ChainOf, ExpiriesFrom, OptionsListed, Listed
<1>5. /\ subscribed \subseteq ChainOf(day')
      /\ pc' = "due" \/ cb' \in IntradayCallbacks => day' = DayOf[step']
  <2>1. CASE ReturnLife
    <3>1. /\ pc = "callback" /\ step' = step
          /\ day' = IF cb = "before_open" THEN DayOf[step] ELSE day
          /\ pc' = "due" => cb = "before_open"
          /\ cb' \notin IntradayCallbacks
      BY <2>1 DEF ReturnLife, In, Enter, Resume, IntradayCallbacks,
         EventCallbacks
    <3>. QED
      BY <1>1, <3>1 DEF ChainInv
  <2>2. CASE NextTimestamp
    <3>1. /\ pc = "next" /\ day' = day
          /\ pc' = "due" => day' = DayOf[step']
          /\ cb' \notin IntradayCallbacks
      BY <2>2 DEF NextTimestamp, Enter, Resume, IntradayCallbacks,
         EventCallbacks
    <3>. QED
      BY <1>2, <3>1 DEF ChainInv
  <2>3. CASE BeginRun \/ EndLoop \/ EndOfStep
    <3>1. /\ day' = day /\ pc' # "due" /\ cb' \notin IntradayCallbacks
          /\ cb # "before_open"
      BY <1>2, <2>3 DEF BeginRun, EndLoop, EndOfStep, Enter, Resume, In,
         IntradayCallbacks, EventCallbacks
    <3>. QED
      BY <3>1 DEF ChainInv
  <2>4. CASE Dispatch \/ ReturnEvent \/ ReturnOrder \/ HandleMarketEvent \/ ReturnMarket
    <3>1. /\ UNCHANGED <<day, step>>
      BY <2>4 DEF Dispatch, DispatchAlarm, DispatchRejection, DispatchOrder,
         DispatchFill, DispatchCancel, ReturnEvent, ReturnOrder,
         HandleMarketEvent, ReturnMarket, loopVars
    <3>2. (pc = "due" \/ cb \in IntradayCallbacks) /\ cb # "before_open"
      BY <1>2, <2>4 DEF Dispatch, DispatchAlarm, DispatchRejection,
         DispatchOrder, DispatchFill, DispatchCancel, Pop, ReturnEvent,
         ReturnOrder, HandleMarketEvent, MarketReady, ReturnMarket, In,
         IntradayCallbacks, EventCallbacks
    <3>. QED
      BY <3>1, <3>2 DEF ChainInv
  <2>. QED
    BY <1>1, <2>1, <2>2, <2>3, <2>4 DEF Run
<1>. QED
  BY <1>1, <1>3, <1>4, <1>5 DEF ChainInv

LEMMA ChainKept ==
  ASSUME ChainInv, UNCHANGED <<handled, straddleVars, exampleVars, loopVars>>
  PROVE  ChainInv'
<1>1. /\ UNCHANGED <<subscribed, entered, day_state, market>>
      /\ UNCHANGED <<handled, cb, day, step, pc>>
  BY DEF straddleVars, exampleVars, loopVars
<1>2. \A d : ChainOf(d)' = ChainOf(d)
  BY <1>1 DEF ChainOf, ExpiriesFrom, OptionsListed, Listed
<1>. QED
  BY <1>1, <1>2 DEF ChainInv

LEMMA CallChain ==
  ASSUME HostInv, ChainInv, CallStep
  PROVE  ChainInv'
<1>1. UNCHANGED <<handled, straddleVars, exampleVars, loopVars>>
  BY CallIsPlaceOrder DEF HostInv, PlaceOrderAt
<1>. QED
  BY <1>1, ChainKept

LEMMA StopChain ==
  ASSUME ChainInv, StopStep
  PROVE  ChainInv'
<1>1. UNCHANGED <<handled, straddleVars, exampleVars, loopVars>>
  BY DEF StopStep, allVars, vars, hostVars
<1>. QED
  BY <1>1, ChainKept

LEMMA StepChain ==
  ASSUME HostInv, ChainInv, variant = "nearest",
         [ShippedNext]_<<allVars, exampleVars>>
  PROVE  ChainInv'
<1>1. Handler \/ CallStep \/ RunStep \/ StopStep
  BY StepsOfExamples DEF BuiltIn
<1>. QED
  BY <1>1, HandlerChain, CallChain, RunChain, StopChain

LEMMA SameVariant ==
  ASSUME [ShippedNext]_<<allVars, exampleVars>>
  PROVE  UNCHANGED <<variant, market>>
<1>1. CASE Handler
  BY <1>1, HandlerFrame
<1>2. CASE StraddleNext \/ StopStep
  BY <1>2 DEF StraddleNext, StopStep, ScheduleDayAlarms, OnAlarm, ProcessEntry,
     EntryWeekly, EntryPremium, EntryWindow, EnterOnce, SellAndGuard,
     ProcessExit, ExitWeekly, ExitPremium, ExitWindow, CloseLegs, SyncFills,
     OtherCallback, Nothing, straddleVars, allVars
<1>. QED
  BY <1>1, <1>2 DEF ShippedNext, StopStep, Handler, Idle

LEMMA ChainShowsLegs ==
  ASSUME ChainInv
  PROVE  LegsOfTheDay
<1>1. SUFFICES ASSUME NEW key \in entered, NEW l \in {"ce", "pe"}
      PROVE  LET leg == Meta[day_state[key].leg[l]].expiry
             IN  /\ leg >= key[1]
                 /\ \A i \in OptionsListed :
                      Meta[i].expiry >= key[1] => leg <= Meta[i].expiry
  BY DEF LegsOfTheDay
<1>2. day_state[key].leg[l] \in ChainOf(key[1])
  BY DEF ChainInv
<1>3. \A i \in OptionsListed : Meta[i].expiry \in Nat
  BY StraddleAssumption DEF OptionsListed, Listed
<1>. QED
  BY <1>2, <1>3 DEF ChainOf, ExpiriesFrom

(* The legs a day sells are of the nearest expiry of that day: the          *)
(* subscription it chooses them from is replaced in before_open, before the *)
(* day has its first event.                                                 *)
THEOREM ExampleLegs == ShippedSpec => []LegsOfTheDay
<1>. DEFINE Inv == variant = "nearest" => HostInv /\ ChainInv
<1>1. ShippedInit => Inv
  <2>. SUFFICES ASSUME ShippedInit, variant = "nearest" PROVE HostInv /\ ChainInv
    OBVIOUS
  <2>1. HostInv /\ entered = {} /\ subscribed = {}
    BY InitExamples DEF AlarmDriven
  <2>2. Init
    BY DEF ShippedInit, StraddleInit, ExamplesInit, HostInit
  <2>. QED
    BY <2>1, <2>2 DEF Init, ChainInv, IntradayCallbacks, EventCallbacks
<1>2. Inv /\ [ShippedNext]_<<allVars, exampleVars>> => Inv'
  <2>. SUFFICES ASSUME Inv, [ShippedNext]_<<allVars, exampleVars>>,
                       variant' = "nearest"
                PROVE  (HostInv /\ ChainInv)'
    OBVIOUS
  <2>1. variant = "nearest" /\ variant \in BuiltIn
    BY SameVariant DEF BuiltIn
  <2>. QED
    BY <2>1, StepHost, StepChain
<1>3. Inv => LegsOfTheDay
  BY ChainShowsLegs DEF LegsOfTheDay
<1>. QED
  BY <1>1, <1>2, <1>3, PTL DEF ShippedSpec

-----------------------------------------------------------------------------
(* The orders of the examples that place market orders.                     *)

Traders == {"atm", "nearest", "sma"}

MarketCalls ==
  [op : {"place"}, tag : {<<>>},
   in : [inst : Instruments, side : Sides, type : {"market"}, price : {0},
         qty : {Quantity}]]

FewCalls(s) == s \in Seq(MarketCalls) /\ Len(s) <= 2

OrdersOK ==
  /\ FewCalls(todo)
  /\ IsFiniteSet(order_events) /\ Cardinality(order_events) <= born
  /\ \A o \in order_events :
       /\ o.type = "market" /\ o.qty = Quantity /\ o.ts = o.at
       /\ o.at # 0 /\ o.at <= step
  /\ cancelled = {}
  /\ \A e \in event_buffer \cup event_queue : e.kind # "cancel"

LEMMA MarketPlace ==
  ASSUME NEW i \in Instruments, NEW s \in Sides
  PROVE  /\ Place(i, s, "market", 0, Quantity, <<>>) \in MarketCalls
         /\ Place(i, s, "market", 0, Quantity, <<>>).in.inst = i
         /\ Place(i, s, "market", 0, Quantity, <<>>).in.side = s
  BY DEF Place, MarketCalls

LEMMA LegCallsAre ==
  ASSUME NEW ce \in Instruments, NEW pe \in Instruments, NEW s \in Sides
  PROVE  /\ FewCalls(LegCalls(ce, pe, s))
         /\ Len(LegCalls(ce, pe, s)) = 2
         /\ LegCalls(ce, pe, s)[1].in.inst = ce
         /\ LegCalls(ce, pe, s)[2].in.inst = pe
         /\ \A n \in 1 .. 2 : LegCalls(ce, pe, s)[n].in.side = s
<1>1. LegCalls(ce, pe, s) \in [1 .. 2 -> MarketCalls]
  BY MarketPlace DEF LegCalls
<1>2. /\ LegCalls(ce, pe, s)[1] = Place(ce, s, "market", 0, Quantity, <<>>)
      /\ LegCalls(ce, pe, s)[2] = Place(pe, s, "market", 0, Quantity, <<>>)
  BY DEF LegCalls
<1>. HIDE DEF LegCalls
<1>3. LegCalls(ce, pe, s) \in Seq(MarketCalls)
  <2>1. 2 \in Nat
    OBVIOUS
  <2>. QED
    BY <1>1, <2>1, SeqDef
<1>4. Len(LegCalls(ce, pe, s)) = 2
  <2>1. DOMAIN LegCalls(ce, pe, s) = 1 .. 2
    BY <1>1
  <2>2. /\ Len(LegCalls(ce, pe, s)) \in Nat
        /\ DOMAIN LegCalls(ce, pe, s) = 1 .. Len(LegCalls(ce, pe, s))
    BY <1>3, LenProperties
  <2>. HIDE DEF LegCalls
  <2>. QED
    BY <2>1, <2>2
<1>5. \A n \in 1 .. 2 : LegCalls(ce, pe, s)[n].in.side = s
  <2>1. 1 .. 2 = {1, 2}
    OBVIOUS
  <2>. QED
    BY <1>2, <2>1, MarketPlace
<1>. QED
  BY <1>2, <1>3, <1>4, <1>5, MarketPlace DEF FewCalls

LEMMA NoMarketCalls == FewCalls(<<>>) /\ Len(<<>>) = 0
  BY DEF FewCalls

LEMMA SideOrderIs ==
  ASSUME NEW i \in Instruments, NEW s \in {-1, 0, 1}
  PROVE  /\ FewCalls(SideOrder(i, s))
         /\ s = 0 => SideOrder(i, s) = <<>>
         /\ s # 0 => /\ Len(SideOrder(i, s)) = 1
                     /\ SideOrder(i, s)[1].in.inst = i
                     /\ SideOrder(i, s)[1].in.side = IF s = 1 THEN "buy" ELSE "sell"
<1>1. CASE s = 0
  BY <1>1, NoMarketCalls DEF SideOrder
<1>2. CASE s # 0
  <2>. DEFINE sd == IF s = 1 THEN "buy" ELSE "sell"
              c == Place(i, sd, "market", 0, Quantity, <<>>)
  <2>1. sd \in Sides /\ SideOrder(i, s) = <<c>>
    BY <1>2 DEF SideOrder, Sides
  <2>2. c \in MarketCalls /\ c.in.inst = i /\ c.in.side = sd
    BY <2>1, MarketPlace
  <2>. HIDE DEF c, sd
  <2>3. <<c>> \in Seq(MarketCalls) /\ Len(<<c>>) = 1 /\ <<c>>[1] = c
    BY <2>2
  <2>. QED
    BY <1>2, <2>1, <2>2, <2>3 DEF sd, FewCalls
<1>. QED
  BY <1>1, <1>2

LEMMA HandlerOrders ==
  ASSUME HostInv, OrdersOK, variant \in Traders, Handler
  PROVE  OrdersOK'
<1>1. UNCHANGED <<order_events, born, step, cancelled, event_buffer, event_queue>>
  BY HandlerFrame DEF vars, loopVars, orderVars
<1>2. FewCalls(todo')
  <2>1. CASE Sellings
    <3>1. ASSUME NEW ce \in Instruments, NEW pe \in Instruments, SellsToday(ce, pe)
          PROVE  FewCalls(todo')
      BY <3>1, LegCallsAre DEF SellsToday, Sides
    <3>2. CASE BuysToday
      <4>1. /\ day_state[Today].leg.ce \in Instruments
            /\ day_state[Today].leg.pe \in Instruments
        BY <3>2 DEF BuysToday, HostInv, LegsOK, LegPair
      <4>. QED
        BY <3>2, <4>1, LegCallsAre DEF BuysToday, Sides
    <3>. QED
      BY <2>1, <3>1, <3>2, NoMarketCalls DEF Sellings, WaitsToday
  <2>2. CASE Crossings
    <3>1. PICK i \in Index, s \in {-1, 0, 1} : todo' = SideOrder(i, s)
      BY <2>2 DEF Crossings
    <3>2. i \in Instruments
      BY DEF Index, Listed
    <3>3. FewCalls(SideOrder(i, s))
      BY <3>2, SideOrderIs
    <3>. QED
      BY <3>1, <3>3
  <2>3. CASE Subscribings \/ Others
    BY <2>3, NoMarketCalls DEF Subscribings, Others, Traders
  <2>4. variant \in BuiltIn
    BY DEF Traders, BuiltIn
  <2>5. TypeInv /\ LegsOK
    BY DEF HostInv, LoopInv, ConservationInv
  <2>. QED
    BY <2>1, <2>2, <2>3, <2>4, <2>5, HandlerEffect
<1>. QED
  BY <1>1, <1>2 DEF OrdersOK

(* An accepted order is a new one, as it was asked for.                     *)
NewOne(o) ==
  /\ order_events' = order_events \cup {o} /\ o \notin order_events
  /\ o.uid = born + 1 /\ \A p \in order_events : p.uid # o.uid
  /\ o.inst = Head(todo).in.inst /\ o.side = Head(todo).in.side
  /\ o.type = "market" /\ o.qty = Quantity /\ o.ts = o.at /\ o.at = step
  /\ event_buffer' = event_buffer \cup {OrderEvent(o)}

RefusedOne ==
  /\ order_events' = order_events
  /\ \A e \in event_buffer' : e \in event_buffer \/ e.kind = "rejection"

LEMMA CallOutcome ==
  ASSUME HostInv, OrdersOK, CallStep
  PROVE  /\ born \in Nat /\ born' = born + 1 /\ step # 0 /\ now = step
         /\ todo # <<>> /\ todo' = Tail(todo) /\ Head(todo) \in MarketCalls
         /\ UNCHANGED <<step, event_queue, pending_orders, cancelled, trades,
                        positions, loopVars, now, handled, straddleVars,
                        exampleVars>>
         /\ RefusedOne \/ \E o : NewOne(o)
<1>1. /\ PlaceOrderAt(Head(todo).in, now) /\ cb = "on_market_event"
      /\ todo' = Tail(todo)
      /\ UNCHANGED <<handled, straddleVars, exampleVars>>
  BY CallIsPlaceOrder DEF HostInv
<1>2. todo # <<>> /\ Head(todo) \in MarketCalls
  <2>1. todo # <<>> /\ todo \in Seq(MarketCalls)
    BY DEF CallStep, MakeCall, OrdersOK, FewCalls
  <2>. QED
    BY <2>1, HeadTailProperties
<1>. DEFINE in == Head(todo).in
<1>3. in.type = "market" /\ in.qty = Quantity
  BY <1>2 DEF MarketCalls
<1>4. step # 0 /\ now = step /\ born \in Nat /\ UidsIdentify
  BY <1>1 DEF HostInv, LoopInv, ConservationInv, ClockInv, IntradayCallbacks,
     TypeInv, QueuesOK
<1>5. \A p \in order_events : p.uid <= born /\ p.uid \in Nat
  BY <1>4 DEF UidsIdentify, HostInv, LoopInv, ConservationInv, TypeInv,
     QueuesOK, Orders
<1>6. CASE PlaceAccepted(in, now)
  <2>. DEFINE o == NewOrder(in, now)
  <2>1. /\ order_events' = order_events \cup {o}
        /\ event_buffer' = event_buffer \cup
             {[kind |-> "order", uid |-> o.uid, ts |-> now, order |-> o]}
    BY <1>6 DEF PlaceAccepted, Emit
  <2>2. /\ o.uid = born + 1 /\ o.inst = in.inst /\ o.side = in.side
        /\ o.type = in.type /\ o.qty = in.qty /\ o.ts = now /\ o.at = now
    BY DEF NewOrder
  <2>. HIDE DEF o
  <2>3. \A p \in order_events : p.uid # o.uid
    BY <1>4, <1>5, <2>2
  <2>4. o \notin order_events
    BY <2>3
  <2>5. NewOne(o)
    BY <1>3, <1>4, <2>1, <2>2, <2>3, <2>4 DEF NewOne, OrderEvent
  <2>. QED
    BY <1>1, <1>2, <1>4, <2>5 DEF PlaceOrderAt, loopVars, clockVars, ledgerVars,
       accountVars
<1>7. CASE PlaceRejected(in, now)
  <2>1. RefusedOne
    BY <1>7 DEF PlaceRejected, Emit, RefusedOne
  <2>. QED
    BY <1>1, <1>2, <1>4, <2>1 DEF PlaceOrderAt, loopVars, clockVars, ledgerVars,
       accountVars
<1>. QED
  BY <1>1, <1>6, <1>7 DEF PlaceOrderAt

LEMMA TailOfTodo ==
  ASSUME OrdersOK, todo # <<>>, todo' = Tail(todo)
  PROVE  /\ FewCalls(todo') /\ Len(todo) \in 1 .. 2
         /\ Len(todo') = Len(todo) - 1 /\ Head(todo) = todo[1]
         /\ Len(todo) = 2 => todo'[1] = todo[2]
<1>1. todo \in Seq(MarketCalls) /\ Len(todo) \in Nat /\ Len(todo) <= 2 /\ Len(todo) # 0
  BY EmptySeq, LenProperties DEF OrdersOK, FewCalls
<1>2. /\ Tail(todo) \in Seq(MarketCalls) /\ Len(Tail(todo)) = Len(todo) - 1
      /\ \A n \in 1 .. Len(Tail(todo)) : Tail(todo)[n] = todo[n + 1]
      /\ Head(todo) = todo[1]
  BY <1>1, HeadTailProperties
<1>3. Len(todo) = 2 => Tail(todo)[1] = todo[2]
  BY <1>1, <1>2
<1>4. FewCalls(Tail(todo))
  BY <1>1, <1>2 DEF FewCalls
<1>. QED
  BY <1>1, <1>2, <1>3, <1>4

LEMMA CallOrders ==
  ASSUME HostInv, OrdersOK, CallStep
  PROVE  OrdersOK'
<1>1. /\ born \in Nat /\ born' = born + 1 /\ step # 0 /\ now = step
      /\ todo # <<>> /\ todo' = Tail(todo)
      /\ UNCHANGED <<step, event_queue, cancelled>>
      /\ RefusedOne \/ \E o : NewOne(o)
  BY CallOutcome
<1>2. FewCalls(todo')
  BY <1>1, TailOfTodo
<1>3. Cardinality(order_events) \in Nat /\ step \in Nat
  BY FS_CardinalityType, TimesArePositive
     DEF OrdersOK, HostInv, LoopInv, ConservationInv
<1>4. CASE RefusedOne
  <2>1. Cardinality(order_events) <= born + 1
    BY <1>1, <1>3 DEF OrdersOK
  <2>. QED
    BY <1>1, <1>2, <1>4, <2>1 DEF RefusedOne, OrdersOK
<1>5. ASSUME NEW o, NewOne(o)
      PROVE  OrdersOK'
  <2>1. /\ IsFiniteSet(order_events')
        /\ Cardinality(order_events') = Cardinality(order_events) + 1
    BY <1>5, FS_AddElement DEF NewOne, OrdersOK
  <2>2. Cardinality(order_events') <= born'
    BY <1>1, <1>3, <2>1 DEF OrdersOK
  <2>3. OrderEvent(o).kind = "order"
    BY DEF OrderEvent
  <2>. QED
    BY <1>1, <1>2, <1>3, <1>5, <2>1, <2>2, <2>3 DEF NewOne, OrdersOK
<1>. QED
  BY <1>1, <1>4, <1>5

(* run() books at most one fill in a step, and takes no other decision      *)
(* about orders that the examples place.                                    *)
BooksOne(f) ==
  /\ f \in Fills /\ f.of \in Matched /\ Justified(f)
  /\ trades' = Append(trades, f)
  /\ positions' = [positions EXCEPT ![f.inst] = PositionUpdate(@, f)]

LEMMA RunOutcome ==
  ASSUME HostInv, OrdersOK, Run
  PROVE  /\ UNCHANGED <<order_events, born>> /\ step' \in Nat /\ step' >= step
         /\ cancelled' = {}
         /\ \A e \in event_buffer' \cup event_queue' : e.kind # "cancel"
         /\ UNCHANGED <<trades, positions>> \/ \E f : BooksOne(f)
<1>1. /\ LoopInv /\ TypeInv /\ ConservationInv /\ ClockInv /\ JustifiedInv
      /\ EventsWhole
  BY DEF HostInv, LoopInv, ConservationInv
<1>2. step \in Nat /\ \A t \in Times : t \in Nat
  BY <1>1, TimesArePositive
<1>3. CASE BeginRun \/ ReturnLife \/ EndLoop \/ EndOfStep \/ NextTimestamp
  <2>1. UNCHANGED <<orderVars, trades, positions>>
    BY <1>3 DEF BeginRun, ReturnLife, EndLoop, EndOfStep, NextTimestamp,
       ledgerVars, accountVars
  <2>2. step' \in Nat /\ step' >= step
    <3>1. CASE NextTimestamp
      <4>1. step' \in Times /\ step' > step
        BY <1>1, <3>1, NextIsLater DEF NextTimestamp
      <4>. QED
        BY <1>2, <4>1
    <3>2. CASE ~NextTimestamp
      <4>1. step' = step
        BY <1>3, <3>2 DEF BeginRun, ReturnLife, EndLoop, EndOfStep
      <4>. QED
        BY <1>2, <4>1
    <3>. QED
      BY <3>1, <3>2
  <2>. QED
    BY <2>1, <2>2 DEF orderVars, OrdersOK
<1>4. CASE Dispatch
  <2>1. PICK e \in event_queue : \/ DispatchAlarm(e) \/ DispatchRejection(e)
                                 \/ DispatchOrder(e) \/ DispatchFill(e)
    BY <1>4 DEF Dispatch, DispatchCancel, OrdersOK
  <2>2. /\ UNCHANGED <<order_events, born, step, cancelled, event_buffer>>
        /\ event_queue' = event_queue \ {e}
    BY <2>1 DEF DispatchAlarm, DispatchRejection, DispatchOrder, DispatchFill, Pop
  <2>3. CASE DispatchFill(e)
    <3>. DEFINE f == e.fill
    <3>1. e.kind = "fill" /\ f \in Fills
      BY <1>1, <2>3, EventFields DEF DispatchFill, TypeInv, QueuesOK
    <3>2. f.of \in Matched
      BY <1>1, <3>1 DEF EventsWhole, Matched, FillsIn
    <3>3. Justified(f)
      BY <1>1, <3>1 DEF JustifiedInv
    <3>4. BooksOne(f)
      BY <2>3, <3>1, <3>2, <3>3 DEF BooksOne, DispatchFill, OnFill, AccountOnFill
    <3>. QED
      BY <1>2, <2>2, <3>4 DEF OrdersOK
  <2>4. CASE ~DispatchFill(e)
    <3>1. UNCHANGED <<trades, positions>>
      BY <2>1, <2>4 DEF DispatchAlarm, DispatchRejection, DispatchOrder,
         ledgerVars, accountVars
    <3>. QED
      BY <1>2, <2>2, <3>1 DEF OrdersOK
  <2>. QED
    BY <2>3, <2>4
<1>5. CASE ReturnEvent \/ ReturnMarket
  BY <1>2, <1>5 DEF ReturnEvent, ReturnMarket, Collect, clockVars, ledgerVars,
     accountVars, OrdersOK
<1>6. CASE ReturnOrder \/ HandleMarketEvent
  <2>1. /\ UNCHANGED <<order_events, born, step, cancelled, trades, positions>>
        /\ event_buffer' \subseteq event_buffer
    BY <1>6 DEF ReturnOrder, HandleMarketEvent, MatchOrRest, Match, Rest,
       Collect, clockVars, ledgerVars, accountVars
  <2>2. \A o, t : FillEvent(o, t).kind = "fill"
    BY DEF FillEvent
  <2>3. \A e \in event_queue' : \/ e \in event_queue \cup event_buffer
                                \/ e.kind = "fill"
    BY <1>6, <2>2 DEF ReturnOrder, HandleMarketEvent, MatchResting, MatchOrRest,
       Match, Rest, Collect
  <2>. QED
    BY <1>2, <2>1, <2>3 DEF OrdersOK
<1>. QED
  BY <1>3, <1>4, <1>5, <1>6 DEF Run

LEMMA RunOrders ==
  ASSUME HostInv, OrdersOK, RunStep
  PROVE  OrdersOK'
<1>1. Run /\ FewCalls(todo')
  BY RunFrame, NoMarketCalls DEF HostInv
<1>2. /\ UNCHANGED <<order_events, born>> /\ step' \in Nat /\ step' >= step
      /\ cancelled' = {}
      /\ \A e \in event_buffer' \cup event_queue' : e.kind # "cancel"
  BY <1>1, RunOutcome
<1>3. step \in Nat /\ \A o \in order_events : o.at \in Nat
  BY TimesArePositive
     DEF HostInv, LoopInv, ConservationInv, TypeInv, QueuesOK, Orders
<1>4. \A o \in order_events : o.at <= step'
  BY <1>2, <1>3 DEF OrdersOK
<1>. QED
  BY <1>1, <1>2, <1>4 DEF OrdersOK

-----------------------------------------------------------------------------
(* What the account holds is what was booked.                               *)

OrdersOf(i, s) == {o \in order_events : o.inst = i /\ o.side = s}
BookedOf(i, s) == {o \in OrdersOf(i, s) : o.uid \in Booked}

PositionsInv ==
  \A i \in Instruments :
    positions[i].qty = Quantity * (Cardinality(BookedOf(i, "buy"))
                                     - Cardinality(BookedOf(i, "sell")))

LEMMA OrdersAreFinite ==
  ASSUME OrdersOK, NEW i, NEW s
  PROVE  /\ IsFiniteSet(OrdersOf(i, s)) /\ IsFiniteSet(BookedOf(i, s))
         /\ Cardinality(OrdersOf(i, s)) \in Nat /\ Cardinality(BookedOf(i, s)) \in Nat
<1>1. OrdersOf(i, s) \subseteq order_events /\ BookedOf(i, s) \subseteq order_events
  BY DEF OrdersOf, BookedOf
<1>2. IsFiniteSet(OrdersOf(i, s)) /\ IsFiniteSet(BookedOf(i, s))
  BY <1>1, FS_Subset DEF OrdersOK
<1>. QED
  BY <1>2, FS_CardinalityType

(* A new order is not booked yet.                                           *)
LEMMA CallPositions ==
  ASSUME HostInv, OrdersOK, PositionsInv, CallStep
  PROVE  PositionsInv'
<1>1. UNCHANGED <<trades, positions>> /\ (RefusedOne \/ \E o : NewOne(o))
  BY CallOutcome
<1>2. Booked' = Booked
  BY <1>1 DEF Booked
<1>3. Booked \subseteq Uids(order_events)
  BY DEF HostInv, LoopInv, ConservationInv, OnePlace, Split
<1>4. \A i, s : BookedOf(i, s)' = BookedOf(i, s)
  <2>1. CASE RefusedOne
    BY <1>2, <2>1 DEF RefusedOne, BookedOf, OrdersOf
  <2>2. ASSUME NEW o, NewOne(o)
        PROVE  \A i, s : BookedOf(i, s)' = BookedOf(i, s)
    <3>1. o.uid \notin Booked /\ order_events' = order_events \cup {o}
      BY <1>3, <2>2 DEF NewOne, Uids
    <3>. QED
      BY <1>2, <3>1 DEF BookedOf, OrdersOf
  <2>. QED
    BY <1>1, <2>1, <2>2
<1>. QED
  BY <1>1, <1>4 DEF PositionsInv

(* One fill more is one order more that is booked.                          *)
LEMMA FillPositions ==
  ASSUME HostInv, OrdersOK, PositionsInv, NEW f, BooksOne(f),
         UNCHANGED order_events
  PROVE  PositionsInv'
<1>1. /\ f \in Fills /\ f.of \in Matched /\ trades \in Seq(Fills)
      /\ trades' = Append(trades, f)
      /\ positions' = [positions EXCEPT ![f.inst] = PositionUpdate(@, f)]
  BY DEF BooksOne, HostInv, LoopInv, ConservationInv, TypeInv, LedgerTypeOK
<1>2. PICK o \in order_events : /\ f.of = o.uid /\ f = FillOf(o, f.ts)
  BY DEF BooksOne, Justified
<1>3. f.inst = o.inst /\ f.side = o.side /\ f.qty = Quantity
  <2>1. f.inst = o.inst /\ f.side = o.side /\ f.qty = o.qty
    BY <1>2 DEF FillOf
  <2>. QED
    BY <2>1 DEF OrdersOK
<1>4. Booked' = Booked \cup {o.uid} /\ o.uid \notin Booked
  <2>1. Booked' = Booked \cup {f.of}
    BY <1>1 DEF Booked
  <2>2. Matched \cap Booked = {}
    BY DEF HostInv, LoopInv, ConservationInv, OnePlace, Split
  <2>. QED
    BY <1>1, <1>2, <2>1, <2>2
<1>5. \A p \in order_events : p.uid = o.uid => p = o
  BY DEF HostInv, LoopInv, ConservationInv, UidsIdentify
<1>6. /\ o.side \in Sides /\ o.inst \in Instruments /\ Quantity \in Nat
      /\ \A i \in Instruments : positions[i].qty \in Int
      /\ positions = [i \in Instruments |-> positions[i]]
  BY StraddleAssumption
     DEF HostInv, LoopInv, ConservationInv, TypeInv, QueuesOK, Orders,
         LedgerTypeOK
<1>7. /\ BookedOf(o.inst, o.side)' = BookedOf(o.inst, o.side) \cup {o}
      /\ o \notin BookedOf(o.inst, o.side)
      /\ \A i, s : i # o.inst \/ s # o.side => BookedOf(i, s)' = BookedOf(i, s)
  BY <1>4, <1>5 DEF BookedOf, OrdersOf
<1>8. Cardinality(BookedOf(o.inst, o.side)')
        = Cardinality(BookedOf(o.inst, o.side)) + 1
  <2>. DEFINE A == BookedOf(o.inst, o.side)
              B == BookedOf(o.inst, o.side)'
  <2>1. B = A \cup {o} /\ o \notin A /\ IsFiniteSet(A)
    BY <1>7, OrdersAreFinite
  <2>. HIDE DEF A, B
  <2>2. Cardinality(B) = Cardinality(A) + 1
    BY <2>1, FS_AddElement
  <2>. QED
    BY <2>2 DEF A, B
<1>9. /\ positions'[o.inst].qty = positions[o.inst].qty + SideSign(o.side) * Quantity
      /\ \A i \in Instruments : i # o.inst => positions'[i] = positions[i]
  BY <1>1, <1>3, <1>6 DEF PositionUpdate, SignedQty
<1>10. SUFFICES ASSUME NEW i \in Instruments
       PROVE positions'[i].qty = Quantity * (Cardinality(BookedOf(i, "buy")')
                                               - Cardinality(BookedOf(i, "sell")'))
  BY DEF PositionsInv
<1>11. CASE i # o.inst
  BY <1>7, <1>9, <1>11 DEF PositionsInv
<1>12. CASE i = o.inst
  <2>. DEFINE b == Cardinality(BookedOf(i, "buy"))
              c == Cardinality(BookedOf(i, "sell"))
              bb == Cardinality(BookedOf(i, "buy")')
              cc == Cardinality(BookedOf(i, "sell")')
              q == positions[i].qty
              qq == positions'[i].qty
  <2>1. b \in Nat /\ c \in Nat /\ q = Quantity * (b - c)
    BY OrdersAreFinite DEF PositionsInv
  <2>2. CASE o.side = "buy"
    <3>1. bb = b + 1 /\ cc = c /\ qq = q + Quantity
      <4>1. q \in Int /\ qq = q + 1 * Quantity
        BY <1>6, <1>9, <1>12, <2>2 DEF SideSign
      <4>2. bb = b + 1 /\ cc = c
        BY <1>7, <1>8, <1>12, <2>2
      <4>. HIDE DEF q, qq
      <4>3. qq = q + Quantity
        BY <1>6, <4>1
      <4>. QED
        BY <4>2, <4>3
    <3>. HIDE DEF b, c, bb, cc, q, qq
    <3>2. Quantity * (b + 1 - c) = Quantity * (b - c) + Quantity
      BY <1>6, <2>1
    <3>3. qq = Quantity * (bb - cc)
      BY <2>1, <3>1, <3>2
    <3>. QED
      BY <3>3 DEF bb, cc, qq
  <2>3. CASE o.side = "sell"
    <3>1. bb = b /\ cc = c + 1 /\ qq = q - Quantity
      <4>1. q \in Int /\ qq = q + (-1) * Quantity
        BY <1>6, <1>9, <1>12, <2>3 DEF SideSign
      <4>2. bb = b /\ cc = c + 1
        BY <1>7, <1>8, <1>12, <2>3
      <4>. HIDE DEF q, qq
      <4>3. qq = q - Quantity
        BY <1>6, <4>1
      <4>. QED
        BY <4>2, <4>3
    <3>. HIDE DEF b, c, bb, cc, q, qq
    <3>2. Quantity * (b - (c + 1)) = Quantity * (b - c) - Quantity
      BY <1>6, <2>1
    <3>3. qq = Quantity * (bb - cc)
      BY <2>1, <3>1, <3>2
    <3>. QED
      BY <3>3 DEF bb, cc, qq
  <2>. QED
    BY <1>6, <2>2, <2>3 DEF Sides
<1>. QED
  BY <1>11, <1>12

LEMMA RunPositions ==
  ASSUME HostInv, OrdersOK, PositionsInv, RunStep
  PROVE  PositionsInv'
<1>1. /\ UNCHANGED order_events
      /\ UNCHANGED <<trades, positions>> \/ \E f : BooksOne(f)
  BY RunFrame, RunOutcome DEF HostInv
<1>2. CASE UNCHANGED <<trades, positions>>
  BY <1>1, <1>2 DEF PositionsInv, BookedOf, OrdersOf, Booked
<1>. QED
  BY <1>1, <1>2, FillPositions

LEMMA StepBooked ==
  ASSUME HostInv, OrdersOK, PositionsInv, variant \in Traders,
         [ShippedNext]_<<allVars, exampleVars>>
  PROVE  OrdersOK' /\ PositionsInv'
<1>1. CASE Handler
  <2>1. UNCHANGED <<order_events, trades, positions>>
    BY <1>1, HandlerFrame DEF vars, orderVars, ledgerVars, accountVars
  <2>. QED
    BY <1>1, <2>1, HandlerOrders DEF PositionsInv, BookedOf, OrdersOf, Booked
<1>2. CASE StopStep
  <2>1. UNCHANGED <<order_events, trades, positions, todo, born, step, cancelled,
                    event_buffer, event_queue>>
    BY <1>2 DEF StopStep, allVars, vars, loopVars, orderVars, ledgerVars,
       accountVars, hostVars
  <2>. QED
    BY <2>1 DEF OrdersOK, FewCalls, PositionsInv, BookedOf, OrdersOf, Booked
<1>3. variant \in BuiltIn
  BY DEF Traders, BuiltIn
<1>. QED
  BY <1>1, <1>2, <1>3, CallOrders, CallPositions, RunOrders, RunPositions,
     StepsOfExamples

-----------------------------------------------------------------------------
(* Between timestamps every order of an instrument with a bar is booked,    *)
(* and none of one without.                                                 *)

LEMMA BarsStay ==
  ASSUME NEW i, NEW t \in Int, NEW u \in Int, t <= u, i \in Instruments, HasBar(i, t)
  PROVE  HasBar(i, u)
<1>1. DOMAIN Bars[i] \subseteq Int
  BY FillModelAssumption, EngineAssumption
<1>. QED
  BY <1>1 DEF HasBar, BarTimes

LEMMA BookedHaveBars ==
  ASSUME HostInv, NEW o \in order_events, o.uid \in Booked
  PROVE  HasBar(o.inst, now)
<1>1. PICK n \in DOMAIN trades : trades[n].of = o.uid
  BY DEF Booked
<1>2. Justified(trades[n]) /\ trades[n] \in Fills /\ UidsIdentify
  BY <1>1 DEF HostInv, LoopInv, ConservationInv, JustifiedInv, TypeInv,
     LedgerTypeOK
<1>3. PICK p \in order_events : trades[n].of = p.uid /\ CanFill(p, trades[n].ts)
  BY <1>2 DEF Justified
<1>4. p = o
  BY <1>1, <1>2, <1>3 DEF UidsIdentify
<1>5. /\ trades[n].ts \in Int /\ now \in Int /\ trades[n].ts <= now
      /\ o.inst \in Instruments
  BY <1>2, TimesArePositive
     DEF Fills, Justified, HostInv, LoopInv, ConservationInv, TypeInv,
         QueuesOK, Orders
<1>. QED
  BY <1>3, <1>4, <1>5, BarsStay DEF CanFill

LEMMA OrdersAtRest ==
  ASSUME HostInv, OrdersOK, pc = "next", StaleAfter = Off,
         NEW o \in order_events
  PROVE  o.uid \in Booked <=> HasBar(o.inst, now)
<1>1. /\ OnePlace /\ UidsIdentify /\ EventsWhole /\ TypeInv /\ ClockInv
      /\ DrainedInv /\ JustifiedInv /\ ScannedInv
  BY DEF HostInv, LoopInv, ConservationInv
<1>2. step \in Nat /\ o.at \in Nat /\ step # 0 /\ now = step
  <2>1. step \in Nat /\ o.at \in Nat /\ o.at # 0 /\ o.at <= step
    BY <1>1, TimesArePositive DEF OrdersOK, TypeInv, QueuesOK, Orders
  <2>. QED
    BY <1>1, <2>1 DEF ClockInv
<1>3. SUFFICES ASSUME HasBar(o.inst, now), o.uid \notin Booked PROVE FALSE
  BY BookedHaveBars
<1>4. phase = 2 /\ event_buffer = {} /\ \A e \in event_queue : e.ts > step
  BY <1>1, <1>2 DEF ClockInv, DrainedInv
<1>5. cur.kind # "order"
  BY <1>1 DEF TypeInv, LoopOK
<1>6. \A e \in event_queue : e.kind # "order" /\ e.kind # "fill"
  <2>1. ASSUME NEW e \in event_queue, e.kind = "order" PROVE FALSE
    <3>1. e.order \in order_events /\ e.ts = e.order.ts
      BY <1>1, <2>1 DEF EventsWhole, OrderEvent
    <3>2. e.order.at \in Nat /\ e.order.at <= step /\ e.order.ts = e.order.at
      BY <1>1, <3>1 DEF OrdersOK, TypeInv, QueuesOK, Orders
    <3>. QED
      BY <1>2, <1>4, <3>1, <3>2
  <2>2. ASSUME NEW e \in event_queue, e.kind = "fill" PROVE FALSE
    <3>1. e.fill.ts <= now /\ e.fill.ts = e.ts
      BY <1>1, <2>2 DEF JustifiedInv, Justified
    <3>2. e.ts \in Int
      BY <1>1, EventFields DEF TypeInv, QueuesOK
    <3>. QED
      BY <1>2, <1>4, <3>1, <3>2
  <2>. QED
    BY <2>1, <2>2
<1>7. Announced = {} /\ Matched = {} /\ cancelled = {}
  BY <1>4, <1>5, <1>6 DEF Announced, Matched, OrdersIn, FillsIn, OrdersOK
<1>8. o.uid \in Resting
  <2>1. o.uid \in Uids(order_events)
    BY DEF Uids
  <2>. QED
    BY <1>1, <1>3, <1>7, <2>1 DEF OnePlace, Split
<1>9. o \in pending_orders
  BY <1>1, <1>8 DEF Resting, Uids, UidsIdentify
<1>10. ~CanFill(o, step)
  BY <1>1, <1>2, <1>4, <1>9 DEF ScannedInv, Scanned, Prompt, OrdersOK
<1>11. CanFill(o, step)
  BY <1>1, <1>2, <1>3 DEF CanFill, Fresh, Reaches, BuyReaches, SellReaches,
     OrdersOK
<1>. QED
  BY <1>10, <1>11

LEMMA PositionsAtRest ==
  ASSUME HostInv, OrdersOK, PositionsInv, pc = "next", StaleAfter = Off,
         NEW i \in Instruments
  PROVE  \/ positions[i].qty = 0
         \/ positions[i].qty = Quantity * (Cardinality(OrdersOf(i, "buy"))
                                             - Cardinality(OrdersOf(i, "sell")))
<1>1. CASE HasBar(i, now)
  <2>1. \A s : BookedOf(i, s) = OrdersOf(i, s)
    BY <1>1, OrdersAtRest DEF BookedOf, OrdersOf
  <2>. QED
    BY <2>1 DEF PositionsInv
<1>2. CASE ~HasBar(i, now)
  <2>1. \A s : BookedOf(i, s) = {}
    BY <1>2, OrdersAtRest DEF BookedOf, OrdersOf
  <2>2. positions[i].qty = Quantity * (0 - 0)
    BY <2>1, FS_EmptySet DEF PositionsInv
  <2>. QED
    BY <2>2, StraddleAssumption
<1>. QED
  BY <1>1, <1>2

-----------------------------------------------------------------------------
(* What was asked for: placed, or still to be called.                       *)

Asks(n, i, s) ==
  IF n <= Len(todo) /\ todo[n].in.inst = i /\ todo[n].in.side = s THEN 1 ELSE 0

Wanted(i, s) == Cardinality(OrdersOf(i, s)) + Asks(1, i, s) + Asks(2, i, s)

LEMMA WantedIsNat ==
  ASSUME OrdersOK, NEW i, NEW s
  PROVE  Wanted(i, s) \in Nat
<1>1. Asks(1, i, s) \in Nat /\ Asks(2, i, s) \in Nat
  BY DEF Asks
<1>. QED
  BY <1>1, OrdersAreFinite DEF Wanted

LEMMA WantedAtRest ==
  ASSUME OrdersOK, todo = <<>>, NEW i, NEW s
  PROVE  Wanted(i, s) = Cardinality(OrdersOf(i, s))
<1>1. Asks(1, i, s) = 0 /\ Asks(2, i, s) = 0
  BY NoMarketCalls DEF Asks
<1>. QED
  BY <1>1, OrdersAreFinite DEF Wanted

(* A call that is accepted leaves what was asked for as it was.             *)
LEMMA CallWants ==
  ASSUME HostInv, OrdersOK, CallStep, NoneRefused'
  PROVE  NoneRefused /\ \A i, s : Wanted(i, s)' = Wanted(i, s)
<1>1. /\ born \in Nat /\ born' = born + 1
      /\ todo # <<>> /\ todo' = Tail(todo)
      /\ RefusedOne \/ \E o : NewOne(o)
  BY CallOutcome
<1>2. /\ Len(todo) \in 1 .. 2 /\ Len(todo') = Len(todo) - 1
      /\ Head(todo) = todo[1] /\ (Len(todo) = 2 => todo'[1] = todo[2])
  BY <1>1, TailOfTodo
<1>3. /\ Cardinality(order_events) \in Nat /\ Cardinality(order_events) <= born
      /\ IsFiniteSet(order_events)
  BY FS_CardinalityType DEF OrdersOK
<1>4. born' = Cardinality(order_events')
  BY DEF NoneRefused
<1>5. PICK o : NewOne(o)
  <2>1. ~RefusedOne
    BY <1>1, <1>3, <1>4 DEF RefusedOne
  <2>. QED
    BY <1>1, <2>1
<1>6. NoneRefused
  <2>1. Cardinality(order_events') = Cardinality(order_events) + 1
    BY <1>3, <1>5, FS_AddElement DEF NewOne
  <2>2. born + 1 = Cardinality(order_events) + 1
    BY <1>1, <1>4, <2>1
  <2>3. born = Cardinality(order_events)
    BY <1>1, <1>3, <2>2
  <2>. QED
    BY <2>3 DEF NoneRefused
<1>7. ASSUME NEW i, NEW s
      PROVE  Wanted(i, s)' = Wanted(i, s)
  <2>. DEFINE c == Cardinality(OrdersOf(i, s))
              cc == Cardinality(OrdersOf(i, s)')
              hit == IF o.inst = i /\ o.side = s THEN 1 ELSE 0
  <2>1. Asks(1, i, s) = hit
    BY <1>2, <1>5 DEF Asks, NewOne
  <2>2. Asks(1, i, s)' = Asks(2, i, s) /\ Asks(2, i, s)' = 0
    <3>1. CASE Len(todo) = 1
      BY <1>2, <3>1 DEF Asks
    <3>2. CASE Len(todo) = 2
      BY <1>2, <3>2 DEF Asks
    <3>. QED
      BY <1>2, <3>1, <3>2
  <2>3. c \in Nat /\ IsFiniteSet(OrdersOf(i, s))
    BY OrdersAreFinite
  <2>4. cc = c + hit
    <3>1. CASE o.inst = i /\ o.side = s
      <4>1. OrdersOf(i, s)' = OrdersOf(i, s) \cup {o} /\ o \notin OrdersOf(i, s)
        BY <1>5, <3>1 DEF NewOne, OrdersOf
      <4>2. Cardinality(OrdersOf(i, s) \cup {o}) = Cardinality(OrdersOf(i, s)) + 1
        BY <2>3, <4>1, FS_AddElement
      <4>. QED
        BY <3>1, <4>1, <4>2
    <3>2. CASE ~(o.inst = i /\ o.side = s)
      <4>1. OrdersOf(i, s)' = OrdersOf(i, s)
        BY <1>5, <3>2 DEF NewOne, OrdersOf
      <4>. QED
        BY <2>3, <3>2, <4>1
    <3>. QED
      BY <3>1, <3>2
  <2>5. hit \in Nat /\ Asks(2, i, s) \in Nat
    BY DEF Asks
  <2>6. Wanted(i, s) = c + hit + Asks(2, i, s)
    BY <2>1 DEF Wanted
  <2>7. Wanted(i, s)' = cc + Asks(2, i, s) + 0
    BY <2>2 DEF Wanted
  <2>. HIDE DEF c, cc, hit
  <2>. QED
    BY <2>3, <2>4, <2>5, <2>6, <2>7
<1>. QED
  BY <1>6, <1>7

LEMMA StaysWanted ==
  ASSUME UNCHANGED <<order_events, born, todo>>
  PROVE  (NoneRefused' <=> NoneRefused) /\ \A i, s : Wanted(i, s)' = Wanted(i, s)
  BY DEF NoneRefused, Wanted, OrdersOf, Asks

(* A handler asks for what it puts into todo, and todo was empty.           *)
LEMMA HandlerWants ==
  ASSUME HostInv, OrdersOK, Handler
  PROVE  /\ NoneRefused' <=> NoneRefused
         /\ \A i, s : /\ Wanted(i, s) \in Nat
                      /\ Wanted(i, s)' = Wanted(i, s) + Asks(1, i, s)' + Asks(2, i, s)'
<1>1. ~handled /\ UNCHANGED <<order_events, born>>
  BY HandlerFrame DEF vars, orderVars
<1>2. todo = <<>>
  BY <1>1 DEF HostInv, CallsOK
<1>3. \A i, s : Wanted(i, s) = Cardinality(OrdersOf(i, s)) /\ Wanted(i, s) \in Nat
  BY <1>2, WantedAtRest, WantedIsNat
<1>4. \A i, s : Wanted(i, s)' = Cardinality(OrdersOf(i, s)) + Asks(1, i, s)' + Asks(2, i, s)'
  BY <1>1 DEF Wanted, OrdersOf
<1>. QED
  BY <1>1, <1>3, <1>4 DEF NoneRefused

LEMMA RunWants ==
  ASSUME HostInv, OrdersOK, RunStep \/ StopStep
  PROVE  (NoneRefused' <=> NoneRefused) /\ \A i, s : Wanted(i, s)' = Wanted(i, s)
<1>1. CASE RunStep
  <2>1. Run /\ UNCHANGED todo
    BY <1>1, RunFrame DEF HostInv
  <2>2. UNCHANGED <<order_events, born>>
    BY <2>1, RunOutcome
  <2>. QED
    BY <2>1, <2>2, StaysWanted
<1>2. CASE StopStep
  BY <1>2, StaysWanted DEF StopStep, allVars, vars, orderVars, hostVars
<1>. QED
  BY <1>1, <1>2

LEMMA NothingAsked ==
  ASSUME todo' = <<>>, NEW i, NEW s
  PROVE  Asks(1, i, s)' = 0 /\ Asks(2, i, s)' = 0
  BY NoMarketCalls DEF Asks

-----------------------------------------------------------------------------
(* The crossover.                                                           *)

IsIndex(i) == i \in Listed /\ Meta[i].kind = "index"

(* The flag is where the orders lead, unless it never had a position.       *)
FlagInv ==
  /\ side \in {-1, 0, 1}
  /\ NoneRefused =>
       \A i \in Instruments :
         /\ Wanted(i, "buy") - Wanted(i, "sell") \in {0, side}
         /\ ~IsIndex(i) => Wanted(i, "buy") - Wanted(i, "sell") = 0

LEMMA OneIndex ==
  ASSUME NEW i \in Instruments, NEW j \in Instruments, IsIndex(i), IsIndex(j)
  PROVE  i = j
  BY ExamplesAssumption DEF IsIndex, Listed

LEMMA HandlerFlag ==
  ASSUME HostInv, OrdersOK, FlagInv, variant = "sma", Handler
  PROVE  FlagInv'
<1>1. /\ NoneRefused' <=> NoneRefused
      /\ \A i, s : /\ Wanted(i, s) \in Nat
                   /\ Wanted(i, s)' = Wanted(i, s) + Asks(1, i, s)' + Asks(2, i, s)'
  BY HandlerWants
<1>2. /\ Crossings \/ (todo' = <<>> /\ side' = side)
      /\ UNCHANGED market
  <2>1. TypeInv /\ LegsOK /\ variant \in BuiltIn
    BY DEF HostInv, LoopInv, ConservationInv, BuiltIn
  <2>. QED
    BY <2>1, HandlerEffect, HandlerFrame
       DEF Sellings, Sellers, Subscribings, Others
<1>3. \A i : IsIndex(i)' <=> IsIndex(i)
  BY <1>2 DEF IsIndex, Listed
<1>4. CASE todo' = <<>> /\ side' = side
  <2>1. \A i, s : Wanted(i, s)' = Wanted(i, s)
    BY <1>1, <1>4, NothingAsked
  <2>. QED
    BY <1>1, <1>3, <1>4, <2>1 DEF FlagInv
<1>5. CASE Crossings /\ ~(todo' = <<>> /\ side' = side)
  <2>1. PICK i \in Index, s \in {-1, 0, 1} :
          /\ s = 1 => side <= 0
          /\ s = -1 => side >= 0
          /\ todo' = SideOrder(i, s)
          /\ side' = IF s = 0 THEN side ELSE s
    BY <1>5 DEF Crossings
  <2>2. i \in Instruments /\ IsIndex(i)
    BY DEF Index, IsIndex, Listed
  <2>. DEFINE sd == IF s = 1 THEN "buy" ELSE "sell"
  <2>3. /\ s # 0 /\ side' = s /\ side \in {0, -s}
        /\ Len(todo') = 1 /\ todo'[1].in.inst = i /\ todo'[1].in.side = sd
    <3>1. s # 0
      BY <1>5, <2>1, <2>2, SideOrderIs
    <3>2. side \in {-1, 0, 1}
      BY DEF FlagInv
    <3>3. side' = s /\ side \in {0, -s}
      BY <2>1, <3>1, <3>2
    <3>. QED
      BY <2>1, <2>2, <3>1, <3>3, SideOrderIs
  <2>4. ASSUME NEW j \in Instruments, NoneRefused
        PROVE  /\ Wanted(j, "buy")' - Wanted(j, "sell")' \in {0, s}
               /\ ~IsIndex(j) => Wanted(j, "buy")' - Wanted(j, "sell")' = 0
    <3>. DEFINE b == Wanted(j, "buy")
                c == Wanted(j, "sell")
                bb == Wanted(j, "buy")'
                cc == Wanted(j, "sell")'
    <3>1. b \in Nat /\ c \in Nat
      BY <1>1
    <3>2. /\ b - c \in {0, side}
          /\ ~IsIndex(j) => b - c = 0
      BY <2>4 DEF FlagInv
    <3>3. CASE j = i
      <4>1. \A d : Asks(1, j, d)' = (IF d = sd THEN 1 ELSE 0) /\ Asks(2, j, d)' = 0
        BY <2>3, <3>3 DEF Asks
      <4>2. bb - cc = (b - c) + s
        <5>1. CASE s = 1
          BY <1>1, <3>1, <4>1, <5>1
        <5>2. CASE s = -1
          BY <1>1, <3>1, <4>1, <5>2
        <5>. QED
          BY <2>3, <5>1, <5>2
      <4>. HIDE DEF b, c, bb, cc
      <4>3. bb - cc \in {0, s}
        BY <2>3, <3>1, <3>2, <4>2
      <4>. QED
        BY <2>2, <3>3, <4>3 DEF bb, cc
    <3>4. CASE j # i
      <4>1. \A d : Asks(1, j, d)' = 0 /\ Asks(2, j, d)' = 0
        BY <2>3, <3>4 DEF Asks
      <4>2. bb = b /\ cc = c
        BY <1>1, <4>1
      <4>3. b - c = 0
        BY <2>2, <3>2, <3>4, OneIndex
      <4>. QED
        BY <4>2, <4>3
    <3>. QED
      BY <3>3, <3>4
  <2>. QED
    BY <1>1, <1>3, <2>1, <2>3, <2>4 DEF FlagInv
<1>. QED
  BY <1>2, <1>4, <1>5

LEMMA StepFlag ==
  ASSUME HostInv, OrdersOK, FlagInv, variant = "sma",
         [ShippedNext]_<<allVars, exampleVars>>
  PROVE  FlagInv'
<1>1. CASE ~Handler
  <2>1. CallStep \/ RunStep \/ StopStep
    BY <1>1, StepsOfExamples DEF BuiltIn
  <2>2. UNCHANGED <<side, market>>
    <3>1. CASE CallStep
      BY <3>1, CallOutcome DEF straddleVars, exampleVars
    <3>2. CASE RunStep \/ StopStep
      BY <3>2 DEF RunStep, StopStep, allVars, straddleVars, exampleVars
    <3>. QED
      BY <2>1, <3>1, <3>2
  <2>3. NoneRefused' =>
          NoneRefused /\ \A i, s : Wanted(i, s)' = Wanted(i, s)
    BY <2>1, CallWants, RunWants
  <2>. QED
    BY <2>2, <2>3 DEF FlagInv, IsIndex, Listed
<1>. QED
  BY <1>1, HandlerFlag

LEMMA FlagShowsSide ==
  ASSUME HostInv, OrdersOK, PositionsInv, FlagInv, StaleAfter = Off
  PROVE  CrossoverSide
<1>1. SUFFICES ASSUME pc = "next", NoneRefused, NEW i \in Instruments
      PROVE  Abs(positions[i].qty) <= Quantity /\ positions[i].qty * side >= 0
  BY DEF CrossoverSide, Listed
<1>2. todo = <<>>
  BY <1>1 DEF HostInv, CallsOK
<1>. DEFINE n == Wanted(i, "buy") - Wanted(i, "sell")
<1>3. n \in {0, side} /\ side \in {-1, 0, 1}
  BY <1>1 DEF FlagInv
<1>4. positions[i].qty = 0 \/ positions[i].qty = Quantity * n
  BY <1>1, <1>2, PositionsAtRest, WantedAtRest
<1>5. Quantity \in Nat
  BY StraddleAssumption
<1>. HIDE DEF n
<1>6. n \in {-1, 0, 1}
  BY <1>3
<1>7. /\ Quantity * 0 = 0 /\ Quantity * 1 = Quantity /\ Quantity * (-1) = -Quantity
      /\ (-Quantity) * (-1) = Quantity /\ 0 * side = 0 /\ Quantity * 1 = Quantity
  BY <1>3, <1>5
<1>. QED
  BY <1>3, <1>4, <1>5, <1>6, <1>7 DEF Abs


LEMMA InitOrders ==
  ASSUME ShippedInit
  PROVE  /\ OrdersOK /\ PositionsInv
         /\ \A i, s : Wanted(i, s) = 0
<1>1. Init /\ todo = <<>>
  BY DEF ShippedInit, StraddleInit, ExamplesInit, HostInit
<1>2. /\ order_events = {} /\ trades = <<>> /\ born = 0 /\ cancelled = {}
      /\ event_buffer = {} /\ event_queue = {}
      /\ \A i \in Instruments : positions[i].qty = 0
  BY <1>1 DEF Init, LedgerInit, NewPosition
<1>3. FewCalls(todo)
  BY <1>1, NoMarketCalls
<1>4. OrdersOK
  BY <1>2, <1>3, FS_EmptySet DEF OrdersOK
<1>5. \A i, s : OrdersOf(i, s) = {} /\ BookedOf(i, s) = {}
  BY <1>2 DEF OrdersOf, BookedOf
<1>6. PositionsInv
  <2>1. Quantity * (0 - 0) = 0
    BY StraddleAssumption
  <2>. QED
    BY <1>2, <1>5, <2>1, FS_EmptySet DEF PositionsInv
<1>. QED
  BY <1>1, <1>4, <1>5, <1>6, WantedAtRest, FS_EmptySet

(* With prices that do not go stale (the engine's fill model has no stale   *)
(* detector), the crossover's flag and the account never point to opposite  *)
(* sides, and no position exceeds the quantity, from whatever time on the   *)
(* index has bars.                                                          *)
THEOREM ExampleCrossover ==
  ASSUME StaleAfter = Off
  PROVE  ShippedSpec => []CrossoverSide
<1>. DEFINE Inv == variant = "sma" => HostInv /\ OrdersOK /\ PositionsInv /\ FlagInv
<1>1. ShippedInit => Inv
  BY InitExamples, InitOrders DEF AlarmDriven, FlagInv
<1>2. Inv /\ [ShippedNext]_<<allVars, exampleVars>> => Inv'
  <2>. SUFFICES ASSUME Inv, [ShippedNext]_<<allVars, exampleVars>>,
                       variant' = "sma"
                PROVE  (HostInv /\ OrdersOK /\ PositionsInv /\ FlagInv)'
    OBVIOUS
  <2>1. variant = "sma" /\ variant \in BuiltIn /\ variant \in Traders
    BY SameVariant DEF BuiltIn, Traders
  <2>. QED
    BY <2>1, StepHost, StepBooked, StepFlag
<1>3. Inv => CrossoverSide
  BY FlagShowsSide DEF CrossoverSide
<1>. QED
  BY <1>1, <1>2, <1>3, PTL DEF ShippedSpec

-----------------------------------------------------------------------------
(* The sellers: one sale of each leg a day entered, one buy of each leg of  *)
(* a day exited.                                                            *)

KeysOf(i, keys) == {k \in keys : i \in {day_state[k].leg.ce, day_state[k].leg.pe}}

SoldInv ==
  /\ \A k \in entered : /\ Meta[day_state[k].leg.ce].kind = "CE"
                        /\ Meta[day_state[k].leg.pe].kind = "PE"
  /\ NoneRefused =>
       \A i \in Instruments :
         /\ Wanted(i, "sell") = Cardinality(KeysOf(i, entered))
         /\ Wanted(i, "buy") = Cardinality(KeysOf(i, exited))

LEMMA KeysAreFinite ==
  ASSUME LegsOK, NEW i
  PROVE  /\ IsFiniteSet(KeysOf(i, entered)) /\ IsFiniteSet(KeysOf(i, exited))
         /\ Cardinality(KeysOf(i, entered)) \in Nat
         /\ Cardinality(KeysOf(i, exited)) \in Nat
<1>1. KeysOf(i, entered) \subseteq entered /\ KeysOf(i, exited) \subseteq entered
  BY DEF KeysOf, LegsOK
<1>2. IsFiniteSet(KeysOf(i, entered)) /\ IsFiniteSet(KeysOf(i, exited))
  BY <1>1, FS_Subset DEF LegsOK
<1>. QED
  BY <1>2, FS_CardinalityType

(* Both legs are asked for, each once.                                      *)
LEMMA LegsAsked ==
  ASSUME NEW ce \in Instruments, NEW pe \in Instruments, NEW s \in Sides,
         ce # pe, todo' = LegCalls(ce, pe, s), NEW i, NEW d
  PROVE  Asks(1, i, d)' + Asks(2, i, d)'
           = IF d = s /\ i \in {ce, pe} THEN 1 ELSE 0
<1>1. /\ Len(todo') = 2 /\ todo'[1].in.inst = ce /\ todo'[2].in.inst = pe
      /\ todo'[1].in.side = s /\ todo'[2].in.side = s
  BY LegCallsAre
<1>. QED
  BY <1>1 DEF Asks

LEMMA SellingSold ==
  ASSUME HostInv, OrdersOK, SoldInv, Handler,
         NEW ce \in Instruments, NEW pe \in Instruments, SellsToday(ce, pe)
  PROVE  SoldInv'
<1>1. /\ NoneRefused' <=> NoneRefused
      /\ \A i, s : /\ Wanted(i, s) \in Nat
                   /\ Wanted(i, s)' = Wanted(i, s) + Asks(1, i, s)' + Asks(2, i, s)'
  BY HandlerWants
<1>2. LegsOK
  BY DEF HostInv
<1>3. /\ Today \notin entered /\ entered' = entered \cup {Today} /\ exited' = exited
      /\ day_state'[Today] = [leg |-> [ce |-> ce, pe |-> pe]]
      /\ \A k \in entered : day_state'[k] = day_state[k]
      /\ exited \subseteq entered
  BY <1>2 DEF SellsToday, LegsOK
<1>4. Meta[ce].kind = "CE" /\ Meta[pe].kind = "PE" /\ ce # pe
  <2>1. <<ce, pe>> \in Pairs
    BY DEF SellsToday
  <2>. QED
    BY <2>1 DEF Pairs, AtmSellPairs, NearestExpiryPairs, Nearest, NearestToSpot
<1>5. ASSUME NEW i \in Instruments, NoneRefused
      PROVE  /\ Wanted(i, "sell")' = Cardinality(KeysOf(i, entered)')
             /\ Wanted(i, "buy")' = Cardinality(KeysOf(i, exited)')
  <2>1. \A s : Asks(1, i, s)' + Asks(2, i, s)'
                 = IF s = "sell" /\ i \in {ce, pe} THEN 1 ELSE 0
    BY <1>4, LegsAsked DEF SellsToday, Sides
  <2>2. \A s : Wanted(i, s)' = Wanted(i, s) + (Asks(1, i, s)' + Asks(2, i, s)')
    <3>1. \A n, s : Asks(n, i, s)' \in Nat
      BY DEF Asks
    <3>. QED
      BY <1>1, <3>1
  <2>3. /\ Wanted(i, "sell") = Cardinality(KeysOf(i, entered))
        /\ Wanted(i, "buy") = Cardinality(KeysOf(i, exited))
    BY <1>5 DEF SoldInv
  <2>4. KeysOf(i, exited)' = KeysOf(i, exited)
    BY <1>3 DEF KeysOf
  <2>5. Wanted(i, "buy")' = Cardinality(KeysOf(i, exited)')
    BY <1>1, <2>1, <2>2, <2>3, <2>4
  <2>6. CASE i \in {ce, pe}
    <3>1. /\ KeysOf(i, entered)' = KeysOf(i, entered) \cup {Today}
          /\ Today \notin KeysOf(i, entered)
      BY <1>3, <2>6 DEF KeysOf
    <3>2. Cardinality(KeysOf(i, entered) \cup {Today})
            = Cardinality(KeysOf(i, entered)) + 1
      BY <1>2, <3>1, KeysAreFinite, FS_AddElement
    <3>. QED
      BY <2>1, <2>2, <2>3, <2>5, <2>6, <3>1, <3>2
  <2>7. CASE i \notin {ce, pe}
    <3>1. KeysOf(i, entered)' = KeysOf(i, entered)
      BY <1>3, <2>7 DEF KeysOf
    <3>. QED
      BY <1>1, <2>1, <2>2, <2>3, <2>5, <2>7, <3>1
  <2>. QED
    BY <2>6, <2>7
<1>6. \A k \in entered' : /\ Meta[day_state'[k].leg.ce].kind = "CE"
                          /\ Meta[day_state'[k].leg.pe].kind = "PE"
  BY <1>3, <1>4 DEF SoldInv
<1>. QED
  BY <1>1, <1>5, <1>6 DEF SoldInv

LEMMA BuyingSold ==
  ASSUME HostInv, OrdersOK, SoldInv, Handler, BuysToday
  PROVE  SoldInv'
<1>1. /\ NoneRefused' <=> NoneRefused
      /\ \A i, s : /\ Wanted(i, s) \in Nat
                   /\ Wanted(i, s)' = Wanted(i, s) + Asks(1, i, s)' + Asks(2, i, s)'
  BY HandlerWants
<1>2. LegsOK
  BY DEF HostInv
<1>. DEFINE ce == day_state[Today].leg.ce
            pe == day_state[Today].leg.pe
<1>3. /\ Today \in entered /\ Today \notin exited /\ exited' = exited \cup {Today}
      /\ UNCHANGED <<day_state, entered>>
  BY DEF BuysToday
<1>4. ce \in Instruments /\ pe \in Instruments /\ ce # pe
  <2>1. ce \in Instruments /\ pe \in Instruments
    BY <1>2, <1>3 DEF LegsOK, LegPair
  <2>2. Meta[ce].kind = "CE" /\ Meta[pe].kind = "PE"
    BY <1>3 DEF SoldInv
  <2>. QED
    BY <2>1, <2>2
<1>5. todo' = LegCalls(ce, pe, "buy")
  BY DEF BuysToday
<1>6. ASSUME NEW i \in Instruments, NoneRefused
      PROVE  /\ Wanted(i, "sell")' = Cardinality(KeysOf(i, entered)')
             /\ Wanted(i, "buy")' = Cardinality(KeysOf(i, exited)')
  <2>1. \A s : Asks(1, i, s)' + Asks(2, i, s)'
                 = IF s = "buy" /\ i \in {ce, pe} THEN 1 ELSE 0
    <3>. HIDE DEF ce, pe
    <3>. QED
      BY <1>4, <1>5, LegsAsked DEF Sides
  <2>2. \A s : Wanted(i, s)' = Wanted(i, s) + (Asks(1, i, s)' + Asks(2, i, s)')
    <3>1. \A n, s : Asks(n, i, s)' \in Nat
      BY DEF Asks
    <3>. QED
      BY <1>1, <3>1
  <2>3. /\ Wanted(i, "sell") = Cardinality(KeysOf(i, entered))
        /\ Wanted(i, "buy") = Cardinality(KeysOf(i, exited))
    BY <1>6 DEF SoldInv
  <2>4. KeysOf(i, entered)' = KeysOf(i, entered)
    BY <1>3 DEF KeysOf
  <2>5. Wanted(i, "sell")' = Cardinality(KeysOf(i, entered)')
    BY <1>1, <2>1, <2>2, <2>3, <2>4
  <2>6. CASE i \in {ce, pe}
    <3>1. /\ KeysOf(i, exited)' = KeysOf(i, exited) \cup {Today}
          /\ Today \notin KeysOf(i, exited)
      BY <1>3, <2>6 DEF KeysOf
    <3>2. Cardinality(KeysOf(i, exited) \cup {Today})
            = Cardinality(KeysOf(i, exited)) + 1
      BY <1>2, <3>1, KeysAreFinite, FS_AddElement
    <3>. QED
      BY <2>1, <2>2, <2>3, <2>5, <2>6, <3>1, <3>2
  <2>7. CASE i \notin {ce, pe}
    <3>1. KeysOf(i, exited)' = KeysOf(i, exited)
      BY <1>3, <2>7 DEF KeysOf
    <3>. QED
      BY <1>1, <2>1, <2>2, <2>3, <2>5, <2>7, <3>1
  <2>. QED
    BY <2>6, <2>7
<1>. QED
  BY <1>1, <1>3, <1>6 DEF SoldInv

LEMMA HandlerSold ==
  ASSUME HostInv, OrdersOK, SoldInv, variant \in Sellers, Handler
  PROVE  SoldInv'
<1>1. Sellings \/ (todo' = <<>> /\ UNCHANGED <<day_state, entered, exited>>)
  <2>1. TypeInv /\ LegsOK /\ variant \in BuiltIn
    BY DEF HostInv, LoopInv, ConservationInv, BuiltIn, Sellers
  <2>. QED
    BY <2>1, HandlerEffect DEF Crossings, Sellers, Subscribings, Others
<1>2. CASE todo' = <<>> /\ UNCHANGED <<day_state, entered, exited>>
  <2>1. /\ NoneRefused' <=> NoneRefused
        /\ \A i, s : Wanted(i, s)' = Wanted(i, s)
    BY <1>2, HandlerWants, NothingAsked
  <2>. QED
    BY <1>2, <2>1 DEF SoldInv, KeysOf
<1>. QED
  BY <1>1, <1>2, SellingSold, BuyingSold DEF Sellings, WaitsToday

LEMMA StepSold ==
  ASSUME HostInv, OrdersOK, SoldInv, variant \in Sellers,
         [ShippedNext]_<<allVars, exampleVars>>
  PROVE  SoldInv'
<1>1. CASE ~Handler
  <2>1. CallStep \/ RunStep \/ StopStep
    BY <1>1, StepsOfExamples DEF BuiltIn, Sellers
  <2>2. UNCHANGED <<day_state, entered, exited>>
    <3>1. CASE CallStep
      BY <3>1, CallOutcome DEF straddleVars, exampleVars
    <3>2. CASE RunStep \/ StopStep
      BY <3>2 DEF RunStep, StopStep, allVars, straddleVars, exampleVars
    <3>. QED
      BY <2>1, <3>1, <3>2
  <2>3. NoneRefused' =>
          NoneRefused /\ \A i, s : Wanted(i, s)' = Wanted(i, s)
    BY <2>1, CallWants, RunWants
  <2>4. \A i : /\ KeysOf(i, entered)' = KeysOf(i, entered)
               /\ KeysOf(i, exited)' = KeysOf(i, exited)
    BY <2>2 DEF KeysOf
  <2>. QED
    BY <2>2, <2>3, <2>4 DEF SoldInv
<1>. QED
  BY <1>1, HandlerSold


-----------------------------------------------------------------------------
(* The hour of the exit.                                                    *)

(* on_market_event of that timestamp has run.                               *)
Seen(t) ==
  \/ t < step
  \/ t = step /\ (phase # 1 \/ (cb = "on_market_event" /\ handled))

(* No bar of the exit hour was seen on a day entered and not exited.        *)
ExitInv ==
  /\ entered # {} => step # 0
  /\ \A k \in entered : k = <<k[1], 1>>
  /\ \A k \in entered \ exited, t \in Times :
       Seen(t) /\ DayOf[t] = k[1] => t % DayLength < Hours.exit

(* Seconds of one day go with time.                                         *)
LEMMA SameDay ==
  ASSUME NEW t \in Times, NEW u \in Times, DayOf[t] = DayOf[u], t <= u
  PROVE  t % DayLength <= u % DayLength
<1>1. t \in Nat /\ u \in Nat /\ DayLength \in Nat \ {0}
  BY EngineAssumption, StraddleAssumption
<1>2. t \div DayLength = u \div DayLength
  BY ExamplesAssumption
<1>3. /\ t = DayLength * (t \div DayLength) + (t % DayLength)
      /\ u = DayLength * (u \div DayLength) + (u % DayLength)
      /\ t % DayLength \in Nat /\ u % DayLength \in Nat
      /\ t \div DayLength \in Nat
  BY <1>1
<1>. DEFINE q == DayLength * (t \div DayLength)
            a == t % DayLength
            b == u % DayLength
<1>4. q \in Int /\ a \in Nat /\ b \in Nat /\ t = q + a /\ u = q + b
  BY <1>1, <1>2, <1>3
<1>. HIDE DEF q, a, b
<1>5. a <= b
  BY <1>4
<1>. QED
  BY <1>5 DEF a, b

LEMMA TimeIsNat ==
  ASSUME NEW t \in Times
  PROVE  t \in Nat \ {0} /\ t % DayLength \in Nat
<1>1. t \in Nat \ {0} /\ DayLength \in Nat \ {0}
  BY EngineAssumption, StraddleAssumption
<1>. QED
  BY <1>1

LEMMA BarSeen ==
  ASSUME HostInv, Handler, cb = "on_market_event"
  PROVE  /\ now \in Times /\ now = step /\ step # 0
         /\ \A t \in Times : /\ Seen(t)' <=> t <= now
                             /\ Seen(t) <=> t < now
<1>1. /\ ~handled /\ handled' = TRUE /\ UNCHANGED <<cb, phase, step>>
  BY HandlerFrame DEF vars, loopVars
<1>2. /\ phase = 1 /\ now = step /\ step \in Times /\ step # 0
  BY DEF HostInv, LoopInv, ConservationInv, ClockInv, IntradayCallbacks,
     TypeInv, LoopOK
<1>3. now \in Nat /\ \A t \in Times : t \in Nat
  BY <1>2, TimeIsNat
<1>4. \A t \in Times : Seen(t)' <=> t <= now
  BY <1>1, <1>2, <1>3 DEF Seen
<1>5. \A t \in Times : Seen(t) <=> t < now
  BY <1>1, <1>2, <1>3 DEF Seen
<1>. QED
  BY <1>2, <1>4, <1>5

(* Nothing but the handler of a bar makes the strategy see it.              *)
LEMMA RunSeen ==
  ASSUME HostInv, RunStep
  PROVE  /\ step # 0 => step' # 0
         /\ \A t \in Times : Seen(t)' <=> Seen(t)
<1>1. Run /\ ~handled' /\ (pc = "callback" => handled)
  BY RunFrame DEF HostInv
<1>2. ClockInv /\ TypeInv /\ ConservationInv
  BY DEF HostInv, LoopInv, ConservationInv
<1>3. step \in Nat /\ \A t \in Times : t \in Nat \ {0}
  BY <1>2, EngineAssumption DEF TypeInv, LoopOK
<1>4. CASE NextTimestamp
  <2>1. /\ step' \in Times /\ step' > step /\ phase' = 1
        /\ \A t \in Times : t < step' => t <= step
    <3>1. /\ step' \in Times /\ step' > step /\ phase' = 1
          /\ step' = First(Later) /\ Later \subseteq Times /\ Later # {}
      BY <1>2, <1>4, NextIsLater DEF NextTimestamp, Later
    <3>2. \A u \in Later : step' <= u
      BY <3>1, FirstIsElement
    <3>3. \A t \in Times : t < step' => ~(t > step)
      BY <1>3, <3>1, <3>2 DEF Later
    <3>. QED
      BY <1>3, <3>1, <3>3
  <2>2. step # 0 => phase = 2
    BY <1>2, <1>4 DEF ClockInv, NextTimestamp
  <2>3. \A t \in Times : Seen(t)' <=> t < step'
    BY <1>1, <2>1 DEF Seen
  <2>4. \A t \in Times : Seen(t) <=> t <= step
    BY <1>3, <2>2 DEF Seen
  <2>5. \A t \in Times : t <= step => t < step'
    BY <1>3, <2>1
  <2>. QED
    BY <1>3, <2>1, <2>3, <2>4, <2>5
<1>5. CASE EndLoop
  <2>1. step' = step /\ pc = "next" /\ phase' # 1
    BY <1>5 DEF EndLoop
  <2>2. step # 0 => phase = 2
    BY <1>2, <2>1 DEF ClockInv
  <2>3. \A t \in Times : Seen(t)' <=> t <= step
    BY <1>3, <2>1 DEF Seen
  <2>. QED
    BY <1>3, <2>1, <2>2, <2>3 DEF Seen
<1>6. CASE ReturnMarket
  <2>1. step' = step /\ cb = "on_market_event" /\ handled /\ phase' # 1
    BY <1>1, <1>6 DEF ReturnMarket, In
  <2>2. \A t \in Times : Seen(t)' <=> t <= step
    BY <1>3, <2>1 DEF Seen
  <2>. QED
    BY <1>3, <2>1, <2>2 DEF Seen
<1>7. CASE ~NextTimestamp /\ ~EndLoop /\ ~ReturnMarket
  <2>1. UNCHANGED <<step, phase>>
    BY <1>1, <1>2, <1>7, DispatchEffect
       DEF Run, BeginRun, ReturnLife, EndOfStep, ReturnEvent, ReturnOrder,
           HandleMarketEvent, PopFrame, CancelFrame, clockVars
  <2>2. cb # "on_market_event"
    <3>1. pc = "callback" <=> cb # "none"
      BY <1>2 DEF TypeInv, LoopOK
    <3>. QED
      BY <1>1, <1>7, <3>1, DispatchEffect
         DEF Run, BeginRun, ReturnLife, EndOfStep, ReturnEvent, ReturnOrder,
             HandleMarketEvent, MarketReady, PopFrame, CancelFrame, In
  <2>. QED
    BY <1>1, <1>3, <2>1, <2>2 DEF Seen
<1>. QED
  BY <1>4, <1>5, <1>6, <1>7

LEMMA HandlerExit ==
  ASSUME HostInv, ExitInv, variant \in Sellers, Handler
  PROVE  ExitInv'
<1>1. LegsOK /\ TypeInv /\ variant \in BuiltIn
  BY DEF HostInv, LoopInv, ConservationInv, BuiltIn, Sellers
<1>2. /\ UNCHANGED <<cb, phase, step>> /\ exited \subseteq entered
  BY <1>1, HandlerFrame DEF vars, loopVars, LegsOK
<1>3. CASE cb # "on_market_event"
  <2>1. UNCHANGED <<entered, exited>>
    BY <1>1, <1>3, HandlerEffect DEF Sellings, Subscribings, Crossings, Others, Sellers
  <2>2. \A t : Seen(t)' <=> Seen(t)
    BY <1>2, <1>3 DEF Seen
  <2>. QED
    BY <1>2, <2>1, <2>2 DEF ExitInv
<1>4. CASE cb = "on_market_event"
  <2>1. /\ now \in Times /\ step # 0
        /\ \A t \in Times : (Seen(t)' <=> t <= now) /\ (Seen(t) <=> t < now)
    BY <1>4, BarSeen
  <2>2. \/ \E ce, pe \in Instruments : SellsToday(ce, pe)
        \/ BuysToday
        \/ WaitsToday
    <3>1. ~Subscribings
      BY <1>4 DEF Subscribings
    <3>2. ~Crossings /\ ~Others
      BY <1>4 DEF Crossings, Others, Sellers, ExampleActsIn
    <3>3. Sellings
      BY <1>1, <3>1, <3>2, HandlerEffect
    <3>. QED
      BY <3>3 DEF Sellings
  <2>3. /\ Hour \in Nat /\ Hours.exit \in Nat
        /\ \A t \in Times : t \in Nat /\ t % DayLength \in Nat
    BY <2>1, TimeIsNat, ExamplesAssumption DEF Hour
  <2>4. \A k \in entered' : k = <<k[1], 1>>
    <3>1. entered' \subseteq entered \cup {Today}
      BY <2>2 DEF SellsToday, BuysToday, WaitsToday
    <3>2. Today = <<Today[1], 1>>
      BY DEF Today
    <3>. QED
      BY <3>1, <3>2 DEF ExitInv
  <2>5. ASSUME NEW k \in entered' \ exited', NEW t \in Times,
               t <= now, DayOf[t] = k[1]
        PROVE  t % DayLength < Hours.exit
    <3>1. CASE k \in entered /\ t < now
      <4>1. k \notin exited
        BY <2>2, <2>5 DEF SellsToday, BuysToday, WaitsToday
      <4>. QED
        BY <2>1, <2>5, <3>1, <4>1 DEF ExitInv
    <3>2. CASE k \in entered /\ t = now
      <4>1. k = Today
        BY <2>5, <3>2 DEF ExitInv, Today
      <4>2. WaitsToday /\ k \notin exited
        BY <2>2, <2>5, <3>2, <4>1 DEF SellsToday, BuysToday, WaitsToday
      <4>3. ~(Hour >= Hours.exit)
        BY <3>2, <4>1, <4>2 DEF WaitsToday
      <4>. QED
        BY <2>3, <3>2, <4>3 DEF Hour
    <3>3. CASE k \notin entered
      <4>1. PICK ce \in Instruments, pe \in Instruments : SellsToday(ce, pe)
        BY <2>2, <2>5, <3>3 DEF BuysToday, WaitsToday
      <4>2. k = Today /\ Hour < Hours.exit
        BY <2>5, <3>3, <4>1 DEF SellsToday
      <4>3. t % DayLength <= Hour
        BY <2>1, <2>5, <4>2, SameDay DEF Today, Hour
      <4>. QED
        BY <2>3, <4>2, <4>3
    <3>4. t < now \/ t = now
      BY <2>1, <2>3, <2>5
    <3>. QED
      BY <3>1, <3>2, <3>3, <3>4
  <2>. QED
    BY <1>2, <2>1, <2>4, <2>5 DEF ExitInv
<1>. QED
  BY <1>3, <1>4

LEMMA StepExit ==
  ASSUME HostInv, OrdersOK, ExitInv, variant \in Sellers,
         [ShippedNext]_<<allVars, exampleVars>>
  PROVE  ExitInv'
<1>1. CASE CallStep \/ StopStep
  <2>1. UNCHANGED <<entered, exited, step, phase, cb, handled>>
    <3>1. CASE CallStep
      BY <3>1, CallOutcome DEF straddleVars, exampleVars, loopVars
    <3>2. CASE StopStep
      BY <3>2 DEF StopStep, allVars, vars, loopVars, hostVars, straddleVars,
         exampleVars
    <3>. QED
      BY <1>1, <3>1, <3>2
  <2>2. \A t : Seen(t)' <=> Seen(t)
    BY <2>1 DEF Seen
  <2>. QED
    BY <2>1, <2>2 DEF ExitInv
<1>2. CASE RunStep
  <2>1. UNCHANGED <<entered, exited>>
    BY <1>2 DEF RunStep, straddleVars, exampleVars
  <2>. QED
    BY <1>2, <2>1, RunSeen DEF ExitInv
<1>3. variant \in BuiltIn
  BY DEF Sellers, BuiltIn
<1>. QED
  BY <1>1, <1>2, <1>3, HandlerExit, StepsOfExamples

LEMMA SoldShowsBoughtBack ==
  ASSUME HostInv, OrdersOK, PositionsInv, SoldInv, ExitInv, StaleAfter = Off
  PROVE  BoughtBack
<1>1. SUFFICES
        ASSUME pc = "next", NoneRefused, NEW key \in entered, NEW t \in Times,
               DayOf[t] = key[1], t <= now, t % DayLength >= Hours.exit,
               NEW l \in {"ce", "pe"},
               \A k \in entered \ (exited \cup {key}) :
                 day_state[key].leg[l] \notin Range(day_state[k].leg)
        PROVE  positions[day_state[key].leg[l]].qty = 0
  BY DEF BoughtBack
<1>. DEFINE leg == day_state[key].leg[l]
<1>2. todo = <<>> /\ LegsOK /\ ClockInv /\ TypeInv
  BY <1>1 DEF HostInv, CallsOK, LoopInv, ConservationInv
<1>3. leg \in Instruments
  BY <1>2 DEF LegsOK, LegPair
<1>4. key \in exited
  <2>1. step # 0 /\ step \in Times
    BY <1>2 DEF ExitInv, TypeInv, LoopOK
  <2>2. phase = 2 /\ now = step
    BY <1>1, <1>2, <2>1 DEF ClockInv
  <2>3. Seen(t)
    BY <1>1, <2>1, <2>2, TimeIsNat DEF Seen
  <2>4. t % DayLength \in Nat /\ Hours.exit \in Nat
    BY TimeIsNat, ExamplesAssumption
  <2>. QED
    BY <1>1, <2>3, <2>4 DEF ExitInv
<1>5. KeysOf(leg, entered) = KeysOf(leg, exited)
  <2>1. ASSUME NEW k \in entered, leg \in {day_state[k].leg.ce, day_state[k].leg.pe}
        PROVE  k \in exited
    <3>1. leg \in Range(day_state[k].leg)
      <4>1. DOMAIN day_state[k].leg = {"ce", "pe"}
        BY <1>2 DEF LegsOK, LegPair
      <4>. QED
        BY <2>1, <4>1 DEF Range
    <3>. QED
      BY <1>1, <1>4, <3>1
  <2>. QED
    BY <1>2, <2>1 DEF KeysOf, LegsOK
<1>6. Wanted(leg, "buy") = Wanted(leg, "sell")
  BY <1>1, <1>3, <1>5 DEF SoldInv
<1>7. Cardinality(OrdersOf(leg, "buy")) = Cardinality(OrdersOf(leg, "sell"))
  BY <1>2, <1>6, WantedAtRest
<1>. HIDE DEF leg
<1>8. Cardinality(OrdersOf(leg, "buy")) \in Nat /\ Quantity * 0 = 0
  BY OrdersAreFinite, StraddleAssumption
<1>9. \/ positions[leg].qty = 0
      \/ positions[leg].qty = Quantity * (Cardinality(OrdersOf(leg, "buy"))
                                            - Cardinality(OrdersOf(leg, "sell")))
  BY <1>1, <1>3, PositionsAtRest
<1>10. positions[leg].qty = 0
  BY <1>7, <1>8, <1>9
<1>. QED
  BY <1>10 DEF leg

(* With prices that do not go stale, what a seller sold in the entry hour   *)
(* is bought back, and not twice, by the first bar from the exit hour on.   *)
THEOREM ExampleExits ==
  ASSUME StaleAfter = Off
  PROVE  ShippedSpec => []BoughtBack
<1>. DEFINE Inv == variant \in Sellers =>
                     HostInv /\ OrdersOK /\ PositionsInv /\ SoldInv /\ ExitInv
<1>1. ShippedInit => Inv
  <2>. SUFFICES ASSUME ShippedInit, variant \in Sellers
                PROVE  HostInv /\ OrdersOK /\ PositionsInv /\ SoldInv /\ ExitInv
    OBVIOUS
  <2>1. HostInv /\ entered = {} /\ exited = {}
    BY InitExamples DEF AlarmDriven, Sellers
  <2>2. \A i : KeysOf(i, entered) = {} /\ KeysOf(i, exited) = {}
    BY <2>1 DEF KeysOf
  <2>3. SoldInv
    BY <2>1, <2>2, InitOrders, FS_EmptySet DEF SoldInv
  <2>. QED
    BY <2>1, <2>3, InitOrders DEF ExitInv
<1>2. Inv /\ [ShippedNext]_<<allVars, exampleVars>> => Inv'
  <2>. SUFFICES ASSUME Inv, [ShippedNext]_<<allVars, exampleVars>>,
                       variant' \in Sellers
                PROVE  (HostInv /\ OrdersOK /\ PositionsInv /\ SoldInv /\ ExitInv)'
    OBVIOUS
  <2>1. variant \in Sellers /\ variant \in BuiltIn /\ variant \in Traders
    BY SameVariant DEF Sellers, BuiltIn, Traders
  <2>. QED
    BY <2>1, StepHost, StepBooked, StepSold, StepExit
<1>3. Inv => BoughtBack
  BY SoldShowsBoughtBack DEF BoughtBack, Sellers
<1>. QED
  BY <1>1, <1>2, <1>3, PTL DEF ShippedSpec
=============================================================================
