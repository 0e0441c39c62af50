------------------------------ MODULE OrbProofs ------------------------------
(***************************************************************************)
(* The opening-range strategy on the engine, for any data, parameters and  *)
(* number of days: its books are those of the account, and its legs go by  *)
(* its rules.  Both rest on the ids of its orders being distinct, for a    *)
(* map by order id cannot tell two orders with one id apart.               *)
(* generate_order_id does not promise it; it is proved here for runs in    *)
(* which the buffer never holds more than a thousand events.               *)
(***************************************************************************)
EXTENDS OrbBtst, EngineProofs, SequenceTheorems

-----------------------------------------------------------------------------
(* The invariant: types of the strategy, the calls in hand and the orders   *)
(* made of them, then what ties orders, legs, positions and prices.         *)

Keys == Nat \X {"ce", "pe"}
Statuses == {"waiting", "pending_entry", "active", "pending_exit", "exited",
             "closed_no_entry"}
Reasons == {"target", "stop_loss", "time"}

LegType ==
  [inst : Instruments, high : Int, status : Statuses, entry_id : Int,
   exit_id : Int, entry_price : Int, target : Int, stop : Int, entry_ts : Int,
   reason : Reasons \cup {"none"}, since : Int]

(* Legs come in pairs, and the maps by order id lead to them.               *)
LegsOK ==
  /\ params \in Params
  /\ IsFiniteSet(DOMAIN legs) /\ DOMAIN legs \subseteq Keys
  /\ \A k \in DOMAIN legs : legs[k] \in LegType
  /\ \A k \in DOMAIN legs : <<k[1], "ce">> \in DOMAIN legs
                              /\ <<k[1], "pe">> \in DOMAIN legs
  /\ legs = [k \in DOMAIN legs |-> legs[k]]
  /\ \A id \in DOMAIN entry_orders : entry_orders[id] \in DOMAIN legs
  /\ \A id \in DOMAIN exit_orders :
       exit_orders[id] \in [leg : DOMAIN legs, reason : Reasons]
  /\ stats \in [instances : Nat, entries : Nat, target : Nat, stop_loss : Nat,
                time : Nat, no_breakout : Nat]

(* The call is the purchase or the sale of a leg, whole.                    *)
CallOfLeg(c) ==
  \E k \in DOMAIN legs :
    \/ c = Buy(k, legs[k]) /\ Trades(legs[k].inst)
    \/ \E r \in Reasons : c = Sell(k, legs[k], r)

CallsOK ==
  /\ handled \in BOOLEAN
  /\ handled => pc = "callback"
  /\ todo # <<>> => handled /\ cb = "on_market_event"
  /\ \A n \in DOMAIN todo : CallOfLeg(todo[n])

Elements(s) == {s[n] : n \in DOMAIN s}
TodoIsSeq == todo \in Seq(Elements(todo))

(* Only on_market_event calls, and only to place market orders for now.     *)
OrdersOK ==
  /\ \A o \in order_events :
       /\ o.type = "market" /\ o.qty = Quantity /\ o.ts = o.at /\ o.at <= now
       /\ o.side = "buy" => o.at \in DOMAIN Bars[o.inst]
  /\ cancelled = {}
  /\ \A e \in event_buffer \cup event_queue : e.kind # "cancel"
  /\ event_buffer # {} => cb = "on_market_event" /\ handled
  /\ \A o \in pending_orders : o.side = "sell"
  /\ cb = "on_fill" =>
       /\ cur.kind = "fill" /\ cur.fill \in Fills /\ Justified(cur.fill)
       /\ \E n \in DOMAIN trades : trades[n] = cur.fill

HostInv == LegsOK /\ CallsOK /\ TodoIsSeq /\ OrdersOK

(* An order is unconfirmed until on_fill has told the strategy of its fill. *)
FillInHand == In("on_fill") /\ ~handled
Unconfirmed ==
  {o \in order_events :
     o.uid \notin Booked \/ (FillInHand /\ o.uid = cur.fill.of)}

Pursued(o) ==
  IF o.side = "buy"
    THEN /\ o.id \in DOMAIN entry_orders
         /\ LET k == entry_orders[o.id]
            IN  /\ legs[k].status = "pending_entry" /\ legs[k].entry_id = o.id
                /\ legs[k].inst = o.inst /\ o.at = now
    ELSE /\ o.id \in DOMAIN exit_orders
         /\ LET x == exit_orders[o.id]
            IN  /\ legs[x.leg].status = "pending_exit"
                /\ legs[x.leg].exit_id = o.id /\ legs[x.leg].reason = x.reason
                /\ legs[x.leg].inst = o.inst

(* Orders under way and legs that wait for them correspond.                 *)
PursuitInv ==
  /\ \A o \in Unconfirmed : Pursued(o)
  /\ \A id \in DOMAIN entry_orders :
       \E o \in Unconfirmed : o.side = "buy" /\ o.id = id
  /\ \A id \in DOMAIN exit_orders :
       \E o \in Unconfirmed : o.side = "sell" /\ o.id = id
  /\ \A k \in With({"pending_entry"}) :
       /\ legs[k].entry_id \in DOMAIN entry_orders
       /\ entry_orders[legs[k].entry_id] = k
       /\ now \in Times /\ IsToday(k)
  /\ \A k \in With({"pending_exit"}) :
       /\ legs[k].exit_id \in DOMAIN exit_orders
       /\ exit_orders[legs[k].exit_id].leg = k

(* The legs the account holds; it knows of a fill before they do.           *)
Held ==
  IF ~FillInHand THEN With({"active", "pending_exit"})
  ELSE IF cur.fill.side = "buy"
    THEN With({"active", "pending_exit"}) \cup {entry_orders[cur.fill.id]}
    ELSE With({"active", "pending_exit"}) \ {exit_orders[cur.fill.id].leg}

PositionsInv ==
  \A i \in Instruments :
    positions[i].qty = Quantity * Cardinality({k \in Held : legs[k].inst = i})

StatsInv ==
  /\ 2 * stats.instances = Cardinality(DOMAIN legs)
  /\ stats.entries = Cardinality(With({"active", "pending_exit", "exited"}))
  /\ \A r \in Reasons :
       stats[r] = Cardinality({k \in With({"exited"}) : legs[k].reason = r})
  /\ stats.no_breakout = Cardinality(With({"closed_no_entry"}))

(* on_market_event of that timestamp has run.                               *)
Seen(t) ==
  \/ t < step
  \/ t = step /\ (phase # 1 \/ (cb = "on_market_event" /\ handled))

MustSell(k, t) ==
  \/ /\ t > legs[k].entry_ts /\ t \in DOMAIN Bars[legs[k].inst]
     /\ \/ Bars[legs[k].inst][t].low <= legs[k].stop
        \/ Bars[legs[k].inst][t].high >= legs[k].target
  \/ DayOf[t] > k[1] /\ t % DayLength >= params.day2_exit

SaleInHand(k) ==
  \E n \in DOMAIN todo : todo[n].tag[1] = "exit" /\ todo[n].tag[2] = k

(* A held leg that must be sold is about to be, at the bar that says so.    *)
SalesInv ==
  \A k \in With({"active"}), t \in Times :
    Seen(t) /\ MustSell(k, t) => t = now /\ SaleInHand(k)

WaitingInv ==
  \A k \in With({"waiting"}), t \in Times :
    Seen(t) /\ DayOf[t] = k[1] => t % DayLength <= params.cutoff

InRange(k, t) ==
  /\ t \in Times \cap DOMAIN Bars[legs[k].inst]
  /\ DayOf[t] = k[1] /\ legs[k].since <= t /\ t % DayLength <= params.range_end

HighsInv ==
  \A k \in DOMAIN legs :
    /\ legs[k].since \in Times /\ legs[k].since <= step
    /\ DayOf[legs[k].since] = k[1]
    /\ legs[k].since % DayLength >= params.range_start
    /\ \A t \in Times :
         Seen(t) /\ InRange(k, t) => Bars[legs[k].inst][t].high <= legs[k].high

(* The close at u is above the range of the leg.                            *)
BrokeOut(k, u) ==
  \A t \in Times :
    InRange(k, t) => Bars[legs[k].inst][u].close > Bars[legs[k].inst][t].high

(* So every leg that was bought, at its bar; one on its way, at this bar.    *)
HeldBroke ==
  /\ \A k \in With({"active", "pending_exit", "exited"}) :
       BrokeOut(k, legs[k].entry_ts)
  /\ \A k \in With({"pending_entry"}) : BrokeOut(k, now)

(* The purchases in hand are so too, and none is made twice.                *)
CallsBroke ==
  /\ \A n \in DOMAIN todo : todo[n].tag[1] = "entry" =>
       LET k == todo[n].tag[2]
       IN  legs[k].status = "waiting" /\ IsToday(k) /\ BrokeOut(k, now)
  /\ \A m, n \in DOMAIN todo :
       todo[m].tag[1] = "entry" /\ todo[m].tag = todo[n].tag => m = n

BreakInv == HeldBroke /\ CallsBroke

LegInv ==
  /\ PursuitInv /\ PositionsInv /\ StatsInv
  /\ WaitingInv /\ HighsInv /\ BreakInv
  /\ ~HasAllocator => SalesInv

OrbInv == LoopInv /\ HostInv /\ (OrderIdsDistinct => LegInv)

-----------------------------------------------------------------------------
(* Steps of the strategy are steps of the engine.                           *)

LEMMA SeqOfElements ==
  ASSUME NEW C, NEW s \in Seq(C)
  PROVE  s \in Seq(Elements(s))
<1>1. Len(s) \in Nat /\ DOMAIN s = 1 .. Len(s)
  BY LenProperties
<1>2. \A i \in 1 .. Len(s) : s[i] \in Elements(s)
  BY <1>1 DEF Elements
<1>3. SubSeq(s, 1, Len(s)) \in Seq(Elements(s))
  BY <1>1, <1>2, SubSeqProperties
<1>. QED
  BY <1>3, SubSeqFull

LEMMA HeadAndTail ==
  ASSUME TodoIsSeq, todo # <<>>
  PROVE  /\ 1 \in DOMAIN todo /\ Head(todo) = todo[1]
         /\ \A n \in DOMAIN Tail(todo) :
              n + 1 \in DOMAIN todo /\ Tail(todo)[n] = todo[n + 1]
         /\ \A n \in DOMAIN todo :
              n # 1 => n - 1 \in DOMAIN Tail(todo) /\ Tail(todo)[n - 1] = todo[n]
         /\ todo' = Tail(todo) => TodoIsSeq'
<1>. DEFINE S == Elements(todo)
<1>1. todo \in Seq(S)
  BY DEF TodoIsSeq
<1>2. Len(todo) \in Nat /\ Len(todo) > 0 /\ DOMAIN todo = 1 .. Len(todo)
  BY <1>1, EmptySeq, LenProperties
<1>3. /\ Tail(todo) \in Seq(S) /\ Len(Tail(todo)) = Len(todo) - 1
      /\ \A n \in 1 .. Len(Tail(todo)) : Tail(todo)[n] = todo[n + 1]
      /\ Head(todo) = todo[1]
  BY <1>1, <1>2, HeadTailProperties
<1>4. DOMAIN Tail(todo) = 1 .. Len(todo) - 1
  BY <1>3, LenProperties
<1>5. Tail(todo) \in Seq(Elements(Tail(todo)))
  BY <1>3, SeqOfElements
<1>6. todo' = Tail(todo) => TodoIsSeq'
  BY <1>5 DEF TodoIsSeq, Elements
<1>. QED
  BY <1>2, <1>3, <1>4, <1>6

LEMMA CallIsOrder ==
  ASSUME CallsOK, LegsOK, NEW n \in DOMAIN todo
  PROVE  /\ todo[n].op = "place"
         /\ todo[n].in \in OrderArgs
         /\ todo[n].in.type = "market" /\ todo[n].in.qty = Quantity
         /\ todo[n].tag[1] \in {"entry", "exit"}
         /\ todo[n].tag[2] \in DOMAIN legs
         /\ todo[n].in.inst = legs[todo[n].tag[2]].inst
         /\ todo[n].tag[1] = "entry" =>
              /\ todo[n].in.side = "buy" /\ Trades(legs[todo[n].tag[2]].inst)
              /\ todo[n].tag = <<"entry", todo[n].tag[2]>>
         /\ todo[n].tag[1] = "exit" =>
              todo[n].in.side = "sell" /\ todo[n].tag[3] \in Reasons
<1>1. PICK k \in DOMAIN legs :
        \/ todo[n] = Buy(k, legs[k]) /\ Trades(legs[k].inst)
        \/ \E r \in Reasons : todo[n] = Sell(k, legs[k], r)
  BY DEF CallsOK, CallOfLeg
<1>2. legs[k].inst \in Instruments /\ Quantity \in Int
  BY OrbAssumption DEF LegsOK, LegType
<1>3. CASE todo[n] = Buy(k, legs[k]) /\ Trades(legs[k].inst)
  BY <1>2, <1>3 DEF Buy, Place, OrderArgs, Sides, OrderTypes
<1>4. CASE \E r \in Reasons : todo[n] = Sell(k, legs[k], r)
  BY <1>2, <1>4 DEF Sell, Place, OrderArgs, Sides, OrderTypes
<1>. QED
  BY <1>1, <1>3, <1>4

LEMMA OrbStepIsEngineStep ==
  ASSUME TypeInv, HostInv, [OrbNext]_allVars
  PROVE  [AnyNext]_vars
<1>1. CASE OnMarketEvent \/ OnFillEvent \/ OtherCallback \/ SkipCall
  BY <1>1 DEF OnMarketEvent, OnFillEvent, OtherCallback, Handle, SkipCall
<1>2. CASE OrderPlaced
  <2>1. 1 \in DOMAIN todo /\ Head(todo) = todo[1]
    BY <1>2, HeadAndTail DEF OrderPlaced, HostInv
  <2>2. todo[1].op = "place" /\ todo[1].in \in OrderArgs
    BY <2>1, CallIsOrder DEF HostInv
  <2>3. PlaceOrderAt(todo[1].in, now)
    BY <1>2, <2>1, <2>2 DEF OrderPlaced, MakeCall
  <2>4. now \in Int
    BY TimesArePositive
  <2>. QED
    BY <2>2, <2>3, <2>4 DEF AnyNext, AnyCall
<1>3. CASE Proceed \/ HostStops
  BY <1>3 DEF Proceed, HostStops, AnyNext
<1>4. CASE UNCHANGED allVars
  BY <1>4 DEF allVars
<1>. QED
  BY <1>1, <1>2, <1>3, <1>4 DEF OrbNext

-----------------------------------------------------------------------------
(* The calls a handler asks for, as sequences.                              *)

LEMMA LeastNat ==
  ASSUME NEW S, S \subseteq Nat, S # {}
  PROVE  \E n \in S : \A m \in S : n <= m
<1>1. PICK n \in S : \A m \in S : ~(<<m, n>> \in OpToRel(<, Nat))
  BY NatLessThanWellFounded, WFMin, Zenon
<1>2. \A m \in S : ~(m < n)
  BY <1>1 DEF OpToRel
<1>. QED
  BY <1>2

LEMMA ConcatElements ==
  ASSUME NEW C, NEW s \in Seq(C), NEW t \in Seq(C)
  PROVE  s \o t \in Seq(C) /\ Elements(s \o t) = Elements(s) \cup Elements(t)
<1>1. /\ s \o t \in Seq(C) /\ Len(s \o t) = Len(s) + Len(t)
      /\ \A i \in 1 .. Len(s) + Len(t) :
           (s \o t)[i] = IF i <= Len(s) THEN s[i] ELSE t[i - Len(s)]
  BY ConcatProperties
<1>2. /\ DOMAIN s = 1 .. Len(s) /\ DOMAIN t = 1 .. Len(t)
      /\ DOMAIN (s \o t) = 1 .. Len(s) + Len(t)
      /\ Len(s) \in Nat /\ Len(t) \in Nat
  BY <1>1, LenProperties
<1>3. Elements(s \o t) \subseteq Elements(s) \cup Elements(t)
  <2>1. ASSUME NEW i \in 1 .. Len(s) + Len(t)
        PROVE  (s \o t)[i] \in Elements(s) \cup Elements(t)
    <3>1. CASE i <= Len(s)
      BY <1>1, <1>2, <3>1 DEF Elements
    <3>2. CASE ~(i <= Len(s))
      <4>1. i - Len(s) \in 1 .. Len(t)
        BY <1>2, <3>2
      <4>. QED
        BY <1>1, <1>2, <3>2, <4>1 DEF Elements
    <3>. QED
      BY <3>1, <3>2
  <2>. QED
    BY <1>2, <2>1 DEF Elements
<1>4. Elements(s) \subseteq Elements(s \o t)
  <2>1. \A i \in 1 .. Len(s) : i \in 1 .. Len(s) + Len(t) /\ s[i] = (s \o t)[i]
    BY <1>1, <1>2
  <2>. QED
    BY <1>2, <2>1 DEF Elements
<1>5. Elements(t) \subseteq Elements(s \o t)
  <2>1. ASSUME NEW i \in 1 .. Len(t)
        PROVE  /\ Len(s) + i \in 1 .. Len(s) + Len(t)
               /\ (s \o t)[Len(s) + i] = t[i]
    <3>1. /\ Len(s) + i \in 1 .. Len(s) + Len(t)
          /\ ~(Len(s) + i <= Len(s)) /\ (Len(s) + i) - Len(s) = i
      BY <1>2
    <3>. QED
      BY <1>1, <3>1
  <2>. QED
    BY <1>2, <2>1 DEF Elements
<1>. QED
  BY <1>1, <1>3, <1>4, <1>5

(* What FlattenSeq does with a sequence, prefix by prefix.                  *)
Flattens(g, ss, n) ==
  g = [i \in 1 .. n |-> IF i = 1 THEN ss[i] ELSE g[i - 1] \o ss[i]]

LEMMA FlattensExist ==
  ASSUME NEW ss, NEW n \in Nat \ {0}
  PROVE  \E g : Flattens(g, ss, n)
<1>. DEFINE Bad == {m \in Nat \ {0} : ~\E g : Flattens(g, ss, m)}
<1>1. SUFFICES ASSUME Bad # {} PROVE FALSE
  OBVIOUS
<1>2. PICK m \in Bad : \A l \in Bad : m <= l
  <2>1. Bad \subseteq Nat
    OBVIOUS
  <2>. HIDE DEF Bad
  <2>. QED
    BY <1>1, <2>1, LeastNat
<1>3. m \in Nat \ {0} /\ ~\E g : Flattens(g, ss, m)
  BY <1>2
<1>4. CASE m = 1
  <2>. DEFINE g == [i \in 1 .. 1 |-> ss[i]]
  <2>1. Flattens(g, ss, 1)
    BY DEF Flattens
  <2>. QED
    BY <1>3, <1>4, <2>1
<1>5. CASE m # 1
  <2>1. m - 1 \in Nat \ {0} /\ ~(m <= m - 1)
    BY <1>3, <1>5
  <2>2. PICK g : Flattens(g, ss, m - 1)
    BY <1>2, <2>1
  <2>. DEFINE h == [i \in 1 .. m |-> IF i = m THEN g[m - 1] \o ss[m] ELSE g[i]]
  <2>3. \A i \in 1 .. m - 1 :
          g[i] = IF i = 1 THEN ss[i] ELSE g[i - 1] \o ss[i]
    BY <2>2 DEF Flattens
  <2>4. ASSUME NEW i \in 1 .. m
        PROVE  h[i] = IF i = 1 THEN ss[i] ELSE h[i - 1] \o ss[i]
    <3>1. CASE i = m
      <4>1. m - 1 \in 1 .. m /\ m - 1 # m
        BY <2>1, <1>3
      <4>. QED
        BY <1>5, <3>1, <4>1
    <3>2. CASE i # m
      <4>1. i \in 1 .. m - 1
        BY <1>3, <3>2
      <4>2. i # 1 => i - 1 \in 1 .. m /\ i - 1 # m
        BY <1>3, <4>1
      <4>. QED
        BY <2>3, <3>2, <4>1, <4>2
    <3>. QED
      BY <3>1, <3>2
  <2>5. h = [i \in 1 .. m |-> h[i]]
    OBVIOUS
  <2>. HIDE DEF h
  <2>6. Flattens(h, ss, m)
    BY <2>4, <2>5 DEF Flattens
  <2>. QED
    BY <1>3, <2>6
<1>. QED
  BY <1>4, <1>5

LEMMA FlattensElements ==
  ASSUME NEW C, NEW ss \in Seq(Seq(C)), NEW g, Flattens(g, ss, Len(ss)),
         NEW n \in 1 .. Len(ss)
  PROVE  /\ g[n] \in Seq(C)
         /\ \A x : x \in Elements(g[n]) <=> \E m \in 1 .. n : x \in Elements(ss[m])
<1>. DEFINE Good(i) == /\ g[i] \in Seq(C)
                       /\ \A x : x \in Elements(g[i]) <=>
                            \E m \in 1 .. i : x \in Elements(ss[m])
            Bad == {i \in 1 .. Len(ss) : ~Good(i)}
<1>1. SUFFICES ASSUME Bad # {} PROVE FALSE
  OBVIOUS
<1>2. PICK i \in Bad : \A l \in Bad : i <= l
  <2>1. Bad \subseteq Nat
    OBVIOUS
  <2>. HIDE DEF Bad
  <2>. QED
    BY <1>1, <2>1, LeastNat
<1>3. i \in 1 .. Len(ss) /\ ~Good(i) /\ Len(ss) \in Nat
  BY <1>2, LenProperties
<1>4. g[i] = IF i = 1 THEN ss[i] ELSE g[i - 1] \o ss[i]
  BY <1>3 DEF Flattens
<1>5. ss[i] \in Seq(C)
  BY <1>3, ElementOfSeq
<1>6. CASE i = 1
  <2>1. 1 .. i = {1}
    BY <1>6
  <2>. QED
    BY <1>3, <1>4, <1>5, <1>6, <2>1
<1>7. CASE i # 1
  <2>1. i - 1 \in 1 .. Len(ss) /\ ~(i <= i - 1)
    BY <1>3, <1>7
  <2>2. Good(i - 1)
    BY <1>2, <2>1
  <2>3. 1 .. i = (1 .. i - 1) \cup {i}
    BY <1>3
  <2>4. g[i] \in Seq(C) /\ Elements(g[i]) = Elements(g[i - 1]) \cup Elements(ss[i])
    BY <1>4, <1>5, <1>7, <2>2, ConcatElements
  <2>. QED
    BY <1>3, <2>2, <2>3, <2>4
<1>. QED
  BY <1>6, <1>7

LEMMA FlattenElements ==
  ASSUME NEW C, NEW ss \in Seq(Seq(C))
  PROVE  /\ FlattenSeq(ss) \in Seq(C)
         /\ \A x : x \in Elements(FlattenSeq(ss)) <=>
                    \E m \in DOMAIN ss : x \in Elements(ss[m])
<1>1. Len(ss) \in Nat /\ DOMAIN ss = 1 .. Len(ss)
  BY LenProperties
<1>2. CASE Len(ss) = 0
  <2>1. ss = <<>>
    BY <1>2, EmptySeq
  <2>2. FlattenSeq(ss) = <<>>
    BY <1>2, <2>1 DEF FlattenSeq
  <2>3. Elements(<<>>) = {}
    BY DEF Elements
  <2>4. DOMAIN ss = {}
    BY <1>1, <1>2
  <2>. QED
    BY <2>2, <2>3, <2>4, EmptySeq
<1>3. CASE Len(ss) # 0
  <2>. DEFINE g == CHOOSE h : Flattens(h, ss, Len(ss))
  <2>1. FlattenSeq(ss) = g[Len(ss)]
    BY <1>3 DEF FlattenSeq, Flattens
  <2>2. Flattens(g, ss, Len(ss))
    BY <1>1, <1>3, FlattensExist
  <2>. HIDE DEF g
  <2>3. Len(ss) \in 1 .. Len(ss)
    BY <1>1, <1>3
  <2>4. /\ g[Len(ss)] \in Seq(C)
        /\ \A x : x \in Elements(g[Len(ss)]) <=>
                   \E m \in 1 .. Len(ss) : x \in Elements(ss[m])
    <3>1. \A n \in 1 .. Len(ss) :
            /\ g[n] \in Seq(C)
            /\ \A x : x \in Elements(g[n]) <=> \E m \in 1 .. n : x \in Elements(ss[m])
      BY <2>2, FlattensElements
    <3>. QED
      BY <2>3, <3>1, Zenon
  <2>. QED
    BY <1>1, <2>1, <2>4
<1>. QED
  BY <1>2, <1>3

LEMMA SetToSeqElements ==
  ASSUME NEW S, IsFiniteSet(S)
  PROVE  SetToSeq(S) \in Seq(S) /\ Elements(SetToSeq(S)) = S
<1>. DEFINE n == Cardinality(S)
            f == SetToSeq(S)
<1>1. n \in Nat /\ ExistsBijection(1 .. n, S)
  BY FS_CardinalityType
<1>2. PICK g \in Bijection(1 .. n, S) : TRUE
  BY <1>1 DEF ExistsBijection
<1>3. g \in [1 .. n -> S] /\ IsInjective(g)
  BY <1>2 DEF Bijection, Injection, IsInjective
<1>4. f \in [1 .. n -> S] /\ IsInjective(f)
  BY <1>3 DEF SetToSeq
<1>. HIDE DEF f
<1>5. f \in Injection(1 .. n, S)
  BY <1>4 DEF Injection, IsInjective
<1>6. Cardinality(1 .. n) = n
  BY <1>1, FS_Interval
<1>7. f \in Surjection(1 .. n, S)
  BY <1>5, <1>6, FS_Injection
<1>8. Elements(f) = S
  BY <1>4, <1>7 DEF Surjection, Elements
<1>9. f \in Seq(S)
  BY <1>1, <1>4
<1>. QED
  BY <1>8, <1>9 DEF f

EntryFor(ls, kind) ==
  IF <<Today, kind>> \in Entries(ls)
    THEN <<Buy(<<Today, kind>>, ls[<<Today, kind>>])>> ELSE <<>>

LEMMA EntryForShape ==
  ASSUME NEW ls, NEW kind
  PROVE  /\ EntryFor(ls, kind) \in Seq({Buy(k, ls[k]) : k \in Entries(ls)})
         /\ Len(EntryFor(ls, kind)) \in Nat /\ Len(EntryFor(ls, kind)) <= 1
         /\ Len(EntryFor(ls, kind)) = 1 =>
              EntryFor(ls, kind)[1].tag = <<"entry", <<Today, kind>>>>
<1>. DEFINE k == <<Today, kind>>
            b == Buy(k, ls[k])
            C == {Buy(x, ls[x]) : x \in Entries(ls)}
<1>1. k \in Entries(ls) => b \in C
  OBVIOUS
<1>2. b.tag = <<"entry", <<Today, kind>>>>
  BY DEF Buy, Place
<1>3. EntryFor(ls, kind) = IF k \in Entries(ls) THEN <<b>> ELSE <<>>
  BY DEF EntryFor
<1>. HIDE DEF b, k, C
<1>4. CASE k \in Entries(ls)
  <2>1. <<b>> \in Seq(C) /\ Len(<<b>>) = 1 /\ <<b>>[1] = b
    BY <1>1, <1>4
  <2>. QED
    BY <1>2, <1>3, <1>4, <2>1 DEF C
<1>5. CASE k \notin Entries(ls)
  <2>1. <<>> \in Seq(C) /\ Len(<<>>) = 0
    OBVIOUS
  <2>. QED
    BY <1>3, <1>5, <2>1 DEF C
<1>. QED
  BY <1>4, <1>5

LEMMA EntryCallsShape ==
  ASSUME NEW ls
  PROVE  /\ EntryCalls(ls) \in Seq({Buy(k, ls[k]) : k \in Entries(ls)})
         /\ \A m, n \in DOMAIN EntryCalls(ls) :
              EntryCalls(ls)[m].tag = EntryCalls(ls)[n].tag => m = n
<1>. DEFINE C == {Buy(k, ls[k]) : k \in Entries(ls)}
            s == EntryFor(ls, "ce")
            t == EntryFor(ls, "pe")
<1>1. EntryCalls(ls) = s \o t
  BY DEF EntryCalls, EntryFor
<1>2. /\ s \in Seq(C) /\ Len(s) \in Nat /\ Len(s) <= 1
      /\ Len(s) = 1 => s[1].tag = <<"entry", <<Today, "ce">>>>
  BY EntryForShape
<1>3. /\ t \in Seq(C) /\ Len(t) \in Nat /\ Len(t) <= 1
      /\ Len(t) = 1 => t[1].tag = <<"entry", <<Today, "pe">>>>
  BY EntryForShape
<1>. HIDE DEF s, t, C
<1>4. /\ s \o t \in Seq(C) /\ Len(s \o t) = Len(s) + Len(t)
      /\ \A i \in 1 .. Len(s) + Len(t) :
           (s \o t)[i] = IF i <= Len(s) THEN s[i] ELSE t[i - Len(s)]
  BY <1>2, <1>3, ConcatProperties
<1>5. DOMAIN (s \o t) = 1 .. Len(s) + Len(t)
  BY <1>4, LenProperties
<1>6. ASSUME NEW m \in 1 .. Len(s) + Len(t), NEW n \in 1 .. Len(s) + Len(t),
             m < n
      PROVE  (s \o t)[m].tag # (s \o t)[n].tag
  <2>. DEFINE p == Len(s)
              q == Len(t)
  <2>1. p \in Nat /\ p <= 1 /\ q \in Nat /\ q <= 1 /\ m \in 1 .. p + q /\ n \in 1 .. p + q
    BY <1>2, <1>3
  <2>. HIDE DEF p, q
  <2>2. p = 1 /\ q = 1 /\ m = 1 /\ n = 2
    BY <1>6, <2>1
  <2>3. Len(s) = 1 /\ Len(t) = 1 /\ m = 1 /\ n = 2
    BY <2>2 DEF p, q
  <2>4. (s \o t)[1] = s[1] /\ (s \o t)[2] = t[1]
    BY <1>4, <2>3
  <2>. QED
    BY <1>2, <1>3, <2>3, <2>4
<1>7. \A m, n \in 1 .. Len(s) + Len(t) :
        (s \o t)[m].tag = (s \o t)[n].tag => m = n
  <2>1. \A m, n \in 1 .. Len(s) + Len(t) : m < n \/ n < m \/ m = n
    BY <1>2, <1>3
  <2>. QED
    BY <1>6, <2>1
<1>. QED
  BY <1>1, <1>4, <1>5, <1>7 DEF C

Sells(ls) == {Sell(k, ls[k], r) : k \in DOMAIN ls, r \in Reasons}

TouchCall(ls, k) ==
  IF k \in Watched(ls) /\ Touches(ls[k])
    THEN <<Sell(k, ls[k], TouchReason(ls[k]))>> ELSE <<>>
DueCall(ls, k) ==
  IF k \in Watched(ls) /\ DueByTime(k, ls[k])
    THEN <<Sell(k, ls[k], "time")>> ELSE <<>>
CallsOfDay(ls, d) ==
  TouchCall(ls, <<d, "ce">>) \o TouchCall(ls, <<d, "pe">>)
    \o DueCall(ls, <<d, "ce">>) \o DueCall(ls, <<d, "pe">>)

(* Sales of watched legs, and one at least of each that is to be sold.      *)
LEMMA CallsOfLeg ==
  ASSUME NEW ls, NEW k
  PROVE  /\ TouchCall(ls, k) \in Seq(Sells(ls))
         /\ DueCall(ls, k) \in Seq(Sells(ls))
         /\ k \in DOMAIN ls /\ Touches(ls[k]) =>
              \E c \in Elements(TouchCall(ls, k)) : c.tag[1] = "exit" /\ c.tag[2] = k
         /\ k \in DOMAIN ls /\ DueByTime(k, ls[k]) =>
              \E c \in Elements(DueCall(ls, k)) : c.tag[1] = "exit" /\ c.tag[2] = k
<1>. DEFINE s == Sell(k, ls[k], TouchReason(ls[k]))
            t == Sell(k, ls[k], "time")
<1>1. k \in DOMAIN ls => s \in Sells(ls) /\ t \in Sells(ls)
  BY DEF Sells, TouchReason, Reasons
<1>2. /\ s.tag[1] = "exit" /\ s.tag[2] = k
      /\ t.tag[1] = "exit" /\ t.tag[2] = k
  BY DEF Sell, Place
<1>3. /\ TouchCall(ls, k) = IF k \in DOMAIN ls /\ Touches(ls[k]) THEN <<s>> ELSE <<>>
      /\ DueCall(ls, k) = IF k \in DOMAIN ls /\ DueByTime(k, ls[k]) THEN <<t>> ELSE <<>>
  BY DEF TouchCall, DueCall, Watched
<1>. HIDE DEF s, t
<1>4. s \in Elements(<<s>>) /\ t \in Elements(<<t>>)
  BY DEF Elements
<1>. QED
  BY <1>1, <1>2, <1>3, <1>4

LEMMA CallsOfDayShape ==
  ASSUME NEW ls, NEW d
  PROVE  /\ CallsOfDay(ls, d) \in Seq(Sells(ls))
         /\ \A kind \in {"ce", "pe"} :
              /\ Elements(TouchCall(ls, <<d, kind>>)) \subseteq Elements(CallsOfDay(ls, d))
              /\ Elements(DueCall(ls, <<d, kind>>)) \subseteq Elements(CallsOfDay(ls, d))
<1>. DEFINE C == Sells(ls)
            a == TouchCall(ls, <<d, "ce">>)
            b == TouchCall(ls, <<d, "pe">>)
            e == DueCall(ls, <<d, "ce">>)
            f == DueCall(ls, <<d, "pe">>)
<1>1. a \in Seq(C) /\ b \in Seq(C) /\ e \in Seq(C) /\ f \in Seq(C)
  BY CallsOfLeg
<1>2. CallsOfDay(ls, d) = ((a \o b) \o e) \o f
  BY DEF CallsOfDay
<1>. HIDE DEF C, a, b, e, f
<1>. DEFINE x == a \o b
<1>3. x \in Seq(C) /\ Elements(x) = Elements(a) \cup Elements(b)
  BY <1>1, ConcatElements
<1>. DEFINE y == x \o e
<1>. HIDE DEF x
<1>4. y \in Seq(C) /\ Elements(y) = Elements(x) \cup Elements(e)
  BY <1>1, <1>3, ConcatElements
<1>. HIDE DEF y
<1>5. y \o f \in Seq(C) /\ Elements(y \o f) = Elements(y) \cup Elements(f)
  BY <1>1, <1>4, ConcatElements
<1>6. CallsOfDay(ls, d) = y \o f
  BY <1>2 DEF x, y
<1>. QED
  BY <1>3, <1>4, <1>5, <1>6 DEF C, a, b, e, f

LEMMA ExitCallsShape ==
  ASSUME NEW ls, IsFiniteSet(DOMAIN ls), DOMAIN ls \subseteq Keys
  PROVE  /\ ExitCalls(ls) \in Seq(Sells(ls))
         /\ \A k \in DOMAIN ls :
              Touches(ls[k]) \/ DueByTime(k, ls[k]) =>
                \E c \in Elements(ExitCalls(ls)) : c.tag[1] = "exit" /\ c.tag[2] = k
<1>. DEFINE D == {k[1] : k \in DOMAIN ls}
            days == SetToSeq(D)
            ss == [n \in DOMAIN days |-> CallsOfDay(ls, days[n])]
<1>1. IsFiniteSet(D)
  <2>. DEFINE f == [k \in DOMAIN ls |-> k[1]]
  <2>1. f \in Surjection(DOMAIN ls, D)
    BY DEF Surjection
  <2>. HIDE DEF f
  <2>. QED
    BY <2>1, FS_Surjection
<1>2. days \in Seq(D) /\ Elements(days) = D
  BY <1>1, SetToSeqElements
<1>3. ExitCalls(ls) = FlattenSeq(ss)
  BY DEF ExitCalls, CallsOfDay, TouchCall, DueCall
<1>. HIDE DEF D, days
<1>4. ss \in Seq(Seq(Sells(ls)))
  <2>1. Len(days) \in Nat /\ DOMAIN days = 1 .. Len(days)
    BY <1>2, LenProperties
  <2>2. \A n \in DOMAIN days : CallsOfDay(ls, days[n]) \in Seq(Sells(ls))
    BY CallsOfDayShape
  <2>. QED
    BY <2>1, <2>2
<1>5. DOMAIN ss = DOMAIN days /\ \A n \in DOMAIN days : ss[n] = CallsOfDay(ls, days[n])
  OBVIOUS
<1>. HIDE DEF ss
<1>6. /\ FlattenSeq(ss) \in Seq(Sells(ls))
      /\ \A x : x \in Elements(FlattenSeq(ss)) <=>
                  \E m \in DOMAIN ss : x \in Elements(ss[m])
  BY <1>4, FlattenElements
<1>7. ASSUME NEW k \in DOMAIN ls, Touches(ls[k]) \/ DueByTime(k, ls[k])
      PROVE  \E c \in Elements(ExitCalls(ls)) : c.tag[1] = "exit" /\ c.tag[2] = k
  <2>1. PICK n \in DOMAIN days : days[n] = k[1]
    BY <1>2 DEF D, Elements
  <2>2. k[2] \in {"ce", "pe"} /\ k = <<k[1], k[2]>>
    BY DEF Keys
  <2>3. /\ Elements(TouchCall(ls, k)) \subseteq Elements(ss[n])
        /\ Elements(DueCall(ls, k)) \subseteq Elements(ss[n])
    BY <1>5, <2>1, <2>2, CallsOfDayShape
  <2>4. \E c \in Elements(ss[n]) : c.tag[1] = "exit" /\ c.tag[2] = k
    <3>1. CASE Touches(ls[k])
      <4>1. PICK c \in Elements(TouchCall(ls, k)) : c.tag[1] = "exit" /\ c.tag[2] = k
        BY <3>1, CallsOfLeg
      <4>. QED
        BY <2>3, <4>1
    <3>2. CASE DueByTime(k, ls[k])
      <4>1. PICK c \in Elements(DueCall(ls, k)) : c.tag[1] = "exit" /\ c.tag[2] = k
        BY <3>2, CallsOfLeg
      <4>. QED
        BY <2>3, <4>1
    <3>. QED
      BY <1>7, <3>1, <3>2
  <2>. QED
    BY <1>3, <1>5, <1>6, <2>1, <2>4
<1>. QED
  BY <1>3, <1>6, <1>7

-----------------------------------------------------------------------------
(* What on_market_event does to the legs.                                   *)

(* All of a leg but its high and its status.                                *)
Kept(l, m) ==
  /\ m.inst = l.inst /\ m.since = l.since /\ m.reason = l.reason
  /\ m.entry_id = l.entry_id /\ m.exit_id = l.exit_id
  /\ m.entry_ts = l.entry_ts /\ m.target = l.target /\ m.stop = l.stop

InRangeNow(k, i) ==
  /\ IsToday(k) /\ Trades(i)
  /\ params.range_start <= Second /\ Second <= params.range_end

LEMMA BarTypes ==
  ASSUME NEW i \in Instruments, NEW t \in DOMAIN Bars[i]
  PROVE  /\ t \in Int /\ Bars[i][t].low \in Int /\ Bars[i][t].high \in Int
         /\ Bars[i][t].close \in Int
<1>1. i \in DOMAIN Bars
  BY EngineAssumption
<1>2. Bars[i][t] \in [low : Int, high : Int, close : Int] /\ t \in Int
  BY <1>1, FillModelAssumption
<1>. QED
  BY <1>2

LEMMA RangedShape ==
  ASSUME NEW ls, \A k \in DOMAIN ls : ls[k] \in LegType
  PROVE  /\ DOMAIN Ranged(ls) = DOMAIN ls
         /\ \A k \in DOMAIN ls :
              LET l == ls[k]
                  r == Ranged(ls)[k]
              IN  /\ r \in LegType /\ Kept(l, r) /\ r.status = l.status
                  /\ r.high >= l.high
                  /\ InRangeNow(k, l.inst) => r.high >= Bars[l.inst][now].high
<1>1. DOMAIN Ranged(ls) = DOMAIN ls
  BY DEF Ranged
<1>2. ASSUME NEW k \in DOMAIN ls
      PROVE  LET l == ls[k]
                 r == Ranged(ls)[k]
             IN  /\ r \in LegType /\ Kept(l, r) /\ r.status = l.status
                 /\ r.high >= l.high
                 /\ InRangeNow(k, l.inst) => r.high >= Bars[l.inst][now].high
  <2>. DEFINE l == ls[k]
              h == IF Bars[l.inst][now].high > l.high
                     THEN Bars[l.inst][now].high ELSE l.high
  <2>1. l \in LegType /\ l.high \in Int /\ l.inst \in Instruments
    BY DEF LegType
  <2>2. Ranged(ls)[k] = IF InRangeNow(k, l.inst) THEN [l EXCEPT !.high = h] ELSE l
    BY DEF Ranged, InRangeNow
  <2>3. CASE InRangeNow(k, l.inst)
    <3>1. Bars[l.inst][now].high \in Int
      BY <2>1, <2>3, BarTypes DEF InRangeNow, Trades
    <3>2. h \in Int /\ h >= l.high /\ h >= Bars[l.inst][now].high
      BY <2>1, <3>1
    <3>. HIDE DEF h, l
    <3>3. [l EXCEPT !.high = h] \in LegType
      BY <2>1, <3>2 DEF LegType
    <3>4. [l EXCEPT !.high = h].high = h /\ Kept(l, [l EXCEPT !.high = h])
          /\ [l EXCEPT !.high = h].status = l.status
      BY <2>1 DEF LegType, Kept
    <3>. QED
      BY <2>2, <2>3, <3>2, <3>3, <3>4 DEF l
  <2>4. CASE ~InRangeNow(k, l.inst)
    BY <2>1, <2>2, <2>4 DEF Kept
  <2>. QED
    BY <2>3, <2>4
<1>. QED
  BY <1>1, <1>2

LEMMA AfterCutoffShape ==
  ASSUME NEW ls, \A k \in DOMAIN ls : ls[k] \in LegType
  PROVE  /\ DOMAIN AfterCutoff(ls) = DOMAIN ls
         /\ \A k \in DOMAIN ls :
              LET l == ls[k]
                  r == AfterCutoff(ls)[k]
              IN  /\ r \in LegType /\ Kept(l, r) /\ r.high = l.high
                  /\ r.status = IF k \in Expired(ls) THEN "closed_no_entry"
                                                     ELSE l.status
<1>1. DOMAIN AfterCutoff(ls) = DOMAIN ls
  BY DEF AfterCutoff
<1>2. ASSUME NEW k \in DOMAIN ls
      PROVE  LET l == ls[k]
                 r == AfterCutoff(ls)[k]
             IN  /\ r \in LegType /\ Kept(l, r) /\ r.high = l.high
                 /\ r.status = IF k \in Expired(ls) THEN "closed_no_entry"
                                                    ELSE l.status
  <2>. DEFINE l == ls[k]
              m == [l EXCEPT !.status = "closed_no_entry"]
  <2>1. l \in LegType
    OBVIOUS
  <2>2. AfterCutoff(ls)[k] = IF k \in Expired(ls) THEN m ELSE l
    BY DEF AfterCutoff
  <2>. HIDE DEF l
  <2>3. m \in LegType
    BY <2>1 DEF LegType, Statuses
  <2>4. Kept(l, m) /\ m.high = l.high /\ m.status = "closed_no_entry"
    BY <2>1 DEF LegType, Kept
  <2>5. Kept(l, l)
    BY DEF Kept
  <2>. HIDE DEF m
  <2>. QED
    BY <2>1, <2>2, <2>3, <2>4, <2>5 DEF l
<1>. QED
  BY <1>1, <1>2

FreshLeg(l) ==
  /\ l \in LegType /\ Trades(l.inst)
  /\ l.status = "waiting" /\ l.since = now /\ l.high = Bars[l.inst][now].high

TodayKeys == {<<Today, "ce">>, <<Today, "pe">>}

LEMMA NewLegShape ==
  ASSUME NEW i \in Instruments, Trades(i), now \in Nat
  PROVE  FreshLeg(NewLeg(i))
<1>1. Bars[i][now].high \in Int
  BY BarTypes DEF Trades
<1>2. NewLeg(i) \in LegType
  BY <1>1 DEF NewLeg, LegType, Statuses
<1>. QED
  BY <1>2 DEF FreshLeg, NewLeg

LEMMA WithTodayShape ==
  ASSUME LegsOK, now \in Nat, NEW ls \in WithToday
  PROVE  \/ ls = legs
         \/ /\ Second >= params.range_start
            /\ TodayKeys \cap DOMAIN legs = {}
            /\ DOMAIN ls = DOMAIN legs \cup TodayKeys
            /\ \A k \in DOMAIN legs : ls[k] = legs[k]
            /\ \A k \in TodayKeys : FreshLeg(ls[k])
<1>. SUFFICES ASSUME ls # legs
              PROVE  /\ Second >= params.range_start
                     /\ TodayKeys \cap DOMAIN legs = {}
                     /\ DOMAIN ls = DOMAIN legs \cup TodayKeys
                     /\ \A k \in DOMAIN legs : ls[k] = legs[k]
                     /\ \A k \in TodayKeys : FreshLeg(ls[k])
  OBVIOUS
<1>1. /\ ~(Second < params.range_start)
      /\ <<Today, "ce">> \notin DOMAIN legs
      /\ \E p \in ByPremium("ce") \X ByPremium("pe") :
           ls = Put(Put(legs, <<Today, "ce">>, NewLeg(p[1])), <<Today, "pe">>,
                    NewLeg(p[2]))
  BY DEF WithToday
<1>2. PICK i \in ByPremium("ce"), j \in ByPremium("pe") :
        ls = Put(Put(legs, <<Today, "ce">>, NewLeg(i)), <<Today, "pe">>, NewLeg(j))
  BY <1>1
<1>3. Second >= params.range_start
  <2>1. Second \in Int /\ params.range_start \in Int
    BY OrbAssumption DEF LegsOK, ParamsType, Second
  <2>. QED
    BY <1>1, <2>1
<1>4. <<Today, "pe">> \notin DOMAIN legs
  BY <1>1 DEF LegsOK
<1>5. FreshLeg(NewLeg(i)) /\ FreshLeg(NewLeg(j))
  BY NewLegShape DEF ByPremium
<1>6. <<Today, "ce">> # <<Today, "pe">>
  OBVIOUS
<1>. DEFINE a == <<Today, "ce">>
            b == <<Today, "pe">>
            x == NewLeg(i)
            y == NewLeg(j)
<1>7. TodayKeys = {a, b} /\ a # b /\ a \notin DOMAIN legs /\ b \notin DOMAIN legs
  BY <1>1, <1>4, <1>6 DEF TodayKeys
<1>8. ls = Put(Put(legs, a, x), b, y)
  BY <1>2
<1>. HIDE DEF a, b, x, y
<1>9. /\ DOMAIN ls = DOMAIN legs \cup {a, b}
      /\ \A k \in DOMAIN legs : ls[k] = legs[k]
      /\ ls[a] = x /\ ls[b] = y
  BY <1>7, <1>8 DEF Put
<1>. QED
  BY <1>3, <1>5, <1>7, <1>9 DEF x, y

LEMMA TodayKeysFinite ==
  ASSUME Today \in Nat
  PROVE  /\ IsFiniteSet(TodayKeys) /\ TodayKeys \subseteq Keys
         /\ Cardinality(TodayKeys) = 2
<1>. DEFINE a == <<Today, "ce">>
            b == <<Today, "pe">>
<1>1. TodayKeys = {a} \cup {b} /\ a # b /\ TodayKeys \subseteq Keys
  BY DEF TodayKeys, Keys
<1>. HIDE DEF a, b
<1>2. IsFiniteSet({a}) /\ Cardinality({a}) = 1
  BY FS_Singleton
<1>3. /\ IsFiniteSet({a} \cup {b})
      /\ Cardinality({a} \cup {b}) = Cardinality({a}) + 1
  BY <1>1, <1>2, FS_AddElement
<1>. QED
  BY <1>1, <1>2, <1>3

LEMMA ParamsAreNat ==
  ASSUME LegsOK
  PROVE  /\ params.range_start \in Nat /\ params.range_end \in Nat
         /\ params.cutoff \in Nat /\ params.day2_exit \in Nat
         /\ params.target \in Nat /\ params.stop \in Nat
  BY OrbAssumption DEF LegsOK, ParamsType

NewKeys == DOMAIN legs' \ DOMAIN legs
Late(k) == IsToday(k) /\ Second > params.cutoff

(* Under the callback of a bar, the clock is the timestamp of the loop.     *)
LEMMA BarClock ==
  ASSUME LoopInv, cb = "on_market_event"
  PROVE  /\ phase = 1 /\ now = step /\ step \in Times
         /\ now \in Nat \ {0} /\ Today \in Nat /\ Second \in Nat
<1>1. step # 0 /\ now = step /\ phase = 1
  BY DEF LoopInv, ClockInv, IntradayCallbacks
<1>2. step \in Times
  BY <1>1 DEF LoopInv, ConservationInv, TypeInv, LoopOK
<1>3. Today \in Nat /\ now \in Nat \ {0}
  BY <1>1, <1>2, EngineAssumption DEF Today
<1>4. Second \in Nat
  BY <1>3, OrbAssumption DEF Second
<1>. QED
  BY <1>1, <1>2, <1>3, <1>4

(* The legs: those of the day may be new, none loses what it had.           *)
BarLegs ==
  /\ DOMAIN legs \subseteq DOMAIN legs'
  /\ NewKeys = {} \/ (NewKeys = TodayKeys /\ Second >= params.range_start)
  /\ legs' = [k \in DOMAIN legs' |-> legs'[k]]
  /\ \A k \in DOMAIN legs :
       /\ legs'[k] \in LegType /\ Kept(legs[k], legs'[k])
       /\ legs'[k].high >= legs[k].high
       /\ InRangeNow(k, legs[k].inst) =>
            legs'[k].high >= Bars[legs[k].inst][now].high
       /\ legs'[k].status = IF Late(k) /\ legs[k].status = "waiting"
                              THEN "closed_no_entry" ELSE legs[k].status
  /\ \A k \in NewKeys :
       /\ legs'[k] \in LegType /\ Trades(legs'[k].inst) /\ legs'[k].since = now
       /\ legs'[k].high >= Bars[legs'[k].inst][now].high
       /\ legs'[k].status = IF Late(k) THEN "closed_no_entry" ELSE "waiting"

NowClosed ==
  {k \in DOMAIN legs' : Late(k) /\ (k \in NewKeys \/ legs[k].status = "waiting")}

BarStats ==
  stats' = [stats EXCEPT !.instances = IF NewKeys = {} THEN @ ELSE @ + 1,
                         !.no_breakout = @ + Cardinality(NowClosed)]

BreaksOutNow(k) ==
  /\ legs'[k].status = "waiting" /\ IsToday(k) /\ Trades(legs'[k].inst)
  /\ params.range_end < Second
  /\ Bars[legs'[k].inst][now].close > legs'[k].high

BarCalls ==
  /\ TodoIsSeq'
  /\ \A n \in DOMAIN todo' : \E k \in DOMAIN legs' :
       \/ todo'[n] = Buy(k, legs'[k]) /\ BreaksOutNow(k)
       \/ \E r \in Reasons : todo'[n] = Sell(k, legs'[k], r)
  /\ \A m, n \in DOMAIN todo' :
       todo'[m].tag[1] = "entry" /\ todo'[m].tag = todo'[n].tag => m = n
  /\ \A k \in DOMAIN legs' :
       Touches(legs'[k]) \/ DueByTime(k, legs'[k]) => SaleInHand(k)'

LEMMA TodoOfBar ==
  ASSUME NEW R, \A k \in DOMAIN R : R[k] \in LegType,
         IsFiniteSet(DOMAIN R), DOMAIN R \subseteq Keys,
         legs' = AfterCutoff(R), LegsOK, now \in Nat,
         todo' = EntryCalls(R) \o ExitCalls(AfterCutoff(R))
  PROVE  BarCalls
<1>. DEFINE s == EntryCalls(R)
            t == ExitCalls(AfterCutoff(R))
            B == {Buy(k, R[k]) : k \in Entries(R)}
            C == B \cup Sells(legs')
<1>1. /\ DOMAIN legs' = DOMAIN R
      /\ \A k \in DOMAIN R :
           /\ Kept(R[k], legs'[k]) /\ legs'[k].high = R[k].high
           /\ k \notin Expired(R) => legs'[k].status = R[k].status
  BY AfterCutoffShape
<1>2. /\ s \in Seq(B)
      /\ \A m, n \in DOMAIN s : s[m].tag = s[n].tag => m = n
  BY EntryCallsShape
<1>3. /\ t \in Seq(Sells(legs'))
      /\ \A k \in DOMAIN legs' :
           Touches(legs'[k]) \/ DueByTime(k, legs'[k]) =>
             \E c \in Elements(t) : c.tag[1] = "exit" /\ c.tag[2] = k
  BY <1>1, ExitCallsShape
<1>. HIDE DEF s, t
<1>4. s \in Seq(C) /\ t \in Seq(C)
  BY <1>2, <1>3, SeqMonotonic
<1>5. todo' = s \o t
  BY DEF s, t
<1>6. todo' \in Seq(C) /\ Elements(todo') = Elements(s) \cup Elements(t)
  BY <1>4, <1>5, ConcatElements
<1>7. TodoIsSeq'
  <2>1. todo' \in Seq(Elements(todo'))
    BY <1>6, SeqOfElements
  <2>. QED
    BY <2>1 DEF TodoIsSeq, Elements
<1>8. ASSUME NEW k \in Entries(R)
      PROVE  k \in DOMAIN legs' /\ Buy(k, R[k]) = Buy(k, legs'[k]) /\ BreaksOutNow(k)
  <2>1. /\ k \in DOMAIN R /\ IsToday(k) /\ BreaksOut(R[k])
        /\ params.range_end < Second /\ Second <= params.cutoff
    BY DEF Entries
  <2>2. k \notin Expired(R)
    <3>1. Second \in Int /\ params.cutoff \in Int
      BY OrbAssumption, ParamsAreNat DEF Second
    <3>. QED
      BY <2>1, <3>1 DEF Expired
  <2>3. legs'[k].inst = R[k].inst /\ legs'[k].high = R[k].high
          /\ legs'[k].status = R[k].status
    BY <1>1, <2>1, <2>2 DEF Kept
  <2>. QED
    BY <1>1, <2>1, <2>3 DEF BreaksOut, BreaksOutNow, Buy
<1>9. ASSUME NEW n \in DOMAIN todo'
      PROVE  \E k \in DOMAIN legs' :
               \/ todo'[n] = Buy(k, legs'[k]) /\ BreaksOutNow(k)
               \/ \E r \in Reasons : todo'[n] = Sell(k, legs'[k], r)
  <2>1. todo'[n] \in C
    BY <1>6, LenProperties
  <2>2. CASE todo'[n] \in B
    BY <1>8, <2>2
  <2>3. CASE todo'[n] \in Sells(legs')
    BY <2>3 DEF Sells
  <2>. QED
    BY <2>1, <2>2, <2>3
<1>10. \A c \in Sells(legs') : c.tag[1] = "exit"
  BY DEF Sells, Sell, Place
<1>11. ASSUME NEW m \in DOMAIN todo', NEW n \in DOMAIN todo',
              todo'[m].tag[1] = "entry", todo'[m].tag = todo'[n].tag
       PROVE  m = n
  <2>1. /\ DOMAIN todo' = 1 .. Len(s) + Len(t)
        /\ DOMAIN s = 1 .. Len(s) /\ DOMAIN t = 1 .. Len(t)
        /\ Len(s) \in Nat /\ Len(t) \in Nat
        /\ \A i \in 1 .. Len(s) + Len(t) :
             todo'[i] = IF i <= Len(s) THEN s[i] ELSE t[i - Len(s)]
    BY <1>4, <1>5, <1>6, ConcatProperties, LenProperties
  <2>2. ASSUME NEW i \in DOMAIN todo', todo'[i].tag[1] = "entry"
        PROVE  i \in DOMAIN s /\ todo'[i] = s[i]
    <3>. DEFINE p == Len(s)
                q == Len(t)
    <3>1. p \in Nat /\ q \in Nat /\ i \in 1 .. p + q
      BY <2>1
    <3>2. todo'[i] = IF i <= p THEN s[i] ELSE t[i - p]
      BY <2>1
    <3>3. DOMAIN s = 1 .. p /\ DOMAIN t = 1 .. q
      BY <2>1
    <3>. HIDE DEF p, q
    <3>4. CASE i <= p
      BY <3>1, <3>2, <3>3, <3>4
    <3>5. CASE ~(i <= p)
      <4>1. i - p \in 1 .. q
        BY <3>1, <3>5
      <4>2. t[i - p] \in Sells(legs')
        BY <1>3, <3>3, <4>1, ElementOfSeq, LenProperties
      <4>. QED
        BY <1>10, <2>2, <3>2, <3>5, <4>2
    <3>. QED
      BY <3>4, <3>5
  <2>. QED
    BY <1>2, <1>11, <2>2
<1>12. ASSUME NEW k \in DOMAIN legs', Touches(legs'[k]) \/ DueByTime(k, legs'[k])
       PROVE  SaleInHand(k)'
  <2>1. PICK c \in Elements(todo') : c.tag[1] = "exit" /\ c.tag[2] = k
    BY <1>3, <1>6, <1>12
  <2>. QED
    BY <2>1 DEF SaleInHand, Elements
<1>. QED
  BY <1>7, <1>9, <1>11, <1>12 DEF BarCalls

LEMMA BarEffect ==
  ASSUME HostInv, LoopInv, OnMarketEvent
  PROVE  /\ pc = "callback" /\ cb = "on_market_event" /\ ~handled /\ handled' = TRUE
         /\ UNCHANGED <<vars, params, entry_orders, exit_orders>>
         /\ BarLegs /\ BarStats /\ BarCalls
<1>1. LegsOK /\ cb = "on_market_event"
  BY DEF HostInv, OnMarketEvent, In
<1>2. now \in Nat /\ Today \in Nat
  BY <1>1, BarClock
<1>3. PICK ls \in WithToday :
        /\ legs' = AfterCutoff(Ranged(ls))
        /\ Handle(EntryCalls(Ranged(ls)) \o ExitCalls(AfterCutoff(Ranged(ls))))
        /\ stats' = [stats EXCEPT
                       !.instances = IF ls = legs THEN @ ELSE @ + 1,
                       !.no_breakout = @ + Cardinality(Expired(Ranged(ls)))]
  BY DEF OnMarketEvent
<1>. DEFINE R == Ranged(ls)
<1>4. \/ ls = legs
      \/ /\ Second >= params.range_start
         /\ TodayKeys \cap DOMAIN legs = {}
         /\ DOMAIN ls = DOMAIN legs \cup TodayKeys
         /\ \A k \in DOMAIN legs : ls[k] = legs[k]
         /\ \A k \in TodayKeys : FreshLeg(ls[k])
  BY <1>1, <1>2, WithTodayShape
<1>5. /\ DOMAIN legs \subseteq DOMAIN ls
      /\ \A k \in DOMAIN legs : ls[k] = legs[k]
      /\ \A k \in DOMAIN ls \ DOMAIN legs : FreshLeg(ls[k])
      /\ \/ ls = legs /\ DOMAIN ls \ DOMAIN legs = {}
         \/ /\ ls # legs /\ DOMAIN ls \ DOMAIN legs = TodayKeys
            /\ TodayKeys # {} /\ Second >= params.range_start
  <2>1. TodayKeys # {}
    BY DEF TodayKeys
  <2>. QED
    BY <1>4, <2>1
<1>6. \A k \in DOMAIN ls : ls[k] \in LegType
  BY <1>1, <1>5 DEF LegsOK, FreshLeg
<1>7. /\ DOMAIN R = DOMAIN ls
      /\ \A k \in DOMAIN ls :
           /\ R[k] \in LegType /\ Kept(ls[k], R[k]) /\ R[k].status = ls[k].status
           /\ R[k].high >= ls[k].high
           /\ InRangeNow(k, ls[k].inst) => R[k].high >= Bars[ls[k].inst][now].high
  BY <1>6, RangedShape
<1>. HIDE DEF R
<1>8. /\ DOMAIN legs' = DOMAIN R
      /\ \A k \in DOMAIN R :
           /\ legs'[k] \in LegType /\ Kept(R[k], legs'[k])
           /\ legs'[k].high = R[k].high
           /\ legs'[k].status = IF k \in Expired(R) THEN "closed_no_entry"
                                                     ELSE R[k].status
  BY <1>3, <1>7, AfterCutoffShape DEF R
<1>9. NewKeys = DOMAIN ls \ DOMAIN legs
  BY <1>7, <1>8 DEF NewKeys
<1>10. Expired(R) = NowClosed
  BY <1>5, <1>7, <1>8, <1>9 DEF Expired, Late, FreshLeg, NowClosed
<1>11. legs' = [k \in DOMAIN legs' |-> legs'[k]]
  BY <1>3 DEF AfterCutoff
<1>12. ASSUME NEW k \in DOMAIN legs
       PROVE  /\ legs'[k] \in LegType /\ Kept(legs[k], legs'[k])
              /\ legs'[k].high >= legs[k].high
              /\ InRangeNow(k, legs[k].inst) =>
                   legs'[k].high >= Bars[legs[k].inst][now].high
              /\ legs'[k].status = IF Late(k) /\ legs[k].status = "waiting"
                                     THEN "closed_no_entry" ELSE legs[k].status
  <2>1. k \in DOMAIN ls /\ k \in DOMAIN R /\ ls[k] = legs[k]
    BY <1>5, <1>7
  <2>2. Kept(legs[k], legs'[k])
    BY <1>7, <1>8, <2>1 DEF Kept
  <2>3. k \in Expired(R) <=> Late(k) /\ legs[k].status = "waiting"
    BY <1>7, <2>1 DEF Expired, Late
  <2>. QED
    BY <1>7, <1>8, <2>1, <2>2, <2>3
<1>13. ASSUME NEW k \in NewKeys
       PROVE  /\ legs'[k] \in LegType /\ Trades(legs'[k].inst)
              /\ legs'[k].since = now
              /\ legs'[k].high >= Bars[legs'[k].inst][now].high
              /\ legs'[k].status = IF Late(k) THEN "closed_no_entry" ELSE "waiting"
  <2>1. k \in DOMAIN ls /\ k \in DOMAIN R /\ FreshLeg(ls[k])
    BY <1>5, <1>7, <1>9
  <2>2. /\ legs'[k].inst = ls[k].inst /\ legs'[k].since = ls[k].since
        /\ legs'[k].high >= ls[k].high
    BY <1>7, <1>8, <2>1 DEF Kept
  <2>3. k \in Expired(R) <=> Late(k)
    BY <1>7, <2>1 DEF Expired, Late, FreshLeg
  <2>. QED
    BY <1>7, <1>8, <2>1, <2>2, <2>3 DEF FreshLeg
<1>14. BarLegs
  BY <1>5, <1>7, <1>8, <1>9, <1>11, <1>12, <1>13 DEF BarLegs
<1>15. BarStats
  <2>1. ls = legs <=> NewKeys = {}
    BY <1>5, <1>9
  <2>. QED
    BY <1>3, <1>10, <2>1 DEF BarStats, R
<1>16. BarCalls
  <2>1. IsFiniteSet(DOMAIN R) /\ DOMAIN R \subseteq Keys
    <3>1. IsFiniteSet(TodayKeys) /\ TodayKeys \subseteq Keys
      BY <1>2, TodayKeysFinite
    <3>2. DOMAIN R = DOMAIN legs \/ DOMAIN R = DOMAIN legs \cup TodayKeys
      BY <1>5, <1>7
    <3>3. IsFiniteSet(DOMAIN legs) /\ DOMAIN legs \subseteq Keys
      BY <1>1 DEF LegsOK
    <3>4. IsFiniteSet(DOMAIN legs \cup TodayKeys)
      BY <3>1, <3>3, FS_Union
    <3>. QED
      BY <3>1, <3>2, <3>3, <3>4
  <2>. QED
    BY <1>1, <1>2, <1>3, <1>7, <2>1, TodoOfBar DEF R, Handle
<1>. QED
  BY <1>3, <1>14, <1>15, <1>16 DEF OnMarketEvent, In, Handle

-----------------------------------------------------------------------------
(* What an order and a fill do to the legs and to the maps by order id.     *)

LEMMA WithoutShape ==
  ASSUME NEW map, NEW key
  PROVE  /\ DOMAIN Without(map, key) = DOMAIN map \ {key}
         /\ \A x \in DOMAIN map \ {key} : Without(map, key)[x] = map[x]
  BY DEF Without

(* No leg but k changes, and k stays the leg of its instrument and day.     *)
OnlyLeg(k) ==
  /\ DOMAIN legs' = DOMAIN legs
  /\ legs' = [j \in DOMAIN legs' |-> legs'[j]]
  /\ \A j \in DOMAIN legs : j # k => legs'[j] = legs[j]
  /\ legs'[k] \in LegType
  /\ legs'[k].inst = legs[k].inst /\ legs'[k].high = legs[k].high
  /\ legs'[k].since = legs[k].since

LEMMA LegMoved ==
  ASSUME NEW k \in DOMAIN legs, NEW l \in LegType,
         l.inst = legs[k].inst, l.high = legs[k].high, l.since = legs[k].since,
         legs' = [legs EXCEPT ![k] = l]
  PROVE  OnlyLeg(k) /\ legs'[k] = l
  BY DEF OnlyLeg

Ordered(o) ==
  /\ o \in [uid : Nat, id : Nat \ {0}, inst : Instruments, side : Sides,
            type : {"market"}, price : Int, qty : {Quantity}, ts : {now},
            at : {now}, strat : {active}]
  /\ o.uid = born + 1 /\ o.id = GenerateOrderId
  /\ order_events' = order_events \cup {o}
  /\ event_buffer' = event_buffer \cup {OrderEvent(o)}

Bought(k, o) ==
  /\ todo[1].tag = <<"entry", k>>
  /\ o.side = "buy" /\ o.inst = legs[k].inst /\ Trades(o.inst)
  /\ OnlyLeg(k)
  /\ legs'[k].status = "pending_entry" /\ legs'[k].entry_id = o.id
  /\ entry_orders' = Put(entry_orders, o.id, k) /\ UNCHANGED exit_orders

Sold(k, o, r) ==
  /\ todo[1].tag[1] = "exit" /\ todo[1].tag[2] = k
  /\ legs[k].status = "active"
  /\ o.side = "sell" /\ o.inst = legs[k].inst
  /\ OnlyLeg(k)
  /\ legs'[k].status = "pending_exit" /\ legs'[k].exit_id = o.id
  /\ legs'[k].reason = r /\ legs'[k].entry_ts = legs[k].entry_ts
  /\ exit_orders' = Put(exit_orders, o.id, [leg |-> k, reason |-> r])
  /\ UNCHANGED entry_orders

(* The allocator is the only one to refuse a sale.                          *)
Refused ==
  /\ \E e : event_buffer' = event_buffer \cup {e} /\ e.kind = "rejection"
  /\ todo[1].tag[1] = "exit" => HasAllocator
  /\ UNCHANGED <<order_events, legs, entry_orders, exit_orders>>

LEMMA LegIsPendingEntry ==
  ASSUME LegsOK, NEW k \in DOMAIN legs, NEW id \in Int,
         legs' = [legs EXCEPT ![k].status = "pending_entry", ![k].entry_id = id]
  PROVE  /\ OnlyLeg(k)
         /\ legs'[k].status = "pending_entry" /\ legs'[k].entry_id = id
<1>. DEFINE l == [legs[k] EXCEPT !.status = "pending_entry", !.entry_id = id]
<1>1. legs[k] \in LegType
  BY DEF LegsOK
<1>2. l \in LegType
  BY <1>1 DEF LegType, Statuses
<1>3. /\ l.status = "pending_entry" /\ l.entry_id = id /\ l.inst = legs[k].inst
      /\ l.high = legs[k].high /\ l.since = legs[k].since
  BY <1>1 DEF LegType
<1>4. legs' = [legs EXCEPT ![k] = l]
  OBVIOUS
<1>. HIDE DEF l
<1>. QED
  BY <1>2, <1>3, <1>4, LegMoved

LEMMA LegIsPendingExit ==
  ASSUME LegsOK, NEW k \in DOMAIN legs, NEW id \in Int, NEW r \in Reasons,
         legs' = [legs EXCEPT ![k].status = "pending_exit", ![k].exit_id = id,
                              ![k].reason = r]
  PROVE  /\ OnlyLeg(k)
         /\ legs'[k].status = "pending_exit" /\ legs'[k].exit_id = id
         /\ legs'[k].reason = r /\ legs'[k].entry_ts = legs[k].entry_ts
<1>. DEFINE l == [legs[k] EXCEPT !.status = "pending_exit", !.exit_id = id,
                                 !.reason = r]
<1>1. legs[k] \in LegType
  BY DEF LegsOK
<1>2. l \in LegType
  BY <1>1 DEF LegType, Statuses
<1>3. /\ l.status = "pending_exit" /\ l.exit_id = id /\ l.inst = legs[k].inst
      /\ l.high = legs[k].high /\ l.since = legs[k].since
      /\ l.reason = r /\ l.entry_ts = legs[k].entry_ts
  BY <1>1 DEF LegType
<1>4. legs' = [legs EXCEPT ![k] = l]
  OBVIOUS
<1>. HIDE DEF l
<1>. QED
  BY <1>2, <1>3, <1>4, LegMoved

(* A market sale of a positive quantity passes all checks but that one.     *)
LEMMA SalesPass ==
  ASSUME NEW in \in OrderArgs, in.type = "market", in.qty = Quantity,
         in.side = "sell", RejectReason(in) # "none"
  PROVE  HasAllocator
<1>1. ~(in.qty <= 0)
  BY OrbAssumption
<1>2. ~AlreadyBreached(in)
  BY DEF AlreadyBreached
<1>. QED
  BY <1>1, <1>2 DEF RejectReason, AllocatorAccepts

LEMMA PlacedEffect ==
  ASSUME LoopInv, HostInv, OrderPlaced
  PROVE  /\ pc = "callback" /\ cb = "on_market_event" /\ handled
         /\ todo # <<>> /\ todo' = Tail(todo) /\ todo[1].tag[2] \in DOMAIN legs
         /\ UNCHANGED <<pc, cb, phase, cur, step, now, event_queue,
                        pending_orders, cancelled, trades, positions, params,
                        stats, handled>>
         /\ \/ Refused
            \/ \E o : /\ Ordered(o)
                      /\ \/ Bought(todo[1].tag[2], o)
                         \/ \E r \in Reasons : Sold(todo[1].tag[2], o, r)
<1>. DEFINE call == todo[1]
            k == call.tag[2]
            in == call.in
            id == PlacedId(in)
<1>1. /\ pc = "callback" /\ todo # <<>> /\ 1 \in DOMAIN todo /\ Head(todo) = call
      /\ handled /\ cb = "on_market_event"
  BY HeadAndTail DEF OrderPlaced, HostInv, CallsOK
<1>2. /\ call.op = "place" /\ in \in OrderArgs
      /\ in.type = "market" /\ in.qty = Quantity
      /\ call.tag[1] \in {"entry", "exit"}
      /\ k \in DOMAIN legs
      /\ in.inst = legs[k].inst
      /\ call.tag[1] = "entry" =>
           in.side = "buy" /\ Trades(legs[k].inst) /\ call.tag = <<"entry", k>>
      /\ call.tag[1] = "exit" => in.side = "sell" /\ call.tag[3] \in Reasons
  BY <1>1, CallIsOrder DEF HostInv
<1>3. PlaceOrderAt(in, now) /\ todo' = Tail(todo) /\ UNCHANGED <<handled, params, stats>>
  BY <1>1, <1>2 DEF OrderPlaced, MakeCall
<1>4. call.tag[1] = "exit" => legs[k].status = "active"
  BY <1>1 DEF OrderPlaced, NotNeeded
<1>5. /\ id = 0 => UNCHANGED <<legs, entry_orders, exit_orders>>
      /\ id # 0 /\ call.tag[1] = "entry" =>
           /\ legs' = [legs EXCEPT ![k].status = "pending_entry",
                                   ![k].entry_id = id]
           /\ entry_orders' = Put(entry_orders, id, k)
           /\ UNCHANGED exit_orders
      /\ id # 0 /\ call.tag[1] = "exit" =>
           /\ legs' = [legs EXCEPT ![k].status = "pending_exit",
                                   ![k].exit_id = id,
                                   ![k].reason = call.tag[3]]
           /\ exit_orders' = Put(exit_orders, id,
                                 [leg |-> k, reason |-> call.tag[3]])
           /\ UNCHANGED entry_orders
  BY <1>1 DEF OrderPlaced
<1>6. UNCHANGED <<pc, cb, phase, cur, step, now, event_queue, pending_orders,
                  cancelled, trades, positions>>
  BY <1>3 DEF PlaceOrderAt, loopVars, clockVars, ledgerVars, accountVars
<1>7. /\ now \in Nat \ {0} /\ Cardinality(event_buffer) \in Nat /\ born \in Nat
      /\ GenerateOrderId \in Nat \ {0}
  <2>1. now \in Nat \ {0}
    BY <1>1, BarClock
  <2>2. IsFiniteSet(event_buffer) /\ born \in Nat
    BY DEF LoopInv, ConservationInv, TypeInv, QueuesOK
  <2>. QED
    BY <2>1, <2>2, FS_CardinalityType DEF GenerateOrderId
<1>. HIDE DEF call, k, in, id
<1>8. CASE RejectReason(in) # "none"
  <2>1. id = 0
    BY <1>8 DEF PlacedId, id
  <2>2. UNCHANGED <<legs, entry_orders, exit_orders>>
    BY <1>5, <1>7, <2>1
  <2>3. PlaceRejected(in, now)
    BY <1>3, <1>8 DEF PlaceOrderAt, PlaceAccepted
  <2>. DEFINE e == [kind |-> "rejection", uid |-> born + 1, ts |-> now,
                    inst |-> in.inst, side |-> in.side, qty |-> in.qty,
                    strat |-> active, reason |-> RejectReason(in)]
  <2>4. /\ UNCHANGED order_events
        /\ event_buffer' = event_buffer \cup {e} /\ e.kind = "rejection"
    BY <2>3 DEF PlaceRejected, Emit
  <2>. HIDE DEF e
  <2>5. call.tag[1] = "exit" => HasAllocator
    BY <1>2, <1>8, SalesPass
  <2>6. Refused
    BY <2>2, <2>4, <2>5 DEF Refused, call
  <2>. QED
    BY <1>1, <1>2, <1>3, <1>6, <2>6 DEF call, k
<1>9. CASE RejectReason(in) = "none"
  <2>. DEFINE o == NewOrder(in, now)
  <2>1. id = GenerateOrderId /\ id \in Nat \ {0} /\ id # 0 /\ id \in Int
    BY <1>7, <1>9 DEF PlacedId, id
  <2>2. PlaceAccepted(in, now)
    BY <1>3, <1>9 DEF PlaceOrderAt, PlaceRejected
  <2>3. /\ o.uid = born + 1 /\ o.id = id /\ o.side = in.side
        /\ o.inst = legs[k].inst
    BY <1>2, <2>1 DEF NewOrder
  <2>4. o \in [uid : Nat, id : Nat \ {0}, inst : Instruments, side : Sides,
               type : {"market"}, price : Int, qty : {Quantity}, ts : {now},
               at : {now}, strat : {active}]
    BY <1>2, <1>7 DEF NewOrder, OrderArgs
  <2>5. /\ order_events' = order_events \cup {o}
        /\ event_buffer' = event_buffer \cup {OrderEvent(o)}
    BY <2>2 DEF PlaceAccepted, Emit, OrderEvent, NewOrder
  <2>. HIDE DEF o
  <2>6. Ordered(o)
    BY <2>1, <2>3, <2>4, <2>5 DEF Ordered
  <2>7. LegsOK
    BY DEF HostInv
  <2>8. CASE call.tag[1] = "entry"
    <3>1. /\ legs' = [legs EXCEPT ![k].status = "pending_entry",
                                  ![k].entry_id = id]
          /\ entry_orders' = Put(entry_orders, id, k)
          /\ UNCHANGED exit_orders
      BY <1>5, <2>1, <2>8
    <3>2. /\ OnlyLeg(k)
          /\ legs'[k].status = "pending_entry" /\ legs'[k].entry_id = id
      BY <1>2, <2>1, <2>7, <3>1, LegIsPendingEntry
    <3>3. Bought(k, o)
      BY <1>2, <2>3, <2>8, <3>1, <3>2 DEF Bought, call
    <3>. QED
      BY <1>1, <1>2, <1>3, <1>6, <2>6, <3>3 DEF call, k
  <2>9. CASE call.tag[1] = "exit"
    <3>1. PICK r \in Reasons : r = call.tag[3]
      BY <1>2, <2>9
    <3>2. /\ legs' = [legs EXCEPT ![k].status = "pending_exit",
                                  ![k].exit_id = id, ![k].reason = r]
          /\ exit_orders' = Put(exit_orders, id, [leg |-> k, reason |-> r])
          /\ UNCHANGED entry_orders
      BY <1>5, <2>1, <2>9, <3>1
    <3>3. k \in DOMAIN legs /\ id \in Int
      BY <1>2, <2>1
    <3>4. /\ OnlyLeg(k)
          /\ legs'[k].status = "pending_exit" /\ legs'[k].exit_id = id
          /\ legs'[k].reason = r
          /\ legs'[k].entry_ts = legs[k].entry_ts
      BY <2>7, <3>2, <3>3, LegIsPendingExit
    <3>5. Sold(k, o, r)
      BY <1>2, <1>4, <2>3, <2>9, <3>2, <3>4 DEF Sold, call, k
    <3>. QED
      BY <1>1, <1>2, <1>3, <1>6, <2>6, <3>5 DEF call, k
  <2>. QED
    BY <1>2, <2>8, <2>9
<1>. QED
  BY <1>8, <1>9

EntryBooked(f) ==
  LET k == entry_orders[f.id]
  IN  /\ f.side = "buy" /\ f.id \in DOMAIN entry_orders
      /\ OnlyLeg(k)
      /\ legs'[k].status = "active" /\ legs'[k].entry_ts = f.ts
      /\ entry_orders' = Without(entry_orders, f.id) /\ UNCHANGED exit_orders
      /\ stats' = [stats EXCEPT !.entries = @ + 1]

ExitBooked(f) ==
  LET x == exit_orders[f.id]
  IN  /\ f.side = "sell" /\ f.id \in DOMAIN exit_orders
      /\ OnlyLeg(x.leg)
      /\ legs'[x.leg].status = "exited" /\ legs'[x.leg].reason = x.reason
      /\ legs'[x.leg].entry_ts = legs[x.leg].entry_ts
      /\ exit_orders' = Without(exit_orders, f.id) /\ UNCHANGED entry_orders
      /\ stats' = [stats EXCEPT ![x.reason] = @ + 1]

LEMMA LegIsActive ==
  ASSUME LegsOK, NEW f \in Fills, EntryFilled(f)
  PROVE  EntryBooked(f)
<1>. DEFINE k == entry_orders[f.id]
            a == Percent(f.price, 100 + params.target)
            b == Percent(f.price, 100 - params.stop)
            l == [legs[k] EXCEPT !.status = "active", !.entry_id = f.id,
                                 !.entry_price = f.price, !.entry_ts = f.ts,
                                 !.target = a, !.stop = b]
<1>1. k \in DOMAIN legs /\ legs[k] \in LegType
  BY DEF LegsOK, EntryFilled
<1>2. f.id \in Int /\ f.price \in Int /\ f.ts \in Int
  BY DEF Fills
<1>3. a \in Int /\ b \in Int
  BY <1>2, ParamsAreNat DEF Percent
<1>4. legs' = [legs EXCEPT ![k] = l]
  BY DEF EntryFilled
<1>. HIDE DEF a, b, k
<1>5. l \in LegType
  BY <1>1, <1>2, <1>3 DEF LegType, Statuses
<1>6. /\ l.status = "active" /\ l.entry_ts = f.ts /\ l.inst = legs[k].inst
      /\ l.high = legs[k].high /\ l.since = legs[k].since
  BY <1>1 DEF LegType
<1>. HIDE DEF l
<1>7. OnlyLeg(k) /\ legs'[k] = l
  BY <1>1, <1>4, <1>5, <1>6, LegMoved
<1>. QED
  BY <1>6, <1>7 DEF EntryFilled, EntryBooked, k

LEMMA LegIsExited ==
  ASSUME LegsOK, NEW f \in Fills, ExitFilled(f)
  PROVE  ExitBooked(f)
<1>. DEFINE x == exit_orders[f.id]
            k == x.leg
            l == [legs[k] EXCEPT !.status = "exited", !.exit_id = f.id,
                                 !.reason = x.reason]
<1>1. k \in DOMAIN legs /\ legs[k] \in LegType /\ x.reason \in Reasons
  BY DEF LegsOK, ExitFilled
<1>2. f.id \in Int
  BY DEF Fills
<1>3. legs' = [legs EXCEPT ![k] = l]
  BY DEF ExitFilled
<1>4. ExitFilled(f) => /\ f.side = "sell" /\ f.id \in DOMAIN exit_orders
                       /\ exit_orders' = Without(exit_orders, f.id)
                       /\ UNCHANGED entry_orders
                       /\ stats' = [stats EXCEPT ![x.reason] = @ + 1]
  BY DEF ExitFilled
<1>. HIDE DEF k, x
<1>5. l \in LegType
  BY <1>1, <1>2 DEF LegType, Statuses
<1>6. /\ l.status = "exited" /\ l.reason = x.reason /\ l.inst = legs[k].inst
      /\ l.entry_ts = legs[k].entry_ts
      /\ l.high = legs[k].high /\ l.since = legs[k].since
  BY <1>1 DEF LegType
<1>. HIDE DEF l
<1>7. OnlyLeg(k) /\ legs'[k] = l
  BY <1>1, <1>3, <1>5, <1>6, LegMoved
<1>. QED
  BY <1>4, <1>6, <1>7 DEF ExitBooked, k, x

LEMMA FilledEffect ==
  ASSUME HostInv, OnFillEvent
  PROVE  /\ FillInHand /\ handled' = TRUE /\ todo' = <<>>
         /\ UNCHANGED <<vars, params>>
         /\ \/ EntryBooked(cur.fill)
            \/ ExitBooked(cur.fill)
            \/ /\ cur.fill.id \notin DOMAIN (IF cur.fill.side = "buy"
                                               THEN entry_orders ELSE exit_orders)
               /\ UNCHANGED orbVars
<1>1. FillInHand /\ handled' = TRUE /\ todo' = <<>> /\ UNCHANGED <<vars>>
  BY DEF OnFillEvent, Handle, FillInHand
<1>2. cur.fill \in Fills /\ LegsOK
  BY <1>1 DEF HostInv, OrdersOK, FillInHand, In
<1>3. CASE EntryFilled(cur.fill)
  BY <1>1, <1>2, <1>3, LegIsActive DEF EntryFilled
<1>4. CASE ExitFilled(cur.fill)
  BY <1>1, <1>2, <1>4, LegIsExited DEF ExitFilled
<1>5. CASE /\ cur.fill.id \notin DOMAIN (IF cur.fill.side = "buy"
                                           THEN entry_orders ELSE exit_orders)
           /\ UNCHANGED orbVars
  BY <1>1, <1>5 DEF orbVars
<1>. QED
  BY <1>3, <1>4, <1>5 DEF OnFillEvent

(* The run goes on between callbacks; the strategy is not asked.            *)
LEMMA ProceedEffect ==
  ASSUME LoopInv, HostInv, Proceed, UNCHANGED orbVars
  PROVE  /\ todo = <<>> /\ todo' = <<>> /\ handled' = FALSE /\ Run
         /\ pc = "callback" => handled
         /\ UNCHANGED <<order_events, params, legs, entry_orders, exit_orders,
                        stats>>
<1>1. /\ todo' = todo /\ handled' = FALSE /\ Run
      /\ pc = "callback" => handled /\ todo = <<>>
  BY DEF Proceed
<1>2. todo = <<>>
  BY <1>1 DEF HostInv, CallsOK
<1>3. order_events' = order_events
  BY <1>1, QuietEffect, DispatchEffect, CollectEffect, OrderEffect, MarketEffect
     DEF LoopInv, Run, PopFrame, CancelFrame, CollectFrame
<1>. QED
  BY <1>1, <1>2, <1>3 DEF orbVars

-----------------------------------------------------------------------------
(* Types of the strategy, and what it has on the engine.                    *)

LEMMA NoCalls == <<>> \in Seq(Elements(<<>>))
<1>1. <<>> \in Seq({})
  OBVIOUS
<1>. QED
  BY <1>1, SeqOfElements

LEMMA InitHostInv == OrbInit => HostInv
<1>. SUFFICES ASSUME OrbInit PROVE HostInv
  OBVIOUS
<1>. USE DEF OrbInit, HostInit
<1>1. LegsOK
  <2>1. DOMAIN legs = {} /\ DOMAIN entry_orders = {} /\ DOMAIN exit_orders = {}
    OBVIOUS
  <2>2. legs = [k \in DOMAIN legs |-> legs[k]]
    OBVIOUS
  <2>3. IsFiniteSet({})
    BY FS_EmptySet
  <2>. QED
    BY <2>1, <2>2, <2>3 DEF LegsOK
<1>2. CallsOK
  <2>1. DOMAIN todo = {} /\ todo = <<>> /\ handled = FALSE
    OBVIOUS
  <2>. QED
    BY <2>1 DEF CallsOK
<1>4. TodoIsSeq
  <2>1. todo = <<>>
    OBVIOUS
  <2>. QED
    BY <2>1, NoCalls DEF TodoIsSeq
<1>3. OrdersOK
  BY DEF OrdersOK, Init, LedgerInit
<1>. QED
  BY <1>1, <1>2, <1>3, <1>4 DEF HostInv

LEMMA OnlyLegOK ==
  ASSUME LegsOK, NEW k \in DOMAIN legs, OnlyLeg(k), UNCHANGED <<params, now>>,
         \A id \in DOMAIN entry_orders' : entry_orders'[id] \in DOMAIN legs,
         \A id \in DOMAIN exit_orders' :
           exit_orders'[id] \in [leg : DOMAIN legs, reason : Reasons],
         stats' \in [instances : Nat, entries : Nat, target : Nat,
                     stop_loss : Nat, time : Nat, no_breakout : Nat]
  PROVE  LegsOK' /\ \A c : CallOfLeg(c) => CallOfLeg(c)'
<1>1. LegsOK'
  BY DEF LegsOK, OnlyLeg
<1>2. \A j \in DOMAIN legs : legs'[j].inst = legs[j].inst
  BY DEF OnlyLeg
<1>3. \A c : CallOfLeg(c) => CallOfLeg(c)'
  BY <1>2 DEF CallOfLeg, OnlyLeg, Buy, Sell, Trades
<1>. QED
  BY <1>1, <1>3

StatsType == [instances : Nat, entries : Nat, target : Nat, stop_loss : Nat,
              time : Nat, no_breakout : Nat]

LEMMA BarStatsFields ==
  ASSUME BarStats, stats \in StatsType, IsFiniteSet(DOMAIN legs')
  PROVE  /\ stats' \in StatsType
         /\ stats'.instances = IF NewKeys = {} THEN stats.instances
                                              ELSE stats.instances + 1
         /\ stats'.no_breakout = stats.no_breakout + Cardinality(NowClosed)
         /\ stats'.entries = stats.entries
         /\ \A r \in Reasons : stats'[r] = stats[r]
<1>. DEFINE c == Cardinality(NowClosed)
            a == IF NewKeys = {} THEN stats.instances ELSE stats.instances + 1
            b == stats.no_breakout + c
<1>1. c \in Nat
  BY FS_Subset, FS_CardinalityType DEF NowClosed
<1>2. stats' = [stats EXCEPT !.instances = a, !.no_breakout = b]
  BY DEF BarStats
<1>3. a \in Nat /\ b \in Nat
  BY <1>1 DEF StatsType
<1>. HIDE DEF a, b
<1>4. stats' \in StatsType
  BY <1>2, <1>3 DEF StatsType
<1>5. /\ stats'.instances = a /\ stats'.no_breakout = b
      /\ stats'.entries = stats.entries
      /\ \A r \in Reasons : stats'[r] = stats[r]
  BY <1>2 DEF StatsType, Reasons
<1>. QED
  BY <1>4, <1>5 DEF a, b

LEMMA BarHost ==
  ASSUME LoopInv, HostInv, OnMarketEvent
  PROVE  LegsOK' /\ CallsOK' /\ TodoIsSeq'
<1>1. /\ pc = "callback" /\ cb = "on_market_event" /\ handled' = TRUE
      /\ UNCHANGED <<vars, params, entry_orders, exit_orders>>
      /\ BarLegs /\ BarStats /\ BarCalls
  BY BarEffect
<1>2. Today \in Nat /\ LegsOK
  BY <1>1, BarClock DEF HostInv
<1>3. DOMAIN legs' = DOMAIN legs \/ DOMAIN legs' = DOMAIN legs \cup TodayKeys
  BY <1>1 DEF BarLegs, NewKeys
<1>4. IsFiniteSet(DOMAIN legs') /\ DOMAIN legs' \subseteq Keys
  <2>1. /\ IsFiniteSet(TodayKeys) /\ TodayKeys \subseteq Keys
        /\ IsFiniteSet(DOMAIN legs) /\ DOMAIN legs \subseteq Keys
    BY <1>2, TodayKeysFinite DEF LegsOK
  <2>2. IsFiniteSet(DOMAIN legs \cup TodayKeys)
    BY <2>1, FS_Union
  <2>. QED
    BY <1>3, <2>1, <2>2
<1>5. \A k \in DOMAIN legs' : legs'[k] \in LegType
  BY <1>1 DEF BarLegs, NewKeys
<1>6. ASSUME NEW k \in DOMAIN legs'
      PROVE  <<k[1], "ce">> \in DOMAIN legs' /\ <<k[1], "pe">> \in DOMAIN legs'
  <2>1. CASE k \in DOMAIN legs
    BY <1>2, <1>3, <2>1 DEF LegsOK
  <2>2. CASE k \notin DOMAIN legs
    BY <1>3, <2>2 DEF TodayKeys
  <2>. QED
    BY <2>1, <2>2
<1>7. stats' \in StatsType
  <2>1. stats \in StatsType
    BY <1>2 DEF LegsOK, StatsType
  <2>. QED
    BY <1>1, <1>4, <2>1, BarStatsFields
<1>8. LegsOK'
  <2>1. params' \in Params /\ legs' = [k \in DOMAIN legs' |-> legs'[k]]
    BY <1>1, <1>2 DEF LegsOK, BarLegs
  <2>2. DOMAIN legs \subseteq DOMAIN legs'
    BY <1>3
  <2>3. /\ \A id \in DOMAIN entry_orders' : entry_orders'[id] \in DOMAIN legs'
        /\ \A id \in DOMAIN exit_orders' :
             exit_orders'[id] \in [leg : DOMAIN legs', reason : Reasons]
    BY <1>1, <1>2, <2>2 DEF LegsOK
  <2>. QED
    BY <1>4, <1>5, <1>6, <1>7, <2>1, <2>3 DEF LegsOK, StatsType
<1>9. \A n \in DOMAIN todo' : CallOfLeg(todo[n])'
  <2>. SUFFICES ASSUME NEW n \in DOMAIN todo' PROVE CallOfLeg(todo[n])'
    OBVIOUS
  <2>1. PICK k \in DOMAIN legs' :
          \/ todo'[n] = Buy(k, legs'[k]) /\ BreaksOutNow(k)
          \/ \E r \in Reasons : todo'[n] = Sell(k, legs'[k], r)
    BY <1>1 DEF BarCalls
  <2>2. now' = now
    BY <1>1 DEF vars, clockVars
  <2>3. CASE todo'[n] = Buy(k, legs'[k]) /\ BreaksOutNow(k)
    BY <2>2, <2>3 DEF CallOfLeg, BreaksOutNow, Buy, Trades
  <2>4. CASE \E r \in Reasons : todo'[n] = Sell(k, legs'[k], r)
    BY <2>4 DEF CallOfLeg, Sell
  <2>. QED
    BY <2>1, <2>3, <2>4
<1>10. CallsOK'
  BY <1>1, <1>9 DEF CallsOK, vars, loopVars
<1>. QED
  BY <1>1, <1>8, <1>10 DEF BarCalls

LEMMA FillHost ==
  ASSUME LoopInv, HostInv, OnFillEvent
  PROVE  LegsOK' /\ CallsOK' /\ TodoIsSeq'
<1>1. /\ FillInHand /\ handled' = TRUE /\ todo' = <<>> /\ UNCHANGED <<vars, params>>
      /\ \/ EntryBooked(cur.fill)
         \/ ExitBooked(cur.fill)
         \/ UNCHANGED orbVars
  BY FilledEffect
<1>2. LegsOK /\ now' = now /\ stats \in StatsType
  BY <1>1 DEF HostInv, LegsOK, StatsType, vars, clockVars
<1>3. CallsOK'
  BY <1>1 DEF CallsOK, FillInHand, In, vars, loopVars
<1>4. TodoIsSeq'
  BY <1>1, NoCalls DEF TodoIsSeq, Elements
<1>5. CASE EntryBooked(cur.fill)
  <2>. DEFINE f == cur.fill
              k == entry_orders[f.id]
  <2>1. /\ k \in DOMAIN legs /\ OnlyLeg(k)
        /\ entry_orders' = Without(entry_orders, f.id)
        /\ UNCHANGED exit_orders /\ stats' = [stats EXCEPT !.entries = @ + 1]
    BY <1>2, <1>5 DEF EntryBooked, LegsOK
  <2>2. stats' \in StatsType
    BY <1>2, <2>1 DEF StatsType
  <2>5. /\ DOMAIN entry_orders' = DOMAIN entry_orders \ {f.id}
        /\ \A x \in DOMAIN entry_orders \ {f.id} : entry_orders'[x] = entry_orders[x]
    BY <2>1, WithoutShape
  <2>3. \A id \in DOMAIN entry_orders' : entry_orders'[id] \in DOMAIN legs
    BY <1>2, <2>5 DEF LegsOK
  <2>4. \A id \in DOMAIN exit_orders' :
          exit_orders'[id] \in [leg : DOMAIN legs, reason : Reasons]
    BY <1>2, <2>1 DEF LegsOK
  <2>. HIDE DEF k
  <2>. QED
    BY <1>1, <1>2, <1>3, <1>4, <2>1, <2>2, <2>3, <2>4, OnlyLegOK DEF StatsType
<1>6. CASE ExitBooked(cur.fill)
  <2>. DEFINE f == cur.fill
              x == exit_orders[f.id]
              k == x.leg
  <2>1. /\ k \in DOMAIN legs /\ OnlyLeg(k) /\ x.reason \in Reasons
        /\ exit_orders' = Without(exit_orders, f.id)
        /\ UNCHANGED entry_orders /\ stats' = [stats EXCEPT ![x.reason] = @ + 1]
    BY <1>2, <1>6 DEF ExitBooked, LegsOK
  <2>. HIDE DEF k, x
  <2>2. stats' \in StatsType
    BY <1>2, <2>1 DEF StatsType, Reasons
  <2>5. /\ DOMAIN exit_orders' = DOMAIN exit_orders \ {f.id}
        /\ \A y \in DOMAIN exit_orders \ {f.id} : exit_orders'[y] = exit_orders[y]
    BY <2>1, WithoutShape
  <2>3. \A id \in DOMAIN exit_orders' :
          exit_orders'[id] \in [leg : DOMAIN legs, reason : Reasons]
    BY <1>2, <2>5 DEF LegsOK
  <2>4. \A id \in DOMAIN entry_orders' : entry_orders'[id] \in DOMAIN legs
    BY <1>2, <2>1 DEF LegsOK
  <2>. QED
    BY <1>1, <1>2, <1>3, <1>4, <2>1, <2>2, <2>3, <2>4, OnlyLegOK DEF StatsType
<1>7. CASE UNCHANGED orbVars
  BY <1>2, <1>3, <1>4, <1>7 DEF LegsOK, orbVars
<1>. QED
  BY <1>1, <1>5, <1>6, <1>7

LEMMA CallHost ==
  ASSUME LoopInv, HostInv, OrderPlaced
  PROVE  LegsOK' /\ CallsOK' /\ TodoIsSeq'
<1>. DEFINE k == todo[1].tag[2]
<1>1. /\ pc = "callback" /\ cb = "on_market_event" /\ handled
      /\ todo # <<>> /\ todo' = Tail(todo) /\ k \in DOMAIN legs
      /\ UNCHANGED <<pc, cb, now, params, stats, handled>>
      /\ \/ Refused
         \/ \E o : /\ Ordered(o)
                   /\ Bought(k, o) \/ \E r \in Reasons : Sold(k, o, r)
  BY PlacedEffect
<1>2. LegsOK /\ CallsOK /\ TodoIsSeq
  BY DEF HostInv
<1>3. /\ \A n \in DOMAIN Tail(todo) :
           n + 1 \in DOMAIN todo /\ Tail(todo)[n] = todo[n + 1]
      /\ TodoIsSeq'
  BY <1>1, <1>2, HeadAndTail
<1>. HIDE DEF k
<1>4. LegsOK' /\ \A c : CallOfLeg(c) => CallOfLeg(c)'
  <2>1. CASE Refused
    <3>1. UNCHANGED <<legs, entry_orders, exit_orders>>
      BY <2>1 DEF Refused
    <3>. QED
      BY <1>1, <1>2, <3>1 DEF LegsOK, CallOfLeg, Trades
  <2>2. ASSUME NEW o, Ordered(o), Bought(k, o)
        PROVE  LegsOK' /\ \A c : CallOfLeg(c) => CallOfLeg(c)'
    <3>1. /\ OnlyLeg(k) /\ entry_orders' = Put(entry_orders, o.id, k)
          /\ UNCHANGED exit_orders
      BY <2>2 DEF Bought
    <3>4. /\ DOMAIN entry_orders' = DOMAIN entry_orders \cup {o.id}
          /\ entry_orders'[o.id] = k
          /\ \A x \in DOMAIN entry_orders : x # o.id => entry_orders'[x] = entry_orders[x]
      BY <3>1 DEF Put
    <3>2. \A id \in DOMAIN entry_orders' : entry_orders'[id] \in DOMAIN legs
      BY <1>1, <1>2, <3>4 DEF LegsOK
    <3>3. /\ \A id \in DOMAIN exit_orders' :
               exit_orders'[id] \in [leg : DOMAIN legs, reason : Reasons]
          /\ stats' \in StatsType
      BY <1>1, <1>2, <3>1 DEF LegsOK, StatsType
    <3>. QED
      BY <1>1, <1>2, <3>1, <3>2, <3>3, OnlyLegOK DEF StatsType
  <2>3. ASSUME NEW o, NEW r \in Reasons, Ordered(o), Sold(k, o, r)
        PROVE  LegsOK' /\ \A c : CallOfLeg(c) => CallOfLeg(c)'
    <3>1. /\ OnlyLeg(k) /\ UNCHANGED entry_orders
          /\ exit_orders' = Put(exit_orders, o.id, [leg |-> k, reason |-> r])
      BY <2>3 DEF Sold
    <3>2. \A id \in DOMAIN exit_orders' :
            exit_orders'[id] \in [leg : DOMAIN legs, reason : Reasons]
      <4>1. [leg |-> k, reason |-> r] \in [leg : DOMAIN legs, reason : Reasons]
        BY <1>1
      <4>2. /\ DOMAIN exit_orders' = DOMAIN exit_orders \cup {o.id}
            /\ exit_orders'[o.id] = [leg |-> k, reason |-> r]
            /\ \A x \in DOMAIN exit_orders : x # o.id => exit_orders'[x] = exit_orders[x]
        BY <3>1 DEF Put
      <4>. QED
        BY <1>2, <4>1, <4>2 DEF LegsOK
    <3>3. /\ \A id \in DOMAIN entry_orders' : entry_orders'[id] \in DOMAIN legs
          /\ stats' \in StatsType
      BY <1>1, <1>2, <3>1 DEF LegsOK, StatsType
    <3>. QED
      BY <1>1, <1>2, <3>1, <3>2, <3>3, OnlyLegOK DEF StatsType
  <2>. QED
    BY <1>1, <2>1, <2>2, <2>3
<1>5. \A n \in DOMAIN todo' : CallOfLeg(todo[n])'
  BY <1>1, <1>2, <1>3, <1>4 DEF CallsOK
<1>6. CallsOK'
  BY <1>1, <1>2, <1>5 DEF CallsOK
<1>. QED
  BY <1>3, <1>4, <1>6

LEMMA OtherHost ==
  ASSUME HostInv, OtherCallback \/ SkipCall \/ UNCHANGED allVars
  PROVE  LegsOK' /\ CallsOK' /\ TodoIsSeq'
<1>1. LegsOK /\ CallsOK /\ TodoIsSeq
  BY DEF HostInv
<1>2. UNCHANGED orbVars /\ UNCHANGED vars
  BY DEF OtherCallback, SkipCall, Handle, allVars
<1>3. LegsOK' /\ \A c : CallOfLeg(c) => CallOfLeg(c)'
  <2>1. UNCHANGED <<params, legs, entry_orders, exit_orders, stats, now>>
    BY <1>2 DEF orbVars, vars, clockVars
  <2>2. LegsOK'
    BY <1>1, <2>1 DEF LegsOK
  <2>. QED
    BY <2>1, <2>2 DEF CallOfLeg, Trades, Buy, Sell
<1>4. CASE OtherCallback
  <2>1. todo' = <<>> /\ handled' = TRUE /\ pc' = "callback"
    BY <1>4 DEF OtherCallback, Handle, vars, loopVars
  <2>2. TodoIsSeq'
    BY <2>1, NoCalls DEF TodoIsSeq, Elements
  <2>. QED
    BY <1>3, <2>1, <2>2 DEF CallsOK
<1>5. CASE SkipCall
  <2>1. todo # <<>> /\ todo' = Tail(todo) /\ UNCHANGED <<handled, pc, cb>>
    BY <1>5 DEF SkipCall, vars, loopVars
  <2>2. /\ \A n \in DOMAIN Tail(todo) :
             n + 1 \in DOMAIN todo /\ Tail(todo)[n] = todo[n + 1]
        /\ TodoIsSeq'
    BY <1>1, <2>1, HeadAndTail
  <2>3. \A n \in DOMAIN todo' : CallOfLeg(todo[n])'
    BY <1>1, <1>3, <2>1, <2>2 DEF CallsOK
  <2>4. CallsOK'
    BY <1>1, <2>1, <2>3 DEF CallsOK
  <2>. QED
    BY <1>3, <2>2, <2>4
<1>6. CASE UNCHANGED allVars
  <2>1. UNCHANGED <<todo, handled, pc, cb>>
    BY <1>6 DEF allVars, hostVars, vars, loopVars
  <2>. QED
    BY <1>1, <1>3, <2>1 DEF CallsOK, TodoIsSeq, Elements
<1>. QED
  BY <1>4, <1>5, <1>6

LEMMA ProceedHost ==
  ASSUME LoopInv, HostInv, Proceed, UNCHANGED orbVars
  PROVE  LegsOK' /\ CallsOK' /\ TodoIsSeq'
<1>1. todo' = <<>> /\ handled' = FALSE /\ UNCHANGED orbVars
  BY ProceedEffect
<1>2. LegsOK'
  BY <1>1 DEF HostInv, LegsOK, orbVars
<1>3. TodoIsSeq'
  BY <1>1, NoCalls DEF TodoIsSeq, Elements
<1>4. CallsOK'
  <2>1. \A n \in DOMAIN todo' : FALSE
    BY <1>1
  <2>. QED
    BY <1>1, <2>1 DEF CallsOK
<1>. QED
  BY <1>2, <1>3, <1>4

(* An order to buy is placed at a bar, and matches there.                   *)
LEMMA BuysMatchAtOnce ==
  ASSUME TypeInv, OrdersOK, NEW o \in order_events, o.side = "buy"
  PROVE  CanFill(o, o.ts)
<1>1. o.inst \in Instruments /\ o.ts \in Int
  BY DEF TypeInv, QueuesOK, Orders
<1>2. o.ts \in BarTimes(o.inst, o.ts) /\ o.type = "market" /\ o.ts <= o.ts
  BY <1>1 DEF OrdersOK, BarTimes
<1>3. \A v \in BarTimes(o.inst, o.ts) : v \in Int /\ v <= o.ts
  BY <1>1, FillModelAssumption, EngineAssumption DEF BarTimes
<1>4. \E u \in BarTimes(o.inst, o.ts) : \A v \in BarTimes(o.inst, o.ts) : v <= u
  BY <1>2, <1>3
<1>5. /\ BarTime(o.inst, o.ts) \in BarTimes(o.inst, o.ts)
      /\ \A v \in BarTimes(o.inst, o.ts) : v <= BarTime(o.inst, o.ts)
  BY <1>4 DEF BarTime
<1>6. BarTime(o.inst, o.ts) = o.ts
  BY <1>1, <1>2, <1>3, <1>5
<1>7. Fresh(o.inst, o.ts)
  BY <1>1, <1>6, FillModelAssumption DEF Fresh
<1>8. HasBar(o.inst, o.ts)
  BY <1>2 DEF HasBar
<1>. QED
  BY <1>2, <1>7, <1>8 DEF CanFill, Reaches, BuyReaches

LEMMA HandlerOrders ==
  ASSUME OrdersOK, UNCHANGED vars, handled => handled'
  PROVE  OrdersOK'
<1>1. UNCHANGED <<pc, cb, cur, now, event_queue, event_buffer, pending_orders,
                  order_events, cancelled, trades>>
  BY DEF vars, loopVars, clockVars, orderVars, ledgerVars, accountVars
<1>2. Justified(cur.fill) => Justified(cur.fill)'
  BY <1>1 DEF Justified
<1>. QED
  BY <1>1, <1>2 DEF OrdersOK

LEMMA CallOrders ==
  ASSUME LoopInv, HostInv, OrderPlaced
  PROVE  OrdersOK'
<1>1. /\ cb = "on_market_event" /\ handled
      /\ UNCHANGED <<cb, now, event_queue, pending_orders, cancelled, handled>>
      /\ \/ Refused
         \/ \E o : /\ Ordered(o)
                   /\ \/ Bought(todo[1].tag[2], o)
                      \/ \E r \in Reasons : Sold(todo[1].tag[2], o, r)
  BY PlacedEffect
<1>2. now \in Nat
  BY <1>1, BarClock
<1>3. OrdersOK
  BY DEF HostInv
<1>4. CASE Refused
  BY <1>1, <1>3, <1>4 DEF Refused, OrdersOK
<1>5. ASSUME NEW o, Ordered(o),
             o.side = "buy" => o.at \in DOMAIN Bars[o.inst]
      PROVE  OrdersOK'
  <2>1. /\ o.type = "market" /\ o.qty = Quantity /\ o.ts = o.at /\ o.at = now
        /\ order_events' = order_events \cup {o}
        /\ event_buffer' = event_buffer \cup {OrderEvent(o)}
    BY <1>5 DEF Ordered
  <2>2. OrderEvent(o).kind = "order"
    BY DEF OrderEvent
  <2>. QED
    BY <1>1, <1>2, <1>3, <1>5, <2>1, <2>2 DEF OrdersOK
<1>6. ASSUME NEW o, Ordered(o), Bought(todo[1].tag[2], o)
      PROVE  OrdersOK'
  BY <1>5, <1>6 DEF Bought, Trades, Ordered
<1>7. ASSUME NEW o, NEW r \in Reasons, Ordered(o), Sold(todo[1].tag[2], o, r)
      PROVE  OrdersOK'
  BY <1>5, <1>7 DEF Sold
<1>. QED
  BY <1>1, <1>4, <1>6, <1>7

LEMMA PopOnly ==
  ASSUME OrdersOK, Dispatch
  PROVE  \E e \in event_queue :
           PopFrame(e) /\ (cb' = "on_fill" => DispatchFill(e))
<1>1. \A e \in event_queue : ~DispatchCancel(e)
  BY DEF OrdersOK, DispatchCancel
<1>2. PICK f \in event_queue : \/ DispatchAlarm(f) \/ DispatchRejection(f)
                               \/ DispatchOrder(f) \/ DispatchFill(f)
  BY <1>1 DEF Dispatch
<1>3. /\ pc = "due" /\ pc' = "callback" /\ cur' = f
      /\ cb' = "on_fill" => DispatchFill(f)
  BY <1>2 DEF DispatchAlarm, DispatchRejection, DispatchOrder, DispatchFill,
     Enter, Pop
<1>4. PICK e \in event_queue : PopFrame(e) \/ CancelFrame(e)
  BY DispatchEffect
<1>5. PopFrame(e)
  BY <1>3, <1>4 DEF CancelFrame
<1>6. e = f
  BY <1>3, <1>5 DEF PopFrame
<1>. QED
  BY <1>3, <1>5, <1>6

LEMMA RunOrders ==
  ASSUME LoopInv, HostInv, Proceed, UNCHANGED orbVars
  PROVE  OrdersOK' /\ event_buffer' = {}
<1>1. Run /\ UNCHANGED order_events /\ OrdersOK
  BY ProceedEffect DEF HostInv
<1>2. /\ TypeInv /\ ConservationInv /\ ClockInv /\ JustifiedInv
      /\ TypeInv' /\ JustifiedInv'
  BY <1>1, StepLoopInv DEF LoopInv, ConservationInv, AnyNext
<1>3. now' >= now /\ now' \in Nat /\ now \in Nat
  BY <1>1, <1>2, TimeGoesOn, TimesArePositive, EngineAssumption
     DEF TypeInv, LoopOK
<1>4. \A o \in order_events : o.at \in Int
  BY <1>2 DEF TypeInv, QueuesOK, Orders
<1>. DEFINE Goal == /\ cancelled' = {} /\ event_buffer' = {}
                    /\ \A e \in event_queue' : e.kind # "cancel"
                    /\ \A o \in pending_orders' : o.side = "sell"
<1>5. CASE BeginRun \/ ReturnLife \/ NextTimestamp \/ EndLoop \/ EndOfStep
  <2>1. cb # "on_market_event"
    <3>1. pc = "callback" <=> cb # "none"
      BY <1>2 DEF TypeInv, LoopOK
    <3>. QED
      BY <1>5, <3>1 DEF BeginRun, ReturnLife, NextTimestamp, EndLoop, EndOfStep,
         In
  <2>2. cb' # "on_fill"
    BY <1>5 DEF BeginRun, ReturnLife, NextTimestamp, EndLoop, EndOfStep, Enter,
       Resume
  <2>3. Goal
    BY <1>1, <1>5, <2>1, QuietEffect DEF OrdersOK
  <2>. QED
    BY <1>1, <1>3, <1>4, <2>2, <2>3 DEF OrdersOK
<1>6. CASE Dispatch
  <2>1. PICK e \in event_queue :
          PopFrame(e) /\ (cb' = "on_fill" => DispatchFill(e))
    BY <1>1, <1>6, PopOnly
  <2>2. cb # "on_market_event"
    BY <1>2, <2>1 DEF PopFrame, TypeInv, LoopOK
  <2>3. Goal
    BY <1>1, <2>1, <2>2 DEF OrdersOK, PopFrame
  <2>4. ASSUME cb' = "on_fill"
        PROVE  /\ cur'.kind = "fill" /\ cur'.fill \in Fills /\ Justified(cur.fill)'
               /\ \E n \in DOMAIN trades' : trades'[n] = cur'.fill
    <3>1. e.kind = "fill" /\ cur' = e
      BY <2>1, <2>4 DEF DispatchFill
    <3>2. e.fill \in Fills
      BY <1>2, <3>1, EventFields DEF TypeInv, QueuesOK
    <3>3. trades' = Append(trades, e.fill) /\ trades \in Seq(Fills)
      BY <1>2, <2>1, <3>1 DEF PopFrame, TypeInv, LedgerTypeOK
    <3>4. /\ Len(trades) + 1 \in DOMAIN trades'
          /\ trades'[Len(trades) + 1] = e.fill
      BY <3>2, <3>3
    <3>5. PICK n \in DOMAIN trades' : trades'[n] = e.fill
      BY <3>4
    <3>6. Justified(trades[n])'
      BY <1>2, <3>5 DEF JustifiedInv
    <3>7. Justified(cur.fill)'
      BY <3>1, <3>5, <3>6 DEF Justified
    <3>. QED
      BY <3>1, <3>2, <3>5, <3>7
  <2>. QED
    BY <1>1, <1>3, <1>4, <2>3, <2>4 DEF OrdersOK
<1>7. CASE ReturnEvent \/ ReturnMarket
  <2>1. Goal /\ cb' # "on_fill"
    BY <1>1, <1>7, CollectEffect DEF OrdersOK, CollectFrame
  <2>. QED
    BY <1>1, <1>3, <1>4, <2>1 DEF OrdersOK
<1>8. CASE ReturnOrder
  <2>1. \A o \in order_events : o.side \in {"buy", "sell"}
    BY <1>2 DEF TypeInv, QueuesOK, Orders, Sides
  <2>2. ~CanFill(cur.order, cur.ts) => cur.order.side = "sell"
    BY <1>1, <1>2, <1>8, <2>1, OrderEffect, BuysMatchAtOnce
  <2>3. FillEvent(cur.order, cur.ts).kind = "fill"
    BY DEF FillEvent
  <2>4. Goal /\ cb' # "on_fill"
    BY <1>1, <1>2, <1>8, <2>2, <2>3, OrderEffect DEF OrdersOK
  <2>. QED
    BY <1>1, <1>3, <1>4, <2>4 DEF OrdersOK
<1>9. CASE HandleMarketEvent
  <2>1. cb # "on_market_event"
    BY <1>2, <1>9, MarketEffect DEF TypeInv, LoopOK
  <2>2. \A o : FillEvent(o, step).kind = "fill"
    BY DEF FillEvent
  <2>3. Goal /\ cb' # "on_fill"
    BY <1>1, <1>9, <2>1, <2>2, MarketEffect DEF OrdersOK
  <2>. QED
    BY <1>1, <1>3, <1>4, <2>3 DEF OrdersOK
<1>. QED
  BY <1>1, <1>5, <1>6, <1>7, <1>8, <1>9 DEF Run

LEMMA StepHostInv ==
  ASSUME LoopInv, HostInv, [OrbNext]_allVars
  PROVE  HostInv'
<1>1. OrdersOK /\ CallsOK
  BY DEF HostInv
<1>2. CASE OnMarketEvent
  <2>1. UNCHANGED vars /\ handled'
    BY <1>2 DEF OnMarketEvent, Handle
  <2>. QED
    BY <1>1, <1>2, <2>1, BarHost, HandlerOrders DEF HostInv
<1>3. CASE OnFillEvent
  <2>1. UNCHANGED vars /\ handled'
    BY <1>3 DEF OnFillEvent, Handle
  <2>. QED
    BY <1>1, <1>3, <2>1, FillHost, HandlerOrders DEF HostInv
<1>4. CASE OtherCallback \/ SkipCall \/ UNCHANGED allVars
  <2>1. UNCHANGED vars /\ (handled => handled')
    BY <1>4 DEF OtherCallback, Handle, SkipCall, allVars, hostVars
  <2>. QED
    BY <1>1, <1>4, <2>1, OtherHost, HandlerOrders DEF HostInv
<1>5. CASE OrderPlaced
  BY <1>5, CallHost, CallOrders DEF HostInv
<1>6. CASE Proceed /\ UNCHANGED orbVars
  BY <1>6, ProceedHost, RunOrders DEF HostInv
<1>7. CASE HostStops /\ UNCHANGED orbVars
  <2>1. UNCHANGED allVars
    BY <1>7 DEF HostStops, Terminating, allVars
  <2>. QED
    BY <1>4, <2>1
<1>. QED
  BY <1>2, <1>3, <1>4, <1>5, <1>6, <1>7 DEF OrbNext

-----------------------------------------------------------------------------
(* Orders under way.                                                        *)

LEMMA FilledOrder ==
  ASSUME LoopInv, HostInv, FillInHand
  PROVE  /\ cur.fill.of \in Booked /\ cur.fill \in Fills
         /\ \E o \in order_events :
              /\ o.uid = cur.fill.of /\ o \in Unconfirmed
              /\ \A p \in order_events : p.uid = o.uid => p = o
              /\ cur.fill.id = o.id /\ cur.fill.side = o.side
              /\ cur.fill.inst = o.inst /\ cur.fill.qty = Quantity
              /\ o.at = now => cur.fill.ts = now
<1>1. /\ cur.fill \in Fills /\ Justified(cur.fill)
      /\ \E n \in DOMAIN trades : trades[n] = cur.fill
  BY DEF HostInv, OrdersOK, FillInHand, In
<1>2. PICK o \in order_events : /\ cur.fill.of = o.uid
                                /\ CanFill(o, cur.fill.ts)
                                /\ cur.fill = FillOf(o, cur.fill.ts)
  BY <1>1 DEF Justified
<1>3. cur.fill.of \in Booked
  BY <1>1 DEF Booked
<1>4. o \in Unconfirmed
  BY <1>2 DEF Unconfirmed
<1>5. /\ cur.fill.id = o.id /\ cur.fill.side = o.side
      /\ cur.fill.inst = o.inst /\ cur.fill.qty = o.qty
  BY <1>2 DEF FillOf
<1>6. o.qty = Quantity /\ o.ts = o.at
  BY DEF HostInv, OrdersOK
<1>7. /\ cur.fill.ts \in Int /\ now \in Int
      /\ o.ts <= cur.fill.ts /\ cur.fill.ts <= now
  BY <1>1, <1>2, TimesArePositive
     DEF Fills, CanFill, Justified, LoopInv, ConservationInv
<1>8. \A p \in order_events : p.uid = o.uid => p = o
  BY DEF LoopInv, ConservationInv, UidsIdentify
<1>. QED
  BY <1>1, <1>2, <1>3, <1>4, <1>5, <1>6, <1>7, <1>8

(* Between timestamps, what is under way rests.                             *)
LEMMA UnconfirmedRests ==
  ASSUME LoopInv, HostInv, pc = "next"
  PROVE  Unconfirmed = pending_orders /\ todo = <<>>
<1>1. /\ OnePlace /\ UidsIdentify /\ EventsWhole /\ TypeInv /\ ClockInv
      /\ DrainedInv /\ JustifiedInv /\ BufferInv /\ OrdersOK /\ CallsOK
  BY DEF LoopInv, ConservationInv, HostInv
<1>2. ~FillInHand /\ event_buffer = {} /\ todo = <<>> /\ cur.kind # "order"
  <2>1. cb = "none" /\ pc # "callback"
    BY <1>1 DEF TypeInv, LoopOK
  <2>. QED
    BY <1>1, <2>1 DEF FillInHand, In, OrdersOK, CallsOK, TypeInv, LoopOK
<1>3. Unconfirmed = {o \in order_events : o.uid \notin Booked}
  BY <1>2 DEF Unconfirmed
<1>4. pending_orders \subseteq Unconfirmed
  <2>1. Resting \cap Booked = {}
    BY <1>1 DEF OnePlace, Split
  <2>. QED
    BY <1>1, <1>3, <2>1 DEF UidsIdentify, Resting, Uids
<1>5. \A e \in event_queue : e.kind # "order" /\ e.kind # "fill"
  <2>1. CASE step = 0
    BY <1>1, <2>1 DEF BufferInv, Untouched
  <2>2. CASE step # 0
    <3>1. \A e \in event_queue : e.ts > step
      BY <1>1, <2>2 DEF DrainedInv
    <3>2. now = step /\ step \in Nat
      BY <1>1, <2>2, TimesArePositive DEF ClockInv
    <3>3. ASSUME NEW e \in event_queue, e.kind = "order" PROVE FALSE
      <4>1. e.order \in order_events /\ e.ts = e.order.ts
        BY <1>1, <3>3 DEF EventsWhole, OrderEvent
      <4>2. e.order.at \in Int /\ e.order.at <= now /\ e.order.ts = e.order.at
        BY <1>1, <4>1 DEF OrdersOK, TypeInv, QueuesOK, Orders
      <4>. QED
        BY <3>1, <3>2, <4>1, <4>2
    <3>4. ASSUME NEW e \in event_queue, e.kind = "fill" PROVE FALSE
      <4>1. e.fill.ts <= now /\ e.fill.ts = e.ts
        BY <1>1, <3>4 DEF JustifiedInv, Justified
      <4>2. e.ts \in Int
        BY <1>1, EventFields DEF TypeInv, QueuesOK
      <4>. QED
        BY <3>1, <3>2, <4>1, <4>2
    <3>. QED
      BY <3>3, <3>4
  <2>. QED
    BY <2>1, <2>2
<1>6. ASSUME NEW o \in Unconfirmed
      PROVE  o \in pending_orders
  <2>1. o \in order_events /\ o.uid \notin Booked /\ o.uid \in Uids(order_events)
    BY <1>3 DEF Uids
  <2>2. Announced = {} /\ Matched = {} /\ cancelled = {}
    BY <1>1, <1>2, <1>5 DEF Announced, Matched, OrdersIn, FillsIn, OrdersOK
  <2>3. o.uid \in Resting
    BY <1>1, <2>1, <2>2 DEF OnePlace, Split
  <2>. QED
    BY <1>1, <2>1, <2>3 DEF UidsIdentify, Resting, Uids
<1>. QED
  BY <1>2, <1>4, <1>6

(* The run changes nothing that is under way; a fill that is booked is      *)
(* still to be told.                                                        *)
LEMMA ProceedUnconfirmed ==
  ASSUME LoopInv, HostInv, Proceed, UNCHANGED orbVars
  PROVE  /\ Unconfirmed' = Unconfirmed /\ ~FillInHand
         /\ \/ ~FillInHand' /\ UNCHANGED <<trades, positions>>
            \/ /\ FillInHand' /\ cur'.fill \in Fills
               /\ UNCHANGED <<now, step, phase>>
               /\ positions' = [positions EXCEPT ![cur'.fill.inst] =
                                  PositionUpdate(@, cur'.fill)]
<1>1. /\ Run /\ UNCHANGED order_events /\ handled' = FALSE
      /\ pc = "callback" => handled
  BY ProceedEffect
<1>2. ~FillInHand
  BY <1>1 DEF FillInHand, In
<1>3. /\ TypeInv /\ ConservationInv /\ OrdersOK
  BY DEF LoopInv, ConservationInv, HostInv
<1>4. CASE cb' # "on_fill"
  <2>1. ~FillInHand'
    BY <1>4 DEF FillInHand, In
  <2>2. UNCHANGED <<trades, positions>>
    <3>1. CASE Dispatch
      <4>1. PICK e \in event_queue : \/ DispatchAlarm(e) \/ DispatchRejection(e)
                                     \/ DispatchOrder(e) \/ DispatchFill(e)
                                     \/ DispatchCancel(e)
        BY <3>1 DEF Dispatch
      <4>2. ~DispatchFill(e)
        BY <1>4 DEF DispatchFill, Enter
      <4>. QED
        BY <4>1, <4>2 DEF DispatchAlarm, DispatchRejection, DispatchOrder,
           DispatchCancel, ledgerVars, accountVars
    <3>2. CASE ~Dispatch
      BY <1>1, <3>2 DEF Run, BeginRun, ReturnLife, NextTimestamp, EndLoop,
         EndOfStep, ReturnEvent, ReturnOrder, HandleMarketEvent, ReturnMarket,
         ledgerVars, accountVars
    <3>. QED
      BY <3>1, <3>2
  <2>3. Unconfirmed' = Unconfirmed
    BY <1>1, <1>2, <2>1, <2>2 DEF Unconfirmed, Booked
  <2>. QED
    BY <1>2, <2>1, <2>2, <2>3
<1>5. CASE cb' = "on_fill"
  <2>1. Dispatch
    BY <1>1, <1>5 DEF Run, BeginRun, ReturnLife, NextTimestamp, EndLoop,
       EndOfStep, ReturnEvent, ReturnOrder, HandleMarketEvent, ReturnMarket,
       Enter, Resume
  <2>2. PICK e \in event_queue : PopFrame(e) /\ DispatchFill(e)
    BY <1>3, <1>5, <2>1, PopOnly
  <2>3. /\ FillInHand' /\ cur' = e /\ e.kind = "fill"
        /\ trades' = Append(trades, e.fill)
        /\ positions' = [positions EXCEPT ![e.fill.inst] =
                           PositionUpdate(@, e.fill)]
        /\ UNCHANGED <<now, step, phase>>
    BY <1>1, <1>5, <2>2 DEF FillInHand, In, DispatchFill, Enter, OnFill,
       AccountOnFill, clockVars
  <2>4. e.fill \in Fills /\ e.fill.of = e.uid
    BY <1>3, <2>3, EventFields DEF TypeInv, QueuesOK, ConservationInv, EventsWhole
  <2>5. e.fill.of \notin Booked
    <3>1. e.uid \in Matched
      BY <2>3 DEF Matched, FillsIn
    <3>. QED
      BY <1>3, <2>4, <3>1 DEF ConservationInv, OnePlace, Split
  <2>6. Booked' = Booked \cup {e.fill.of}
    <3>1. trades \in Seq(Fills)
      BY <1>3 DEF TypeInv, LedgerTypeOK
    <3>2. /\ DOMAIN trades' = DOMAIN trades \cup {Len(trades) + 1}
          /\ \A n \in DOMAIN trades : trades'[n] = trades[n]
          /\ trades'[Len(trades) + 1] = e.fill
      BY <2>3, <2>4, <3>1
    <3>. QED
      BY <3>2 DEF Booked
  <2>7. Unconfirmed' = {o \in order_events :
                          o.uid \notin Booked \cup {e.fill.of} \/ o.uid = e.fill.of}
    BY <1>1, <2>3, <2>6 DEF Unconfirmed
  <2>8. Unconfirmed' = Unconfirmed
    BY <1>2, <2>5, <2>7 DEF Unconfirmed
  <2>. QED
    BY <1>2, <2>3, <2>4, <2>8
<1>. QED
  BY <1>4, <1>5

Entered == {"pending_entry", "active", "pending_exit", "exited"}

LEMMA BarKeeps ==
  ASSUME BarLegs
  PROVE  /\ \A S \in SUBSET Entered : With(S)' = With(S)
         /\ \A k \in DOMAIN legs : k \in DOMAIN legs' /\ Kept(legs[k], legs'[k])
<1>1. \A k \in DOMAIN legs :
        k \in DOMAIN legs' /\ Kept(legs[k], legs'[k])
          /\ \A s \in Entered : legs'[k].status = s <=> legs[k].status = s
  BY DEF BarLegs, Entered
<1>2. \A k \in DOMAIN legs' : k \in DOMAIN legs \/ legs'[k].status \notin Entered
  BY DEF BarLegs, NewKeys, Entered
<1>3. ASSUME NEW S \in SUBSET Entered
      PROVE  With(S)' = With(S)
  <2>1. \A k \in DOMAIN legs : legs'[k].status \in S <=> legs[k].status \in S
    BY <1>1
  <2>. QED
    BY <1>1, <1>2, <2>1 DEF With
<1>. QED
  BY <1>1, <1>3

(* A callback other than on_fill confirms nothing.                          *)
LEMMA NothingConfirmed ==
  ASSUME UNCHANGED <<order_events, trades, pc, cb>>, cb # "on_fill"
  PROVE  Unconfirmed' = Unconfirmed /\ ~FillInHand /\ ~FillInHand'
  BY DEF Unconfirmed, FillInHand, In, Booked

LEMMA BarPursuit ==
  ASSUME LoopInv, HostInv, PursuitInv, OnMarketEvent
  PROVE  PursuitInv'
<1>1. /\ cb = "on_market_event" /\ BarLegs
      /\ UNCHANGED <<vars, params, entry_orders, exit_orders>>
  BY BarEffect
<1>2. /\ UNCHANGED <<order_events, trades, pc, cb, now>>
  BY <1>1 DEF vars, loopVars, clockVars, orderVars, ledgerVars, accountVars
<1>3. Unconfirmed' = Unconfirmed
  BY <1>1, <1>2, NothingConfirmed
<1>4. /\ With({"pending_entry"})' = With({"pending_entry"})
      /\ With({"pending_exit"})' = With({"pending_exit"})
      /\ \A k \in DOMAIN legs : k \in DOMAIN legs' /\ Kept(legs[k], legs'[k])
      /\ \A k \in DOMAIN legs, s \in {"pending_entry", "pending_exit"} :
           legs[k].status = s => legs'[k].status = s
  BY <1>1, BarKeeps DEF Entered, BarLegs
<1>5. LegsOK
  BY DEF HostInv
<1>6. \A o \in Unconfirmed' : Pursued(o)'
  <2>. SUFFICES ASSUME NEW o \in Unconfirmed PROVE Pursued(o)'
    BY <1>3
  <2>1. Pursued(o)
    BY DEF PursuitInv
  <2>2. CASE o.side = "buy"
    <3>1. o.id \in DOMAIN entry_orders /\ entry_orders[o.id] \in DOMAIN legs
      BY <1>5, <2>1, <2>2 DEF Pursued, LegsOK
    <3>. QED
      BY <1>1, <1>2, <1>4, <2>1, <2>2, <3>1 DEF Pursued, Kept
  <2>3. CASE o.side # "buy"
    <3>1. o.id \in DOMAIN exit_orders /\ exit_orders[o.id].leg \in DOMAIN legs
      BY <1>5, <2>1, <2>3 DEF Pursued, LegsOK
    <3>. QED
      BY <1>1, <1>2, <1>4, <2>1, <2>3, <3>1 DEF Pursued, Kept
  <2>. QED
    BY <2>2, <2>3
<1>7. /\ \A id \in DOMAIN entry_orders' :
           \E o \in Unconfirmed' : o.side = "buy" /\ o.id = id
      /\ \A id \in DOMAIN exit_orders' :
           \E o \in Unconfirmed' : o.side = "sell" /\ o.id = id
  BY <1>1, <1>3 DEF PursuitInv
<1>8. \A k \in With({"pending_entry"})' :
        /\ legs'[k].entry_id \in DOMAIN entry_orders'
        /\ entry_orders'[legs'[k].entry_id] = k
        /\ now' \in Times /\ IsToday(k)'
  <2>1. With({"pending_entry"}) \subseteq DOMAIN legs
    BY DEF With
  <2>. QED
    BY <1>1, <1>2, <1>4, <2>1 DEF PursuitInv, Kept, IsToday, Today
<1>9. \A k \in With({"pending_exit"})' :
        /\ legs'[k].exit_id \in DOMAIN exit_orders'
        /\ exit_orders'[legs'[k].exit_id].leg = k
  <2>1. With({"pending_exit"}) \subseteq DOMAIN legs
    BY DEF With
  <2>. QED
    BY <1>1, <1>4, <2>1 DEF PursuitInv, Kept
<1>. QED
  BY <1>6, <1>7, <1>8, <1>9 DEF PursuitInv

(* An accepted order is the first with its id, and under way.               *)
LEMMA NewIdIsNew ==
  ASSUME LoopInv, PursuitInv, OrderIdsDistinct', NEW o, Ordered(o),
         UNCHANGED <<trades, pc, cb>>, cb # "on_fill"
  PROVE  /\ o.id \notin DOMAIN entry_orders /\ o.id \notin DOMAIN exit_orders
         /\ \A p \in order_events : p.id # o.id
         /\ Unconfirmed' = Unconfirmed \cup {o}
<1>1. /\ order_events' = order_events \cup {o} /\ o.uid = born + 1
      /\ born \in Nat
  BY DEF Ordered, LoopInv, ConservationInv, TypeInv, QueuesOK
<1>2. ASSUME NEW p \in order_events
      PROVE  p.uid # o.uid
  <2>1. p.uid <= born /\ p.uid \in Nat
    BY DEF LoopInv, ConservationInv, UidsIdentify, TypeInv, QueuesOK, Orders
  <2>. QED
    BY <1>1, <2>1
<1>3. \A p \in order_events : p.id # o.id
  BY <1>1, <1>2 DEF OrderIdsDistinct
<1>4. Unconfirmed \subseteq order_events
  BY DEF Unconfirmed
<1>5. o.id \notin DOMAIN entry_orders /\ o.id \notin DOMAIN exit_orders
  BY <1>3, <1>4 DEF PursuitInv
<1>6. Booked \subseteq Uids(order_events)
  BY DEF LoopInv, ConservationInv, OnePlace, Split
<1>7. o.uid \notin Booked
  BY <1>2, <1>6 DEF Uids
<1>8. ~FillInHand /\ ~FillInHand' /\ Booked' = Booked
  BY DEF FillInHand, In, Booked
<1>9. Unconfirmed' = Unconfirmed \cup {o}
  BY <1>1, <1>7, <1>8 DEF Unconfirmed
<1>. QED
  BY <1>3, <1>5, <1>9

LEMMA BoughtPursuit ==
  ASSUME LegsOK, PursuitInv, NEW k \in DOMAIN legs, NEW o, Ordered(o),
         Bought(k, o), legs[k].status = "waiting", now \in Times, IsToday(k),
         UNCHANGED now, Unconfirmed' = Unconfirmed \cup {o},
         o.id \notin DOMAIN entry_orders, o.id \notin DOMAIN exit_orders
  PROVE  PursuitInv'
<1>1. /\ OnlyLeg(k) /\ o.side = "buy" /\ o.inst = legs[k].inst /\ o.at = now
      /\ legs'[k].status = "pending_entry" /\ legs'[k].entry_id = o.id
      /\ UNCHANGED exit_orders
  BY DEF Bought, Ordered
<1>2. /\ DOMAIN entry_orders' = DOMAIN entry_orders \cup {o.id}
      /\ entry_orders'[o.id] = k
      /\ \A x \in DOMAIN entry_orders : x # o.id => entry_orders'[x] = entry_orders[x]
  BY DEF Bought, Put
<1>3. /\ DOMAIN legs' = DOMAIN legs /\ legs'[k].inst = legs[k].inst
      /\ \A j \in DOMAIN legs : j # k => legs'[j] = legs[j]
  BY <1>1 DEF OnlyLeg
<1>4. \A p \in Unconfirmed' : Pursued(p)'
  <2>1. Pursued(o)'
    BY <1>1, <1>2, <1>3 DEF Pursued
  <2>2. ASSUME NEW p \in Unconfirmed PROVE Pursued(p)'
    <3>1. Pursued(p)
      BY DEF PursuitInv
    <3>2. CASE p.side = "buy"
      <4>1. /\ p.id \in DOMAIN entry_orders /\ entry_orders[p.id] \in DOMAIN legs
            /\ legs[entry_orders[p.id]].status = "pending_entry"
        BY <3>1, <3>2 DEF Pursued, LegsOK
      <4>2. entry_orders[p.id] # k /\ p.id # o.id
        BY <4>1
      <4>. QED
        BY <1>2, <1>3, <3>1, <3>2, <4>1, <4>2 DEF Pursued
    <3>3. CASE p.side # "buy"
      <4>1. /\ p.id \in DOMAIN exit_orders /\ exit_orders[p.id].leg \in DOMAIN legs
            /\ legs[exit_orders[p.id].leg].status = "pending_exit"
        BY <3>1, <3>3 DEF Pursued, LegsOK
      <4>2. exit_orders[p.id].leg # k
        BY <4>1
      <4>. QED
        BY <1>1, <1>3, <3>1, <3>3, <4>1, <4>2 DEF Pursued
    <3>. QED
      BY <3>2, <3>3
  <2>. QED
    BY <2>1, <2>2
<1>5. /\ \A id \in DOMAIN entry_orders' :
           \E p \in Unconfirmed' : p.side = "buy" /\ p.id = id
      /\ \A id \in DOMAIN exit_orders' :
           \E p \in Unconfirmed' : p.side = "sell" /\ p.id = id
  BY <1>1, <1>2 DEF PursuitInv
<1>6. With({"pending_entry"})' = With({"pending_entry"}) \cup {k}
      /\ With({"pending_exit"})' = With({"pending_exit"})
  BY <1>1, <1>3 DEF With
<1>7. \A j \in With({"pending_entry"})' :
        /\ legs'[j].entry_id \in DOMAIN entry_orders'
        /\ entry_orders'[legs'[j].entry_id] = j
        /\ now' \in Times /\ IsToday(j)'
  <2>1. ASSUME NEW j \in With({"pending_entry"})
        PROVE  /\ legs'[j].entry_id \in DOMAIN entry_orders'
               /\ entry_orders'[legs'[j].entry_id] = j /\ IsToday(j)'
    <3>1. j \in DOMAIN legs /\ j # k
      BY DEF With
    <3>2. /\ legs[j].entry_id \in DOMAIN entry_orders
          /\ entry_orders[legs[j].entry_id] = j /\ IsToday(j)
      BY DEF PursuitInv
    <3>3. legs[j].entry_id # o.id
      BY <3>2
    <3>. QED
      BY <1>2, <1>3, <3>1, <3>2, <3>3 DEF IsToday, Today
  <2>. QED
    BY <1>1, <1>2, <1>6, <2>1 DEF IsToday, Today
<1>8. \A j \in With({"pending_exit"})' :
        /\ legs'[j].exit_id \in DOMAIN exit_orders'
        /\ exit_orders'[legs'[j].exit_id].leg = j
  <2>1. \A j \in With({"pending_exit"}) : j \in DOMAIN legs /\ j # k
    BY DEF With
  <2>. QED
    BY <1>1, <1>3, <1>6, <2>1 DEF PursuitInv
<1>. QED
  BY <1>4, <1>5, <1>7, <1>8 DEF PursuitInv

LEMMA SoldPursuit ==
  ASSUME LegsOK, PursuitInv, NEW k \in DOMAIN legs, NEW o, NEW r \in Reasons,
         Ordered(o), Sold(k, o, r),
         UNCHANGED now, Unconfirmed' = Unconfirmed \cup {o},
         o.id \notin DOMAIN entry_orders, o.id \notin DOMAIN exit_orders
  PROVE  PursuitInv'
<1>1. /\ OnlyLeg(k) /\ o.side = "sell" /\ o.inst = legs[k].inst
      /\ legs[k].status = "active"
      /\ legs'[k].status = "pending_exit" /\ legs'[k].exit_id = o.id
      /\ legs'[k].reason = r /\ UNCHANGED entry_orders
  BY DEF Sold
<1>2. /\ DOMAIN exit_orders' = DOMAIN exit_orders \cup {o.id}
      /\ exit_orders'[o.id].leg = k /\ exit_orders'[o.id].reason = r
      /\ \A x \in DOMAIN exit_orders : x # o.id => exit_orders'[x] = exit_orders[x]
  BY DEF Sold, Put
<1>3. /\ DOMAIN legs' = DOMAIN legs /\ legs'[k].inst = legs[k].inst
      /\ \A j \in DOMAIN legs : j # k => legs'[j] = legs[j]
  BY <1>1 DEF OnlyLeg
<1>4. \A p \in Unconfirmed' : Pursued(p)'
  <2>1. Pursued(o)'
    BY <1>1, <1>2, <1>3 DEF Pursued
  <2>2. ASSUME NEW p \in Unconfirmed PROVE Pursued(p)'
    <3>1. Pursued(p)
      BY DEF PursuitInv
    <3>2. CASE p.side = "buy"
      <4>1. /\ p.id \in DOMAIN entry_orders /\ entry_orders[p.id] \in DOMAIN legs
            /\ legs[entry_orders[p.id]].status = "pending_entry"
        BY <3>1, <3>2 DEF Pursued, LegsOK
      <4>2. entry_orders[p.id] # k
        BY <1>1, <4>1
      <4>. QED
        BY <1>1, <1>3, <3>1, <3>2, <4>1, <4>2 DEF Pursued
    <3>3. CASE p.side # "buy"
      <4>1. /\ p.id \in DOMAIN exit_orders /\ exit_orders[p.id].leg \in DOMAIN legs
            /\ legs[exit_orders[p.id].leg].status = "pending_exit"
        BY <3>1, <3>3 DEF Pursued, LegsOK
      <4>2. exit_orders[p.id].leg # k /\ p.id # o.id
        BY <1>1, <4>1
      <4>. QED
        BY <1>2, <1>3, <3>1, <3>3, <4>1, <4>2 DEF Pursued
    <3>. QED
      BY <3>2, <3>3
  <2>. QED
    BY <2>1, <2>2
<1>5. /\ \A id \in DOMAIN entry_orders' :
           \E p \in Unconfirmed' : p.side = "buy" /\ p.id = id
      /\ \A id \in DOMAIN exit_orders' :
           \E p \in Unconfirmed' : p.side = "sell" /\ p.id = id
  BY <1>1, <1>2 DEF PursuitInv
<1>6. With({"pending_exit"})' = With({"pending_exit"}) \cup {k}
      /\ With({"pending_entry"})' = With({"pending_entry"})
  BY <1>1, <1>3 DEF With
<1>7. \A j \in With({"pending_exit"})' :
        /\ legs'[j].exit_id \in DOMAIN exit_orders'
        /\ exit_orders'[legs'[j].exit_id].leg = j
  <2>1. ASSUME NEW j \in With({"pending_exit"})
        PROVE  /\ legs'[j].exit_id \in DOMAIN exit_orders'
               /\ exit_orders'[legs'[j].exit_id].leg = j
    <3>1. j \in DOMAIN legs /\ j # k
      BY <1>1 DEF With
    <3>2. /\ legs[j].exit_id \in DOMAIN exit_orders
          /\ exit_orders[legs[j].exit_id].leg = j
      BY DEF PursuitInv
    <3>3. legs[j].exit_id # o.id
      BY <3>2
    <3>. QED
      BY <1>2, <1>3, <3>1, <3>2, <3>3
  <2>. QED
    BY <1>1, <1>2, <1>6, <2>1
<1>8. \A j \in With({"pending_entry"})' :
        /\ legs'[j].entry_id \in DOMAIN entry_orders'
        /\ entry_orders'[legs'[j].entry_id] = j
        /\ now' \in Times /\ IsToday(j)'
  <2>1. \A j \in With({"pending_entry"}) : j \in DOMAIN legs /\ j # k
    BY <1>1 DEF With
  <2>. QED
    BY <1>1, <1>3, <1>6, <2>1 DEF PursuitInv, IsToday, Today
<1>. QED
  BY <1>4, <1>5, <1>7, <1>8 DEF PursuitInv

LEMMA CallPursuit ==
  ASSUME LoopInv, HostInv, PursuitInv, BreakInv, OrderIdsDistinct', OrderPlaced
  PROVE  PursuitInv'
<1>. DEFINE k == todo[1].tag[2]
<1>1. /\ cb = "on_market_event" /\ todo # <<>> /\ k \in DOMAIN legs
      /\ UNCHANGED <<pc, cb, now, trades>>
      /\ \/ Refused
         \/ \E o : /\ Ordered(o)
                   /\ Bought(k, o) \/ \E r \in Reasons : Sold(k, o, r)
  BY PlacedEffect
<1>2. now \in Times /\ LegsOK /\ 1 \in DOMAIN todo
  BY <1>1, BarClock, HeadAndTail DEF HostInv
<1>3. todo[1].tag[1] = "entry" => legs[k].status = "waiting" /\ IsToday(k)
  BY <1>2 DEF BreakInv, HeldBroke, CallsBroke
<1>. HIDE DEF k
<1>4. CASE Refused
  <2>1. UNCHANGED <<order_events, legs, entry_orders, exit_orders>>
    BY <1>4 DEF Refused
  <2>2. Unconfirmed' = Unconfirmed
    BY <1>1, <2>1, NothingConfirmed
  <2>. QED
    BY <1>1, <2>1, <2>2 DEF PursuitInv, Pursued, With, IsToday, Today
<1>5. ASSUME NEW o, Ordered(o), Bought(k, o)
      PROVE  PursuitInv'
  <2>1. todo[1].tag[1] = "entry"
    BY <1>5 DEF Bought
  <2>. QED
    BY <1>1, <1>2, <1>3, <1>5, <2>1, NewIdIsNew, BoughtPursuit
<1>6. ASSUME NEW o, NEW r \in Reasons, Ordered(o), Sold(k, o, r)
      PROVE  PursuitInv'
  BY <1>1, <1>2, <1>6, NewIdIsNew, SoldPursuit
<1>. QED
  BY <1>1, <1>4, <1>5, <1>6

(* on_fill finds the leg of the order that was filled.                      *)
LEMMA FilledLeg ==
  ASSUME LoopInv, HostInv, PursuitInv, OnFillEvent
  PROVE  /\ handled' = TRUE /\ todo' = <<>> /\ FillInHand /\ ~FillInHand'
         /\ cur.fill \in Fills /\ cur.fill.qty = Quantity
         /\ UNCHANGED <<vars, params>>
         /\ \E o \in Unconfirmed :
              /\ Unconfirmed' = Unconfirmed \ {o} /\ Pursued(o)
              /\ o \in order_events
              /\ \A p \in order_events : p.uid = o.uid => p = o
              /\ cur.fill.id = o.id /\ cur.fill.side = o.side
              /\ cur.fill.inst = o.inst
              /\ \/ /\ o.side = "buy" /\ EntryBooked(cur.fill)
                    /\ cur.fill.ts = now
                 \/ o.side = "sell" /\ ExitBooked(cur.fill)
<1>1. /\ FillInHand /\ handled' = TRUE /\ todo' = <<>> /\ UNCHANGED <<vars, params>>
      /\ \/ EntryBooked(cur.fill)
         \/ ExitBooked(cur.fill)
         \/ cur.fill.id \notin DOMAIN (IF cur.fill.side = "buy"
                                         THEN entry_orders ELSE exit_orders)
  BY FilledEffect DEF HostInv
<1>2. /\ cur.fill.of \in Booked /\ cur.fill \in Fills
      /\ \E o \in order_events :
           /\ o.uid = cur.fill.of /\ o \in Unconfirmed
           /\ \A p \in order_events : p.uid = o.uid => p = o
           /\ cur.fill.id = o.id /\ cur.fill.side = o.side
           /\ cur.fill.inst = o.inst /\ cur.fill.qty = Quantity
           /\ o.at = now => cur.fill.ts = now
  BY <1>1, FilledOrder
<1>3. PICK o \in order_events :
           /\ o.uid = cur.fill.of /\ o \in Unconfirmed
           /\ \A p \in order_events : p.uid = o.uid => p = o
           /\ cur.fill.id = o.id /\ cur.fill.side = o.side
           /\ cur.fill.inst = o.inst /\ cur.fill.qty = Quantity
           /\ o.at = now => cur.fill.ts = now
  BY <1>2
<1>4. Pursued(o) /\ o.side \in {"buy", "sell"}
  BY <1>3 DEF PursuitInv, LoopInv, ConservationInv, TypeInv, QueuesOK, Orders,
     Sides
<1>5. ~FillInHand' /\ UNCHANGED <<order_events, trades, cur>>
  BY <1>1 DEF FillInHand, vars, loopVars, orderVars, ledgerVars, accountVars
<1>6. Unconfirmed' = {p \in order_events : p.uid \notin Booked}
  BY <1>5 DEF Unconfirmed, Booked
<1>7. Unconfirmed = {p \in order_events : p.uid \notin Booked \/ p.uid = o.uid}
  BY <1>1, <1>3 DEF Unconfirmed
<1>8. Unconfirmed' = Unconfirmed \ {o}
  BY <1>2, <1>3, <1>6, <1>7
<1>9. \/ /\ o.side = "buy" /\ EntryBooked(cur.fill)
         /\ cur.fill.ts = now
      \/ o.side = "sell" /\ ExitBooked(cur.fill)
  <2>1. CASE o.side = "buy"
    <3>1. cur.fill.id \in DOMAIN entry_orders /\ o.at = now
      BY <1>3, <1>4, <2>1 DEF Pursued
    <3>. QED
      BY <1>1, <1>3, <2>1, <3>1 DEF ExitBooked
  <2>2. CASE o.side = "sell"
    <3>1. cur.fill.id \in DOMAIN exit_orders
      BY <1>3, <1>4, <2>2 DEF Pursued
    <3>. QED
      BY <1>1, <1>3, <2>2, <3>1 DEF EntryBooked
  <2>. QED
    BY <1>4, <2>1, <2>2
<1>. QED
  BY <1>1, <1>2, <1>3, <1>4, <1>5, <1>8, <1>9

LEMMA FillPursuit ==
  ASSUME LoopInv, HostInv, PursuitInv, OrderIdsDistinct, OnFillEvent
  PROVE  PursuitInv'
<1>. DEFINE f == cur.fill
<1>1. PICK o \in Unconfirmed :
        /\ Unconfirmed' = Unconfirmed \ {o} /\ Pursued(o)
        /\ o \in order_events
        /\ \A p \in order_events : p.uid = o.uid => p = o
        /\ f.id = o.id /\ f.side = o.side
        /\ \/ o.side = "buy" /\ EntryBooked(f)
           \/ o.side = "sell" /\ ExitBooked(f)
  BY FilledLeg
<1>2. UNCHANGED now /\ LegsOK
  BY FilledLeg DEF HostInv, vars, clockVars
<1>3. \A p \in Unconfirmed' : p \in Unconfirmed /\ Pursued(p) /\ p.id # o.id
  BY <1>1 DEF OrderIdsDistinct, Unconfirmed, PursuitInv
<1>. HIDE DEF f
<1>4. CASE o.side = "buy" /\ EntryBooked(f)
  <2>. DEFINE k == entry_orders[o.id]
  <2>1. /\ o.id \in DOMAIN entry_orders /\ k \in DOMAIN legs
        /\ legs[k].status = "pending_entry" /\ legs[k].entry_id = o.id
    BY <1>1, <1>2, <1>4 DEF Pursued, LegsOK
  <2>2. /\ OnlyLeg(k) /\ legs'[k].status = "active" /\ UNCHANGED exit_orders
    BY <1>1, <1>4 DEF EntryBooked
  <2>10. entry_orders' = Without(entry_orders, o.id)
    BY <1>1, <1>4 DEF EntryBooked
  <2>3. /\ DOMAIN entry_orders' = DOMAIN entry_orders \ {o.id}
        /\ \A x \in DOMAIN entry_orders \ {o.id} : entry_orders'[x] = entry_orders[x]
    BY <2>10 DEF Without
  <2>4. /\ DOMAIN legs' = DOMAIN legs
        /\ \A j \in DOMAIN legs : j # k => legs'[j] = legs[j]
    BY <2>2 DEF OnlyLeg
  <2>. HIDE DEF k
  <2>5. \A p \in Unconfirmed' : Pursued(p)'
    <3>. SUFFICES ASSUME NEW p \in Unconfirmed' PROVE Pursued(p)'
      OBVIOUS
    <3>1. Pursued(p) /\ p.id # o.id
      BY <1>3
    <3>2. CASE p.side = "buy"
      <4>1. /\ p.id \in DOMAIN entry_orders /\ entry_orders[p.id] \in DOMAIN legs
            /\ legs[entry_orders[p.id]].entry_id = p.id
        BY <1>2, <3>1, <3>2 DEF Pursued, LegsOK
      <4>2. entry_orders[p.id] # k
        BY <2>1, <3>1, <4>1
      <4>. QED
        BY <1>2, <2>3, <2>4, <3>1, <3>2, <4>1, <4>2 DEF Pursued
    <3>3. CASE p.side # "buy"
      <4>1. /\ p.id \in DOMAIN exit_orders /\ exit_orders[p.id].leg \in DOMAIN legs
            /\ legs[exit_orders[p.id].leg].status = "pending_exit"
        BY <1>2, <3>1, <3>3 DEF Pursued, LegsOK
      <4>2. exit_orders[p.id].leg # k
        BY <2>1, <4>1
      <4>. QED
        BY <2>2, <2>4, <3>1, <3>3, <4>1, <4>2 DEF Pursued
    <3>. QED
      BY <3>2, <3>3
  <2>6. /\ \A id \in DOMAIN entry_orders' :
             \E p \in Unconfirmed' : p.side = "buy" /\ p.id = id
        /\ \A id \in DOMAIN exit_orders' :
             \E p \in Unconfirmed' : p.side = "sell" /\ p.id = id
    BY <1>1, <1>4, <2>2, <2>3 DEF PursuitInv
  <2>7. /\ With({"pending_entry"})' = With({"pending_entry"}) \ {k}
        /\ With({"pending_exit"})' = With({"pending_exit"}) /\ k \notin With({"pending_exit"})
    BY <2>1, <2>2, <2>4 DEF With
  <2>8. \A j \in With({"pending_entry"})' :
          /\ legs'[j].entry_id \in DOMAIN entry_orders'
          /\ entry_orders'[legs'[j].entry_id] = j
          /\ now' \in Times /\ IsToday(j)'
    <3>. SUFFICES ASSUME NEW j \in With({"pending_entry"}), j # k
                  PROVE  /\ legs'[j].entry_id \in DOMAIN entry_orders'
                         /\ entry_orders'[legs'[j].entry_id] = j
                         /\ now' \in Times /\ IsToday(j)'
      BY <2>7
    <3>1. /\ j \in DOMAIN legs /\ legs'[j] = legs[j]
      BY <2>4 DEF With
    <3>2. /\ legs[j].entry_id \in DOMAIN entry_orders
          /\ entry_orders[legs[j].entry_id] = j /\ now \in Times /\ IsToday(j)
      BY DEF PursuitInv
    <3>3. legs[j].entry_id # o.id
      BY <3>2 DEF k
    <3>. QED
      BY <1>2, <2>3, <3>1, <3>2, <3>3 DEF IsToday, Today
  <2>9. \A j \in With({"pending_exit"})' :
          /\ legs'[j].exit_id \in DOMAIN exit_orders'
          /\ exit_orders'[legs'[j].exit_id].leg = j
    <3>1. \A j \in With({"pending_exit"}) : j \in DOMAIN legs
      BY DEF With
    <3>. QED
      BY <2>2, <2>4, <2>7, <3>1 DEF PursuitInv
  <2>. QED
    BY <2>5, <2>6, <2>8, <2>9 DEF PursuitInv
<1>5. CASE o.side = "sell" /\ ExitBooked(f)
  <2>. DEFINE k == exit_orders[o.id].leg
  <2>1. /\ o.id \in DOMAIN exit_orders /\ k \in DOMAIN legs
        /\ legs[k].status = "pending_exit" /\ legs[k].exit_id = o.id
    BY <1>1, <1>2, <1>5 DEF Pursued, LegsOK
  <2>2. /\ OnlyLeg(k) /\ legs'[k].status = "exited" /\ UNCHANGED entry_orders
    BY <1>1, <1>5 DEF ExitBooked
  <2>10. exit_orders' = Without(exit_orders, o.id)
    BY <1>1, <1>5 DEF ExitBooked
  <2>3. /\ DOMAIN exit_orders' = DOMAIN exit_orders \ {o.id}
        /\ \A x \in DOMAIN exit_orders \ {o.id} : exit_orders'[x] = exit_orders[x]
    BY <2>10 DEF Without
  <2>4. /\ DOMAIN legs' = DOMAIN legs
        /\ \A j \in DOMAIN legs : j # k => legs'[j] = legs[j]
    BY <2>2 DEF OnlyLeg
  <2>. HIDE DEF k
  <2>5. \A p \in Unconfirmed' : Pursued(p)'
    <3>. SUFFICES ASSUME NEW p \in Unconfirmed' PROVE Pursued(p)'
      OBVIOUS
    <3>1. Pursued(p) /\ p.id # o.id
      BY <1>3
    <3>2. CASE p.side = "buy"
      <4>1. /\ p.id \in DOMAIN entry_orders /\ entry_orders[p.id] \in DOMAIN legs
            /\ legs[entry_orders[p.id]].status = "pending_entry"
        BY <1>2, <3>1, <3>2 DEF Pursued, LegsOK
      <4>2. entry_orders[p.id] # k
        BY <2>1, <4>1
      <4>. QED
        BY <1>2, <2>2, <2>4, <3>1, <3>2, <4>1, <4>2 DEF Pursued
    <3>3. CASE p.side # "buy"
      <4>1. /\ p.id \in DOMAIN exit_orders /\ exit_orders[p.id].leg \in DOMAIN legs
            /\ legs[exit_orders[p.id].leg].exit_id = p.id
        BY <1>2, <3>1, <3>3 DEF Pursued, LegsOK
      <4>2. exit_orders[p.id].leg # k
        BY <2>1, <3>1, <4>1
      <4>. QED
        BY <2>3, <2>4, <3>1, <3>3, <4>1, <4>2 DEF Pursued
    <3>. QED
      BY <3>2, <3>3
  <2>6. /\ \A id \in DOMAIN entry_orders' :
             \E p \in Unconfirmed' : p.side = "buy" /\ p.id = id
        /\ \A id \in DOMAIN exit_orders' :
             \E p \in Unconfirmed' : p.side = "sell" /\ p.id = id
    BY <1>1, <1>5, <2>2, <2>3 DEF PursuitInv
  <2>7. /\ With({"pending_exit"})' = With({"pending_exit"}) \ {k}
        /\ With({"pending_entry"})' = With({"pending_entry"})
        /\ k \notin With({"pending_entry"})
    BY <2>1, <2>2, <2>4 DEF With
  <2>8. \A j \in With({"pending_exit"})' :
          /\ legs'[j].exit_id \in DOMAIN exit_orders'
          /\ exit_orders'[legs'[j].exit_id].leg = j
    <3>. SUFFICES ASSUME NEW j \in With({"pending_exit"}), j # k
                  PROVE  /\ legs'[j].exit_id \in DOMAIN exit_orders'
                         /\ exit_orders'[legs'[j].exit_id].leg = j
      BY <2>7
    <3>1. j \in DOMAIN legs /\ legs'[j] = legs[j]
      BY <2>4 DEF With
    <3>2. /\ legs[j].exit_id \in DOMAIN exit_orders
          /\ exit_orders[legs[j].exit_id].leg = j
      BY DEF PursuitInv
    <3>3. legs[j].exit_id # o.id
      BY <3>2 DEF k
    <3>. QED
      BY <2>3, <3>1, <3>2, <3>3
  <2>9. \A j \in With({"pending_entry"})' :
          /\ legs'[j].entry_id \in DOMAIN entry_orders'
          /\ entry_orders'[legs'[j].entry_id] = j
          /\ now' \in Times /\ IsToday(j)'
    <3>1. \A j \in With({"pending_entry"}) : j \in DOMAIN legs
      BY DEF With
    <3>. QED
      BY <1>2, <2>2, <2>4, <2>7, <3>1 DEF PursuitInv, IsToday, Today
  <2>. QED
    BY <2>5, <2>6, <2>8, <2>9 DEF PursuitInv
<1>. QED
  BY <1>1, <1>4, <1>5

(* The clock does not move while a purchase is under way.                   *)
LEMMA ClockMoves ==
  ASSUME LoopInv, HostInv, PursuitInv, Proceed, UNCHANGED orbVars
  PROVE  now' = now \/ With({"pending_entry"}) = {}
<1>1. Run
  BY ProceedEffect
<1>2. CASE BeginRun
  <2>1. now = 0
    BY <1>2 DEF BeginRun, In, LoopInv, ClockInv
  <2>2. 0 \notin Times
    BY EngineAssumption
  <2>. QED
    BY <2>1, <2>2 DEF PursuitInv
<1>3. CASE NextTimestamp
  <2>1. Unconfirmed = pending_orders
    BY <1>3, UnconfirmedRests DEF NextTimestamp
  <2>2. \A o \in pending_orders : o.side # "buy"
    BY DEF HostInv, OrdersOK
  <2>. QED
    BY <2>1, <2>2 DEF PursuitInv
<1>4. CASE ~BeginRun /\ ~NextTimestamp
  <2>1. now' = now
    BY <1>1, <1>4, DispatchEffect, CollectEffect, OrderEffect, MarketEffect
       DEF LoopInv, Run, ReturnLife, EndLoop, EndOfStep, PopFrame,
           CancelFrame, CollectFrame, clockVars
  <2>. QED
    BY <2>1
<1>. QED
  BY <1>2, <1>3, <1>4

LEMMA ProceedPursuit ==
  ASSUME LoopInv, HostInv, PursuitInv, Proceed, UNCHANGED orbVars
  PROVE  PursuitInv'
<1>1. UNCHANGED <<legs, entry_orders, exit_orders>>
  BY DEF orbVars
<1>2. Unconfirmed' = Unconfirmed
  BY ProceedUnconfirmed
<1>3. now' = now \/ With({"pending_entry"}) = {}
  BY ClockMoves
<1>4. \A o \in Unconfirmed' : Pursued(o)'
  <2>. SUFFICES ASSUME NEW o \in Unconfirmed PROVE Pursued(o)'
    BY <1>2
  <2>1. Pursued(o) /\ LegsOK
    BY DEF PursuitInv, HostInv
  <2>2. o.side = "buy" => now' = now
    BY <1>3, <2>1 DEF Pursued, With, LegsOK
  <2>. QED
    BY <1>1, <2>1, <2>2 DEF Pursued
<1>5. With({"pending_entry"})' = With({"pending_entry"})
      /\ With({"pending_exit"})' = With({"pending_exit"})
  BY <1>1 DEF With
<1>. QED
  BY <1>1, <1>2, <1>3, <1>4, <1>5 DEF PursuitInv, IsToday, Today

LEMMA OtherPursuit ==
  ASSUME PursuitInv, HostInv, OtherCallback \/ SkipCall
  PROVE  PursuitInv' /\ Unconfirmed' = Unconfirmed /\ ~FillInHand /\ ~FillInHand'
<1>1. UNCHANGED vars /\ UNCHANGED orbVars /\ cb # "on_fill"
  BY DEF OtherCallback, Handle, SkipCall, HostInv, CallsOK
<1>2. UNCHANGED <<order_events, trades, pc, cb, now, legs, entry_orders, exit_orders>>
  BY <1>1 DEF vars, loopVars, clockVars, orderVars, ledgerVars, accountVars, orbVars
<1>3. Unconfirmed' = Unconfirmed /\ ~FillInHand /\ ~FillInHand'
  BY <1>1, <1>2, NothingConfirmed
<1>. QED
  BY <1>2, <1>3 DEF PursuitInv, Pursued, With, IsToday, Today

-----------------------------------------------------------------------------
(* The account holds the legs that were bought and not yet sold.            *)

LEMMA LegsAreFinite ==
  ASSUME LegsOK
  PROVE  \A S : With(S) \subseteq DOMAIN legs /\ IsFiniteSet(With(S))
<1>. SUFFICES ASSUME NEW S PROVE With(S) \subseteq DOMAIN legs /\ IsFiniteSet(With(S))
  OBVIOUS
<1>1. With(S) \subseteq DOMAIN legs
  BY DEF With
<1>. QED
  BY <1>1, FS_Subset DEF LegsOK

LEMMA SameHeld ==
  ASSUME PositionsInv, UNCHANGED positions, Held' = Held,
         \A k \in Held : legs'[k].inst = legs[k].inst
  PROVE  PositionsInv'
<1>1. \A i : {k \in Held : legs'[k].inst = i} = {k \in Held : legs[k].inst = i}
  OBVIOUS
<1>. QED
  BY <1>1 DEF PositionsInv

LEMMA BarPositions ==
  ASSUME LoopInv, HostInv, PositionsInv, OnMarketEvent
  PROVE  PositionsInv'
<1>1. /\ cb = "on_market_event" /\ BarLegs
      /\ UNCHANGED <<vars, params, entry_orders, exit_orders>>
  BY BarEffect
<1>2. UNCHANGED <<order_events, trades, pc, cb, positions>>
  BY <1>1 DEF vars, loopVars, orderVars, ledgerVars, accountVars
<1>3. ~FillInHand /\ ~FillInHand'
  BY <1>1, <1>2, NothingConfirmed
<1>4. /\ With({"active", "pending_exit"})' = With({"active", "pending_exit"})
      /\ \A k \in DOMAIN legs : Kept(legs[k], legs'[k])
  BY <1>1, BarKeeps DEF Entered
<1>5. With({"active", "pending_exit"}) \subseteq DOMAIN legs
  BY DEF With
<1>. QED
  BY <1>2, <1>3, <1>4, <1>5, SameHeld DEF Held, Kept

LEMMA CallPositions ==
  ASSUME LoopInv, HostInv, PositionsInv, BreakInv, OrderPlaced
  PROVE  PositionsInv'
<1>. DEFINE k == todo[1].tag[2]
<1>1. /\ cb = "on_market_event" /\ UNCHANGED <<pc, cb, positions>>
      /\ todo # <<>> /\ k \in DOMAIN legs
      /\ \/ Refused
         \/ \E o : /\ Ordered(o)
                   /\ \/ Bought(k, o)
                      \/ \E r \in Reasons : Sold(k, o, r)
  BY PlacedEffect
<1>2. ~FillInHand /\ ~FillInHand'
  BY <1>1 DEF FillInHand, In
<1>3. 1 \in DOMAIN todo
  BY <1>1, HeadAndTail DEF HostInv
<1>. HIDE DEF k
<1>4. CASE Refused
  BY <1>1, <1>2, <1>4, SameHeld DEF Refused, Held, With
<1>5. CASE \E o : Bought(k, o) \/ \E r \in Reasons : Sold(k, o, r)
  <2>1. OnlyLeg(k)
    BY <1>5 DEF Bought, Sold
  <2>2. legs[k].status \in {"active", "pending_exit"}
          <=> legs'[k].status \in {"active", "pending_exit"}
    <3>1. ASSUME NEW o, Bought(k, o)
          PROVE  legs[k].status = "waiting" /\ legs'[k].status = "pending_entry"
      BY <1>3, <3>1 DEF Bought, BreakInv, HeldBroke, CallsBroke
    <3>2. ASSUME NEW o, NEW r, Sold(k, o, r)
          PROVE  legs[k].status = "active" /\ legs'[k].status = "pending_exit"
      BY <3>2 DEF Sold
    <3>. QED
      BY <1>5, <3>1, <3>2
  <2>3. /\ With({"active", "pending_exit"})' = With({"active", "pending_exit"})
        /\ \A j \in DOMAIN legs : legs'[j].inst = legs[j].inst
    BY <2>1, <2>2 DEF With, OnlyLeg
  <2>4. With({"active", "pending_exit"}) \subseteq DOMAIN legs
    BY DEF With
  <2>. QED
    BY <1>1, <1>2, <2>3, <2>4, SameHeld DEF Held
<1>. QED
  BY <1>1, <1>4, <1>5

LEMMA FillPositions ==
  ASSUME LoopInv, HostInv, PursuitInv, PositionsInv, OnFillEvent
  PROVE  PositionsInv'
<1>. DEFINE f == cur.fill
            S == {"active", "pending_exit"}
<1>1. /\ FillInHand /\ ~FillInHand' /\ UNCHANGED vars
      /\ \E o \in Unconfirmed :
           /\ Pursued(o) /\ f.id = o.id /\ f.side = o.side
           /\ \/ o.side = "buy" /\ EntryBooked(f)
              \/ o.side = "sell" /\ ExitBooked(f)
  BY FilledLeg
<1>2. PICK o \in Unconfirmed :
           /\ Pursued(o) /\ f.id = o.id /\ f.side = o.side
           /\ \/ o.side = "buy" /\ EntryBooked(f)
              \/ o.side = "sell" /\ ExitBooked(f)
  BY <1>1
<1>3. positions' = positions /\ LegsOK
  BY <1>1 DEF vars, ledgerVars, accountVars, HostInv
<1>4. CASE o.side = "buy" /\ EntryBooked(f)
  <2>. DEFINE k == entry_orders[f.id]
  <2>1. /\ OnlyLeg(k) /\ legs'[k].status = "active" /\ k \in DOMAIN legs
    BY <1>2, <1>3, <1>4 DEF EntryBooked, LegsOK
  <2>2. Held = With(S) \cup {k}
    BY <1>1, <1>2, <1>4 DEF Held
  <2>. HIDE DEF k
  <2>3. With(S)' = With(S) \cup {k}
    BY <2>1 DEF With, OnlyLeg
  <2>4. Held' = Held
    BY <1>1, <2>2, <2>3 DEF Held
  <2>5. \A j \in Held : legs'[j].inst = legs[j].inst
    BY <1>3, <2>1, <2>2, LegsAreFinite DEF OnlyLeg
  <2>. QED
    BY <1>3, <2>4, <2>5, SameHeld
<1>5. CASE o.side = "sell" /\ ExitBooked(f)
  <2>. DEFINE k == exit_orders[f.id].leg
  <2>1. /\ OnlyLeg(k) /\ legs'[k].status = "exited" /\ k \in DOMAIN legs
    BY <1>2, <1>3, <1>5 DEF ExitBooked, LegsOK
  <2>2. Held = With(S) \ {k}
    BY <1>1, <1>2, <1>5 DEF Held
  <2>. HIDE DEF k
  <2>3. With(S)' = With(S) \ {k}
    BY <2>1 DEF With, OnlyLeg
  <2>4. Held' = Held
    BY <1>1, <2>2, <2>3 DEF Held
  <2>5. \A j \in Held : legs'[j].inst = legs[j].inst
    BY <1>3, <2>1, <2>2, LegsAreFinite DEF OnlyLeg
  <2>. QED
    BY <1>3, <2>4, <2>5, SameHeld
<1>. QED
  BY <1>2, <1>4, <1>5

(* The fill in hand is that of an order under way.                          *)
FillIsOfOrder ==
  \E o \in Unconfirmed :
    /\ cur.fill.id = o.id /\ cur.fill.side = o.side
    /\ cur.fill.inst = o.inst /\ cur.fill.qty = Quantity

LEMMA FillHasOrder == LoopInv /\ HostInv /\ FillInHand => FillIsOfOrder
<1>. SUFFICES ASSUME LoopInv, HostInv, FillInHand PROVE FillIsOfOrder
  OBVIOUS
<1>. QED
  BY FilledOrder DEF FillIsOfOrder

LEMMA NextFillHasOrder == LoopInv' /\ HostInv' /\ FillInHand' => FillIsOfOrder'
  BY FillHasOrder, PTL

(* The account knows of a fill before the strategy does: one leg more, or   *)
(* one less, is one lot more or less.                                       *)
LEMMA ProceedPositions ==
  ASSUME LoopInv, HostInv, PursuitInv, PositionsInv, LoopInv', HostInv',
         Proceed, UNCHANGED orbVars
  PROVE  PositionsInv'
<1>. DEFINE f == cur'.fill
            S == {"active", "pending_exit"}
            Of(X, i) == {k \in X : legs[k].inst = i}
<1>1. /\ UNCHANGED <<legs, entry_orders, exit_orders>> /\ LegsOK
  BY DEF orbVars, HostInv
<1>2. /\ Unconfirmed' = Unconfirmed /\ ~FillInHand
      /\ \/ ~FillInHand' /\ UNCHANGED <<trades, positions>>
         \/ /\ FillInHand' /\ f \in Fills
            /\ positions' = [positions EXCEPT ![f.inst] = PositionUpdate(@, f)]
  BY ProceedUnconfirmed
<1>3. With(S)' = With(S) /\ Held = With(S)
  BY <1>1, <1>2 DEF With, Held
<1>4. CASE ~FillInHand' /\ UNCHANGED <<trades, positions>>
  <2>1. Held' = Held
    BY <1>1, <1>2, <1>3, <1>4 DEF Held, With
  <2>. QED
    BY <1>1, <1>4, <2>1, SameHeld
<1>5. CASE /\ FillInHand' /\ f \in Fills
           /\ positions' = [positions EXCEPT ![f.inst] = PositionUpdate(@, f)]
  <2>1. PICK o \in Unconfirmed :
          /\ f.id = o.id /\ f.side = o.side /\ f.inst = o.inst /\ f.qty = Quantity
    BY <1>2, <1>5, NextFillHasOrder DEF FillIsOfOrder
  <2>2. Pursued(o) /\ o.side \in Sides
    BY <2>1 DEF PursuitInv, Unconfirmed, LoopInv, ConservationInv, TypeInv,
       QueuesOK, Orders
  <2>3. /\ f.inst \in Instruments /\ Quantity \in Nat
        /\ \A i \in Instruments : positions[i].qty \in Int
        /\ positions = [i \in Instruments |-> positions[i]]
    BY <1>5, OrbAssumption DEF Fills, LoopInv, ConservationInv, TypeInv,
       LedgerTypeOK
  <2>4. /\ positions'[f.inst].qty = positions[f.inst].qty + SideSign(f.side) * Quantity
        /\ \A i \in Instruments : i # f.inst => positions'[i] = positions[i]
    BY <1>5, <2>1, <2>3 DEF PositionUpdate, SignedQty
  <2>5. \A i : IsFiniteSet(Of(With(S), i)) /\ Of(With(S), i) \subseteq With(S)
    <3>1. IsFiniteSet(With(S))
      BY <1>1, LegsAreFinite
    <3>. QED
      BY <3>1, FS_Subset
  <2>6. \A i \in Instruments :
          positions[i].qty = Quantity * Cardinality(Of(With(S), i))
    BY <1>3 DEF PositionsInv
  <2>7. \A i : Cardinality(Of(With(S), i)) \in Nat
    BY <2>5, FS_CardinalityType
  <2>8. CASE o.side = "buy"
    <3>. DEFINE k == entry_orders[o.id]
    <3>1. /\ legs[k].status = "pending_entry" /\ legs[k].inst = f.inst
      BY <2>1, <2>2, <2>8 DEF Pursued
    <3>2. Held' = With(S) \cup {k}
      BY <1>1, <1>3, <1>5, <2>1, <2>8 DEF Held
    <3>3. k \notin With(S)
      BY <3>1 DEF With
    <3>. HIDE DEF k
    <3>4. /\ Of(Held', f.inst) = Of(With(S), f.inst) \cup {k}
          /\ \A i : i # f.inst => Of(Held', i) = Of(With(S), i)
      BY <3>1, <3>2
    <3>5. Cardinality(Of(Held', f.inst)) = Cardinality(Of(With(S), f.inst)) + 1
      <4>. DEFINE A == Of(With(S), f.inst)
                  B == Of(Held', f.inst)
      <4>1. k \notin A /\ B = A \cup {k} /\ IsFiniteSet(A)
        BY <2>5, <3>1, <3>3, <3>4
      <4>. HIDE DEF A, B
      <4>2. Cardinality(B) = Cardinality(A) + 1
        BY <4>1, FS_AddElement
      <4>. QED
        BY <4>2 DEF A, B
    <3>. HIDE DEF Of
    <3>6. \A i \in Instruments : positions'[i].qty = Quantity * Cardinality(Of(Held', i))
      <4>1. positions'[f.inst].qty
              = Quantity * Cardinality(Of(With(S), f.inst)) + Quantity
        BY <2>1, <2>3, <2>4, <2>6, <2>8 DEF SideSign
      <4>2. positions'[f.inst].qty = Quantity * Cardinality(Of(Held', f.inst))
        <5>. DEFINE c == Cardinality(Of(With(S), f.inst))
        <5>1. c \in Nat
          BY <2>7
        <5>. HIDE DEF c
        <5>2. Quantity * c + Quantity = Quantity * (c + 1)
          BY <2>3, <5>1
        <5>. QED
          BY <3>5, <4>1, <5>2 DEF c
      <4>. QED
        BY <2>4, <2>6, <3>4, <4>2
    <3>. QED
      BY <1>1, <3>6 DEF PositionsInv, Of
  <2>9. CASE o.side = "sell"
    <3>. DEFINE k == exit_orders[o.id].leg
    <3>1. /\ legs[k].status = "pending_exit" /\ legs[k].inst = f.inst
          /\ k \in DOMAIN legs
      BY <1>1, <2>1, <2>2, <2>9 DEF Pursued, LegsOK
    <3>2. Held' = With(S) \ {k}
      BY <1>1, <1>3, <1>5, <2>1, <2>9 DEF Held
    <3>3. k \in With(S)
      BY <3>1 DEF With
    <3>. HIDE DEF k
    <3>4. /\ Of(Held', f.inst) = Of(With(S), f.inst) \ {k}
          /\ \A i : i # f.inst => Of(Held', i) = Of(With(S), i)
      BY <3>1, <3>2
    <3>5. Cardinality(Of(Held', f.inst)) = Cardinality(Of(With(S), f.inst)) - 1
      <4>. DEFINE A == Of(With(S), f.inst)
                  B == Of(Held', f.inst)
      <4>1. k \in A /\ B = A \ {k} /\ IsFiniteSet(A)
        BY <2>5, <3>1, <3>3, <3>4
      <4>. HIDE DEF A, B
      <4>2. Cardinality(B) = Cardinality(A) - 1
        BY <4>1, FS_RemoveElement
      <4>. QED
        BY <4>2 DEF A, B
    <3>. HIDE DEF Of
    <3>6. \A i \in Instruments : positions'[i].qty = Quantity * Cardinality(Of(Held', i))
      <4>1. positions'[f.inst].qty
              = Quantity * Cardinality(Of(With(S), f.inst)) - Quantity
        <5>. DEFINE c == Quantity * Cardinality(Of(With(S), f.inst))
        <5>1. c \in Int /\ positions[f.inst].qty = c /\ f.side = "sell"
          BY <2>1, <2>3, <2>6, <2>9
        <5>. HIDE DEF c
        <5>2. positions'[f.inst].qty = c - Quantity
          BY <2>3, <2>4, <5>1 DEF SideSign
        <5>. QED
          BY <5>2 DEF c
      <4>2. positions'[f.inst].qty = Quantity * Cardinality(Of(Held', f.inst))
        <5>. DEFINE c == Cardinality(Of(With(S), f.inst))
        <5>1. c \in Nat
          BY <2>7
        <5>. HIDE DEF c
        <5>2. Quantity * c - Quantity = Quantity * (c - 1)
          BY <2>3, <5>1
        <5>. QED
          BY <3>5, <4>1, <5>2 DEF c
      <4>. QED
        BY <2>4, <2>6, <3>4, <4>2
    <3>. QED
      BY <1>1, <3>6 DEF PositionsInv, Of
  <2>. QED
    BY <2>2, <2>8, <2>9 DEF Sides
<1>. QED
  BY <1>2, <1>4, <1>5

LEMMA OtherPositions ==
  ASSUME PursuitInv, HostInv, PositionsInv, OtherCallback \/ SkipCall
  PROVE  PositionsInv'
<1>1. ~FillInHand /\ ~FillInHand'
  BY OtherPursuit
<1>2. UNCHANGED <<positions, legs, entry_orders, exit_orders>>
  BY DEF OtherCallback, Handle, SkipCall, vars, ledgerVars, accountVars, orbVars
<1>3. Held' = Held
  BY <1>1, <1>2 DEF Held, With
<1>. QED
  BY <1>2, <1>3, SameHeld

-----------------------------------------------------------------------------
(* The statistics are those of the legs.                                    *)

LEMMA DisjointCardinality ==
  ASSUME NEW A, NEW B, IsFiniteSet(A), IsFiniteSet(B), A \cap B = {}
  PROVE  Cardinality(A \cup B) = Cardinality(A) + Cardinality(B)
<1>1. /\ Cardinality(A \cup B)
           = Cardinality(A) + Cardinality(B) - Cardinality(A \cap B)
      /\ Cardinality({}) = 0 /\ Cardinality(A) \in Nat /\ Cardinality(B) \in Nat
  BY FS_Union, FS_EmptySet, FS_CardinalityType
<1>2. Cardinality(A \cap B) = 0
  BY <1>1
<1>. DEFINE a == Cardinality(A)
            b == Cardinality(B)
            c == Cardinality(A \cap B)
            d == Cardinality(A \cup B)
<1>3. d = a + b - c /\ c = 0 /\ a \in Nat /\ b \in Nat
  BY <1>1, <1>2
<1>. HIDE DEF a, b, c, d
<1>4. d = a + b
  BY <1>3
<1>. QED
  BY <1>4 DEF a, b, d

ExitedFor(r) == {k \in With({"exited"}) : legs[k].reason = r}

LEMMA BarStatistics ==
  ASSUME LoopInv, HostInv, StatsInv, OnMarketEvent
  PROVE  StatsInv'
<1>1. /\ cb = "on_market_event" /\ BarLegs /\ BarStats
      /\ UNCHANGED <<vars, params, entry_orders, exit_orders>>
  BY BarEffect
<1>2. /\ IsFiniteSet(DOMAIN legs) /\ stats \in StatsType /\ Today \in Nat /\ LegsOK
  BY <1>1, BarClock DEF HostInv, LegsOK, StatsType
<1>3. /\ IsFiniteSet(DOMAIN legs')
      /\ Cardinality(DOMAIN legs') =
           IF NewKeys = {} THEN Cardinality(DOMAIN legs) ELSE Cardinality(DOMAIN legs) + 2
  <2>1. CASE NewKeys = {}
    <3>1. DOMAIN legs' = DOMAIN legs
      BY <1>1, <2>1 DEF BarLegs, NewKeys
    <3>. QED
      BY <1>2, <2>1, <3>1
  <2>2. CASE NewKeys # {}
    <3>1. /\ DOMAIN legs' = DOMAIN legs \cup TodayKeys
          /\ DOMAIN legs \cap TodayKeys = {}
      BY <1>1, <2>2 DEF BarLegs, NewKeys
    <3>2. IsFiniteSet(TodayKeys) /\ Cardinality(TodayKeys) = 2
      BY <1>2, TodayKeysFinite
    <3>3. /\ IsFiniteSet(DOMAIN legs \cup TodayKeys)
          /\ Cardinality(DOMAIN legs \cup TodayKeys) = Cardinality(DOMAIN legs) + 2
      BY <1>2, <3>1, <3>2, DisjointCardinality, FS_Union
    <3>. QED
      BY <2>2, <3>1, <3>3
  <2>. QED
    BY <2>1, <2>2
<1>4. /\ stats'.instances = IF NewKeys = {} THEN stats.instances
                                           ELSE stats.instances + 1
      /\ stats'.no_breakout = stats.no_breakout + Cardinality(NowClosed)
      /\ stats'.entries = stats.entries
      /\ \A r \in Reasons : stats'[r] = stats[r]
  BY <1>1, <1>2, <1>3, BarStatsFields
<1>5. 2 * stats'.instances = Cardinality(DOMAIN legs')
  BY <1>2, <1>3, <1>4 DEF StatsInv, StatsType
<1>6. /\ With({"active", "pending_exit", "exited"})'
           = With({"active", "pending_exit", "exited"})
      /\ With({"exited"})' = With({"exited"})
      /\ \A k \in DOMAIN legs : Kept(legs[k], legs'[k])
  BY <1>1, BarKeeps DEF Entered
<1>7. \A r : ExitedFor(r)' = ExitedFor(r)
  BY <1>6 DEF ExitedFor, With, Kept
<1>8. Cardinality(With({"closed_no_entry"})')
        = Cardinality(With({"closed_no_entry"})) + Cardinality(NowClosed)
  <2>. DEFINE A == With({"closed_no_entry"})
              B == NowClosed
              C == With({"closed_no_entry"})'
  <2>1. A \cap B = {}
    BY DEF With, NowClosed, NewKeys
  <2>2. \A k \in DOMAIN legs : k \in C <=> k \in A \cup B
    <3>. SUFFICES ASSUME NEW k \in DOMAIN legs PROVE k \in C <=> k \in A \cup B
      OBVIOUS
    <3>1. /\ k \in DOMAIN legs' /\ k \notin NewKeys
          /\ legs'[k].status = IF Late(k) /\ legs[k].status = "waiting"
                                 THEN "closed_no_entry" ELSE legs[k].status
      BY <1>1 DEF BarLegs, NewKeys
    <3>. QED
      BY <3>1 DEF With, NowClosed
  <2>3. \A k \in NewKeys : k \in C <=> k \in A \cup B
    <3>. SUFFICES ASSUME NEW k \in NewKeys PROVE k \in C <=> k \in A \cup B
      OBVIOUS
    <3>1. /\ k \in DOMAIN legs' /\ k \notin DOMAIN legs
          /\ legs'[k].status = IF Late(k) THEN "closed_no_entry" ELSE "waiting"
      BY <1>1 DEF BarLegs, NewKeys
    <3>. QED
      BY <3>1 DEF With, NowClosed
  <2>4. A \cup B \subseteq DOMAIN legs' /\ C \subseteq DOMAIN legs'
    BY <1>1 DEF With, NowClosed, BarLegs
  <2>5. C = A \cup B
    BY <2>2, <2>3, <2>4 DEF NewKeys
  <2>6. IsFiniteSet(A) /\ IsFiniteSet(B)
    BY <1>2, <1>3, LegsAreFinite, FS_Subset DEF NowClosed
  <2>. HIDE DEF A, B, C
  <2>7. Cardinality(C) = Cardinality(A) + Cardinality(B)
    BY <2>1, <2>5, <2>6, DisjointCardinality
  <2>. QED
    BY <2>7 DEF A, B, C
<1>9. StatsInv => \A r \in Reasons : stats[r] = Cardinality(ExitedFor(r))
  BY DEF StatsInv, ExitedFor
<1>10. \A r \in Reasons : stats'[r] = Cardinality(ExitedFor(r)')
  BY <1>4, <1>7, <1>9
<1>. QED
  BY <1>4, <1>5, <1>6, <1>8, <1>10 DEF StatsInv, ExitedFor

(* What moves a leg between other statuses leaves the statistics right.     *)
LEMMA SameStatistics ==
  ASSUME StatsInv, UNCHANGED stats, NEW k \in DOMAIN legs, OnlyLeg(k),
         legs[k].status \in {"waiting", "pending_entry", "active", "pending_exit"},
         legs'[k].status \in {"waiting", "pending_entry", "active", "pending_exit"},
         legs[k].status \in {"active", "pending_exit"}
           <=> legs'[k].status \in {"active", "pending_exit"}
  PROVE  StatsInv'
<1>1. /\ With({"active", "pending_exit", "exited"})'
           = With({"active", "pending_exit", "exited"})
      /\ With({"closed_no_entry"})' = With({"closed_no_entry"})
      /\ DOMAIN legs' = DOMAIN legs
  BY DEF With, OnlyLeg
<1>2. ASSUME NEW r
      PROVE  {j \in With({"exited"}) : legs[j].reason = r}'
               = {j \in With({"exited"}) : legs[j].reason = r}
  BY DEF With, OnlyLeg
<1>. QED
  BY <1>1, <1>2 DEF StatsInv

LEMMA CallStatistics ==
  ASSUME LoopInv, HostInv, StatsInv, BreakInv, OrderPlaced
  PROVE  StatsInv'
<1>. DEFINE k == todo[1].tag[2]
<1>1. /\ UNCHANGED stats /\ todo # <<>> /\ k \in DOMAIN legs
      /\ \/ Refused
         \/ \E o : /\ Ordered(o)
                   /\ \/ Bought(k, o)
                      \/ \E r \in Reasons : Sold(k, o, r)
  BY PlacedEffect
<1>2. 1 \in DOMAIN todo
  BY <1>1, HeadAndTail DEF HostInv
<1>. HIDE DEF k
<1>3. CASE Refused
  BY <1>1, <1>3 DEF Refused, StatsInv, With
<1>4. ASSUME NEW o, Bought(k, o)
      PROVE  StatsInv'
  <2>1. /\ legs[k].status = "waiting" /\ legs'[k].status = "pending_entry"
        /\ OnlyLeg(k)
    BY <1>2, <1>4 DEF Bought, BreakInv, HeldBroke, CallsBroke
  <2>. QED
    BY <1>1, <2>1, SameStatistics
<1>5. ASSUME NEW o, NEW r, Sold(k, o, r)
      PROVE  StatsInv'
  <2>1. /\ legs[k].status = "active" /\ legs'[k].status = "pending_exit"
        /\ OnlyLeg(k)
    BY <1>5 DEF Sold
  <2>. QED
    BY <1>1, <2>1, SameStatistics
<1>. QED
  BY <1>1, <1>3, <1>4, <1>5

LEMMA FillStatistics ==
  ASSUME LoopInv, HostInv, PursuitInv, StatsInv, OnFillEvent
  PROVE  StatsInv'
<1>. DEFINE f == cur.fill
            S == {"active", "pending_exit", "exited"}
<1>1. PICK o \in Unconfirmed :
           /\ Pursued(o) /\ f.id = o.id /\ f.side = o.side
           /\ \/ o.side = "buy" /\ EntryBooked(f)
              \/ o.side = "sell" /\ ExitBooked(f)
  BY FilledLeg
<1>2. LegsOK /\ stats \in StatsType
  BY DEF HostInv, LegsOK, StatsType
<1>3. IsFiniteSet(With(S)) /\ \A r : IsFiniteSet(ExitedFor(r))
  <2>1. \A r : ExitedFor(r) \subseteq With({"exited"})
    BY DEF ExitedFor
  <2>. QED
    BY <1>2, <2>1, LegsAreFinite, FS_Subset
<1>4. CASE o.side = "buy" /\ EntryBooked(f)
  <2>. DEFINE k == entry_orders[f.id]
  <2>1. /\ OnlyLeg(k) /\ legs[k].status = "pending_entry"
        /\ legs'[k].status = "active" /\ k \in DOMAIN legs
        /\ stats' = [stats EXCEPT !.entries = @ + 1]
    BY <1>1, <1>2, <1>4 DEF EntryBooked, LegsOK, Pursued
  <2>. HIDE DEF k
  <2>2. /\ With(S)' = With(S) \cup {k} /\ k \notin With(S)
        /\ With({"closed_no_entry"})' = With({"closed_no_entry"})
        /\ DOMAIN legs' = DOMAIN legs
    BY <2>1 DEF With, OnlyLeg
  <2>3. \A r : ExitedFor(r)' = ExitedFor(r)
    BY <2>1 DEF ExitedFor, With, OnlyLeg
  <2>4. Cardinality(With(S)') = Cardinality(With(S)) + 1
    <3>. DEFINE A == With(S)
                B == With(S)'
    <3>1. B = A \cup {k} /\ k \notin A /\ IsFiniteSet(A)
      BY <1>3, <2>2
    <3>. HIDE DEF A, B
    <3>2. Cardinality(B) = Cardinality(A) + 1
      BY <3>1, FS_AddElement
    <3>. QED
      BY <3>2 DEF A, B
  <2>5. /\ stats'.entries = stats.entries + 1 /\ stats'.instances = stats.instances
        /\ stats'.no_breakout = stats.no_breakout
        /\ \A r \in Reasons : stats'[r] = stats[r]
    BY <1>2, <2>1 DEF StatsType, Reasons
  <2>6. stats.entries = Cardinality(With(S))
    BY DEF StatsInv
  <2>7. stats'.entries = Cardinality(With(S)')
    BY <2>4, <2>5, <2>6
  <2>. QED
    BY <2>2, <2>3, <2>5, <2>7 DEF StatsInv, ExitedFor
<1>5. CASE o.side = "sell" /\ ExitBooked(f)
  <2>. DEFINE k == exit_orders[f.id].leg
  <2>8. PICK q : q = exit_orders[f.id].reason
    OBVIOUS
  <2>1. /\ OnlyLeg(k) /\ legs[k].status = "pending_exit"
        /\ legs'[k].status = "exited" /\ legs'[k].reason = q
        /\ k \in DOMAIN legs /\ q \in Reasons
        /\ stats' = [stats EXCEPT ![q] = @ + 1]
    BY <1>1, <1>2, <1>5, <2>8 DEF ExitBooked, LegsOK, Pursued
  <2>. HIDE DEF k
  <2>2. /\ With(S)' = With(S)
        /\ With({"closed_no_entry"})' = With({"closed_no_entry"})
        /\ DOMAIN legs' = DOMAIN legs
    BY <2>1 DEF With, OnlyLeg
  <2>3. /\ ExitedFor(q)' = ExitedFor(q) \cup {k} /\ k \notin ExitedFor(q)
        /\ \A r : r # q => ExitedFor(r)' = ExitedFor(r)
    <3>1. k \notin With({"exited"}) /\ With({"exited"})' = With({"exited"}) \cup {k}
      BY <2>1 DEF With, OnlyLeg
    <3>2. \A j \in With({"exited"}) : legs'[j].reason = legs[j].reason
      BY <2>1, <3>1 DEF With, OnlyLeg
    <3>. QED
      BY <2>1, <3>1, <3>2 DEF ExitedFor
  <2>4. Cardinality(ExitedFor(q)') = Cardinality(ExitedFor(q)) + 1
    <3>. DEFINE A == ExitedFor(q)
                B == ExitedFor(q)'
    <3>1. B = A \cup {k} /\ k \notin A /\ IsFiniteSet(A)
      BY <1>3, <2>3
    <3>. HIDE DEF A, B
    <3>2. Cardinality(B) = Cardinality(A) + 1
      BY <3>1, FS_AddElement
    <3>. QED
      BY <3>2 DEF A, B
  <2>5. /\ stats'.entries = stats.entries /\ stats'.instances = stats.instances
        /\ stats'.no_breakout = stats.no_breakout
        /\ stats'[q] = stats[q] + 1
        /\ \A r \in Reasons : r # q => stats'[r] = stats[r]
    BY <1>2, <2>1 DEF StatsType, Reasons
  <2>6. \A r \in Reasons : stats[r] = Cardinality(ExitedFor(r))
    BY DEF StatsInv, ExitedFor
  <2>7. \A r \in Reasons : stats'[r] = Cardinality(ExitedFor(r)')
    <3>1. stats'[q] = Cardinality(ExitedFor(q)')
      BY <2>1, <2>4, <2>5, <2>6
    <3>2. \A r \in Reasons : r # q => stats'[r] = Cardinality(ExitedFor(r)')
      BY <2>3, <2>5, <2>6
    <3>. QED
      BY <3>1, <3>2
  <2>. QED
    BY <2>2, <2>5, <2>7 DEF StatsInv, ExitedFor
<1>. QED
  BY <1>1, <1>4, <1>5

(* Seconds of one day go with time.                                         *)
LEMMA SameDay ==
  ASSUME NEW t \in Times, NEW u \in Times, DayOf[t] = DayOf[u], t <= u
  PROVE  t % DayLength <= u % DayLength
<1>1. t \in Nat /\ u \in Nat /\ DayLength \in Nat \ {0}
  BY EngineAssumption, OrbAssumption
<1>2. t \div DayLength = u \div DayLength
  BY OrbAssumption
<1>3. /\ t = DayLength * (t \div DayLength) + (t % DayLength)
      /\ u = DayLength * (u \div DayLength) + (u % DayLength)
      /\ t % DayLength \in Nat /\ u % DayLength \in Nat
      /\ t \div DayLength \in Nat
  BY <1>1
<1>. DEFINE q == DayLength * (t \div DayLength)
            a == t % DayLength
            b == u % DayLength
<1>4. q \in Int /\ a \in Nat /\ b \in Nat /\ t = q + a /\ u = q + b
  BY <1>1, <1>2, <1>3
<1>. HIDE DEF q, a, b
<1>5. a <= b
  BY <1>4
<1>. QED
  BY <1>5 DEF a, b

-----------------------------------------------------------------------------
(* What the strategy has seen.                                              *)

LEMMA TimeIsNat ==
  ASSUME NEW t \in Times
  PROVE  t \in Nat \ {0} /\ t % DayLength \in Nat
<1>1. t \in Nat \ {0}
  BY EngineAssumption
<1>2. DayLength \in Nat \ {0}
  BY OrbAssumption
<1>. QED
  BY <1>1, <1>2

LEMMA BarSeen ==
  ASSUME LoopInv, HostInv, OnMarketEvent
  PROVE  /\ now \in Times /\ now = step
         /\ \A t \in Times : /\ Seen(t)' <=> t <= now
                             /\ Seen(t) <=> t < now
<1>1. /\ cb = "on_market_event" /\ ~handled /\ handled' = TRUE /\ UNCHANGED vars
  BY BarEffect
<1>2. /\ phase = 1 /\ now = step /\ step \in Times /\ now \in Nat
  BY <1>1, BarClock
<1>3. UNCHANGED <<cb, phase, step>>
  BY <1>1 DEF vars, loopVars
<1>4. \A t \in Times : t \in Nat
  BY EngineAssumption
<1>5. \A t \in Times : Seen(t)' <=> t <= now
  BY <1>1, <1>2, <1>3, <1>4 DEF Seen
<1>6. \A t \in Times : Seen(t) <=> t < now
  BY <1>1, <1>2, <1>4 DEF Seen
<1>. QED
  BY <1>2, <1>5, <1>6

LEMMA SeenIsPast ==
  ASSUME LoopInv, NEW t \in Times, Seen(t)
  PROVE  t <= now /\ now \in Times
<1>1. step \in Times \cup {0} /\ ClockInv
  BY DEF LoopInv, ConservationInv, TypeInv, LoopOK
<1>2. t \in Nat \ {0} /\ (step \in Times => step \in Nat)
  BY EngineAssumption
<1>3. step # 0 /\ t <= step
  BY <1>1, <1>2 DEF Seen
<1>4. now = step
  BY <1>1, <1>3 DEF ClockInv
<1>. QED
  BY <1>1, <1>3, <1>4

(* Nothing but the handler of a bar makes the strategy see it.              *)
LEMMA ProceedSeen ==
  ASSUME LoopInv, HostInv, Proceed, UNCHANGED orbVars
  PROVE  /\ step <= step'
         /\ \A t \in Times : Seen(t)' <=> Seen(t)
<1>1. Run /\ ~handled' /\ (pc = "callback" => handled)
  BY ProceedEffect
<1>2. ClockInv /\ TypeInv /\ ConservationInv
  BY DEF LoopInv, ConservationInv
<1>3. step \in Nat /\ \A t \in Times : t \in Nat \ {0}
  BY <1>2, EngineAssumption DEF TypeInv, LoopOK
<1>4. CASE NextTimestamp
  <2>1. step' \in Times /\ step' > step /\ phase' = 1
        /\ \A t \in Times : t < step' => t <= step
    <3>1. /\ step' \in Times /\ step' > step /\ phase' = 1
          /\ step' = First(Later) /\ Later \subseteq Times /\ Later # {}
      BY <1>2, <1>4, NextIsLater DEF NextTimestamp, Later
    <3>2. \A u \in Later : step' <= u
      BY <3>1, FirstIsElement
    <3>3. \A t \in Times : t < step' => ~(t > step)
      BY <1>3, <3>1, <3>2 DEF Later
    <3>. QED
      BY <1>3, <3>1, <3>3
  <2>2. step # 0 => phase = 2
    BY <1>2, <1>4 DEF ClockInv, NextTimestamp
  <2>3. \A t \in Times : Seen(t)' <=> t < step'
    BY <1>1, <2>1 DEF Seen
  <2>4. \A t \in Times : Seen(t) <=> t <= step
    BY <1>3, <2>2 DEF Seen
  <2>5. \A t \in Times : t <= step => t < step'
    BY <1>3, <2>1
  <2>. QED
    BY <1>3, <2>1, <2>3, <2>4, <2>5
<1>5. CASE EndLoop
  <2>1. step' = step /\ pc = "next" /\ phase' # 1
    BY <1>5 DEF EndLoop
  <2>2. step # 0 => phase = 2
    BY <1>2, <2>1 DEF ClockInv
  <2>3. \A t \in Times : Seen(t)' <=> t <= step
    BY <1>3, <2>1 DEF Seen
  <2>. QED
    BY <1>3, <2>1, <2>2, <2>3 DEF Seen
<1>6. CASE ReturnMarket
  <2>1. step' = step /\ cb = "on_market_event" /\ handled /\ phase' # 1
    BY <1>1, <1>6 DEF ReturnMarket, In
  <2>2. \A t \in Times : Seen(t)' <=> t <= step
    BY <1>3, <2>1 DEF Seen
  <2>. QED
    BY <1>3, <2>1, <2>2 DEF Seen
<1>7. CASE ~NextTimestamp /\ ~EndLoop /\ ~ReturnMarket
  <2>1. UNCHANGED <<step, phase>>
    BY <1>1, <1>2, <1>7, DispatchEffect
       DEF Run, BeginRun, ReturnLife, EndOfStep, ReturnEvent, ReturnOrder,
           HandleMarketEvent, PopFrame, CancelFrame, clockVars
  <2>2. cb # "on_market_event"
    <3>1. pc = "callback" <=> cb # "none"
      BY <1>2 DEF TypeInv, LoopOK
    <3>. QED
      BY <1>1, <1>7, <3>1, DispatchEffect
         DEF Run, BeginRun, ReturnLife, EndOfStep, ReturnEvent, ReturnOrder,
             HandleMarketEvent, MarketReady, PopFrame, CancelFrame, In
  <2>. QED
    BY <1>1, <1>3, <2>1, <2>2 DEF Seen
<1>. QED
  BY <1>4, <1>5, <1>6, <1>7

(* The steps of the strategy but on_market_event.                           *)
LEMMA CallSeen ==
  ASSUME LoopInv, HostInv, OrderPlaced \/ OnFillEvent \/ OtherCallback \/ SkipCall
  PROVE  UNCHANGED <<step, now>> /\ \A t \in Times : Seen(t)' => Seen(t)
<1>1. CASE OrderPlaced \/ SkipCall
  <2>1. UNCHANGED <<step, now, phase, cb, handled>>
    BY <1>1, PlacedEffect DEF SkipCall, vars, loopVars, clockVars
  <2>. QED
    BY <2>1 DEF Seen
<1>2. CASE OnFillEvent \/ OtherCallback
  <2>1. UNCHANGED vars /\ cb # "on_market_event"
    BY <1>2 DEF OnFillEvent, OtherCallback, Handle, In
  <2>2. UNCHANGED <<step, now, phase, cb>>
    BY <2>1 DEF vars, loopVars, clockVars
  <2>. QED
    BY <2>1, <2>2 DEF Seen
<1>. QED
  BY <1>1, <1>2

(* In these, and when the run goes on, a leg keeps its instrument and range *)
(* and does not begin to wait.                                              *)
LegsStay ==
  /\ DOMAIN legs' = DOMAIN legs
  /\ With({"waiting"})' \subseteq With({"waiting"})
  /\ \A k \in DOMAIN legs :
       /\ legs'[k].inst = legs[k].inst /\ legs'[k].high = legs[k].high
       /\ legs'[k].since = legs[k].since

LEMMA LegsMayStay ==
  ASSUME LoopInv, HostInv, PursuitInv,
         \/ OrderPlaced \/ OnFillEvent \/ OtherCallback \/ SkipCall
         \/ UNCHANGED legs
  PROVE  LegsStay
<1>1. ASSUME NEW k \in DOMAIN legs, OnlyLeg(k), legs'[k].status # "waiting"
      PROVE  LegsStay
  BY <1>1 DEF OnlyLeg, LegsStay, With
<1>2. CASE UNCHANGED legs
  BY <1>2 DEF LegsStay, With
<1>3. CASE OrderPlaced
  <2>1. PICK k \in DOMAIN legs : \/ Refused
                                 \/ \E o : \/ Bought(k, o)
                                           \/ \E r \in Reasons : Sold(k, o, r)
    BY <1>3, PlacedEffect
  <2>2. CASE Refused
    BY <1>2, <2>2 DEF Refused
  <2>3. CASE \E o : Bought(k, o) \/ \E r \in Reasons : Sold(k, o, r)
    BY <1>1, <2>3 DEF Bought, Sold
  <2>. QED
    BY <2>1, <2>2, <2>3
<1>4. CASE OnFillEvent
  <2>1. LegsOK /\ (EntryBooked(cur.fill) \/ ExitBooked(cur.fill))
    BY <1>4, FilledLeg DEF HostInv
  <2>2. CASE EntryBooked(cur.fill)
    BY <1>1, <2>1, <2>2 DEF EntryBooked, LegsOK
  <2>3. CASE ExitBooked(cur.fill)
    BY <1>1, <2>1, <2>3 DEF ExitBooked, LegsOK
  <2>. QED
    BY <2>1, <2>2, <2>3
<1>5. CASE OtherCallback \/ SkipCall
  BY <1>2, <1>5 DEF OtherCallback, SkipCall, orbVars
<1>. QED
  BY <1>2, <1>3, <1>4, <1>5

-----------------------------------------------------------------------------
(* No leg waits past the cutoff, and its high is that of its range.         *)

LEMMA BarWaiting ==
  ASSUME LoopInv, HostInv, WaitingInv, OnMarketEvent
  PROVE  WaitingInv'
<1>1. /\ BarLegs /\ UNCHANGED params /\ now' = now
  BY BarEffect DEF vars, clockVars
<1>2. SUFFICES ASSUME NEW k \in DOMAIN legs', legs'[k].status = "waiting",
                      NEW t \in Times, t <= now, DayOf[t] = k[1]
               PROVE  t % DayLength <= params.cutoff
  BY <1>1, BarSeen DEF WaitingInv, With
<1>3. ~Late(k) /\ (k \in DOMAIN legs => legs[k].status = "waiting")
  BY <1>1, <1>2 DEF BarLegs, NewKeys
<1>4. /\ t % DayLength \in Nat /\ Second \in Nat /\ params.cutoff \in Nat
      /\ t \in Nat /\ now \in Nat /\ now \in Times
  BY BarSeen, ParamsAreNat, TimeIsNat DEF HostInv, Second
<1>5. CASE IsToday(k)
  <2>1. ~(Second > params.cutoff)
    BY <1>3, <1>5 DEF Late
  <2>2. t % DayLength <= Second
    BY <1>2, <1>4, <1>5, SameDay DEF IsToday, Today, Second
  <2>. QED
    BY <1>4, <2>1, <2>2
<1>6. CASE ~IsToday(k)
  <2>1. k \in With({"waiting"})
    <3>1. k \notin NewKeys
      BY <1>1, <1>6 DEF BarLegs, TodayKeys, IsToday
    <3>. QED
      BY <1>2, <1>3, <3>1 DEF NewKeys, With
  <2>2. t < now
    BY <1>2, <1>4, <1>6 DEF IsToday, Today
  <2>3. Seen(t)
    BY <2>2, BarSeen
  <2>. QED
    BY <1>2, <2>1, <2>3 DEF WaitingInv
<1>. QED
  BY <1>5, <1>6

LEMMA StillWaiting ==
  ASSUME WaitingInv, LegsStay, UNCHANGED params,
         \A t \in Times : Seen(t)' => Seen(t)
  PROVE  WaitingInv'
BY DEF WaitingInv, LegsStay

LEMMA BarHighs ==
  ASSUME LoopInv, HostInv, HighsInv, OnMarketEvent
  PROVE  HighsInv'
<1>1. /\ BarLegs /\ UNCHANGED <<params, now, step>>
  BY BarEffect DEF vars, loopVars, clockVars
<1>2. /\ now \in Times /\ now = step /\ now \in Nat
      /\ Second \in Nat /\ params.range_start \in Nat /\ params.range_end \in Nat
  BY BarSeen, ParamsAreNat, TimeIsNat DEF HostInv, Second
<1>3. LegsOK
  BY DEF HostInv
<1>4. ASSUME NEW k \in DOMAIN legs'
      PROVE  /\ legs'[k].since \in Times /\ legs'[k].since <= now
             /\ DayOf[legs'[k].since] = k[1]
             /\ legs'[k].since % DayLength >= params.range_start
             /\ \A t \in Times : t <= now /\ InRange(k, t)' =>
                  Bars[legs'[k].inst][t].high <= legs'[k].high
  <2>1. CASE k \in DOMAIN legs
    <3>1. /\ Kept(legs[k], legs'[k]) /\ legs'[k].high >= legs[k].high
          /\ legs'[k] \in LegType /\ legs[k] \in LegType
          /\ InRangeNow(k, legs[k].inst) =>
               legs'[k].high >= Bars[legs[k].inst][now].high
      BY <1>1, <1>3, <2>1 DEF BarLegs, LegsOK
    <3>2. /\ legs[k].since \in Times /\ legs[k].since <= now
          /\ DayOf[legs[k].since] = k[1]
          /\ legs[k].since % DayLength >= params.range_start
      BY <1>2, <2>1 DEF HighsInv
    <3>3. ASSUME NEW t \in Times, t <= now, InRange(k, t)'
          PROVE  Bars[legs[k].inst][t].high <= legs'[k].high
      <4>1. InRange(k, t)
        BY <1>1, <3>1, <3>3 DEF InRange, Kept
      <4>2. /\ legs[k].inst \in Instruments /\ legs[k].high \in Int
            /\ legs'[k].high \in Int
        BY <3>1 DEF LegType
      <4>3. Bars[legs[k].inst][t].high \in Int
        BY <4>1, <4>2, BarTypes DEF InRange
      <4>4. CASE t < now
        <5>1. Bars[legs[k].inst][t].high <= legs[k].high
          BY <2>1, <4>1, <4>4, BarSeen DEF HighsInv
        <5>. QED
          BY <3>1, <4>2, <4>3, <5>1
      <4>5. CASE t = now
        <5>1. IsToday(k) /\ Trades(legs[k].inst) /\ Second <= params.range_end
          BY <4>1, <4>5 DEF InRange, IsToday, Today, Trades, Second
        <5>2. legs[k].since % DayLength <= Second
          BY <1>2, <3>2, <5>1, SameDay DEF IsToday, Today, Second
        <5>3. legs[k].since % DayLength \in Nat
          BY <3>2, TimeIsNat
        <5>4. params.range_start <= Second
          BY <1>2, <3>2, <5>2, <5>3
        <5>5. legs'[k].high >= Bars[legs[k].inst][now].high
          BY <3>1, <5>1, <5>4 DEF InRangeNow
        <5>. QED
          BY <4>2, <4>3, <4>5, <5>5
      <4>6. t \in Nat
        BY EngineAssumption
      <4>. QED
        BY <1>2, <3>3, <4>4, <4>5, <4>6
    <3>. QED
      BY <3>1, <3>2, <3>3 DEF Kept
  <2>2. CASE k \notin DOMAIN legs
    <3>1. /\ k \in NewKeys /\ k \in TodayKeys /\ Second >= params.range_start
          /\ legs'[k] \in LegType /\ Trades(legs'[k].inst)
          /\ legs'[k].since = now
          /\ legs'[k].high >= Bars[legs'[k].inst][now].high
      BY <1>1, <2>2 DEF BarLegs, NewKeys
    <3>2. DayOf[now] = k[1]
      BY <3>1 DEF TodayKeys, Today
    <3>3. ASSUME NEW t \in Times, t <= now, InRange(k, t)'
          PROVE  Bars[legs'[k].inst][t].high <= legs'[k].high
      <4>1. now <= t /\ t \in Nat
        BY <3>1, <3>3, EngineAssumption DEF InRange
      <4>2. t = now
        BY <1>2, <3>3, <4>1
      <4>3. legs'[k].high \in Int /\ Bars[legs'[k].inst][now].high \in Int
        BY <3>1, BarTypes DEF LegType, Trades
      <4>. QED
        BY <3>1, <4>2, <4>3
    <3>. QED
      BY <1>2, <3>1, <3>2, <3>3 DEF Second
  <2>. QED
    BY <2>1, <2>2
<1>. QED
  BY <1>1, <1>2, <1>4, BarSeen DEF HighsInv

LEMMA HighsStay ==
  ASSUME LoopInv, LoopInv', HighsInv, LegsStay, UNCHANGED params, step <= step',
         \A t \in Times : Seen(t)' => Seen(t)
  PROVE  HighsInv'
<1>1. \A k \in DOMAIN legs, t \in Times : InRange(k, t)' => InRange(k, t)
  BY DEF LegsStay, InRange
<1>2. step \in Nat /\ step' \in Nat /\ \A t \in Times : t \in Nat
  BY EngineAssumption DEF LoopInv, ConservationInv, TypeInv, LoopOK
<1>3. \A k \in DOMAIN legs' :
        /\ k \in DOMAIN legs /\ legs'[k].inst = legs[k].inst
        /\ legs'[k].high = legs[k].high /\ legs'[k].since = legs[k].since
  BY DEF LegsStay
<1>4. \A k \in DOMAIN legs' :
        /\ legs'[k].since \in Times /\ legs'[k].since <= step'
        /\ DayOf[legs'[k].since] = k[1]
        /\ legs'[k].since % DayLength >= params'.range_start
  BY <1>2, <1>3 DEF HighsInv
<1>5. \A k \in DOMAIN legs' : \A t \in Times :
        Seen(t)' /\ InRange(k, t)' => Bars[legs'[k].inst][t].high <= legs'[k].high
  BY <1>1, <1>3 DEF HighsInv
<1>. QED
  BY <1>4, <1>5 DEF HighsInv

-----------------------------------------------------------------------------
(* A leg is bought on a close above its whole range.                        *)

LEMMA BarBreaks ==
  ASSUME LoopInv, HostInv, BreakInv, HighsInv', OnMarketEvent
  PROVE  BreakInv'
<1>1. /\ BarLegs /\ BarCalls /\ UNCHANGED <<params, now>>
  BY BarEffect DEF vars, clockVars
<1>2. /\ With({"active", "pending_exit", "exited"})'
           = With({"active", "pending_exit", "exited"})
      /\ With({"pending_entry"})' = With({"pending_entry"})
      /\ \A k \in DOMAIN legs : Kept(legs[k], legs'[k])
  BY <1>1, BarKeeps DEF Entered
<1>3. \A k \in DOMAIN legs, t \in Times : InRange(k, t)' => InRange(k, t)
  BY <1>1, <1>2 DEF InRange, Kept
<1>4. \A k \in DOMAIN legs : \A u : BrokeOut(k, u) => BrokeOut(k, u)'
  BY <1>2, <1>3 DEF BrokeOut, Kept
<1>5. \A k \in With({"active", "pending_exit", "exited"})' :
        BrokeOut(k, legs[k].entry_ts)'
  <2>. SUFFICES ASSUME NEW k \in With({"active", "pending_exit", "exited"})
                PROVE  BrokeOut(k, legs[k].entry_ts)'
    BY <1>2
  <2>1. k \in DOMAIN legs
    BY DEF With
  <2>2. legs'[k].entry_ts = legs[k].entry_ts
    BY <1>2, <2>1 DEF Kept
  <2>3. PICK u : u = legs[k].entry_ts
    OBVIOUS
  <2>4. BrokeOut(k, u)
    BY <2>3 DEF BreakInv, HeldBroke, CallsBroke
  <2>5. BrokeOut(k, u)'
    BY <1>4, <2>1, <2>4
  <2>. QED
    BY <2>2, <2>3, <2>5 DEF BrokeOut
<1>6. \A k \in With({"pending_entry"})' : BrokeOut(k, now)'
  <2>. SUFFICES ASSUME NEW k \in With({"pending_entry"}) PROVE BrokeOut(k, now)'
    BY <1>2
  <2>1. k \in DOMAIN legs
    BY DEF With
  <2>2. PICK u : u = now
    OBVIOUS
  <2>3. BrokeOut(k, u)
    BY <2>2 DEF BreakInv, HeldBroke, CallsBroke
  <2>4. BrokeOut(k, u)'
    BY <1>4, <2>1, <2>3
  <2>. QED
    BY <1>1, <2>2, <2>4 DEF BrokeOut
<1>7. ASSUME NEW k \in DOMAIN legs', BreaksOutNow(k)
      PROVE  /\ legs'[k].status = "waiting" /\ IsToday(k)' /\ BrokeOut(k, now)'
  <2>1. /\ legs'[k].status = "waiting" /\ IsToday(k) /\ Trades(legs'[k].inst)
        /\ params.range_end < Second
        /\ Bars[legs'[k].inst][now].close > legs'[k].high
    BY <1>7 DEF BreaksOutNow
  <2>2. ASSUME NEW t \in Times, InRange(k, t)'
        PROVE  Bars[legs'[k].inst][now].close > Bars[legs'[k].inst][t].high
    <3>1. /\ t \in DOMAIN Bars[legs'[k].inst] /\ DayOf[t] = k[1]
          /\ t % DayLength <= params.range_end
      BY <1>1, <2>2 DEF InRange
    <3>2. /\ now \in Times /\ now \in Nat /\ Second \in Nat
          /\ t \in Nat /\ t % DayLength \in Nat /\ params.range_end \in Nat
      BY BarSeen, TimeIsNat, ParamsAreNat DEF HostInv, Second
    <3>3. t <= now
      <4>. SUFFICES ASSUME ~(t <= now) PROVE FALSE
        OBVIOUS
      <4>1. Second <= t % DayLength
        BY <2>1, <3>1, <3>2, SameDay DEF IsToday, Today, Second
      <4>. QED
        BY <2>1, <3>1, <3>2, <4>1
    <3>4. Seen(t)'
      BY <3>3, BarSeen
    <3>5. Bars[legs'[k].inst][t].high <= legs'[k].high
      BY <1>7, <2>2, <3>4 DEF HighsInv
    <3>6. /\ legs'[k].inst \in Instruments /\ legs'[k].high \in Int
      <4>1. legs'[k] \in LegType
        BY <1>1, <1>7 DEF BarLegs, NewKeys
      <4>. QED
        BY <4>1 DEF LegType
    <3>7. /\ Bars[legs'[k].inst][t].high \in Int
          /\ Bars[legs'[k].inst][now].close \in Int
      BY <2>1, <3>1, <3>6, BarTypes DEF Trades
    <3>. QED
      BY <2>1, <3>5, <3>6, <3>7
  <2>3. BrokeOut(k, now)'
    BY <1>1, <2>2 DEF BrokeOut
  <2>. QED
    BY <1>1, <2>1, <2>3 DEF IsToday, Today
<1>8. ASSUME NEW n \in DOMAIN todo', todo'[n].tag[1] = "entry"
      PROVE  \E k \in DOMAIN legs' : todo'[n].tag[2] = k /\ BreaksOutNow(k)
  <2>1. PICK k \in DOMAIN legs' :
          \/ todo'[n] = Buy(k, legs'[k]) /\ BreaksOutNow(k)
          \/ \E r \in Reasons : todo'[n] = Sell(k, legs'[k], r)
    BY <1>1 DEF BarCalls
  <2>2. \A r \in Reasons : todo'[n] # Sell(k, legs'[k], r)
    BY <1>8 DEF Sell, Place
  <2>3. todo'[n].tag[2] = k
    BY <2>1, <2>2 DEF Buy, Place
  <2>. QED
    BY <2>1, <2>2, <2>3
<1>9. (\A n \in DOMAIN todo : todo[n].tag[1] = "entry" =>
         LET k == todo[n].tag[2]
         IN  legs[k].status = "waiting" /\ IsToday(k) /\ BrokeOut(k, now))'
  <2>1. \A n \in DOMAIN todo' : todo'[n].tag[1] = "entry" =>
          \A k : todo'[n].tag[2] = k =>
            legs'[k].status = "waiting" /\ IsToday(k)' /\ BrokeOut(k, now)'
    BY <1>7, <1>8
  <2>. QED
    BY <2>1 DEF IsToday, Today, BrokeOut, InRange
<1>10. \A m, n \in DOMAIN todo' :
         todo'[m].tag[1] = "entry" /\ todo'[m].tag = todo'[n].tag => m = n
  BY <1>1 DEF BarCalls
<1>. QED
  BY <1>5, <1>6, <1>9, <1>10 DEF BreakInv, HeldBroke, CallsBroke

LEMMA BreakoutsStay ==
  ASSUME LegsStay, UNCHANGED params, NEW k \in DOMAIN legs, NEW u, BrokeOut(k, u)
  PROVE  BrokeOut(k, u)'
<1>1. /\ legs'[k].inst = legs[k].inst /\ legs'[k].since = legs[k].since
  BY DEF LegsStay
<1>2. \A t \in Times : InRange(k, t)' => InRange(k, t)
  BY <1>1 DEF InRange
<1>. QED
  BY <1>1, <1>2 DEF BrokeOut

(* A leg that comes to be held was on its way, and its bar is that of now.  *)
LEMMA StillBroke ==
  ASSUME HeldBroke, LegsStay, UNCHANGED params,
         \A k \in With({"active", "pending_exit", "exited"})' :
           \/ /\ k \in With({"active", "pending_exit", "exited"})
              /\ legs'[k].entry_ts = legs[k].entry_ts
           \/ k \in With({"pending_entry"}) /\ legs'[k].entry_ts = now,
         \A k \in With({"pending_entry"})' :
           /\ now' = now /\ k \in DOMAIN legs
           /\ k \in With({"pending_entry"}) \/ BrokeOut(k, now)
  PROVE  HeldBroke'
<1>1. ASSUME NEW k \in With({"active", "pending_exit", "exited"})'
      PROVE  BrokeOut(k, legs[k].entry_ts)'
  <2>1. PICK u : u = legs'[k].entry_ts
    OBVIOUS
  <2>2. k \in DOMAIN legs /\ BrokeOut(k, u)
    BY <1>1, <2>1 DEF HeldBroke, With
  <2>3. BrokeOut(k, u)'
    BY <2>2, BreakoutsStay
  <2>. QED
    BY <2>1, <2>3 DEF BrokeOut
<1>2. ASSUME NEW k \in With({"pending_entry"})'
      PROVE  BrokeOut(k, now)'
  <2>1. PICK u : u = now
    OBVIOUS
  <2>2. k \in DOMAIN legs /\ BrokeOut(k, u) /\ now' = now
    BY <1>2, <2>1 DEF HeldBroke
  <2>3. BrokeOut(k, u)'
    BY <2>2, BreakoutsStay
  <2>. QED
    BY <2>1, <2>2, <2>3 DEF BrokeOut
<1>. QED
  BY <1>1, <1>2 DEF HeldBroke

LEMMA NoCallsBroke ==
  ASSUME todo' = <<>>
  PROVE  CallsBroke'
<1>1. \A n \in DOMAIN todo' : FALSE
  OBVIOUS
<1>. QED
  BY <1>1 DEF CallsBroke

(* The calls that are left are for legs that wait as before.                *)
LEMMA CallsLeft ==
  ASSUME HostInv, CallsBroke, LegsStay, UNCHANGED <<params, now>>,
         todo # <<>>, todo' = Tail(todo),
         \A n \in DOMAIN todo : n # 1 /\ todo[n].tag[1] = "entry" =>
           legs'[todo[n].tag[2]].status = "waiting"
  PROVE  CallsBroke'
<1>1. /\ LegsOK /\ CallsOK
      /\ \A n \in DOMAIN todo' : n + 1 \in DOMAIN todo /\ todo'[n] = todo[n + 1]
      /\ DOMAIN todo \subseteq Nat /\ DOMAIN todo' \subseteq Nat \ {0}
  <2>1. TodoIsSeq /\ TodoIsSeq'
    BY HeadAndTail DEF HostInv
  <2>2. DOMAIN todo \subseteq Nat /\ DOMAIN todo' \subseteq Nat \ {0}
    BY <2>1, LenProperties DEF TodoIsSeq
  <2>. QED
    BY <2>2, HeadAndTail DEF HostInv
<1>2. ASSUME NEW n \in DOMAIN todo', todo'[n].tag[1] = "entry", NEW k,
             todo'[n].tag[2] = k
      PROVE  legs'[k].status = "waiting" /\ IsToday(k)' /\ BrokeOut(k, now)'
  <2>1. /\ n + 1 \in DOMAIN todo /\ n + 1 # 1 /\ todo[n + 1].tag[1] = "entry"
        /\ todo[n + 1].tag[2] = k
    BY <1>1, <1>2
  <2>2. k \in DOMAIN legs
    BY <1>1, <2>1, CallIsOrder
  <2>3. PICK u : u = now
    OBVIOUS
  <2>4. IsToday(k) /\ BrokeOut(k, u)
    BY <2>1, <2>3 DEF CallsBroke
  <2>5. BrokeOut(k, u)'
    BY <2>2, <2>4, BreakoutsStay
  <2>6. BrokeOut(k, now)'
    BY <2>3, <2>5 DEF BrokeOut
  <2>. QED
    BY <2>1, <2>4, <2>6 DEF IsToday, Today
<1>3. (\A n \in DOMAIN todo : todo[n].tag[1] = "entry" =>
         LET k == todo[n].tag[2]
         IN  legs[k].status = "waiting" /\ IsToday(k) /\ BrokeOut(k, now))'
  BY <1>2 DEF IsToday, Today, BrokeOut, InRange
<1>4. \A m, n \in DOMAIN todo' :
        todo'[m].tag[1] = "entry" /\ todo'[m].tag = todo'[n].tag => m = n
  <2>. SUFFICES ASSUME NEW m \in DOMAIN todo', NEW n \in DOMAIN todo',
                       todo'[m].tag[1] = "entry", todo'[m].tag = todo'[n].tag
                PROVE  m = n
    OBVIOUS
  <2>1. m + 1 = n + 1
    BY <1>1 DEF CallsBroke
  <2>. QED
    BY <1>1, <2>1
<1>. QED
  BY <1>3, <1>4 DEF CallsBroke

LEMMA CallBreaks ==
  ASSUME LoopInv, HostInv, PursuitInv, BreakInv, OrderPlaced
  PROVE  BreakInv'
<1>1. PICK k : k = todo[1].tag[2]
  OBVIOUS
<1>2. /\ UNCHANGED <<params, now>> /\ todo # <<>> /\ todo' = Tail(todo)
      /\ k \in DOMAIN legs
      /\ \/ Refused
         \/ \E o : /\ Ordered(o)
                   /\ \/ Bought(k, o)
                      \/ \E r \in Reasons : Sold(k, o, r)
  BY <1>1, PlacedEffect
<1>3. LegsStay /\ HeldBroke /\ CallsBroke /\ LegsOK /\ CallsOK
  BY LegsMayStay DEF BreakInv, HostInv
<1>4. 1 \in DOMAIN todo
  BY <1>2, HeadAndTail DEF HostInv
<1>5. CASE Refused
  <2>1. legs' = legs
    BY <1>5 DEF Refused
  <2>2. HeldBroke'
    BY <1>2, <1>3, <2>1 DEF HeldBroke, BrokeOut, InRange, With
  <2>3. CallsBroke'
    BY <1>2, <1>3, <2>1, CallsLeft DEF CallsBroke
  <2>. QED
    BY <2>2, <2>3 DEF BreakInv
<1>6. ASSUME NEW o, Bought(k, o)
      PROVE  BreakInv'
  <2>1. /\ OnlyLeg(k) /\ legs'[k].status = "pending_entry"
        /\ todo[1].tag = <<"entry", k>> /\ todo[1].tag[1] = "entry"
    BY <1>6 DEF Bought
  <2>2. legs[k].status = "waiting" /\ BrokeOut(k, now) /\ k \in DOMAIN legs
    BY <1>1, <1>2, <1>3, <1>4, <2>1 DEF CallsBroke
  <2>3. /\ With({"active", "pending_exit", "exited"})'
             = With({"active", "pending_exit", "exited"})
        /\ k \notin With({"active", "pending_exit", "exited"})
        /\ With({"pending_entry"})' = With({"pending_entry"}) \cup {k}
    BY <2>1, <2>2 DEF With, OnlyLeg
  <2>4. \A j \in With({"active", "pending_exit", "exited"}) :
          legs'[j].entry_ts = legs[j].entry_ts
    BY <2>1, <2>3 DEF With, OnlyLeg
  <2>5. With({"pending_entry"}) \subseteq DOMAIN legs
    BY DEF With
  <2>6. HeldBroke'
    BY <1>2, <1>3, <2>2, <2>3, <2>4, <2>5, StillBroke
  <2>7. \A n \in DOMAIN todo : n # 1 /\ todo[n].tag[1] = "entry" =>
          legs'[todo[n].tag[2]].status = "waiting"
    <3>. SUFFICES ASSUME NEW n \in DOMAIN todo, n # 1, todo[n].tag[1] = "entry"
                  PROVE  legs'[todo[n].tag[2]].status = "waiting"
      OBVIOUS
    <3>1. PICK j : j = todo[n].tag[2]
      OBVIOUS
    <3>2. j \in DOMAIN legs /\ todo[n].tag = <<"entry", j>>
      BY <1>3, <3>1, CallIsOrder
    <3>3. todo[1].tag # todo[n].tag
      BY <1>3, <1>4, <2>1 DEF CallsBroke
    <3>4. j # k
      BY <2>1, <3>2, <3>3
    <3>5. legs[j].status = "waiting"
      BY <1>3, <3>1 DEF CallsBroke
    <3>. QED
      BY <2>1, <3>1, <3>2, <3>4, <3>5 DEF OnlyLeg
  <2>8. CallsBroke'
    BY <1>2, <1>3, <2>7, CallsLeft
  <2>. QED
    BY <2>6, <2>8 DEF BreakInv
<1>7. ASSUME NEW o, NEW r, Sold(k, o, r)
      PROVE  BreakInv'
  <2>1. /\ OnlyLeg(k) /\ legs[k].status = "active"
        /\ legs'[k].status = "pending_exit" /\ legs'[k].entry_ts = legs[k].entry_ts
    BY <1>7 DEF Sold
  <2>2. /\ With({"active", "pending_exit", "exited"})'
             = With({"active", "pending_exit", "exited"})
        /\ With({"pending_entry"})' = With({"pending_entry"})
    BY <2>1 DEF With, OnlyLeg
  <2>3. \A j \in With({"active", "pending_exit", "exited"}) :
          legs'[j].entry_ts = legs[j].entry_ts
    BY <2>1 DEF With, OnlyLeg
  <2>4. With({"pending_entry"}) \subseteq DOMAIN legs
    BY DEF With
  <2>5. HeldBroke'
    BY <1>2, <1>3, <2>2, <2>3, <2>4, StillBroke
  <2>6. \A n \in DOMAIN todo : n # 1 /\ todo[n].tag[1] = "entry" =>
          legs'[todo[n].tag[2]].status = "waiting"
    <3>. SUFFICES ASSUME NEW n \in DOMAIN todo, n # 1, todo[n].tag[1] = "entry"
                  PROVE  legs'[todo[n].tag[2]].status = "waiting"
      OBVIOUS
    <3>1. PICK j : j = todo[n].tag[2]
      OBVIOUS
    <3>2. j \in DOMAIN legs /\ legs[j].status = "waiting"
      BY <1>3, <3>1, CallIsOrder DEF CallsBroke
    <3>. QED
      BY <2>1, <3>1, <3>2 DEF OnlyLeg
  <2>7. CallsBroke'
    BY <1>2, <1>3, <2>6, CallsLeft
  <2>. QED
    BY <2>5, <2>7 DEF BreakInv
<1>. QED
  BY <1>2, <1>5, <1>6, <1>7

LEMMA FillBreaks ==
  ASSUME LoopInv, HostInv, PursuitInv, BreakInv, OnFillEvent
  PROVE  BreakInv'
<1>1. /\ todo' = <<>> /\ UNCHANGED <<vars, params>>
      /\ \E o \in Unconfirmed :
           /\ Pursued(o) /\ cur.fill.id = o.id
           /\ \/ o.side = "buy" /\ EntryBooked(cur.fill) /\ cur.fill.ts = now
              \/ o.side = "sell" /\ ExitBooked(cur.fill)
  BY FilledLeg
<1>2. PICK o \in Unconfirmed :
           /\ Pursued(o) /\ cur.fill.id = o.id
           /\ \/ o.side = "buy" /\ EntryBooked(cur.fill) /\ cur.fill.ts = now
              \/ o.side = "sell" /\ ExitBooked(cur.fill)
  BY <1>1
<1>3. LegsStay /\ HeldBroke /\ LegsOK /\ CallsBroke' /\ UNCHANGED <<params, now>>
  BY <1>1, LegsMayStay, NoCallsBroke DEF BreakInv, HostInv, vars, clockVars
<1>4. CASE o.side = "buy" /\ EntryBooked(cur.fill) /\ cur.fill.ts = now
  <2>1. PICK k : k = entry_orders[cur.fill.id]
    OBVIOUS
  <2>2. /\ OnlyLeg(k) /\ k \in DOMAIN legs /\ legs[k].status = "pending_entry"
        /\ legs'[k].status = "active" /\ legs'[k].entry_ts = now
    BY <1>2, <1>3, <1>4, <2>1 DEF EntryBooked, Pursued, LegsOK
  <2>3. /\ With({"active", "pending_exit", "exited"})'
             = With({"active", "pending_exit", "exited"}) \cup {k}
        /\ k \in With({"pending_entry"})
        /\ With({"pending_entry"})' \subseteq With({"pending_entry"})
    BY <2>2 DEF With, OnlyLeg
  <2>4. \A j \in With({"active", "pending_exit", "exited"}) :
          legs'[j].entry_ts = legs[j].entry_ts
    BY <2>2 DEF With, OnlyLeg
  <2>5. With({"pending_entry"}) \subseteq DOMAIN legs
    BY DEF With
  <2>6. HeldBroke'
    BY <1>3, <2>2, <2>3, <2>4, <2>5, StillBroke
  <2>. QED
    BY <1>3, <2>6 DEF BreakInv
<1>5. CASE o.side = "sell" /\ ExitBooked(cur.fill)
  <2>1. PICK k : k = exit_orders[cur.fill.id].leg
    OBVIOUS
  <2>2. /\ OnlyLeg(k) /\ k \in DOMAIN legs /\ legs[k].status = "pending_exit"
        /\ legs'[k].status = "exited" /\ legs'[k].entry_ts = legs[k].entry_ts
    BY <1>2, <1>3, <1>5, <2>1 DEF ExitBooked, Pursued, LegsOK
  <2>3. /\ With({"active", "pending_exit", "exited"})'
             = With({"active", "pending_exit", "exited"})
        /\ With({"pending_entry"})' \subseteq With({"pending_entry"})
    BY <2>2 DEF With, OnlyLeg
  <2>4. \A j \in With({"active", "pending_exit", "exited"}) :
          legs'[j].entry_ts = legs[j].entry_ts
    BY <2>2 DEF With, OnlyLeg
  <2>5. With({"pending_entry"}) \subseteq DOMAIN legs
    BY DEF With
  <2>6. HeldBroke'
    BY <1>3, <2>3, <2>4, <2>5, StillBroke
  <2>. QED
    BY <1>3, <2>6 DEF BreakInv
<1>. QED
  BY <1>2, <1>4, <1>5

LEMMA OtherBreaks ==
  ASSUME LoopInv, HostInv, PursuitInv, BreakInv,
         \/ OtherCallback \/ SkipCall
         \/ Proceed /\ UNCHANGED orbVars
  PROVE  BreakInv'
<1>1. UNCHANGED <<legs, params>> /\ HeldBroke /\ CallsBroke
  BY DEF OtherCallback, SkipCall, orbVars, BreakInv
<1>2. /\ With({"active", "pending_exit", "exited"})'
           = With({"active", "pending_exit", "exited"})
      /\ With({"pending_entry"})' = With({"pending_entry"})
      /\ With({"pending_entry"}) \subseteq DOMAIN legs
  BY <1>1 DEF With
<1>3. now' = now \/ With({"pending_entry"}) = {}
  <2>1. CASE OtherCallback \/ SkipCall
    BY <2>1 DEF OtherCallback, SkipCall, Handle, vars, clockVars
  <2>2. CASE Proceed /\ UNCHANGED orbVars
    BY <2>2, ClockMoves
  <2>. QED
    BY <2>1, <2>2
<1>4. LegsStay
  BY <1>1, LegsMayStay
<1>5. HeldBroke'
  BY <1>1, <1>2, <1>3, <1>4, StillBroke
<1>6. CASE OtherCallback
  BY <1>5, <1>6, NoCallsBroke DEF OtherCallback, Handle, BreakInv
<1>7. CASE SkipCall
  <2>1. UNCHANGED now /\ todo # <<>> /\ todo' = Tail(todo)
    BY <1>7 DEF SkipCall, vars, clockVars
  <2>2. CallsBroke'
    BY <1>1, <1>4, <2>1, CallsLeft DEF CallsBroke
  <2>. QED
    BY <1>5, <2>2 DEF BreakInv
<1>8. CASE Proceed /\ UNCHANGED orbVars
  BY <1>5, <1>8, ProceedEffect, NoCallsBroke DEF BreakInv
<1>. QED
  BY <1>6, <1>7, <1>8

-----------------------------------------------------------------------------
(* A held leg that must be sold is sold.                                    *)

LEMMA BarSales ==
  ASSUME LoopInv, HostInv, SalesInv, OnMarketEvent
  PROVE  SalesInv'
<1>1. /\ BarLegs /\ BarCalls /\ UNCHANGED <<params, now>>
  BY BarEffect DEF vars, clockVars
<1>2. /\ With({"active"})' = With({"active"})
      /\ \A k \in DOMAIN legs : k \in DOMAIN legs' /\ Kept(legs[k], legs'[k])
  BY <1>1, BarKeeps DEF Entered
<1>3. SUFFICES ASSUME NEW k \in With({"active"}), NEW t \in Times, t <= now,
                      MustSell(k, t)'
               PROVE  t = now /\ SaleInHand(k)'
  BY <1>1, <1>2, BarSeen DEF SalesInv
<1>4. k \in DOMAIN legs /\ legs'[k].status = "active"
  BY <1>2 DEF With
<1>5. MustSell(k, t)
  BY <1>1, <1>2, <1>3, <1>4 DEF MustSell, Kept
<1>6. t = now
  <2>1. Seen(t) => t = now
    BY <1>5 DEF SalesInv
  <2>2. t \in Nat /\ now \in Nat
    BY BarSeen, TimeIsNat
  <2>. QED
    BY <1>3, <2>1, <2>2, BarSeen
<1>7. Touches(legs'[k]) \/ DueByTime(k, legs'[k])
  BY <1>1, <1>3, <1>4, <1>6 DEF MustSell, Touches, DueByTime, Trades, Today, Second
<1>8. SaleInHand(k)'
  BY <1>1, <1>2, <1>4, <1>7 DEF BarCalls
<1>. QED
  BY <1>6, <1>8

(* Steps after which no more is held than before, and which leave the sales *)
(* of what is held in hand.                                                 *)
LEMMA StillToSell ==
  ASSUME SalesInv, UNCHANGED <<params, now>>,
         \A t \in Times : Seen(t)' => Seen(t),
         \A k \in With({"active"})' :
           /\ k \in With({"active"}) /\ legs'[k] = legs[k]
           /\ SaleInHand(k) => SaleInHand(k)'
  PROVE  SalesInv'
<1>1. \A k \in With({"active"})', t \in Times : MustSell(k, t)' => MustSell(k, t)
  BY DEF MustSell
<1>. QED
  BY <1>1 DEF SalesInv

LEMMA SaleLeft ==
  ASSUME TodoIsSeq, todo # <<>>, todo' = Tail(todo), NEW k,
         ~(todo[1].tag[1] = "exit" /\ todo[1].tag[2] = k), SaleInHand(k)
  PROVE  SaleInHand(k)'
<1>1. PICK n \in DOMAIN todo : todo[n].tag[1] = "exit" /\ todo[n].tag[2] = k
  BY DEF SaleInHand
<1>2. n # 1
  BY <1>1
<1>3. n - 1 \in DOMAIN todo' /\ todo'[n - 1] = todo[n]
  BY <1>2, HeadAndTail
<1>. QED
  BY <1>1, <1>3 DEF SaleInHand

LEMMA CallSales ==
  ASSUME LoopInv, HostInv, SalesInv, BreakInv, ~HasAllocator, OrderPlaced
  PROVE  SalesInv'
<1>1. PICK k : k = todo[1].tag[2]
  OBVIOUS
<1>2. /\ UNCHANGED <<params, now>> /\ todo # <<>> /\ todo' = Tail(todo)
      /\ k \in DOMAIN legs
      /\ \/ Refused
         \/ \E o : /\ Ordered(o)
                   /\ \/ Bought(k, o)
                      \/ \E r \in Reasons : Sold(k, o, r)
  BY <1>1, PlacedEffect
<1>3. /\ TodoIsSeq /\ 1 \in DOMAIN todo /\ CallsBroke
      /\ \A t \in Times : Seen(t)' => Seen(t)
  BY <1>2, HeadAndTail, CallSeen DEF HostInv, BreakInv
<1>4. CASE Refused
  <2>1. legs' = legs /\ todo[1].tag[1] # "exit"
    BY <1>4 DEF Refused
  <2>2. \A j : SaleInHand(j) => SaleInHand(j)'
    BY <1>2, <1>3, <2>1, SaleLeft
  <2>3. With({"active"})' = With({"active"})
    BY <2>1 DEF With
  <2>. QED
    BY <1>2, <1>3, <2>1, <2>2, <2>3, StillToSell
<1>5. CASE \E o : Bought(k, o) \/ \E r \in Reasons : Sold(k, o, r)
  <2>1. /\ OnlyLeg(k) /\ legs'[k].status # "active"
    BY <1>5 DEF Bought, Sold
  <2>2. \A j \in With({"active"})' :
          j # k /\ j \in With({"active"}) /\ legs'[j] = legs[j]
    BY <2>1 DEF With, OnlyLeg
  <2>3. ASSUME NEW j, j # k, SaleInHand(j)
        PROVE  SaleInHand(j)'
    BY <1>1, <1>2, <1>3, <2>3, SaleLeft
  <2>. QED
    BY <1>2, <1>3, <2>2, <2>3, StillToSell
<1>. QED
  BY <1>2, <1>4, <1>5

LEMMA FillSales ==
  ASSUME LoopInv, HostInv, PursuitInv, SalesInv, OnFillEvent
  PROVE  SalesInv'
<1>1. /\ FillInHand /\ UNCHANGED <<vars, params>>
      /\ \E o \in Unconfirmed :
           /\ Pursued(o) /\ cur.fill.id = o.id
           /\ \/ o.side = "buy" /\ EntryBooked(cur.fill) /\ cur.fill.ts = now
              \/ o.side = "sell" /\ ExitBooked(cur.fill)
  BY FilledLeg
<1>2. PICK o \in Unconfirmed :
           /\ Pursued(o) /\ cur.fill.id = o.id
           /\ \/ o.side = "buy" /\ EntryBooked(cur.fill) /\ cur.fill.ts = now
              \/ o.side = "sell" /\ ExitBooked(cur.fill)
  BY <1>1
<1>3. LegsOK /\ UNCHANGED <<params, now>>
  BY <1>1 DEF HostInv, vars, clockVars
<1>4. \A k : ~SaleInHand(k)
  <2>1. todo = <<>>
    BY <1>1 DEF HostInv, CallsOK, FillInHand
  <2>. QED
    BY <2>1 DEF SaleInHand
<1>5. \A t \in Times : Seen(t)' => Seen(t)
  BY CallSeen
<1>6. CASE o.side = "buy" /\ EntryBooked(cur.fill) /\ cur.fill.ts = now
  <2>1. PICK k : k = entry_orders[cur.fill.id]
    OBVIOUS
  <2>2. /\ OnlyLeg(k) /\ k \in DOMAIN legs /\ legs[k].status = "pending_entry"
        /\ legs'[k].status = "active" /\ legs'[k].entry_ts = now
    BY <1>2, <1>3, <1>6, <2>1 DEF EntryBooked, Pursued, LegsOK
  <2>3. now \in Times /\ k[1] = DayOf[now]
    BY <2>2 DEF PursuitInv, With, IsToday, Today
  <2>4. ASSUME NEW t \in Times, Seen(t)
        PROVE  ~MustSell(k, t)'
    <3>1. t <= now
      BY <2>4, SeenIsPast
    <3>2. t \in Nat /\ now \in Nat /\ DayOf[t] \in Nat /\ DayOf[now] \in Nat
      BY <2>3, TimeIsNat, EngineAssumption
    <3>3. DayOf[t] <= DayOf[now]
      BY <2>3, <3>1, EngineAssumption
    <3>4. ~(t > legs'[k].entry_ts)
      BY <2>2, <3>1, <3>2
    <3>5. ~(DayOf[t] > k[1])
      BY <2>3, <3>2, <3>3
    <3>. QED
      BY <3>4, <3>5 DEF MustSell
  <2>5. \A j \in With({"active"})' :
          j # k => j \in With({"active"}) /\ legs'[j] = legs[j]
    BY <2>2 DEF With, OnlyLeg
  <2>6. \A j \in With({"active"})', t \in Times : Seen(t) => ~MustSell(j, t)'
    <3>1. \A j \in With({"active"}), t \in Times : Seen(t) => ~MustSell(j, t)
      BY <1>4 DEF SalesInv
    <3>2. \A j, t : legs'[j] = legs[j] => (MustSell(j, t)' <=> MustSell(j, t))
      BY <1>3 DEF MustSell
    <3>. QED
      BY <2>4, <2>5, <3>1, <3>2
  <2>. QED
    BY <1>5, <2>6 DEF SalesInv
<1>7. CASE o.side = "sell" /\ ExitBooked(cur.fill)
  <2>1. PICK k : k = exit_orders[cur.fill.id].leg
    OBVIOUS
  <2>2. /\ OnlyLeg(k) /\ k \in DOMAIN legs /\ legs'[k].status = "exited"
    BY <1>2, <1>3, <1>7, <2>1 DEF ExitBooked, Pursued, LegsOK
  <2>3. \A j \in With({"active"})' : j \in With({"active"}) /\ legs'[j] = legs[j]
    BY <2>2 DEF With, OnlyLeg
  <2>. QED
    BY <1>3, <1>4, <1>5, <2>3, StillToSell
<1>. QED
  BY <1>2, <1>6, <1>7

LEMMA OtherSales ==
  ASSUME LoopInv, HostInv, PursuitInv, SalesInv,
         \/ OtherCallback \/ SkipCall
         \/ Proceed /\ UNCHANGED orbVars
  PROVE  SalesInv'
<1>1. UNCHANGED <<legs, params>> /\ With({"active"})' = With({"active"})
  BY DEF OtherCallback, SkipCall, orbVars, With
<1>2. CASE OtherCallback
  <2>1. todo = <<>> /\ UNCHANGED now
    BY <1>2 DEF OtherCallback, Handle, HostInv, CallsOK, vars, clockVars
  <2>2. \A k : ~SaleInHand(k)
    BY <2>1 DEF SaleInHand
  <2>3. \A t \in Times : Seen(t)' => Seen(t)
    BY <1>2, CallSeen
  <2>. QED
    BY <1>1, <2>1, <2>2, <2>3, StillToSell
<1>3. CASE SkipCall
  <2>1. /\ todo # <<>> /\ todo' = Tail(todo) /\ TodoIsSeq /\ UNCHANGED now
        /\ todo[1].tag[1] = "exit" /\ legs[todo[1].tag[2]].status # "active"
    BY <1>3, HeadAndTail DEF SkipCall, NotNeeded, HostInv, vars, clockVars
  <2>2. ASSUME NEW k \in With({"active"}), SaleInHand(k)
        PROVE  SaleInHand(k)'
    <3>1. todo[1].tag[2] # k
      BY <2>1 DEF With
    <3>. QED
      BY <2>1, <2>2, <3>1, SaleLeft
  <2>3. \A t \in Times : Seen(t)' => Seen(t)
    BY <1>3, CallSeen
  <2>. QED
    BY <1>1, <2>1, <2>2, <2>3, StillToSell
<1>4. CASE Proceed /\ UNCHANGED orbVars
  <2>1. todo = <<>> /\ \A t \in Times : Seen(t)' => Seen(t)
    BY <1>4, ProceedEffect, ProceedSeen
  <2>2. \A k : ~SaleInHand(k)
    BY <2>1 DEF SaleInHand
  <2>3. \A k \in With({"active"}), t \in Times : Seen(t) => ~MustSell(k, t)
    BY <2>2 DEF SalesInv
  <2>4. \A k, t : MustSell(k, t)' <=> MustSell(k, t)
    BY <1>1 DEF MustSell
  <2>. QED
    BY <1>1, <2>1, <2>3, <2>4 DEF SalesInv
<1>. QED
  BY <1>2, <1>3, <1>4

-----------------------------------------------------------------------------
(* Every step keeps the invariant.                                          *)

LEMMA InitLegInv == OrbInit => LegInv
<1>. SUFFICES ASSUME OrbInit PROVE LegInv
  OBVIOUS
<1>1. /\ DOMAIN legs = {} /\ DOMAIN entry_orders = {} /\ DOMAIN exit_orders = {}
      /\ DOMAIN todo = {} /\ order_events = {} /\ cb = "init"
  <2>1. /\ legs = <<>> /\ entry_orders = <<>> /\ exit_orders = <<>>
        /\ todo = <<>> /\ order_events = {} /\ cb = "init"
    BY DEF OrbInit, HostInit, Init
  <2>. QED
    BY <2>1
<1>10. /\ \A i \in Instruments : positions[i].qty = 0
       /\ stats = [instances |-> 0, entries |-> 0, target |-> 0, stop_loss |-> 0,
                   time |-> 0, no_breakout |-> 0]
  BY DEF OrbInit, HostInit, Init, LedgerInit, NewPosition
<1>2. Cardinality({}) = 0 /\ Quantity \in Nat
  BY FS_EmptySet, OrbAssumption
<1>3. \A S : With(S) = {}
  BY <1>1 DEF With
<1>4. Unconfirmed = {}
  BY <1>1 DEF Unconfirmed
<1>5. PursuitInv
  BY <1>1, <1>3, <1>4 DEF PursuitInv
<1>6. PositionsInv
  <2>1. ~FillInHand
    BY <1>1 DEF FillInHand, In
  <2>2. Held = {}
    BY <1>3, <2>1 DEF Held
  <2>3. \A i : {k \in Held : legs[k].inst = i} = {}
    BY <2>2
  <2>4. Quantity * 0 = 0
    BY <1>2
  <2>. QED
    BY <1>2, <1>10, <2>3, <2>4 DEF PositionsInv
<1>7. StatsInv
  <2>1. \A r : {k \in With({"exited"}) : legs[k].reason = r} = {}
    BY <1>3
  <2>2. \A r \in Reasons : stats[r] = 0
    BY <1>10 DEF Reasons
  <2>3. stats.instances = 0 /\ stats.entries = 0 /\ stats.no_breakout = 0
    BY <1>10
  <2>4. \A r \in Reasons :
          stats[r] = Cardinality({k \in With({"exited"}) : legs[k].reason = r})
    BY <1>2, <2>1, <2>2
  <2>5. 2 * stats.instances = 0
    BY <2>3
  <2>. QED
    BY <1>1, <1>2, <1>3, <2>3, <2>4, <2>5 DEF StatsInv
<1>8. WaitingInv /\ HighsInv /\ SalesInv
  BY <1>1, <1>3 DEF WaitingInv, HighsInv, SalesInv
<1>9. BreakInv
  BY <1>1, <1>3 DEF BreakInv, HeldBroke, CallsBroke
<1>. QED
  BY <1>5, <1>6, <1>7, <1>8, <1>9 DEF LegInv

(* No order is ever forgotten, so distinct ids always were.                  *)
LEMMA OrdersStay ==
  ASSUME LoopInv, HostInv, [OrbNext]_allVars
  PROVE  order_events \subseteq order_events'
<1>1. CASE OnMarketEvent \/ OnFillEvent \/ OtherCallback \/ SkipCall
  BY <1>1 DEF OnMarketEvent, OnFillEvent, OtherCallback, SkipCall, Handle,
     vars, orderVars
<1>2. CASE OrderPlaced
  BY <1>2, PlacedEffect DEF Refused, Ordered
<1>3. CASE Proceed /\ UNCHANGED orbVars
  BY <1>3, ProceedEffect
<1>4. CASE (HostStops /\ UNCHANGED orbVars) \/ UNCHANGED allVars
  BY <1>4 DEF HostStops, Terminating, allVars, vars, orderVars
<1>. QED
  BY <1>1, <1>2, <1>3, <1>4 DEF OrbNext

LEMMA DistinctBefore ==
  ASSUME LoopInv, HostInv, [OrbNext]_allVars, OrderIdsDistinct'
  PROVE  OrderIdsDistinct
  BY OrdersStay DEF OrderIdsDistinct

LEMMA SameLegInv ==
  ASSUME LegInv, UNCHANGED allVars
  PROVE  LegInv'
<1>1. UNCHANGED <<pc, cb, phase, cur, step, now, order_events, pending_orders,
                  trades, positions, todo, handled, orbVars>>
  BY DEF allVars, vars, loopVars, clockVars, orderVars, ledgerVars, accountVars,
     hostVars
<1>2. UNCHANGED <<params, legs, entry_orders, exit_orders, stats>>
  BY <1>1 DEF orbVars
<1>3. /\ FillInHand' = FillInHand /\ Booked' = Booked
      /\ \A S : With(S)' = With(S)
      /\ \A t \in Times : Seen(t)' = Seen(t)
  BY <1>1, <1>2 DEF FillInHand, In, Booked, With, Seen
<1>4. Unconfirmed' = Unconfirmed /\ Held' = Held
  BY <1>1, <1>2, <1>3 DEF Unconfirmed, Held
<1>5. PursuitInv'
  BY <1>1, <1>2, <1>3, <1>4 DEF LegInv, PursuitInv, Pursued, IsToday, Today
<1>6. PositionsInv' /\ StatsInv'
  BY <1>1, <1>2, <1>3, <1>4 DEF LegInv, PositionsInv, StatsInv
<1>7. WaitingInv' /\ HighsInv'
  BY <1>1, <1>2, <1>3 DEF LegInv, WaitingInv, HighsInv, InRange
<1>8. BreakInv'
  BY <1>1, <1>2, <1>3
     DEF LegInv, BreakInv, HeldBroke, CallsBroke, BrokeOut, InRange, IsToday,
         Today
<1>9. ~HasAllocator => SalesInv'
  BY <1>1, <1>2, <1>3 DEF LegInv, SalesInv, MustSell, SaleInHand
<1>. QED
  BY <1>5, <1>6, <1>7, <1>8, <1>9 DEF LegInv

LEMMA StepLegInv ==
  ASSUME LoopInv, HostInv, LegInv, LoopInv', HostInv', OrderIdsDistinct',
         [OrbNext]_allVars
  PROVE  LegInv'
<1>1. /\ PursuitInv /\ PositionsInv /\ StatsInv /\ WaitingInv /\ HighsInv
      /\ BreakInv /\ (~HasAllocator => SalesInv)
  BY DEF LegInv
<1>2. OrderIdsDistinct
  BY DistinctBefore
<1>3. ASSUME \/ OrderPlaced \/ OnFillEvent \/ OtherCallback \/ SkipCall
             \/ Proceed /\ UNCHANGED orbVars
      PROVE  WaitingInv' /\ HighsInv'
  <2>1. LegsStay
    BY <1>1, <1>3, LegsMayStay DEF orbVars
  <2>2. UNCHANGED params
    BY <1>3 DEF OrderPlaced, OnFillEvent, OtherCallback, SkipCall, EntryFilled,
       ExitFilled, orbVars
  <2>3. step \in Int
    BY TimesArePositive DEF LoopInv, ConservationInv, TypeInv, LoopOK
  <2>4. step <= step' /\ \A t \in Times : Seen(t)' => Seen(t)
    BY <1>3, <2>3, CallSeen, ProceedSeen
  <2>. QED
    BY <1>1, <2>1, <2>2, <2>4, StillWaiting, HighsStay
<1>4. CASE OnMarketEvent
  <2>1. WaitingInv' /\ HighsInv'
    BY <1>1, <1>4, BarWaiting, BarHighs
  <2>2. PursuitInv' /\ PositionsInv' /\ StatsInv' /\ BreakInv'
    BY <1>1, <1>4, <2>1, BarPursuit, BarPositions, BarStatistics, BarBreaks
  <2>3. ~HasAllocator => SalesInv'
    BY <1>1, <1>4, BarSales
  <2>. QED
    BY <2>1, <2>2, <2>3 DEF LegInv
<1>5. CASE OrderPlaced
  <2>1. PursuitInv' /\ PositionsInv' /\ StatsInv' /\ BreakInv'
    BY <1>1, <1>5, CallPursuit, CallPositions, CallStatistics, CallBreaks
  <2>2. ~HasAllocator => SalesInv'
    BY <1>1, <1>5, CallSales
  <2>. QED
    BY <1>3, <1>5, <2>1, <2>2 DEF LegInv
<1>6. CASE OnFillEvent
  <2>1. PursuitInv' /\ PositionsInv' /\ StatsInv' /\ BreakInv'
    BY <1>1, <1>2, <1>6, FillPursuit, FillPositions, FillStatistics, FillBreaks
  <2>2. ~HasAllocator => SalesInv'
    BY <1>1, <1>6, FillSales
  <2>. QED
    BY <1>3, <1>6, <2>1, <2>2 DEF LegInv
<1>7. CASE OtherCallback \/ SkipCall
  <2>1. PursuitInv' /\ PositionsInv' /\ BreakInv'
    BY <1>1, <1>7, OtherPursuit, OtherPositions, OtherBreaks
  <2>2. StatsInv'
    <3>1. UNCHANGED <<legs, stats>>
      BY <1>7 DEF OtherCallback, SkipCall, orbVars
    <3>. QED
      BY <1>1, <3>1 DEF StatsInv, With
  <2>3. ~HasAllocator => SalesInv'
    BY <1>1, <1>7, OtherSales
  <2>. QED
    BY <1>3, <1>7, <2>1, <2>2, <2>3 DEF LegInv
<1>8. CASE Proceed /\ UNCHANGED orbVars
  <2>1. PursuitInv' /\ PositionsInv' /\ BreakInv'
    BY <1>1, <1>8, ProceedPursuit, ProceedPositions, OtherBreaks
  <2>2. StatsInv'
    BY <1>1, <1>8 DEF orbVars, StatsInv, With
  <2>3. ~HasAllocator => SalesInv'
    BY <1>1, <1>8, OtherSales
  <2>. QED
    BY <1>3, <1>8, <2>1, <2>2, <2>3 DEF LegInv
<1>9. CASE (HostStops /\ UNCHANGED orbVars) \/ UNCHANGED allVars
  BY <1>9, SameLegInv DEF HostStops, Terminating, allVars
<1>. QED
  BY <1>4, <1>5, <1>6, <1>7, <1>8, <1>9 DEF OrbNext

(* The invariant holds whatever the ids are; while they are distinct, so do  *)
(* its parts about orders and legs.                                         *)
THEOREM OrbInvariant == OrbSpec => []OrbInv
<1>1. OrbInit => OrbInv
  BY InitLoopInv, InitHostInv, InitLegInv DEF OrbInv, OrbInit, HostInit
<1>2. OrbInv /\ [OrbNext]_allVars => OrbInv'
  <2>. SUFFICES ASSUME OrbInv, [OrbNext]_allVars PROVE OrbInv'
    OBVIOUS
  <2>1. LoopInv /\ HostInv
    BY DEF OrbInv
  <2>2. [AnyNext]_vars
    BY <2>1, OrbStepIsEngineStep DEF LoopInv, ConservationInv
  <2>3. LoopInv' /\ HostInv'
    BY <2>1, <2>2, StepLoopInv, StepHostInv
  <2>4. ASSUME OrderIdsDistinct' PROVE LegInv'
    <3>1. LegInv
      BY <2>1, <2>4, DistinctBefore DEF OrbInv
    <3>. QED
      BY <2>1, <2>3, <2>4, <3>1, StepLegInv
  <2>. QED
    BY <2>3, <2>4 DEF OrbInv
<1>. QED
  BY <1>1, <1>2, PTL DEF OrbSpec

-----------------------------------------------------------------------------
(* Order ids: a second times 1000, and the length of the buffer, which only  *)
(* grows while on_market_event makes its calls.                              *)

FewEvents == Cardinality(event_buffer) <= 1000

(* Every order was given its id in the on_market_event of its second, below  *)
(* the id the next one will be given in that second.                         *)
IdsInv ==
  /\ \A o \in order_events :
       /\ o.at \in Times /\ Seen(o.at)
       /\ o.at * 1000 <= o.id /\ o.id < o.at * 1000 + 1000
       /\ In("on_market_event") /\ handled /\ o.at = now => o.id < GenerateOrderId
  /\ OrderIdsDistinct

LEMMA PlacedIds ==
  ASSUME LoopInv, HostInv, IdsInv, FewEvents', OrderPlaced
  PROVE  IdsInv'
<1>1. /\ pc = "callback" /\ cb = "on_market_event" /\ handled
      /\ UNCHANGED <<pc, cb, phase, step, now, handled>>
      /\ Refused \/ \E o : Ordered(o)
  BY PlacedEffect
<1>2. \A t \in Times : Seen(t) <=> Seen(t)'
  BY <1>1 DEF Seen
<1>3. In("on_market_event") /\ In("on_market_event")'
  BY <1>1 DEF In
<1>4. /\ IsFiniteSet(event_buffer) /\ IsFiniteSet(event_buffer')
      /\ Cardinality(event_buffer) \in Nat /\ Cardinality(event_buffer') \in Nat
      /\ now \in Times /\ now \in Nat
  <2>1. TypeInv /\ ClockInv
    BY DEF LoopInv, ConservationInv
  <2>2. IsFiniteSet(event_buffer) /\ IsFiniteSet(event_buffer')
    BY <1>1, <2>1, FS_AddElement DEF TypeInv, QueuesOK, Refused, Ordered
  <2>3. now \in Times
    BY <1>1, <2>1 DEF ClockInv, IntradayCallbacks, TypeInv, LoopOK
  <2>. QED
    BY <2>2, <2>3, FS_CardinalityType, EngineAssumption
<1>5. \A o \in order_events : o.id \in Nat /\ o.at \in Nat
  BY DEF LoopInv, ConservationInv, TypeInv, QueuesOK, Orders
<1>. DEFINE m == Cardinality(event_buffer)
            n == Cardinality(event_buffer)'
<1>6. /\ GenerateOrderId = now * 1000 + m
      /\ GenerateOrderId' = now * 1000 + n
  BY <1>1 DEF GenerateOrderId
<1>7. m \in Nat /\ n \in Nat /\ n <= 1000
  BY <1>4 DEF FewEvents
<1>8. m <= n
  BY <1>1, <1>4, FS_Subset DEF Refused, Ordered
<1>. HIDE DEF m, n
<1>9. \A o \in order_events :
        o.at = now => o.id < now * 1000 + m /\ o.id < now * 1000 + n
  BY <1>1, <1>3, <1>4, <1>5, <1>6, <1>7, <1>8 DEF IdsInv
<1>10. CASE Refused
  <2>1. order_events' = order_events
    BY <1>10 DEF Refused
  <2>. QED
    BY <1>1, <1>2, <1>6, <1>9, <2>1 DEF IdsInv, OrderIdsDistinct
<1>11. ASSUME NEW o, Ordered(o)
       PROVE  IdsInv'
  <2>1. /\ order_events' = order_events \cup {o}
        /\ event_buffer' = event_buffer \cup {OrderEvent(o)}
        /\ o.at = now /\ o.id = now * 1000 + m /\ o.uid = born + 1
    BY <1>6, <1>11 DEF Ordered
  <2>2. OrderEvent(o) \notin event_buffer
    <3>1. EventsWhole /\ UidsIdentify /\ born \in Nat
      BY DEF LoopInv, ConservationInv, TypeInv, QueuesOK
    <3>2. OrderEvent(o).kind = "order" /\ OrderEvent(o).order = o
      BY DEF OrderEvent
    <3>3. OrderEvent(o) \in event_buffer => o.uid <= born
      BY <3>1, <3>2 DEF EventsWhole, UidsIdentify
    <3>. QED
      BY <2>1, <3>1, <3>3
  <2>3. n = m + 1
    BY <1>4, <2>1, <2>2, FS_AddElement DEF m, n
  <2>4. m < 1000
    BY <1>7, <2>3
  <2>5. Seen(now)
    BY <1>1 DEF Seen, LoopInv, ClockInv, IntradayCallbacks
  <2>6. \A p \in order_events : p.id # o.id
    <3>1. SUFFICES ASSUME NEW p \in order_events, p.id = o.id PROVE FALSE
      OBVIOUS
    <3>2. /\ p.at * 1000 <= p.id /\ p.id < p.at * 1000 + 1000
          /\ p.at = now => p.id < now * 1000 + m
      BY <1>9 DEF IdsInv
    <3>. QED
      BY <1>4, <1>5, <1>7, <2>1, <2>4, <3>1, <3>2
  <2>7. OrderIdsDistinct'
    BY <2>1, <2>6 DEF IdsInv, OrderIdsDistinct
  <2>8. /\ o.at \in Times /\ Seen(o.at)'
        /\ o.at * 1000 <= o.id /\ o.id < o.at * 1000 + 1000
        /\ o.id < now * 1000 + n
    BY <1>2, <1>4, <1>7, <2>1, <2>3, <2>4, <2>5
  <2>. QED
    BY <1>1, <1>2, <1>6, <1>9, <2>1, <2>7, <2>8 DEF IdsInv
<1>. QED
  BY <1>1, <1>10, <1>11

LEMMA OtherIds ==
  ASSUME LoopInv, HostInv, IdsInv,
         \/ OnMarketEvent \/ OnFillEvent \/ OtherCallback \/ SkipCall
         \/ Proceed /\ UNCHANGED orbVars
  PROVE  IdsInv'
<1>1. CASE OnMarketEvent
  <2>1. UNCHANGED order_events
    BY <1>1 DEF OnMarketEvent, Handle, vars, orderVars
  <2>2. /\ now \in Times
        /\ \A t \in Times : /\ Seen(t)' <=> t <= now
                            /\ Seen(t) <=> t < now
    BY <1>1, BarSeen
  <2>3. \A t \in Times : t \in Int
    BY EngineAssumption
  <2>4. \A o \in order_events : o.at # now
    BY <2>2, <2>3 DEF IdsInv
  <2>5. now' = now
    BY <1>1 DEF OnMarketEvent, Handle, vars, clockVars
  <2>. QED
    BY <2>1, <2>2, <2>3, <2>4, <2>5 DEF IdsInv, OrderIdsDistinct
<1>2. CASE OnFillEvent \/ OtherCallback \/ SkipCall
  <2>1. UNCHANGED <<pc, cb, phase, step, now, order_events, event_buffer>>
    BY <1>2 DEF OnFillEvent, OtherCallback, SkipCall, Handle, vars, loopVars,
       clockVars, orderVars
  <2>2. handled => handled'
    BY <1>2 DEF OnFillEvent, OtherCallback, SkipCall, Handle
  <2>3. In("on_market_event") => handled
    BY <1>2 DEF OnFillEvent, OtherCallback, SkipCall, In, HostInv, CallsOK
  <2>4. \A t : Seen(t) => Seen(t)'
    BY <2>1, <2>2 DEF Seen
  <2>. QED
    BY <2>1, <2>3, <2>4 DEF IdsInv, OrderIdsDistinct, In, GenerateOrderId
<1>3. CASE Proceed /\ UNCHANGED orbVars
  <2>1. order_events' = order_events /\ ~handled'
    BY <1>3, ProceedEffect
  <2>2. \A t \in Times : Seen(t) => Seen(t)'
    BY <1>3, ProceedSeen
  <2>. QED
    BY <2>1, <2>2 DEF IdsInv, OrderIdsDistinct
<1>. QED
  BY <1>1, <1>2, <1>3

LEMMA InitIds == OrbInit => IdsInv
<1>. SUFFICES ASSUME OrbInit PROVE IdsInv
  OBVIOUS
<1>1. order_events = {}
  BY DEF OrbInit, HostInit, Init
<1>. QED
  BY <1>1 DEF IdsInv, OrderIdsDistinct

LEMMA StepIds ==
  ASSUME LoopInv, HostInv, IdsInv, FewEvents', [OrbNext]_allVars
  PROVE  IdsInv'
<1>1. CASE (HostStops /\ UNCHANGED orbVars) \/ UNCHANGED allVars
  <2>1. UNCHANGED <<pc, cb, phase, step, now, order_events, event_buffer, handled>>
    BY <1>1 DEF HostStops, Terminating, allVars, hostVars, vars, loopVars,
       clockVars, orderVars
  <2>2. \A t \in Times : Seen(t)' <=> Seen(t)
    BY <2>1 DEF Seen
  <2>. QED
    BY <2>1, <2>2 DEF IdsInv, OrderIdsDistinct, In, GenerateOrderId
<1>. QED
  BY <1>1, PlacedIds, OtherIds DEF OrbNext

(* generate_order_id: in a run whose buffer never holds more than a thousand *)
(* events no two orders of the strategy have one id, though the ids depend   *)
(* on nothing but the second and the length of that buffer: of each second   *)
(* only on_market_event places orders, and it starts with an empty buffer.   *)
THEOREM OrbIdsDistinct == OrbSpec /\ []FewEvents => []OrderIdsDistinct
<1>1. OrbInit => IdsInv
  BY InitIds
<1>2. OrbInv /\ FewEvents' /\ IdsInv /\ [OrbNext]_allVars => IdsInv'
  BY StepIds DEF OrbInv
<1>3. IdsInv => OrderIdsDistinct
  BY DEF IdsInv
<1>4. OrbSpec => []OrbInv
  BY OrbInvariant
<1>. QED
  BY <1>1, <1>2, <1>3, <1>4, PTL DEF OrbSpec

-----------------------------------------------------------------------------
(* Between timestamps.                                                       *)

LEMMA LegsAtRest ==
  ASSUME LoopInv, HostInv, PursuitInv, pc = "next"
  PROVE  /\ Unconfirmed = pending_orders /\ todo = <<>> /\ ~FillInHand
         /\ DOMAIN entry_orders = {} /\ With({"pending_entry"}) = {}
         /\ \A o \in pending_orders : o.side = "sell"
<1>1. Unconfirmed = pending_orders /\ todo = <<>>
  BY UnconfirmedRests
<1>2. ~FillInHand
  BY DEF FillInHand, In
<1>3. \A o \in pending_orders : o.side = "sell"
  BY DEF HostInv, OrdersOK
<1>4. DOMAIN entry_orders = {}
  BY <1>1, <1>3 DEF PursuitInv
<1>5. With({"pending_entry"}) = {}
  BY <1>4 DEF PursuitInv
<1>. QED
  BY <1>1, <1>2, <1>3, <1>4, <1>5

(* Every resting sale is that of one leg, and every such leg has one.        *)
LEMMA SalesAtRest ==
  ASSUME LoopInv, HostInv, PursuitInv, OrderIdsDistinct, pc = "next"
  PROVE  /\ {exit_orders[id].leg : id \in DOMAIN exit_orders} = With({"pending_exit"})
         /\ {o.id : o \in pending_orders} = DOMAIN exit_orders
         /\ Cardinality(pending_orders) = Cardinality(With({"pending_exit"}))
<1>. DEFINE P == With({"pending_exit"})
<1>1. /\ Unconfirmed = pending_orders
      /\ \A o \in pending_orders : o.side = "sell"
  BY LegsAtRest
<1>2. \A id \in DOMAIN exit_orders :
        exit_orders[id].leg \in DOMAIN legs /\ \E o \in pending_orders : o.id = id
  BY <1>1 DEF HostInv, LegsOK, PursuitInv
<1>3. \A o \in pending_orders :
        /\ o.id \in DOMAIN exit_orders
        /\ legs[exit_orders[o.id].leg].status = "pending_exit"
        /\ legs[exit_orders[o.id].leg].exit_id = o.id
  BY <1>1 DEF PursuitInv, Pursued
<1>4. \A k \in P : /\ legs[k].exit_id \in DOMAIN exit_orders
                   /\ exit_orders[legs[k].exit_id].leg = k
  BY DEF PursuitInv
<1>5. {o.id : o \in pending_orders} = DOMAIN exit_orders
  BY <1>2, <1>3
<1>6. \A id \in DOMAIN exit_orders : exit_orders[id].leg \in P
  BY <1>2, <1>3 DEF With
<1>7. {exit_orders[id].leg : id \in DOMAIN exit_orders} = P
  BY <1>4, <1>6
<1>8. Cardinality(pending_orders) = Cardinality(P)
  <2>. DEFINE f == [o \in pending_orders |-> exit_orders[o.id].leg]
  <2>1. f \in [pending_orders -> P]
    BY <1>3, <1>6
  <2>2. ASSUME NEW o \in pending_orders, NEW p \in pending_orders, f[o] = f[p]
        PROVE  o = p
    <3>1. o.id = p.id
      BY <1>3, <2>2
    <3>2. o \in order_events /\ p \in order_events
      BY DEF LoopInv, ConservationInv, UidsIdentify
    <3>3. o.uid = p.uid
      BY <3>1, <3>2 DEF OrderIdsDistinct
    <3>. QED
      BY <3>2, <3>3 DEF LoopInv, ConservationInv, UidsIdentify
  <2>3. ASSUME NEW k \in P
        PROVE  \E o \in pending_orders : f[o] = k
    <3>1. PICK o \in pending_orders : o.id = legs[k].exit_id
      BY <1>2, <1>4
    <3>. QED
      BY <1>4, <3>1
  <2>4. DOMAIN f = pending_orders
    OBVIOUS
  <2>. HIDE DEF f, P
  <2>5. f \in Bijection(pending_orders, P)
    BY <2>1, <2>2, <2>3, <2>4 DEF Bijection, Injection, Surjection, IsInjective
  <2>6. IsFiniteSet(pending_orders)
    BY DEF LoopInv, FiniteInv
  <2>. QED
    BY <2>5, <2>6, FS_Bijection DEF ExistsBijection
<1>. QED
  BY <1>5, <1>7, <1>8

LEMMA BooksAtRest ==
  ASSUME LoopInv, HostInv, LegInv, OrderIdsDistinct
  PROVE  LegBooks
<1>1. SUFFICES ASSUME pc = "next" PROVE LegBooks
  BY DEF LegBooks, LegsMatchAccount, StatsAddUp
<1>2. PursuitInv /\ PositionsInv /\ StatsInv
  BY DEF LegInv
<1>3. /\ ~FillInHand
      /\ DOMAIN entry_orders = {} /\ With({"pending_entry"}) = {}
  BY <1>1, <1>2, LegsAtRest
<1>4. /\ {exit_orders[id].leg : id \in DOMAIN exit_orders} = With({"pending_exit"})
      /\ {o.id : o \in pending_orders} = DOMAIN exit_orders
      /\ Cardinality(pending_orders) = Cardinality(With({"pending_exit"}))
  BY <1>1, <1>2, SalesAtRest
<1>5. Held = With({"active", "pending_exit"})
  BY <1>3 DEF Held
<1>6. With({"pending_entry", "pending_exit"}) = With({"pending_exit"})
  BY <1>3 DEF With
<1>7. {entry_orders[id] : id \in DOMAIN entry_orders} = {}
  BY <1>3
<1>8. LegsMatchAccount
  BY <1>2, <1>3, <1>4, <1>5, <1>6, <1>7 DEF LegsMatchAccount, PositionsInv
<1>9. StatsAddUp
  BY <1>2 DEF StatsAddUp, StatsInv, Reasons
<1>. QED
  BY <1>8, <1>9 DEF LegBooks

LEMMA RulesAtRest ==
  ASSUME LoopInv, HostInv, LegInv, ~HasAllocator
  PROVE  LegsFollowTheRules
<1>1. /\ PursuitInv /\ WaitingInv /\ HighsInv /\ HeldBroke /\ SalesInv
      /\ LegsOK /\ ClockInv /\ step \in Nat
  BY EngineAssumption
     DEF LegInv, BreakInv, HostInv, LoopInv, ConservationInv, TypeInv, LoopOK
<1>2. EntriesBreakOut
  <2>1. SUFFICES ASSUME NEW k \in With({"active", "pending_exit", "exited"}),
                        NEW t \in DOMAIN Bars[legs[k].inst] \cap Times,
                        DayOf[t] = k[1], legs[k].since <= t,
                        t % DayLength <= params.range_end
                 PROVE  Bars[legs[k].inst][legs[k].entry_ts].close
                          > Bars[legs[k].inst][t].high
    BY DEF EntriesBreakOut
  <2>2. BrokeOut(k, legs[k].entry_ts)
    BY <1>1 DEF HeldBroke
  <2>3. InRange(k, t)
    BY <2>1 DEF InRange
  <2>. QED
    BY <2>2, <2>3 DEF BrokeOut
<1>3. ASSUME pc = "next", NEW k \in DOMAIN legs, NEW t \in Times, t <= now
      PROVE  /\ Seen(t)
             /\ MustSell(k, t) => legs[k].status # "active"
             /\ legs[k].status # "pending_entry"
  <2>1. legs[k].since \in Times /\ legs[k].since <= step
    BY <1>1 DEF HighsInv
  <2>2. step # 0
    <3>1. PICK u \in Times : u <= step
      BY <2>1
    <3>. QED
      BY <3>1, TimeIsNat
  <2>3. now = step /\ phase = 2
    BY <1>1, <1>3, <2>2 DEF ClockInv
  <2>4. Seen(t)
    BY <1>1, <1>3, <2>3, EngineAssumption DEF Seen
  <2>5. ~SaleInHand(k) /\ With({"pending_entry"}) = {}
    BY <1>1, <1>3, LegsAtRest DEF SaleInHand
  <2>. QED
    BY <1>1, <1>3, <2>4, <2>5 DEF SalesInv, With
<1>4. LegsEnd
  <2>1. SUFFICES ASSUME pc = "next", NEW k \in DOMAIN legs
                 PROVE  /\ (\E d \in k[1] + 1 .. Today : Passed(d, params.day2_exit))
                             => legs[k].status \notin {"active", "pending_entry"}
                        /\ Passed(k[1], params.cutoff + 1)
                             => legs[k].status # "waiting"
    BY DEF LegsEnd
  <2>2. k[1] \in Nat /\ params.cutoff \in Nat
    BY <1>1, ParamsAreNat DEF LegsOK, Keys
  <2>3. ASSUME NEW d \in k[1] + 1 .. Today, Passed(d, params.day2_exit)
        PROVE  legs[k].status \notin {"active", "pending_entry"}
    <3>1. PICK t \in Times : /\ t <= now /\ DayOf[t] = d
                             /\ t % DayLength >= params.day2_exit
      BY <2>3 DEF Passed
    <3>2. d > k[1]
      BY <2>2, <2>3
    <3>3. MustSell(k, t)
      BY <3>1, <3>2 DEF MustSell
    <3>. QED
      BY <1>3, <2>1, <3>1, <3>3
  <2>4. ASSUME Passed(k[1], params.cutoff + 1)
        PROVE  legs[k].status # "waiting"
    <3>1. PICK t \in Times : /\ t <= now /\ DayOf[t] = k[1]
                             /\ t % DayLength >= params.cutoff + 1
      BY <2>4 DEF Passed
    <3>2. Seen(t) /\ t % DayLength \in Nat
      BY <1>3, <2>1, <3>1, TimeIsNat
    <3>3. ~(t % DayLength <= params.cutoff)
      BY <2>2, <3>1, <3>2
    <3>. QED
      BY <1>1, <3>1, <3>2, <3>3 DEF WaitingInv, With
  <2>. QED
    BY <2>3, <2>4
<1>5. FirstTouchSells
  <2>1. SUFFICES ASSUME pc = "next", NEW k \in With({"active"}),
                        NEW t \in DOMAIN Bars[legs[k].inst] \cap Times,
                        legs[k].entry_ts < t, t <= now
                 PROVE  /\ Bars[legs[k].inst][t].low > legs[k].stop
                        /\ Bars[legs[k].inst][t].high < legs[k].target
    BY DEF FirstTouchSells
  <2>2. k \in DOMAIN legs /\ legs[k].status = "active"
    BY DEF With
  <2>3. ~MustSell(k, t)
    BY <1>3, <2>1, <2>2
  <2>4. legs[k] \in LegType
    BY <1>1, <2>2 DEF LegsOK
  <2>5. /\ legs[k].inst \in Instruments /\ legs[k].stop \in Int
        /\ legs[k].target \in Int /\ legs[k].entry_ts \in Int
    BY <2>4 DEF LegType
  <2>6. /\ Bars[legs[k].inst][t].low \in Int
        /\ Bars[legs[k].inst][t].high \in Int /\ t \in Int
    BY <2>5, BarTypes
  <2>. QED
    BY <2>1, <2>3, <2>5, <2>6 DEF MustSell
<1>. QED
  BY <1>2, <1>4, <1>5 DEF LegsFollowTheRules

-----------------------------------------------------------------------------
(* The books the strategy keeps are right, whatever the data, parameters and *)
(* number of days, and whether an allocator refuses some of its orders: its  *)
(* legs are what the account holds and what rests in the engine, and its     *)
(* statistics count them.                                                    *)
THEOREM OrbBooks == OrbSpec /\ []FewEvents => []LegBooks
<1>1. OrbInv /\ OrderIdsDistinct => LegBooks
  BY BooksAtRest DEF OrbInv
<1>. QED
  BY <1>1, OrbInvariant, OrbIdsDistinct, PTL

(* Without an allocator, which may refuse a sale at its bar, each leg goes   *)
(* by the rules: bought on a breakout only, sold at the first touch of stop  *)
(* or target, and over by the end of its second day.                         *)
THEOREM OrbRules ==
  ASSUME ~HasAllocator
  PROVE  OrbSpec /\ []FewEvents => []LegsFollowTheRules
<1>1. OrbInv /\ OrderIdsDistinct => LegsFollowTheRules
  BY RulesAtRest DEF OrbInv
<1>. QED
  BY <1>1, OrbInvariant, OrbIdsDistinct, PTL
=============================================================================
