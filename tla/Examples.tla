------------------------------ MODULE Examples ------------------------------
(***************************************************************************)
(* The strategies of strategy/examples, built into the binary: the ATM and *)
(* nearest-expiry straddle sellers, the moving-average crossover and the   *)
(* random one.  They act in on_market_event, which names the index.  The   *)
(* random one's generator is a choice; its orders are not.                 *)
(***************************************************************************)
EXTENDS Straddle

CONSTANTS
  Hours,          (* [entry, exit], 10:00 and 11:00 in the code              *)
  ShortPeriod, LongPeriod   (* of the moving averages                       *)

ASSUME ExamplesAssumption ==
  /\ Hours \in [entry : Nat, exit : Nat]
  /\ ShortPeriod \in Nat \ {0} /\ LongPeriod \in Nat /\ LongPeriod > ShortPeriod
  (* date and second of the day are those of one local time (types.rs)      *)
  /\ \A t, u \in Times : DayOf[t] = DayOf[u] <=> t \div DayLength = u \div DayLength
  (* run() names one instrument in every market event; the strategies       *)
  (* compare its symbol with that of their index                            *)
  /\ \A i, j \in Instruments :
       Meta[i].kind = "index" /\ Meta[j].kind = "index"
         /\ Meta[i].market = Meta[j].market => i = j

VARIABLES
  exited,         (* exited_days                                             *)
  desired,        (* Context.desired_subscriptions                           *)
  subscribed,     (* Context.active_subscriptions                            *)
  closes,         (* close_history of the index                              *)
  side            (* position of the crossover: -1, 0, 1                     *)

exampleVars == <<exited, desired, subscribed, closes, side>>

-----------------------------------------------------------------------------
(* The sellers of a straddle for an hour                                    *)

(* Call and put nearest to the spot, each by itself.                        *)
NearestToSpot(options, kind) ==
  {i \in options : /\ Meta[i].kind = kind
                   /\ \E spot \in Spot : \A j \in options :
                        Meta[j].kind = kind =>
                          Abs(Meta[i].strike - spot) <= Abs(Meta[j].strike - spot)}

Nearest(options) == NearestToSpot(options, "CE") \X NearestToSpot(options, "PE")

(* Any option that has traded, of any expiry.                               *)
AtmSellPairs == Nearest({i \in OptionsListed : HasBar(i, now)})

(* Only what is subscribed, traded or not.                                  *)
NearestExpiryPairs == Nearest(subscribed)

Hour == now % DayLength

(* Mutant: the exit is not remembered.                                      *)
BuyBackEachTime(key) ==
  /\ key \in entered /\ key \notin exited /\ Hour >= Hours.exit
  /\ Handle([l \in 1 .. 2 |->
       Place(day_state[key].leg[<<"ce", "pe">>[l]], "buy", "market", 0, Quantity, <<>>)])
  /\ UNCHANGED <<straddleVars, exited>>

SellForTheHour(key, pairs) ==
  /\ key \notin entered /\ Hours.entry <= Hour /\ Hour < Hours.exit
  /\ \E p \in pairs :
       /\ Handle([l \in 1 .. 2 |-> Place(p[l], "sell", "market", 0, Quantity, <<>>)])
       /\ day_state' = [k \in DOMAIN day_state \cup {key} |->
                          IF k = key THEN [leg |-> [ce |-> p[1], pe |-> p[2]]]
                          ELSE day_state[k]]
  /\ entered' = entered \cup {key}
  /\ UNCHANGED <<variant, windows, market, exited>>

(* Whatever became of the sales.                                            *)
BuyBackAtTheHour(key) ==
  /\ key \in entered /\ key \notin exited /\ Hour >= Hours.exit
  /\ Handle([l \in 1 .. 2 |->
       Place(day_state[key].leg[<<"ce", "pe">>[l]], "buy", "market", 0, Quantity, <<>>)])
  /\ exited' = exited \cup {key}
  /\ UNCHANGED straddleVars

SellerOnMarket(pairs) ==
  /\ In("on_market_event")
  /\ LET key == <<DayOf[now], 1>>
     IN  \/ SellForTheHour(key, pairs)
         \/ BuyBackAtTheHour(key)
         \/ /\ ~ \/ key \notin entered /\ Hours.entry <= Hour /\ Hour < Hours.exit
                    /\ pairs # {}
                 \/ key \in entered /\ key \notin exited /\ Hour >= Hours.exit
            /\ Nothing /\ UNCHANGED exited
  /\ UNCHANGED <<desired, subscribed, closes, side>>

AtmStraddleSell == variant = "atm" /\ SellerOnMarket(AtmSellPairs)

-----------------------------------------------------------------------------
(* NiftyNearestExpiryStraddleStrategy subscribes to a day's chain           *)

DayExpiries == {Meta[i].expiry : i \in OptionsListed} \cap {e \in Nat : e >= DayOf[now]}
DayChain ==
  {i \in OptionsListed : /\ Meta[i].expiry \in DayExpiries
                         /\ \A e \in DayExpiries : Meta[i].expiry <= e}

(* Mutant: only additions are applied.                                      *)
ApplyAdditions == subscribed' = subscribed \cup desired'

ApplySubscriptionDiff == subscribed' = desired'

Subscribe(chain) ==
  /\ desired' = chain
  /\ ApplySubscriptionDiff
  /\ Nothing
  /\ UNCHANGED <<exited, closes, side>>

NearestExpiryStraddle ==
  /\ variant = "nearest"
  /\ \/ In("before_open") /\ Subscribe(DayChain)
     \/ In("after_close") /\ Subscribe({})
     \/ SellerOnMarket(NearestExpiryPairs)

-----------------------------------------------------------------------------
(* SmaNifty50Strategy and RandomStrategy trade the index itself             *)

Index == {i \in Listed : Meta[i].kind = "index" /\ HasBar(i, now)}

Sma(history, period) ==
  IF Len(history) < period THEN {}
  ELSE {FoldLeft(LAMBDA a, b : a + b, 0,
                 SubSeq(history, Len(history) - period + 1, Len(history))) \div period}

(* Mutant: a signal is followed whatever the position.                      *)
SignalEachTime(short, long) ==
  IF short > long THEN 1 ELSE IF short < long THEN -1 ELSE 0

(* The side to change to; 0: keep.                                          *)
Signal(short, long) ==
  IF short > long /\ side <= 0 THEN 1
  ELSE IF short < long /\ side >= 0 THEN -1 ELSE 0

SideOrder(i, s) ==
  IF s = 0 THEN <<>>
  ELSE <<Place(i, IF s = 1 THEN "buy" ELSE "sell", "market", 0, Quantity, <<>>)>>

(* Without a bar of the index the bar event is passed over.                 *)
FollowCrossing ==
  \E i \in Index :
    LET all == Append(closes, BarAtOrBefore(i, now).close)
        kept == SubSeq(all, IF Len(all) > LongPeriod THEN 2 ELSE 1, Len(all))
        signals == {Signal(p[1], p[2]) :
                         p \in Sma(kept, ShortPeriod) \X Sma(kept, LongPeriod)}
    IN  \E s \in IF signals = {} THEN {0} ELSE signals :
          /\ closes' = kept
          /\ Handle(SideOrder(i, s))
          /\ side' = IF s = 0 THEN side ELSE s
          /\ UNCHANGED straddleVars

SmaCrossover ==
  /\ variant = "sma" /\ In("on_market_event")
  /\ \/ Index = {} /\ Nothing /\ UNCHANGED <<closes, side>>
     \/ FollowCrossing
  /\ UNCHANGED <<exited, desired, subscribed>>

MarketableLimit(close, s) ==
  IF s = "buy" THEN close + close \div 100 ELSE close - close \div 100

Random ==
  /\ variant = "random" /\ In("on_market_event")
  /\ \/ Nothing
     \/ \E i \in Index, s \in Sides :
          /\ Handle(<<Place(i, s, "limit",
                            MarketableLimit(BarAtOrBefore(i, now).close, s),
                            Quantity, <<>>)>>)
          /\ UNCHANGED straddleVars
  /\ UNCHANGED exampleVars

ExampleActsIn(callback) ==
  \/ callback = "on_market_event"
  \/ variant = "nearest" /\ callback \in {"before_open", "after_close"}

ExamplesInit ==
  /\ HostInit
  /\ variant \in {"atm", "nearest", "sma", "random"} /\ market \in Markets
  /\ windows = <<[entry |-> Hours.entry - 1, exit |-> Hours.exit - 1]>>
  /\ day_state = [k \in {} |-> 0] /\ entered = {}

ShippedInit ==
  /\ StraddleInit \/ ExamplesInit
  /\ exited = {} /\ desired = {} /\ subscribed = {}
  /\ closes = <<>> /\ side = 0

ShippedNext ==
  \/ AtmStraddleSell
  \/ NearestExpiryStraddle
  \/ SmaCrossover
  \/ Random
  \/ /\ variant \notin AlarmDriven /\ ~ExampleActsIn(cb)
     /\ Nothing /\ UNCHANGED exampleVars
  \/ StraddleNext /\ UNCHANGED exampleVars

ShippedSpec == ShippedInit /\ [][ShippedNext]_<<allVars, exampleVars>>
-----------------------------------------------------------------------------
(* No call of the examples was refused so far.                              *)
NoneRefused == born = Cardinality(order_events)

(* A straddle sold in the entry hour is bought back by the first bar from   *)
(* the exit hour on, once, though neither fills nor rejections are looked   *)
(* at; a refused order is all that leaves a leg open (or turns it long).    *)
BoughtBack ==
  pc = "next" /\ variant \in {"atm", "nearest"} /\ NoneRefused =>
    \A key \in entered :
      (\E t \in Times : DayOf[t] = key[1] /\ t <= now /\ t % DayLength >= Hours.exit) =>
        \A l \in {"ce", "pe"} :
          LET leg == day_state[key].leg[l]
              again == \E k \in entered \ (exited \cup {key}) : leg \in Range(day_state[k].leg)
          IN  again \/ positions[leg].qty = 0

(* The legs of a day are of the nearest expiry of that day: no subscription *)
(* of the day before survives after_close and before_open.                  *)
LegsOfTheDay ==
  variant = "nearest" =>
    \A key \in entered, l \in {"ce", "pe"} :
      LET leg == Meta[day_state[key].leg[l]].expiry
      IN  /\ leg >= key[1]
          /\ \A i \in OptionsListed : Meta[i].expiry >= key[1] => leg <= Meta[i].expiry

(* The crossover's position flag and the account never point to opposite    *)
(* sides, and it never holds more than its quantity (unless a buy was       *)
(* refused: the flag is set all the same, and the next sell adds up).       *)
CrossoverSide ==
  pc = "next" /\ variant = "sma" /\ NoneRefused =>
    \A i \in Listed : /\ Abs(positions[i].qty) <= Quantity
                      /\ positions[i].qty * side >= 0
=============================================================================
