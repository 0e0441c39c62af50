------------------------------ MODULE Straddle ------------------------------
(***************************************************************************)
(* The alarm-driven short straddles of demo_ws/projects/my_strategy: the   *)
(* weekly ATM straddle, the premium straddle and the portfolio of time     *)
(* windows.  Each sells a call and a put at its entry alarm, guards both   *)
(* with buy stops, and closes what is left at its exit alarm.  They differ *)
(* in how the pair is chosen and in the number of windows; variant says    *)
(* which strategy runs, market which data it runs on.                      *)
(***************************************************************************)
EXTENDS StrategyHost, SequencesExt

CONSTANTS
  Markets,        (* data sets a run may be given                            *)
  Meta,           (* instrument -> [market, kind, strike, expiry]            *)
  Windows,        (* variant -> sequences of [entry, exit] it may be given   *)
  DayLength,      (* 86400 seconds                                           *)
  Quantity,       (* quantity                                                *)
  StopPct,        (* stop_loss_ratio, in percent                             *)
  TargetPremium   (* target_premium of the premium straddle                  *)

AlarmDriven == {"weekly", "premium", "windows"}

ASSUME StraddleAssumption ==
  /\ Meta \in [Instruments -> [market : Markets, kind : {"index", "CE", "PE"},
                               strike : Nat, expiry : Nat]]
  /\ DOMAIN Windows = AlarmDriven
  /\ DayLength \in Nat \ {0} /\ Quantity \in Nat \ {0} /\ StopPct \in Nat

VARIABLES
  variant,        (* the strategy of this run                                *)
  windows,        (* its [entry, exit], times of day                         *)
  market,         (* its data                                                *)
  day_state,      (* day_state: <<day, window>> -> legs, stop ids, flags     *)
  entered         (* entered_days, entered                                   *)

straddleVars == <<variant, windows, market, day_state, entered>>
allVars == <<vars, hostVars, straddleVars>>

-----------------------------------------------------------------------------
(* The choice of the pair                                                   *)

Listed == {i \in Instruments : Meta[i].market = market}
OptionsListed == {i \in Listed : Meta[i].kind # "index"}

Expiries ==
  {e \in {Meta[i].expiry : i \in OptionsListed} : e - DayOf[now] \in 0 .. 7}

(* Options of the nearest weekly expiry that have traded; none without one. *)
Candidates ==
  {i \in OptionsListed : /\ HasBar(i, now)
                         /\ Meta[i].expiry \in Expiries
                         /\ \A e \in Expiries : Meta[i].expiry <= e}

Kind(kind) == {i \in Candidates : Meta[i].kind = kind}
StrikesOf(options) == {Meta[i].strike : i \in options}

StrikeStep ==
  LET strikes == StrikesOf(Candidates)
      gaps == {p[2] - p[1] : p \in {q \in strikes \X strikes : q[1] < q[2]}}
  IN  IF gaps = {} THEN 50 ELSE Min(gaps)

TargetStrike(spot) == ((spot + StrikeStep \div 2) \div StrikeStep) * StrikeStep

Spot == {BarAtOrBefore(i, now).close :
           i \in {x \in Listed : Meta[x].kind = "index" /\ HasBar(x, now)}}

(* Of the strikes with both a call and a put, the one nearest to the target *)
(* (the lower of two).                                                      *)
AtmStrikes(spot) ==
  LET complete == StrikesOf(Kind("CE")) \cap StrikesOf(Kind("PE"))
      far(s) == Abs(s - TargetStrike(spot))
  IN  {s \in complete : \A r \in complete \ {s} :
         far(s) < far(r) \/ (far(s) = far(r) /\ s < r)}

AtmPairs ==
  {p \in Kind("CE") \X Kind("PE") :
     /\ Meta[p[1]].strike = Meta[p[2]].strike
     /\ \E spot \in Spot : Meta[p[1]].strike \in AtmStrikes(spot)}

(* Each leg nearest to the target premium; iter_ids has no order, so any of *)
(* two equally near.                                                        *)
NearestPremium(options) ==
  LET far(i) == Abs(BarAtOrBefore(i, now).close - TargetPremium)
  IN  {i \in options : \A j \in options : far(i) <= far(j)}

(* The index is not looked at, but must be among the instruments.           *)
PremiumPairs ==
  IF \E i \in Listed : Meta[i].kind = "index"
    THEN NearestPremium(Kind("CE")) \X NearestPremium(Kind("PE"))
    ELSE {}

-----------------------------------------------------------------------------
(* The handlers                                                             *)

AlarmKey(kind, w, day_key) == [kind |-> kind, w |-> w, day |-> day_key]

(* on_date_change: entry and exit alarms of the day, late in their minute,  *)
(* so that they ring at the next bar.                                       *)
ScheduleDayAlarms ==
  /\ In("on_date_change")
  /\ LET start == now - (now % DayLength)
         alarms(w) == <<Alarm(start + windows[w].entry + 1,
                              AlarmKey("entry", w, DayOf[now])),
                        Alarm(start + windows[w].exit + 1,
                              AlarmKey("exit", w, DayOf[now]))>>
     IN  Handle(FlattenSeq([w \in DOMAIN windows |-> alarms(w)]))
  /\ UNCHANGED straddleVars

StopPrice(i) == (BarAtOrBefore(i, now).close * (100 + StopPct) + 50) \div 100

(* Sell both, then guard both; the ids of the stops are filled in as        *)
(* place_order returns them (RememberStop).                                 *)
SellAndGuard(ce, pe, key) ==
  /\ Handle(<<Place(ce, "sell", "market", 0, Quantity, <<>>),
              Place(pe, "sell", "market", 0, Quantity, <<>>),
              Place(ce, "buy", "stop", StopPrice(ce), Quantity, <<key, "ce">>),
              Place(pe, "buy", "stop", StopPrice(pe), Quantity, <<key, "pe">>)>>)
  /\ day_state' = [k \in DOMAIN day_state \cup {key} |->
                     IF k = key
                       THEN [leg |-> [ce |-> ce, pe |-> pe],
                             stop |-> [ce |-> 0, pe |-> 0],
                             open |-> [ce |-> TRUE, pe |-> TRUE]]
                       ELSE day_state[k]]
  /\ entered' = entered \cup {key}
  /\ UNCHANGED <<variant, windows, market>>

Nothing == Handle(<<>>) /\ UNCHANGED straddleVars

EnterOnce(key, pairs) ==
  IF key \in entered \/ pairs = {} THEN Nothing
  ELSE \E p \in pairs : SellAndGuard(p[1], p[2], key)

EntryWeekly(key)  == variant = "weekly"  /\ EnterOnce(key, AtmPairs)
EntryPremium(key) == variant = "premium" /\ EnterOnce(key, PremiumPairs)
EntryWindow(key)  == variant = "windows" /\ EnterOnce(key, AtmPairs)

ProcessEntry(key) == EntryWeekly(key) \/ EntryPremium(key) \/ EntryWindow(key)

(* position_qty is the account's: whatever window or strategy opened it.    *)
BuyBack(s, leg) ==
  IF s.open[leg] /\ positions[s.leg[leg]].qty < 0
    THEN <<Place(s.leg[leg], "buy", "market", 0, Quantity, <<>>)>> ELSE <<>>

(* Mutant: the stops are left in the market.                                *)
ExitLeavingStops(s) == BuyBack(s, "ce") \o BuyBack(s, "pe")

ExitCalls(s) ==
  <<Cancel(s.stop["ce"]), Cancel(s.stop["pe"])>>
    \o BuyBack(s, "ce") \o BuyBack(s, "pe")

CloseLegs(key) ==
  IF key \notin DOMAIN day_state THEN Nothing
  ELSE /\ Handle(ExitCalls(day_state[key]))
       /\ day_state' = [day_state EXCEPT ![key].open = [ce |-> FALSE, pe |-> FALSE]]
       /\ UNCHANGED <<variant, windows, market, entered>>

ExitWeekly(key)  == variant = "weekly"  /\ CloseLegs(key)
ExitPremium(key) == variant = "premium" /\ CloseLegs(key)
ExitWindow(key)  == variant = "windows" /\ CloseLegs(key)

ProcessExit(key) == ExitWeekly(key) \/ ExitPremium(key) \/ ExitWindow(key)

OnAlarm ==
  /\ In("on_alarm")
  /\ LET key == alarm_keys[cur.alarm]
     IN  \/ key.kind = "entry" /\ ProcessEntry(<<key.day, key.w>>)
         \/ key.kind = "exit" /\ ProcessExit(<<key.day, key.w>>)

(* Mutant: fills are not looked at.                                         *)
SyncNothing == In("on_fill") /\ Nothing

(* on_fill: every window of the day of the fill reads its legs' positions.  *)
SyncFills ==
  /\ In("on_fill")
  /\ Handle(<<>>)
  /\ day_state' =
       [k \in DOMAIN day_state |->
          IF k[1] # DayOf[cur.fill.ts] THEN day_state[k]
          ELSE [day_state[k] EXCEPT !.open =
                  [l \in {"ce", "pe"} |-> positions[day_state[k].leg[l]].qty < 0]]]
  /\ UNCHANGED <<variant, windows, market, entered>>

OtherCallback == cb \notin {"on_date_change", "on_alarm", "on_fill"} /\ Nothing

(* The id a stop got is kept in the state of its window.                    *)
RememberStop ==
  LET call == Head(todo)
  IN  IF call.op = "place" /\ call.tag # <<>>
        THEN day_state' = [day_state EXCEPT
                             ![call.tag[1]].stop[call.tag[2]] = PlacedId(call.in)]
        ELSE UNCHANGED day_state

StraddleInit ==
  /\ HostInit
  /\ variant \in AlarmDriven /\ windows \in Windows[variant] /\ market \in Markets
  /\ day_state = [k \in {} |-> 0]
  /\ entered = {}

StraddleNext ==
  \/ variant \in AlarmDriven /\ (ScheduleDayAlarms \/ OnAlarm \/ SyncFills
                                 \/ OtherCallback)
  \/ MakeCall /\ RememberStop /\ UNCHANGED <<variant, windows, market, entered>>
  \/ Proceed /\ UNCHANGED straddleVars
  \/ HostStops /\ UNCHANGED straddleVars

StraddleSpec == StraddleInit /\ [][StraddleNext]_allVars
-----------------------------------------------------------------------------
(* The windows that hold options now: entered, their exit still to come.    *)
ExitTime(key) ==
  ((CHOOSE t \in Times : DayOf[t] = key[1]) \div DayLength) * DayLength
    + windows[key[2]].exit + 1
EntryTime(key) == ExitTime(key) - windows[key[2]].exit
                    + windows[key[2]].entry
Holding == {key \in entered : now < ExitTime(key)}

(* A day on which no alarm is answered late: there are bars between a       *)
(* window's entry and exit and after its exit.  (On other days both alarms  *)
(* ring at one bar, and the exit finds nothing to close yet.)               *)
Regular(key) ==
  /\ \E t \in Times : EntryTime(key) <= t /\ t < ExitTime(key)
  /\ \E t \in Times : DayOf[t] = key[1] /\ ExitTime(key) <= t

RestingStops(i) ==
  LET stops == {o \in pending_orders : o.inst = i /\ o.type = "stop"}
  IN  Quantity * Cardinality(stops)

(* Legs that were sold and whose stop was refused (the bar of the entry had *)
(* reached it already, or cash was short).                                  *)
Unguarded(i) ==
  {x \in Holding \X {"ce", "pe"} :
     day_state[x[1]].leg[x[2]] = i /\ day_state[x[1]].stop[x[2]] = 0}

AllRegular == \A key \in entered : Regular(key)

(* Between timestamps a short option is guarded by resting stops for all of *)
(* it, and no stop rests without a short to close: the fills of stops, the  *)
(* cancels and the buys at exits never overlap.  Only a stop the Context    *)
(* refused leaves a leg alone.                                              *)
ShortsAreGuarded ==
  pc = "next" /\ variant \in AlarmDriven /\ AllRegular =>
    \A i \in OptionsListed :
      -positions[i].qty = RestingStops(i) + Quantity * Cardinality(Unguarded(i))

(* A straddle only sells: no option is ever held long, not even for a       *)
(* moment, whatever stop, exit and window meet at one bar; and what the     *)
(* strategy believes of a leg is what the account holds, once the fills of  *)
(* the timestamp are booked: no stop-out goes unnoticed, though on_fill     *)
(* looks at positions only and never at the order that filled.              *)
BelievesItsLegs ==
  variant \in AlarmDriven =>
    /\ \A i \in Instruments : positions[i].qty <= 0
    /\ pc = "next" => \A key \in Holding, l \in {"ce", "pe"} :
         day_state[key].open[l] <=> positions[day_state[key].leg[l]].qty < 0
=============================================================================
