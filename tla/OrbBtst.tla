------------------------------- MODULE OrbBtst -------------------------------
(***************************************************************************)
(* BankniftyOrbBtstStrategy (demo_ws/projects/my_strategy): each day picks *)
(* a call and a put by premium, takes the high of an opening range, buys a *)
(* leg that closes above it, and sells it at a stop, a target, or on the   *)
(* next day at the latest.  Legs of several days live at once, each with   *)
(* its own status, orders and prices, all driven by on_market_event and    *)
(* confirmed by on_fill.                                                   *)
(***************************************************************************)
EXTENDS StrategyHost, SequencesExt

CONSTANTS
  Meta,         (* instrument -> [kind, expiry, month]                       *)
  Params,       (* parameters a run may be given, see ParamsType             *)
  DayLength,    (* 86400 seconds                                             *)
  Quantity

ParamsType == [premium : Nat, range_start : Nat, range_end : Nat, cutoff : Nat,
               day2_exit : Nat, target : Nat, stop : Nat]

ASSUME OrbAssumption ==
  /\ Meta \in [Instruments -> [kind : {"ce", "pe"}, expiry : Nat, month : Nat]]
  /\ Params \subseteq ParamsType
  /\ DayLength \in Nat \ {0} /\ Quantity \in Nat \ {0}
  (* date and second of the day are those of one local time (types.rs)      *)
  /\ \A t, u \in Times : DayOf[t] = DayOf[u] <=> t \div DayLength = u \div DayLength

VARIABLES
  params,         (* parameters of the strategy                              *)
  legs,           (* day_state: <<day, "ce" or "pe">> -> LegState            *)
  entry_orders,   (* order id -> leg                                         *)
  exit_orders,    (* order id -> [leg, reason]                               *)
  stats           (* StrategyStats                                           *)

orbVars == <<params, legs, entry_orders, exit_orders, stats>>
allVars == <<vars, hostVars, orbVars>>

Put(map, key, value) == [k \in DOMAIN map \cup {key} |-> IF k = key THEN value ELSE map[k]]
Without(map, key) == [k \in DOMAIN map \ {key} |-> map[k]]

Second == now % DayLength
Today == DayOf[now]

(* exact_bar: a bar of this very moment.                                    *)
Trades(i) == now \in DOMAIN Bars[i]

-----------------------------------------------------------------------------
(* The pair of the day                                                      *)

(* Of every month its last expiry after today; of these the first.          *)
MonthlyExpiries ==
  LET later == {i \in Instruments : Meta[i].expiry > Today}
  IN  {Meta[i].expiry : i \in
         {x \in later : \A y \in later :
            Meta[y].month = Meta[x].month => Meta[y].expiry <= Meta[x].expiry}}

(* iter_ids has no order: any of two equally near.                          *)
ByPremium(kind) ==
  LET listed == {i \in Instruments :
                   /\ Meta[i].kind = kind /\ Trades(i)
                   /\ Meta[i].expiry \in MonthlyExpiries
                   /\ \A e \in MonthlyExpiries : Meta[i].expiry <= e}
      far(i) == Abs(Bars[i][now].close - params.premium)
  IN  {i \in listed : \A j \in listed : far(i) <= far(j)}

NewLeg(i) ==
  [inst |-> i, high |-> Bars[i][now].high, status |-> "waiting", entry_id |-> 0,
   exit_id |-> 0, entry_price |-> 0, target |-> 0, stop |-> 0, entry_ts |-> 0,
   reason |-> "none", since |-> now]     \* since: model only

(* ensure_today_instance: the legs there are after it.                      *)
WithToday ==
  IF \/ Second < params.range_start
     \/ <<Today, "ce">> \in DOMAIN legs
     \/ ByPremium("ce") \X ByPremium("pe") = {}
    THEN {legs}
    ELSE {Put(Put(legs, <<Today, "ce">>, NewLeg(p[1])), <<Today, "pe">>, NewLeg(p[2])) :
            p \in ByPremium("ce") \X ByPremium("pe")}

-----------------------------------------------------------------------------
(* on_market_event                                                          *)

IsToday(k) == k[1] = Today

(* update_range *)
Ranged(ls) ==
  [k \in DOMAIN ls |->
     IF /\ IsToday(k) /\ Trades(ls[k].inst)
        /\ params.range_start <= Second /\ Second <= params.range_end
       THEN [ls[k] EXCEPT !.high = IF Bars[ls[k].inst][now].high > @
                                     THEN Bars[ls[k].inst][now].high ELSE @]
       ELSE ls[k]]

(* close_waiting_legs_after_cutoff: of today only.                          *)
Expired(ls) == {k \in DOMAIN ls : /\ IsToday(k) /\ Second > params.cutoff
                                  /\ ls[k].status = "waiting"}
AfterCutoff(ls) ==
  [k \in DOMAIN ls |->
     IF k \in Expired(ls) THEN [ls[k] EXCEPT !.status = "closed_no_entry"] ELSE ls[k]]

(* maybe_trigger_breakout_entry *)
BreaksOut(leg) ==
  /\ leg.status = "waiting" /\ Trades(leg.inst)
  /\ Bars[leg.inst][now].close > leg.high

Entries(ls) ==
  {k \in DOMAIN ls : /\ IsToday(k) /\ BreaksOut(ls[k])
                     /\ params.range_end < Second /\ Second <= params.cutoff}

(* maybe_trigger_active_exit: the stop wins over the target.                *)
Touches(leg) ==
  /\ leg.status = "active" /\ now > leg.entry_ts /\ Trades(leg.inst)
  /\ \/ Bars[leg.inst][now].low <= leg.stop
     \/ Bars[leg.inst][now].high >= leg.target

TouchReason(leg) == IF Bars[leg.inst][now].low <= leg.stop THEN "stop_loss" ELSE "target"

(* Mutant: only the day after the entry is looked at.                       *)
DueOnDayTwoOnly(k, leg) ==
  leg.status = "active" /\ Today = k[1] + 1 /\ Second >= params.day2_exit

(* maybe_trigger_day2_time_exit: on any later day.                          *)
DueByTime(k, leg) ==
  leg.status = "active" /\ Today > k[1] /\ Second >= params.day2_exit

Buy(k, leg) == Place(leg.inst, "buy", "market", 0, Quantity, <<"entry", k>>)
Sell(k, leg, reason) ==
  Place(leg.inst, "sell", "market", 0, Quantity, <<"exit", k, reason>>)

Watched(ls) == DOMAIN ls

(* Exits of the tracked days, in the order of the map (which only matters   *)
(* for the ids): those at a stop or target before those by time.            *)
ExitCalls(ls) ==
  LET touch(k) == IF k \in Watched(ls) /\ Touches(ls[k])
                    THEN <<Sell(k, ls[k], TouchReason(ls[k]))>> ELSE <<>>
      due(k) == IF k \in Watched(ls) /\ DueByTime(k, ls[k])
                  THEN <<Sell(k, ls[k], "time")>> ELSE <<>>
      days == SetToSeq({k[1] : k \in DOMAIN ls})
      calls(d) == touch(<<d, "ce">>) \o touch(<<d, "pe">>)
                    \o due(<<d, "ce">>) \o due(<<d, "pe">>)
  IN  FlattenSeq([n \in DOMAIN days |-> calls(days[n])])

(* The call of the day first, then the put.                                 *)
EntryCalls(ls) ==
  LET entry(kind) ==
        IF <<Today, kind>> \in Entries(ls)
          THEN <<Buy(<<Today, kind>>, ls[<<Today, kind>>])>> ELSE <<>>
  IN  entry("ce") \o entry("pe")

OnMarketEvent ==
  /\ In("on_market_event")
  /\ \E ls \in WithToday :
       LET ranged == Ranged(ls)
       IN  /\ legs' = AfterCutoff(ranged)
           /\ Handle(EntryCalls(ranged) \o ExitCalls(AfterCutoff(ranged)))
           /\ stats' = [stats EXCEPT
                          !.instances = IF ls = legs THEN @ ELSE @ + 1,
                          !.no_breakout = @ + Cardinality(Expired(ranged))]
  /\ UNCHANGED <<params, entry_orders, exit_orders>>

(* A leg changes its status as its order is accepted; the exit by time is   *)
(* not tried when the one before was accepted.                              *)
NotNeeded ==
  LET call == Head(todo)
  IN  call.tag[1] = "exit" /\ legs[call.tag[2]].status # "active"

SkipCall ==
  /\ pc = "callback" /\ todo # <<>> /\ NotNeeded
  /\ todo' = Tail(todo)
  /\ UNCHANGED <<vars, handled, alarm_keys, orbVars>>

OrderPlaced ==
  /\ pc = "callback" /\ todo # <<>> /\ ~NotNeeded
  /\ LET call == Head(todo)
         k == call.tag[2]
         id == PlacedId(call.in)
     IN  CASE id = 0 -> UNCHANGED <<legs, entry_orders, exit_orders>>
           [] id # 0 /\ call.tag[1] = "entry" ->
                /\ legs' = [legs EXCEPT ![k].status = "pending_entry", ![k].entry_id = id]
                /\ entry_orders' = Put(entry_orders, id, k)
                /\ UNCHANGED exit_orders
           [] id # 0 /\ call.tag[1] = "exit" ->
                /\ legs' = [legs EXCEPT ![k].status = "pending_exit", ![k].exit_id = id,
                                        ![k].reason = call.tag[3]]
                /\ exit_orders' = Put(exit_orders, id, [leg |-> k, reason |-> call.tag[3]])
                /\ UNCHANGED entry_orders
  /\ MakeCall
  /\ UNCHANGED <<params, stats>>

-----------------------------------------------------------------------------
(* on_fill *)

Percent(price, pct) == (price * pct + 50) \div 100

EntryFilled(f) ==
  /\ f.side = "buy" /\ f.id \in DOMAIN entry_orders
  /\ legs' = [legs EXCEPT ![entry_orders[f.id]] =
                [@ EXCEPT !.status = "active", !.entry_id = f.id,
                          !.entry_price = f.price, !.entry_ts = f.ts,
                          !.target = Percent(f.price, 100 + params.target),
                          !.stop = Percent(f.price, 100 - params.stop)]]
  /\ entry_orders' = Without(entry_orders, f.id)
  /\ stats' = [stats EXCEPT !.entries = @ + 1]
  /\ UNCHANGED <<params, exit_orders>>

(* Mutant: the exit is not booked.                                          *)
ExitForgotten(f) ==
  /\ f.side = "sell" /\ f.id \in DOMAIN exit_orders
  /\ legs' = [legs EXCEPT ![exit_orders[f.id].leg].status = "active"]
  /\ exit_orders' = Without(exit_orders, f.id)
  /\ UNCHANGED <<params, entry_orders, stats>>

ExitFilled(f) ==
  /\ f.side = "sell" /\ f.id \in DOMAIN exit_orders
  /\ LET x == exit_orders[f.id]
     IN  /\ legs' = [legs EXCEPT ![x.leg].status = "exited", ![x.leg].exit_id = f.id,
                                 ![x.leg].reason = x.reason]
         /\ stats' = [stats EXCEPT ![x.reason] = @ + 1]
  /\ exit_orders' = Without(exit_orders, f.id)
  /\ UNCHANGED <<params, entry_orders>>

OnFillEvent ==
  /\ In("on_fill")
  /\ LET f == cur.fill
     IN  \/ EntryFilled(f)
         \/ ExitFilled(f)
         \/ /\ f.id \notin DOMAIN (IF f.side = "buy" THEN entry_orders ELSE exit_orders)
            /\ UNCHANGED orbVars
  /\ Handle(<<>>)

OtherCallback ==
  cb \notin {"on_market_event", "on_fill"} /\ Handle(<<>>) /\ UNCHANGED orbVars

OrbInit ==
  /\ HostInit
  /\ params \in Params
  /\ legs = <<>> /\ entry_orders = <<>> /\ exit_orders = <<>>
  /\ stats = [instances |-> 0, entries |-> 0, target |-> 0, stop_loss |-> 0,
              time |-> 0, no_breakout |-> 0]

OrbNext ==
  \/ OnMarketEvent
  \/ OnFillEvent
  \/ OtherCallback
  \/ SkipCall
  \/ OrderPlaced
  \/ Proceed /\ UNCHANGED orbVars
  \/ HostStops /\ UNCHANGED orbVars

OrbSpec == OrbInit /\ [][OrbNext]_allVars
-----------------------------------------------------------------------------
With(status) == {k \in DOMAIN legs : legs[k].status \in status}

(* Between timestamps the statuses of the legs are what the account holds   *)
(* and what waits in the engine, for legs of all days together: every       *)
(* active leg, and every one whose sale still rests, is held, no other; a   *)
(* leg has an order on its way exactly while its status says so, under an   *)
(* id no other leg has.                                                     *)
LegsMatchAccount ==
  pc = "next" =>
    /\ \A i \in Instruments :
         positions[i].qty =
           Quantity * Cardinality({k \in With({"active", "pending_exit"}) : legs[k].inst = i})
    /\ {entry_orders[id] : id \in DOMAIN entry_orders} = With({"pending_entry"})
    /\ {exit_orders[id].leg : id \in DOMAIN exit_orders} = With({"pending_exit"})
    /\ {o.id : o \in pending_orders} = DOMAIN entry_orders \cup DOMAIN exit_orders
    /\ Cardinality(pending_orders) = Cardinality(With({"pending_entry", "pending_exit"}))

(* No leg outlives its second day: after a bar of a later day at or past    *)
(* the exit time its sale is asked for, whatever stop, target and time met  *)
(* at that bar; and no leg still waits after a bar past the cutoff.         *)
Passed(d, second) ==
  \E t \in Times : t <= now /\ DayOf[t] = d /\ t % DayLength >= second

LegsEnd ==
  pc = "next" =>
    \A k \in DOMAIN legs :
      /\ (\E d \in k[1] + 1 .. Today : Passed(d, params.day2_exit))
           => legs[k].status \notin {"active", "pending_entry"}
      /\ Passed(k[1], params.cutoff + 1) => legs[k].status # "waiting"

(* A leg that is still held has not touched its stop or its target at any   *)
(* bar since its entry: the first touch sells it, on whichever day.         *)
FirstTouchSells ==
  pc = "next" =>
    \A k \in With({"active"}) :
      \A t \in DOMAIN Bars[legs[k].inst] \cap Times :
        legs[k].entry_ts < t /\ t <= now =>
          /\ Bars[legs[k].inst][t].low > legs[k].stop
          /\ Bars[legs[k].inst][t].high < legs[k].target

(* A leg is bought only on a close above every high of its opening range,   *)
(* from the bar that chose it to the last one of the range.                 *)
EntriesBreakOut ==
  \A k \in With({"active", "pending_exit", "exited"}) :
    LET leg == legs[k]
    IN  \A t \in DOMAIN Bars[leg.inst] \cap Times :
          DayOf[t] = k[1] /\ leg.since <= t /\ t % DayLength <= params.range_end =>
            Bars[leg.inst][leg.entry_ts].close > Bars[leg.inst][t].high

(* The statistics account for every leg: entered legs are held or exited    *)
(* for one reason, and the others wait, are ordered or closed.              *)
StatsAddUp ==
  pc = "next" =>
    /\ 2 * stats.instances = Cardinality(DOMAIN legs)
    /\ stats.entries = Cardinality(With({"active", "pending_exit", "exited"}))
    /\ \A r \in {"target", "stop_loss", "time"} :
         stats[r] = Cardinality({k \in With({"exited"}) : legs[k].reason = r})
    /\ stats.no_breakout = Cardinality(With({"closed_no_entry"}))

(* The books the strategy keeps of its legs are right: they match what the  *)
(* account holds and what waits in the engine, and the statistics it prints *)
(* are those of the legs.                                                   *)
LegBooks == LegsMatchAccount /\ StatsAddUp

(* Each leg goes the way the rules say, across days: bought on a breakout   *)
(* only, sold at the first touch, and over by the end of its second day.    *)
LegsFollowTheRules == LegsEnd /\ FirstTouchSells /\ EntriesBreakOut
=============================================================================
