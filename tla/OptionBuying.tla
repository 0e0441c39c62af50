---------------------------- MODULE OptionBuying ----------------------------
(***************************************************************************)
(* OptionBuyingStrategy (demo_ws/projects/option_buying): at 9:10 limit    *)
(* buys from the day's CSV file, on each fill a limit sell at its target,  *)
(* at 9:30 everything is cancelled and what is held is sold at market.     *)
(* Its books (open trades, round trips, statistics) are kept by order id   *)
(* and instrument, in callbacks that see one fill at a time.               *)
(***************************************************************************)
EXTENDS StrategyHost, SequencesExt

CONSTANTS
  CsvFolders,     (* contents of csv_folder: day -> rows; {} if unreadable   *)
  Unlisted,       (* a ticker the market data does not have                  *)
  EntrySeconds, ExitSeconds, DayLength

CsvRows == [inst : Instruments \cup {Unlisted}, qty : Int, entry : Int, target : Int]

ASSUME OptionBuyingAssumption ==
  /\ \A folder \in CsvFolders : \A d \in DOMAIN folder : folder[d] \in Seq(CsvRows)
  /\ Unlisted \notin Instruments
  /\ EntrySeconds \in Nat /\ ExitSeconds \in Nat /\ EntrySeconds < ExitSeconds
  /\ DayLength \in Nat \ {0} /\ ExitSeconds < DayLength

VARIABLES
  csv_folder, daily_orders, pending_entries, pending_targets, entered_days,
  total_stats, today_stats, open_trades, completed_trades

buyingVars == <<csv_folder, daily_orders, pending_entries, pending_targets, entered_days,
                total_stats, today_stats, open_trades, completed_trades>>
allVars == <<vars, hostVars, buyingVars>>

NoStats == [placed |-> 0, filled |-> 0, hits |-> 0]
Added(a, b) == [f \in DOMAIN NoStats |-> a[f] + b[f]]

Put(map, key, value) == [k \in DOMAIN map \cup {key} |-> IF k = key THEN value ELSE map[k]]
Without(map, keys) == [k \in DOMAIN map \ keys |-> map[k]]

DayStart == now - (now % DayLength)

-----------------------------------------------------------------------------
(* The handlers                                                             *)

(* load_csv_file drops a row whose price or quantity is not positive.       *)
LoadAllCsvs ==
  /\ In("on_start")
  /\ daily_orders' = [d \in DOMAIN csv_folder |->
                        SelectSeq(csv_folder[d], LAMBDA r :
                          r.entry > 0 /\ r.target > 0 /\ r.qty > 0)]
  /\ Handle(<<>>)
  /\ UNCHANGED <<csv_folder, pending_entries, pending_targets, entered_days,
                 total_stats, today_stats, open_trades, completed_trades>>

OnDateChange ==
  /\ In("on_date_change")
  /\ today_stats' = NoStats
  /\ Handle(<<Alarm(DayStart + EntrySeconds, <<"ob_enter", DayOf[now]>>),
              Alarm(DayStart + ExitSeconds, <<"ob_cutoff", DayOf[now]>>)>>)
  /\ UNCHANGED <<csv_folder, daily_orders, pending_entries, pending_targets, entered_days,
                 total_stats, open_trades, completed_trades>>

EntryOrder(row) ==
  Place(row.inst, "buy", "limit", row.entry, row.qty, <<"entry", row>>)

RowsOf(d) == IF d \in DOMAIN daily_orders
               THEN SelectSeq(daily_orders[d], LAMBDA r : r.inst # Unlisted) ELSE <<>>

(* Every row of a listed ticker counts as placed, also one that is rejected. *)
ProcessEntry(d) ==
  /\ entered_days' = entered_days \cup {d}
  /\ IF d \in entered_days \/ d \notin DOMAIN daily_orders
       THEN Handle(<<>>) /\ UNCHANGED today_stats
       ELSE /\ Handle([n \in DOMAIN RowsOf(d) |-> EntryOrder(RowsOf(d)[n])])
            /\ today_stats' = [today_stats EXCEPT !.placed = Len(RowsOf(d))]
  /\ UNCHANGED <<csv_folder, daily_orders, pending_entries, pending_targets, total_stats,
                 open_trades, completed_trades>>

Held == {i \in Instruments : positions[i].qty > 0}

MarketSells ==
  LET held == SetToSeq(Held)
  IN  [n \in DOMAIN held |->
         Place(held[n], "sell", "market", 0, positions[held[n]].qty, <<>>)]

CancelAll(ids) == LET s == SetToSeq(ids) IN [n \in DOMAIN s |-> Cancel(s[n])]

(* Mutant: the entries are left in the market.                              *)
CancelTargetsOnly == CancelAll(DOMAIN pending_targets)

CancelPending == CancelAll(DOMAIN pending_entries) \o CancelAll(DOMAIN pending_targets)

ProcessCutoff ==
  /\ Handle(CancelPending \o MarketSells)
  /\ pending_entries' = <<>> /\ pending_targets' = <<>>
  /\ total_stats' = Added(total_stats, today_stats)
  /\ UNCHANGED <<csv_folder, daily_orders, entered_days, today_stats, open_trades, completed_trades>>

OnAlarm ==
  /\ In("on_alarm")
  /\ LET key == alarm_keys[cur.alarm]
     IN  \/ key[1] = "ob_enter" /\ ProcessEntry(key[2])
         \/ key[1] = "ob_cutoff" /\ ProcessCutoff

Skip == Handle(<<>>) /\ UNCHANGED buyingVars

(* An entry filled: its target is placed, and the trade is open.  A buy     *)
(* that is not pending any more is ignored.                                 *)
OnBuy(f) ==
  /\ f.side = "buy"
  /\ IF f.id \notin DOMAIN pending_entries THEN Skip
     ELSE LET row == pending_entries[f.id]
          IN  /\ pending_entries' = Without(pending_entries, {f.id})
              /\ today_stats' = [today_stats EXCEPT !.filled = @ + 1]
              /\ Handle(<<Place(row.inst, "sell", "limit", row.target, row.qty,
                                <<"target", row>>)>>)
              /\ open_trades' = Put(open_trades, row.inst,
                                    [entry |-> f.price, qty |-> row.qty])
              /\ UNCHANGED <<csv_folder, daily_orders, pending_targets, entered_days,
                             total_stats, completed_trades>>

ExitReason(f) == IF f.id \in DOMAIN pending_targets THEN "target" ELSE "time"

(* Mutant: a sale closes whichever trade is open.                           *)
RecordAnyOpen(f) ==
  IF DOMAIN open_trades = {} THEN UNCHANGED <<open_trades, completed_trades>>
  ELSE LET i == CHOOSE j \in DOMAIN open_trades : TRUE
       IN  /\ completed_trades' =
                Append(completed_trades,
                       [inst |-> f.inst, reason |-> ExitReason(f), exit |-> f.price,
                        entry |-> open_trades[i].entry, qty |-> open_trades[i].qty,
                        by |-> f.of])
           /\ open_trades' = Without(open_trades, {i})

RecordRoundTrip(f) ==
  IF f.inst \notin DOMAIN open_trades THEN UNCHANGED <<open_trades, completed_trades>>
  ELSE /\ completed_trades' =
            Append(completed_trades,
                   [inst |-> f.inst, reason |-> ExitReason(f), exit |-> f.price,
                    entry |-> open_trades[f.inst].entry,
                    qty |-> open_trades[f.inst].qty, by |-> f.of])
       /\ open_trades' = Without(open_trades, {f.inst})

OnSell(f) ==
  /\ f.side = "sell"
  /\ pending_targets' = Without(pending_targets, {f.id})
  /\ today_stats' = [today_stats EXCEPT
                       !.hits = IF ExitReason(f) = "target" THEN @ + 1 ELSE @]
  /\ RecordRoundTrip(f)
  /\ Handle(<<>>)
  /\ UNCHANGED <<csv_folder, daily_orders, pending_entries, entered_days, total_stats>>

OnFillEvent == In("on_fill") /\ (OnBuy(cur.fill) \/ OnSell(cur.fill))

(* The day's statistics, rolled into the total at the cutoff or not.        *)
OnStop ==
  /\ In("on_stop")
  /\ total_stats' = Added(total_stats, today_stats)
  /\ Handle(<<>>)
  /\ UNCHANGED <<csv_folder, daily_orders, pending_entries, pending_targets, entered_days,
                 today_stats, open_trades, completed_trades>>

OtherCallback ==
  /\ cb \notin {"on_start", "on_date_change", "on_alarm", "on_fill", "on_stop"}
  /\ Skip

(* An order is remembered under the id it got; 0 if it was rejected.        *)
RememberId ==
  LET call == Head(todo)
      kind == IF call.op = "place" /\ call.tag # <<>> THEN call.tag[1] ELSE "none"
  IN  /\ pending_entries' = IF kind # "entry" THEN pending_entries
                            ELSE Put(pending_entries, PlacedId(call.in), call.tag[2])
      /\ pending_targets' = IF kind # "target" THEN pending_targets
                            ELSE Put(pending_targets, PlacedId(call.in), call.tag[2].inst)

BuyingInit ==
  /\ HostInit
  /\ csv_folder \in CsvFolders /\ daily_orders = <<>>
  /\ pending_entries = <<>> /\ pending_targets = <<>>
  /\ entered_days = {}
  /\ total_stats = NoStats /\ today_stats = NoStats
  /\ open_trades = <<>> /\ completed_trades = <<>>

BuyingNext ==
  \/ LoadAllCsvs
  \/ OnDateChange
  \/ OnAlarm
  \/ OnFillEvent
  \/ OnStop
  \/ OtherCallback
  \/ /\ MakeCall /\ RememberId
     /\ UNCHANGED <<csv_folder, daily_orders, entered_days, total_stats, today_stats,
                    open_trades, completed_trades>>
  \/ Proceed /\ UNCHANGED buyingVars
  \/ HostStops /\ UNCHANGED buyingVars

BuyingSpec == BuyingInit /\ [][BuyingNext]_allVars
-----------------------------------------------------------------------------
(* Days with a bar between the two alarms.  On another day both ring at one *)
(* bar and the cutoff clears entries whose orders the engine has not seen:  *)
(* what they buy is held to the next day's cutoff and missing in the books. *)
Regular(d) ==
  \E t \in Times : DayOf[t] = d /\ t % DayLength \in EntrySeconds .. ExitSeconds - 1

AllRegular == \A d \in entered_days : Regular(d)

(* "That is the end of trading for the day": after the bar of the cutoff    *)
(* nothing is held and nothing rests.  Not so: entries that fill at one bar *)
(* get targets of one id, which pending_targets keeps once; when one of     *)
(* them is hit the other is forgotten, and the cutoff leaves it resting.    *)
FlatAfterCutoff ==
  pc = "next" /\ step # 0 /\ AllRegular /\ now % DayLength >= ExitSeconds =>
    /\ pending_orders = {}
    /\ \A i \in Instruments : positions[i].qty = 0

(* Where ids tell orders apart it is so, whatever filled, rested or was     *)
(* cancelled at the bar of the cutoff.                                      *)
FlatIfIdsDiffer == OrderIdsDistinct => FlatAfterCutoff

(* Two strikes asked for may be one when listed; open_trades has one entry  *)
(* per instrument, and the second fill of a day overwrites the first.       *)
ListedOnce ==
  \A d \in entered_days : \A m, n \in DOMAIN RowsOf(d) :
    RowsOf(d)[m].inst = RowsOf(d)[n].inst => m = n

(* The strategy's round trips of all days add up to the profit the account  *)
(* realized, once flat: no fill is missed, taken twice or paired with the   *)
(* entry of another instrument or day, whether targets or the cutoff close  *)
(* the trades (as long as ids tell orders apart and a day's file lists a    *)
(* contract once).                                                          *)
RoundTripsAddUp ==
  LET profit(n) == LET c == completed_trades[n] IN (c.exit - c.entry) * c.qty
  IN  pc = "next" /\ AllRegular /\ OrderIdsDistinct /\ ListedOnce
        /\ (\A i \in Instruments : positions[i].qty = 0) =>
        SumOver([n \in DOMAIN completed_trades |-> profit(n)], DOMAIN completed_trades)
          = SumOver([i \in Instruments |-> positions[i].realized], Instruments)

(* "in case cutoff alarm didn't fire on last day": a day is counted once.   *)
DaysCountedOnce ==
  pc = "done" =>
    total_stats.placed = SumOver([d \in entered_days |-> Len(RowsOf(d))], entered_days)
=============================================================================
