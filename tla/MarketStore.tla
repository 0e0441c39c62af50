----------------------------- MODULE MarketStore -----------------------------
(***************************************************************************)
(* The data a backtest reads (data/loader.rs, data/models.rs, data/view.rs,*)
(* data/archived_view.rs): the rows of a Parquet file become a MarketData  *)
(* with two indexes, by instrument and by time; the server archives it and *)
(* programs read the archive through a view with searches of its own; and  *)
(* bt data slice prints one minute of an option chain from that view.      *)
(*                                                                         *)
(* A row is told from the others by its place in the file, which stands    *)
(* for its prices.  Times are counted in units, Minute of them in a        *)
(* minute.  Column names, number and date formats are left out: a row that *)
(* does not parse is one with the symbol Unreadable.                       *)
(***************************************************************************)
EXTENDS Integers, SequencesExt, StableSort

CONSTANTS
  Symbols,     (* names of instruments                                      *)
  Unreadable,  (* the symbol of a row that does not parse                   *)
  Options,     (* option symbol -> [underlying, expiry, strike, side]       *)
  Matches,     (* asked underlying -> the underlyings that start with it    *)
  Stamps,      (* timestamps                                                *)
  Minute,      (* units in a minute                                         *)
  DayOf,       (* day of a timestamp                                        *)
  MaxRows      (* bound: rows of a file                                     *)

ASSUME StoreAssumption ==
  /\ Stamps \subseteq Nat /\ Minute \in Nat \ {0} /\ MaxRows \in Nat
  /\ DOMAIN Options \subseteq Symbols /\ Unreadable \notin Symbols

VARIABLES
  file,    (* the rows of the Parquet file                                  *)
  loaded,  (* whether it was read: "no", "yes" or "failed"                  *)
  store,   (* the MarketData made of it                                     *)
  slice    (* what bt data slice printed last                               *)

storeVars == <<file, loaded, store, slice>>

Rows == [symbol : Symbols \cup {Unreadable}, ts : Stamps]
NoBar == [ts |-> -1, row |-> 0]
Empty == [bars |-> <<>>, bars_by_time |-> <<>>, instruments |-> <<>>]

Lookup(f, x, default) == IF x \in DOMAIN f THEN f[x] ELSE default
With(f, x, v) == [y \in DOMAIN f \cup {x} |-> IF y = x THEN v ELSE f[y]]

-----------------------------------------------------------------------------
(* Loading.  ids is the inverse of instruments, which only add_bar fills,   *)
(* so that its length is that of instruments.                               *)
NextId(md) == Cardinality(DOMAIN md.instruments) + 1

(* Mutant: the first row of an instrument and a time stays.                 *)
AtTimeOnce(md, id, bar) ==
  LET at == Lookup(md.bars_by_time, bar.ts, <<>>)
  IN  With(md.bars_by_time, bar.ts, IF id \in DOMAIN at THEN at ELSE With(at, id, bar))

AtTime(md, id, bar) ==
  With(md.bars_by_time, bar.ts, With(Lookup(md.bars_by_time, bar.ts, <<>>), id, bar))

AddBar(md, symbol, bar) ==
  LET id == Lookup(md.instruments, symbol, NextId(md))
  IN  [instruments |-> With(md.instruments, symbol, id),
       bars |-> With(md.bars, id, Append(Lookup(md.bars, id, <<>>), bar)),
       bars_by_time |-> AtTime(md, id, bar)]

SortByTime(bars) == SortBy(bars, [n \in DOMAIN bars |-> bars[n].ts])

LoadParquet(rows) ==
  LET read[n \in 0 .. Len(rows)] ==
        IF n = 0 THEN Empty
        ELSE AddBar(read[n - 1], rows[n].symbol, [ts |-> rows[n].ts, row |-> n])
      md == read[Len(rows)]
  IN  [md EXCEPT !.bars = [id \in DOMAIN @ |-> SortByTime(@[id])]]

(* Reading ends with the first row that does not parse.                     *)
Load ==
  /\ loaded = "no"
  /\ IF \E n \in DOMAIN file : file[n].symbol = Unreadable
     THEN loaded' = "failed" /\ UNCHANGED store
     ELSE loaded' = "yes" /\ store' = LoadParquet(file)
  /\ UNCHANGED <<file, slice>>

-----------------------------------------------------------------------------
(* MarketData as a view.  The bars before a time, and those up to it, are   *)
(* the first ones of a sorted list: how many, partition_point says.         *)
Earlier(bars, t) == {n \in DOMAIN bars : bars[n].ts < t}
NotAfter(bars, t) == {n \in DOMAIN bars : bars[n].ts <= t}
PartitionPoint(first) == Cardinality(first)

BarAt(id, t) == Lookup(Lookup(store.bars_by_time, t, <<>>), id, NoBar)

BarAtOrBefore(id, t) ==
  LET bars == Lookup(store.bars, id, <<>>)
      idx == PartitionPoint(NotAfter(bars, t))
  IN  CASE BarAt(id, t) # NoBar -> BarAt(id, t)
        [] BarAt(id, t) = NoBar /\ idx > 0 -> bars[idx]
        [] OTHER -> NoBar

BarsInRange(id, start, end) ==
  LET bars == Lookup(store.bars, id, <<>>)
  IN  SubSeq(bars, PartitionPoint(Earlier(bars, start)) + 1,
                   PartitionPoint(NotAfter(bars, end)))

(* ArchivedMarketDataView: the same answers from the archive, by searches   *)
(* written out: the bounds after each round, until they meet.  Indexes      *)
(* count from 0.                                                            *)
Search(bars, from, first) ==
  LET bounds[round \in 0 .. Len(bars)] ==
        IF round = 0 THEN [low |-> from, high |-> Len(bars)]
        ELSE LET b == bounds[round - 1]
                 mid == b.low + (b.high - b.low) \div 2
             IN  CASE b.low >= b.high -> b
                   [] b.low < b.high /\ mid + 1 \in first -> [low |-> mid + 1, high |-> b.high]
                   [] b.low < b.high /\ mid + 1 \notin first -> [low |-> b.low, high |-> mid]
  IN  bounds[Len(bars)].low

ArchivedBarAtOrBefore(id, t) ==
  LET bars == Lookup(store.bars, id, <<>>)
      low == Search(bars, 0, NotAfter(bars, t))
  IN  CASE BarAt(id, t) # NoBar -> BarAt(id, t)
        [] BarAt(id, t) = NoBar /\ low > 0 -> bars[low]
        [] OTHER -> NoBar

ArchivedBarsInRange(id, start, end) ==
  LET bars == Lookup(store.bars, id, <<>>)
      first == Search(bars, 0, Earlier(bars, start))
  IN  SubSeq(bars, first + 1, Search(bars, first, NotAfter(bars, end)))

-----------------------------------------------------------------------------
(* bt data slice.                                                           *)
Chain(underlying) ==
  {s \in DOMAIN Options \cap DOMAIN store.instruments :
     Options[s].underlying \in Matches[underlying]}

(* The expiries within a week, of whatever underlying the name matches.     *)
WeeklyExpiries(underlying, day) ==
  {e \in {Options[s].expiry : s \in Chain(underlying)} : e - day \in 0 .. 7}

Contracts(underlying, expiry, low, high) ==
  {s \in Chain(underlying) : Options[s].expiry = expiry
                             /\ Options[s].strike \in low .. high}

(* Mutant: whatever bar came last before the minute ended.                  *)
MinuteMatchAnyAge(id, t) == ArchivedBarAtOrBefore(id, t + Minute - 1)

(* The bar of the minute that starts at t, not before it.                   *)
MinuteMatch(id, t) ==
  LET bar == ArchivedBarAtOrBefore(id, t + Minute - 1)
  IN  IF bar.ts >= t THEN bar ELSE NoBar

Line(id, t, fillForward) ==
  CASE BarAt(id, t) # NoBar -> [status |-> "exact", bar |-> BarAt(id, t)]
    [] BarAt(id, t) = NoBar /\ MinuteMatch(id, t) # NoBar ->
         [status |-> "minute", bar |-> MinuteMatch(id, t)]
    [] OTHER ->
         LET bar == IF fillForward THEN ArchivedBarAtOrBefore(id, t) ELSE NoBar
         IN  [status |-> IF bar = NoBar THEN "missing" ELSE "ffill", bar |-> bar]

NoSlice == [lines |-> <<>>, time |-> -1, fill |-> FALSE]

(* The command changes nothing, so that one slice of each store is enough.  *)
Slice(t, underlying, expiry, low, high, fillForward) ==
  /\ loaded = "yes" /\ slice = NoSlice
  /\ slice' = [time |-> t, fill |-> fillForward,
               lines |-> [s \in Contracts(underlying, expiry, low, high) |->
                           Line(store.instruments[s], t, fillForward)]]
  /\ UNCHANGED <<file, loaded, store>>

(* Without an expiry it fails where there is none near.                     *)
SliceNearest(t, underlying, low, high, fillForward) ==
  LET expiries == WeeklyExpiries(underlying, DayOf[t])
  IN  /\ expiries # {}
      /\ Slice(t, underlying, Min(expiries), low, high, fillForward)

-----------------------------------------------------------------------------
StoreInit ==
  /\ file \in BoundedSeq(Rows, MaxRows)
  /\ loaded = "no" /\ store = Empty
  /\ slice = NoSlice

Strikes == {Options[s].strike : s \in DOMAIN Options}

StoreNext ==
  \/ Load
  \/ \E t \in Stamps, underlying \in DOMAIN Matches, low, high \in Strikes,
       fill \in BOOLEAN :
       \/ SliceNearest(t, underlying, low, high, fill)
       \/ \E expiry \in {Options[s].expiry : s \in DOMAIN Options} :
            Slice(t, underlying, expiry, low, high, fill)

StoreSpec == StoreInit /\ [][StoreNext]_storeVars

-----------------------------------------------------------------------------
(* What the file says: the rows of a symbol within a range of times, those  *)
(* of one time in the order of the file.                                    *)
RowsOf(symbol, start, end) ==
  {n \in DOMAIN file : file[n].symbol = symbol /\ file[n].ts \in start .. end}

Latest(symbol, t) ==
  LET rows == RowsOf(symbol, 0, t)
      newest == {n \in rows : \A m \in rows : file[m].ts <= file[n].ts}
  IN  IF rows = {} THEN NoBar
      ELSE [ts |-> file[Max(newest)].ts, row |-> Max(newest)]

(* Every instrument of the file has an id of its own, and both views give,  *)
(* for any time, the last row of the file at or before it, and for any      *)
(* range its rows in order of time: whatever the order of the file, and     *)
(* with several rows of one time, which the two indexes treat differently.  *)
ViewsAgreeWithFile ==
  loaded = "yes" =>
    /\ IsInjective(store.instruments)
    /\ \A s \in DOMAIN store.instruments, t \in Stamps :
         LET id == store.instruments[s]
         IN  /\ BarAtOrBefore(id, t) = Latest(s, t)
             /\ ArchivedBarAtOrBefore(id, t) = Latest(s, t)
             /\ BarAt(id, t) = IF Latest(s, t).ts = t THEN Latest(s, t) ELSE NoBar
             /\ \A u \in Stamps : u >= t =>
                  LET rows == BarsInRange(id, t, u)
                  IN  /\ ArchivedBarsInRange(id, t, u) = rows
                      /\ {rows[n].row : n \in DOMAIN rows} = RowsOf(s, t, u)
                      /\ \A m, n \in DOMAIN rows : m < n =>
                           \/ rows[m].ts < rows[n].ts
                           \/ rows[m].ts = rows[n].ts /\ rows[m].row < rows[n].row

(* A slice never looks past its minute; a line that is exact or of the      *)
(* minute shows its latest row within the minute, exact if it can be; an    *)
(* older row is shown only where the minute has none and filling was asked  *)
(* for; and nothing is called missing that could be shown.                  *)
SliceShowsTheMinute ==
  \A s \in DOMAIN slice.lines :
    LET line == slice.lines[s]
        t == slice.time
        inMinute == RowsOf(s, t, t + Minute - 1)
    IN  /\ line.bar # NoBar => line.bar = Latest(s, line.bar.ts)
        /\ line.status = "exact" <=> RowsOf(s, t, t) # {}
        /\ line.status \in {"exact", "minute"} <=> inMinute # {}
        /\ inMinute # {} => line.bar.row \in inMinute
        /\ line.status = "minute" => line.bar = Latest(s, t + Minute - 1)
        /\ line.status = "ffill" => slice.fill /\ line.bar = Latest(s, t)
        /\ line.status = "missing" =>
             inMinute = {} /\ (slice.fill => Latest(s, t) = NoBar)
=============================================================================
