------------------------------ MODULE Reporting ------------------------------
(***************************************************************************)
(* The report of a run (reporting/): nothing of it is kept while the run   *)
(* goes on; metrics.rs, json.rs and post_analysis.rs each replay           *)
(* Account.trades through Position::update, portfolio.rs sums up the       *)
(* attribution.  A list that a loop over the trades pushes to is a         *)
(* function of the trades that pushed, by their index.  Ratios are kept as *)
(* pairs <<numerator, denominator>>, the statistics that need roots        *)
(* (Sharpe, Sortino, beta) are left out.                                   *)
(***************************************************************************)
EXTENDS Ledger

CONSTANTS
  Timeline,     (* timestamps with bars                                      *)
  LocalDay,     (* timestamp -> day                                          *)
  Closes,       (* instrument -> [timestamps with a bar -> close]            *)
  Bounds,       (* date bounds a run may have: [from, to], or NoBounds       *)
  NoBounds,
  Tax           (* rate of FlatRateTaxModel, <<numerator, denominator>>      *)

ASSUME ReportingAssumption ==
  /\ Timeline \subseteq Nat /\ IsFiniteSet(Timeline)
  /\ \A i \in Instruments : \A t \in DOMAIN Closes[i] : t \in Timeline /\ Closes[i][t] \in Int
  /\ \A t, u \in Timeline : t <= u => LocalDay[t] <= LocalDay[u]
  /\ Tax \in Nat \X (Nat \ {0}) /\ Tax[1] <= Tax[2]   \* rate.clamp(0.0, 1.0)

-----------------------------------------------------------------------------
(* Replays of the trade log                                                 *)

NoPositions == [i \in Instruments |-> NewPosition]

Book(book, t) == [book EXCEPT ![t.inst] = PositionUpdate(@, t)]

(* The books after the first n trades.                                      *)
Books ==
  LET books[n \in 0 .. Len(trades)] ==
        IF n = 0 THEN NoPositions ELSE Book(books[n - 1], trades[n])
  IN  books

(* Mutant: the profit of a trade that flips its position is forgotten.      *)
DeltaUnlessFlipped(books, n) ==
  LET i == trades[n].inst
  IN  IF Sign(books[n][i].qty) = -Sign(books[n - 1][i].qty) THEN 0
      ELSE books[n][i].realized - books[n - 1][i].realized

Delta(books, n) ==
  LET i == trades[n].inst IN books[n][i].realized - books[n - 1][i].realized

NonZero(f) == Restrict(f, {n \in DOMAIN f : f[n] # 0})

(* realized_pnl_deltas, and the same again in realized_trade_deltas.        *)
RealizedDeltas ==
  LET books == Books IN NonZero([n \in DOMAIN trades |-> Delta(books, n)])

(* realized_close_stats computes the profit of a close on its own.          *)
CloseStat(books, n) ==
  LET f == trades[n]
      pos == books[n - 1][f.inst]
      closed == ClosedQty(pos, f)
  IN  [closed |-> closed > 0 /\ pos.avg > 0,
       pnl |-> (f.price - pos.avg) * Sign(pos.qty) * closed]

CloseStats ==
  LET books == Books
      closes == {n \in DOMAIN trades : CloseStat(books, n).closed}
  IN  [n \in closes |-> CloseStat(books, n).pnl]

-----------------------------------------------------------------------------
(* calculate_metrics                                                        *)

Total(f) == SumOver(f, DOMAIN f)
Gains(deltas) == Restrict(deltas, {n \in DOMAIN deltas : deltas[n] > 0})
Losses(deltas) == Restrict(deltas, {n \in DOMAIN deltas : deltas[n] < 0})

(* Gross profit over gross loss, infinite without losses, 0 without trades. *)
Infinity == <<1, 0>>
ProfitFactor(deltas) ==
  LET profit == Total(Gains(deltas))
      loss == -Total(Losses(deltas))
  IN  IF loss > 0 THEN <<profit, loss>> ELSE IF profit > 0 THEN Infinity ELSE <<0, 1>>

AtCost == [i \in Instruments |-> positions[i].avg]
FinalEquity == Equity(AtCost)
FeesCharged == Total([n \in DOMAIN trades |-> trades[n].fee])
Turnover == Total([n \in DOMAIN trades |-> Abs(Cost(trades[n]))])

(* build_equity_curve: no fees, no open positions; point 0 is the start,    *)
(* the others are those of the deltas.                                      *)
EquityCurve ==
  LET deltas == RealizedDeltas
  IN  [n \in {0} \cup DOMAIN deltas |->
         InitialCapital + SumOver(deltas, {m \in DOMAIN deltas : m <= n})]

FinalPoint(curve) == CHOOSE n \in DOMAIN curve : \A m \in DOMAIN curve : m <= n

Less(p, q) == p[1] * q[2] < q[1] * p[2]
Larger(a, b) == IF a >= b THEN a ELSE b

(* max_drawdown_pct and drawdown_recovery_periods walk the curve alike:     *)
(* worst is equity over peak where that was least, trough its point.        *)
Drawdown(acc, n, e) ==
  LET peak == Larger(acc.peak, e)
  IN  IF peak > 0 /\ Less(<<e, peak>>, acc.worst)
        THEN [peak |-> peak, worst |-> <<e, peak>>, trough |-> {n}]
        ELSE [acc EXCEPT !.peak = peak]

Unfallen(e) == [peak |-> e, worst |-> <<1, 1>>, trough |-> {}]

(* The walk as far as the points made by the first n trades.                *)
Walk(curve) ==
  LET walk[n \in 0 .. Len(trades)] ==
        IF n = 0 THEN Drawdown(Unfallen(curve[0]), 0, curve[0])
        ELSE IF n \in DOMAIN curve THEN Drawdown(walk[n - 1], n, curve[n])
        ELSE walk[n - 1]
  IN  walk[Len(trades)]

MaxDrawdown(curve) == Walk(curve).worst

AfterTrough(curve) == {n \in DOMAIN curve : \E t \in Walk(curve).trough : t < n}

(* Points from the trough to the first that is back at the peak: 0 for no   *)
(* drawdown, and for one that was never recovered (unwrap_or).              *)
DrawdownRecovery(curve) ==
  LET back == {n \in AfterTrough(curve) : curve[n] >= Walk(curve).worst[2]}
      first == CHOOSE n \in back : \A m \in back : n <= m
  IN  IF back = {} THEN 0 ELSE Cardinality({n \in AfterTrough(curve) : n <= first})

-----------------------------------------------------------------------------
(* portfolio.rs and post_analysis.rs                                        *)

Trading == {s \in Strategies : attribution[s].count > 0}
PortfolioTotal(of) == SumOver([s \in Trading |-> attribution[s][of]], Trading)

RoundedShare(x) == (2 * x * Tax[1] + Tax[2]) \div (2 * Tax[2])
ComputeTax(x) == IF x <= 0 THEN 0 ELSE RoundedShare(x)
TotalTax(deltas) == Total([n \in DOMAIN deltas |-> ComputeTax(deltas[n])])

-----------------------------------------------------------------------------
(* json.rs: position events                                                 *)

(* Mutant: long and short positions cancel.                                 *)
NetIsFlat(book) == SumOver([i \in Instruments |-> book[i].qty], Instruments) = 0

IsFlat(book) == \A i \in Instruments : book[i].qty = 0

ChangeType(before, after) ==
  IF before = 0 /\ after # 0 THEN "open"
  ELSE IF before # 0 /\ after = 0 THEN "close"
  ELSE IF before # 0 /\ Sign(after) # Sign(before) THEN "flip"
  ELSE IF Abs(after) > Abs(before) THEN "increase"
  ELSE "reduce"

PositionEvent(books, n) ==
  LET i == trades[n].inst
  IN  [delta |-> Delta(books, n), before |-> books[n - 1][i].qty, after |-> books[n][i].qty,
       change |-> ChangeType(books[n - 1][i].qty, books[n][i].qty)]

(* The portfolio-level event of a trade, where there is one.                *)
BookEvent(books, n) ==
  IF IsFlat(books[n - 1]) = IsFlat(books[n]) THEN "none"
  ELSE IF IsFlat(books[n]) THEN "flatten_book"
  ELSE "open_book"

BookEvents ==
  LET books == Books
  IN  [n \in {m \in DOMAIN trades : BookEvent(books, m) # "none"} |-> BookEvent(books, n)]

-----------------------------------------------------------------------------
(* json.rs: build_daily_curves                                              *)

TradeTimes == {trades[n].ts : n \in DOMAIN trades}

(* Without bounds, from the first trade to the last.                        *)
InRun(t, b) ==
  IF b # NoBounds THEN b.from <= t /\ t <= b.to
  ELSE (\E u \in TradeTimes : u <= t) /\ (\E u \in TradeTimes : t <= u)

DayEnds(b) ==
  LET run == {t \in Timeline : InRun(t, b)}
  IN  {t \in run : \A u \in run : LocalDay[u] = LocalDay[t] => u <= t}

(* Mutant: the trades of the last timestamp are left to the next day.       *)
DoneStrictlyBefore(t) == {n \in DOMAIN trades : trades[n].ts < t}

(* The trades booked by t: fills come in the order of time, so that sorting *)
(* the log by it changes nothing and these are the first of the log.        *)
DoneBy(t) == {n \in DOMAIN trades : trades[n].ts <= t}

Paid(f) == SideSign(f.side) * Cost(f) + f.fee
CashBy(done) == InitialCapital - SumOver([n \in done |-> Paid(trades[n])], done)

(* The close at or before t, else the cost.                                 *)
MarkAt(i, t, book) ==
  LET known == {u \in DOMAIN Closes[i] : u <= t}
  IN  IF known = {} THEN book[i].avg
      ELSE Closes[i][CHOOSE u \in known : \A v \in known : v <= u]

DailyEquity(t) ==
  LET book == Books[Cardinality(DoneBy(t))]
  IN  CashBy(DoneBy(t)) + SumOver([i \in Instruments |-> book[i].qty * MarkAt(i, t, book)],
                                  Instruments)

-----------------------------------------------------------------------------
(* Wins and losses are counted from one list and averaged over another; the *)
(* two lists agree, so that no average of a win or a loss is over nothing   *)
(* (the expectancy of a run with a win rate would be zero times infinity).  *)
WinsAgree ==
  LET deltas == RealizedDeltas
      closes == CloseStats
  IN  Gains(closes) = Gains(deltas) /\ Losses(closes) = Losses(deltas)

(* Four replays and three running totals of one run tell the same story:    *)
(* what the metrics, the tax summary and the portfolio view call realized   *)
(* is what the account and its instruments booked, fees and notional are    *)
(* those of the log, and the equity reported at the end is the end of the   *)
(* equity curve less the fees, up to what average costs were rounded by; a  *)
(* profit factor above one is a profit in the account.                      *)
ReportsAgree ==
  LET deltas == RealizedDeltas
      curve == EquityCurve
  IN  /\ RealizedAgrees /\ WinsAgree
      /\ Total(deltas) = realized_pnl
      /\ PortfolioTotal("realized") = realized_pnl
      /\ PortfolioTotal("fees") = FeesCharged
      /\ PortfolioTotal("gross") = Turnover
      /\ PortfolioTotal("count") = Len(trades)
      /\ FinalEquity = curve[FinalPoint(curve)] - FeesCharged + RoundingDrift
      /\ realized_pnl > 0 <=> Less(<<1, 1>>, ProfitFactor(deltas))
      /\ TotalTax(deltas) \in 0 .. Total(Gains(deltas))

(* The drawdown is the worst fall from any point to any later one (of the   *)
(* points with positive equity: below zero the fall is taken from the peak  *)
(* alone), and a recovery is counted from the trough to the first point     *)
(* that is back at the peak; a recovery of 0 says that there was no         *)
(* drawdown or that the run ended before it was made good.                  *)
DrawdownIsWorst ==
  LET c == EquityCurve
      w == Walk(c)
      k == DrawdownRecovery(c)
      pairs == {p \in (DOMAIN c) \X (DOMAIN c) : p[1] <= p[2]}
  IN  /\ (\A n \in DOMAIN c : c[n] > 0) =>
           \A p \in pairs : ~Less(<<c[p[2]], c[p[1]]>>, w.worst)
      /\ \E p \in pairs : c[p[2]] * w.worst[2] = w.worst[1] * c[p[1]]
      /\ k = 0 => \A n \in AfterTrough(c) : c[n] < w.worst[2]
      /\ k > 0 => \E n \in AfterTrough(c) :
                    /\ c[n] >= w.worst[2] /\ k = Cardinality({m \in AfterTrough(c) : m <= n})
                    /\ \A m \in w.trough \cup AfterTrough(c) : m < n => c[m] < w.worst[2]

(* The book opens and is flattened in turn, and the last of these events    *)
(* says how the account ends; profit is realized where an event says that   *)
(* a position was reduced, closed or flipped, and nowhere else.             *)
BookEventsTellTheBook ==
  LET books == Books
      events == BookEvents
  IN  /\ \A n \in DOMAIN events :
           LET before == {m \in DOMAIN events : m < n}
           IN  events[n] = IF Cardinality(before) % 2 = 0 THEN "open_book" ELSE "flatten_book"
      /\ Cardinality(DOMAIN events) % 2 = 0 <=> \A i \in Instruments : positions[i].qty = 0
      /\ \A n \in DOMAIN trades :
           LET e == PositionEvent(books, n)
           IN  /\ e.delta # 0 => e.change \in {"reduce", "close", "flip"}
               /\ e.change = "flip" => e.before * e.after < 0
               /\ e.change \in {"increase", "reduce"} => e.before * e.after > 0

(* What a day's equity is by definition: the capital, and of every trade up *)
(* to then what its units have gained at the market, less its fee.          *)
MarketEquity(t) ==
  LET gained(f) == SignedQty(f) * (MarkAt(f.inst, t, NoPositions) - f.price) - f.fee
  IN  InitialCapital + SumOver([n \in DoneBy(t) |-> gained(trades[n])], DoneBy(t))

(* The daily curve marks positions to the market, exactly, since no average *)
(* cost enters; and a run that ends flat has the same equity in its last    *)
(* day as in its metrics, which hold positions at cost.                     *)
DailyCurveIsMarked ==
  \A b \in Bounds : \A t \in DayEnds(b) :
    LET equity == DailyEquity(t)
    IN  /\ (\A i \in Instruments : \E u \in DOMAIN Closes[i] : u <= t)
             => equity = MarketEquity(t)
        /\ (\A u \in TradeTimes : u <= t) /\ IsFlat(positions) => equity = FinalEquity

(* Both curves of the report are what they are said to be: drawdown and     *)
(* recovery of the curve of realized profit, and the daily curve at the     *)
(* market.                                                                  *)
CurvesAreReal == DrawdownIsWorst /\ DailyCurveIsMarked
=============================================================================
