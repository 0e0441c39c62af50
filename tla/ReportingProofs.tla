--------------------------- MODULE ReportingProofs ---------------------------
(***************************************************************************)
(* The reports of Reporting.tla after any sequence of fills: what the      *)
(* replays of the trade log compute is what the account has booked.        *)
(***************************************************************************)
EXTENDS Reporting, LedgerProofs

-----------------------------------------------------------------------------
(* Induction up to a number, over a set.                                    *)

LEMMA UpTo ==
  ASSUME NEW N \in Nat, NEW S, 0 \in S, \A n \in 1 .. N : n - 1 \in S => n \in S
  PROVE  0 .. N \subseteq S
<1>. DEFINE I == 0 .. N
            Bad == {n \in I : n \notin S}
            Sets == {0 .. n : n \in Bad}
<1>1. SUFFICES ASSUME Bad # {} PROVE FALSE
  OBVIOUS
<1>2. IsFiniteSet(I)
  BY FS_Interval
<1>3. Sets \subseteq SUBSET I /\ Sets # {}
  BY <1>1
<1>. HIDE DEF I, Sets
<1>4. PICK T \in Sets : \A U \in Sets : U \subseteq T => U = T
  BY <1>2, <1>3, SmallestSet
<1>. USE DEF I, Sets
<1>5. PICK n \in Bad : T = 0 .. n
  BY <1>4
<1>6. n \in 1 .. N /\ n - 1 \in Bad
  BY <1>5
<1>7. 0 .. (n - 1) \in Sets /\ 0 .. (n - 1) \subseteq T
  BY <1>5, <1>6
<1>8. n \in T /\ n \notin 0 .. (n - 1)
  BY <1>5, <1>6
<1>. QED
  BY <1>4, <1>7, <1>8

-----------------------------------------------------------------------------
(* The replay of the trade log.                                             *)

Replays(b, log, n) ==
  b = [k \in 0 .. n |-> IF k = 0 THEN NoPositions ELSE Book(b[k - 1], log[k])]

LEMMA ReplayExists ==
  ASSUME NEW log, NEW N \in Nat
  PROVE  \E b : Replays(b, log, N)
<1>. DEFINE S == {n \in 0 .. N : \E b : Replays(b, log, n)}
<1>1. 0 \in S
  <2>. DEFINE b == [k \in 0 .. 0 |-> NoPositions]
  <2>1. Replays(b, log, 0)
    BY DEF Replays
  <2>. QED
    BY <2>1
<1>2. ASSUME NEW n \in 1 .. N, n - 1 \in S PROVE n \in S
  <2>1. PICK b : Replays(b, log, n - 1)
    BY <1>2
  <2>. DEFINE c == [k \in 0 .. n |-> IF k < n THEN b[k] ELSE Book(b[n - 1], log[n])]
  <2>2. \A k \in 0 .. n - 1 : b[k] = IF k = 0 THEN NoPositions ELSE Book(b[k - 1], log[k])
    BY <2>1 DEF Replays
  <2>3. \A k \in 0 .. n : c[k] = IF k = 0 THEN NoPositions ELSE Book(c[k - 1], log[k])
    <3>. TAKE k \in 0 .. n
    <3>1. CASE k = n
      BY <3>1
    <3>2. CASE k < n
      BY <3>2, <2>2
    <3>. QED
      BY <3>1, <3>2
  <2>4. c = [k \in 0 .. n |-> c[k]]
    OBVIOUS
  <2>. HIDE DEF c
  <2>5. Replays(c, log, n)
    BY <2>3, <2>4 DEF Replays
  <2>. QED
    BY <2>5
<1>. HIDE DEF S
<1>3. 0 .. N \subseteq S
  BY <1>1, <1>2, UpTo
<1>. QED
  BY <1>3 DEF S

LEMMA BooksReplay == LedgerTypeOK => Replays(Books, trades, Len(trades))
<1>1. LedgerTypeOK => Len(trades) \in Nat
  BY DEF LedgerTypeOK
<1>2. LedgerTypeOK => \E b : Replays(b, trades, Len(trades))
  BY <1>1, ReplayExists
<1>. QED
  BY <1>2 DEF Books, Replays

LEMMA BooksAt ==
  ASSUME LedgerTypeOK
  PROVE  /\ Books[0] = NoPositions
         /\ \A n \in 1 .. Len(trades) : Books[n] = Book(Books[n - 1], trades[n])
<1>. DEFINE b == Books
<1>. HIDE DEF b
<1>1. b = [k \in 0 .. Len(trades) |-> IF k = 0 THEN NoPositions ELSE Book(b[k - 1], trades[k])]
  BY BooksReplay DEF Replays, b
<1>2. Len(trades) \in Nat
  BY DEF LedgerTypeOK
<1>3. \A n \in 0 .. Len(trades) : b[n] = IF n = 0 THEN NoPositions ELSE Book(b[n - 1], trades[n])
  BY <1>1
<1>. QED
  BY <1>2, <1>3 DEF b

(* Two replays agree as far as their logs do.                               *)
LEMMA ReplaysAgree ==
  ASSUME NEW log, NEW log2, NEW N \in Nat, NEW M \in Nat, N <= M,
         \A k \in 1 .. N : log2[k] = log[k],
         NEW b, Replays(b, log, N), NEW c, Replays(c, log2, M)
  PROVE  \A k \in 0 .. N : c[k] = b[k]
<1>. DEFINE S == {k \in 0 .. N : c[k] = b[k]}
<1>1. /\ \A k \in 0 .. N : b[k] = IF k = 0 THEN NoPositions ELSE Book(b[k - 1], log[k])
      /\ \A k \in 0 .. M : c[k] = IF k = 0 THEN NoPositions ELSE Book(c[k - 1], log2[k])
  BY DEF Replays
<1>2. 0 \in S
  BY <1>1
<1>3. ASSUME NEW n \in 1 .. N, n - 1 \in S PROVE n \in S
  BY <1>1, <1>3
<1>. HIDE DEF S
<1>4. 0 .. N \subseteq S
  BY <1>2, <1>3, UpTo
<1>. QED
  BY <1>4 DEF S

LEMMA TradesAre ==
  ASSUME LedgerTypeOK
  PROVE  /\ DOMAIN trades = 1 .. Len(trades) /\ Len(trades) \in Nat
         /\ \A n \in 1 .. Len(trades) : trades[n] \in Fills
<1>. DEFINE F == Fills
<1>1. trades \in Seq(F)
  BY DEF LedgerTypeOK
<1>. HIDE DEF F
<1>2. DOMAIN trades = 1 .. Len(trades) /\ Len(trades) \in Nat
      /\ \A n \in 1 .. Len(trades) : trades[n] \in F
  BY <1>1
<1>. QED
  BY <1>2 DEF F

LEMMA BookAt ==
  ASSUME NEW book \in [Instruments -> Positions], NEW f \in Fills
  PROVE  /\ Book(book, f) \in [Instruments -> Positions]
         /\ Book(book, f)[f.inst] = PositionUpdate(book[f.inst], f)
         /\ \A i \in Instruments \ {f.inst} : Book(book, f)[i] = book[i]
<1>1. f.inst \in Instruments /\ PositionUpdate(book[f.inst], f) \in Positions
  BY FillFields, PositionUpdateType
<1>. QED
  BY <1>1 DEF Book

LEMMA BooksType ==
  ASSUME LedgerTypeOK
  PROVE  \A n \in 0 .. Len(trades) : Books[n] \in [Instruments -> Positions]
<1>. DEFINE S == {n \in 0 .. Len(trades) : Books[n] \in [Instruments -> Positions]}
<1>1. 0 \in S
  <2>1. NoPositions \in [Instruments -> Positions]
    BY DEF NoPositions, NewPosition, Positions
  <2>. QED
    BY <2>1, BooksAt, TradesAre
<1>2. ASSUME NEW n \in 1 .. Len(trades), n - 1 \in S PROVE n \in S
  <2>1. Books[n] = Book(Books[n - 1], trades[n]) /\ trades[n] \in Fills
    BY BooksAt, TradesAre
  <2>2. Books[n - 1] \in [Instruments -> Positions]
    BY <1>2
  <2>3. Book(Books[n - 1], trades[n]) \in [Instruments -> Positions]
    BY <2>1, <2>2, BookAt
  <2>. QED
    BY <2>1, <2>3
<1>. HIDE DEF S
<1>3. 0 .. Len(trades) \subseteq S
  BY <1>1, <1>2, UpTo, TradesAre
<1>. QED
  BY <1>3 DEF S

(* What the n-th trade does to the books.                                   *)
LEMMA BookStep ==
  ASSUME LedgerTypeOK, NEW n \in 1 .. Len(trades)
  PROVE  LET f == trades[n]
             old == Books[n - 1]
             new == Books[n]
         IN  /\ f \in Fills /\ f.inst \in Instruments
             /\ old \in [Instruments -> Positions] /\ new \in [Instruments -> Positions]
             /\ new[f.inst] = PositionUpdate(old[f.inst], f)
             /\ \A i \in Instruments \ {f.inst} : new[i] = old[i]
             /\ Delta(Books, n) = RealizedBy(old[f.inst], f)
             /\ Delta(Books, n) \in Int
<1>. DEFINE f == trades[n]
            old == Books[n - 1]
            new == Books[n]
<1>1. f \in Fills /\ f.inst \in Instruments /\ n \in 0 .. Len(trades) /\ n - 1 \in 0 .. Len(trades)
  BY TradesAre, FillFields
<1>2. old \in [Instruments -> Positions] /\ new \in [Instruments -> Positions]
  BY <1>1, BooksType
<1>3. new = Book(old, f)
  BY BooksAt
<1>4. /\ new[f.inst] = PositionUpdate(old[f.inst], f)
      /\ \A i \in Instruments \ {f.inst} : new[i] = old[i]
  BY <1>1, <1>2, <1>3, BookAt
<1>5. old[f.inst] \in Positions /\ RealizedBy(old[f.inst], f) \in Int
  BY <1>1, <1>2, ClosedType
<1>6. new[f.inst].realized = old[f.inst].realized + RealizedBy(old[f.inst], f)
  BY <1>4 DEF PositionUpdate
<1>7. Delta(Books, n) = new[f.inst].realized - old[f.inst].realized
  BY DEF Delta
<1>8. old[f.inst].realized \in Int
  BY <1>5 DEF Positions
<1>9. Delta(Books, n) = RealizedBy(old[f.inst], f)
  BY <1>5, <1>6, <1>7, <1>8
<1>. QED
  BY <1>1, <1>2, <1>4, <1>5, <1>9

-----------------------------------------------------------------------------
(* Position events.                                                         *)

LEMMA SignOfProduct ==
  ASSUME NEW a \in Int, NEW b \in Int
  PROVE  /\ a # 0 /\ Sign(a) = Sign(b) => a * b > 0
         /\ a # 0 /\ b # 0 /\ Sign(a) # Sign(b) => a * b < 0
<1>1. CASE a > 0
  <2>1. b > 0 => a * b > 0
    BY <1>1
  <2>2. b < 0 => a * b < 0
    BY <1>1
  <2>. QED
    BY <1>1, <2>1, <2>2 DEF Sign
<1>2. CASE a < 0
  <2>1. b > 0 => a * b < 0
    BY <1>2
  <2>2. b < 0 => a * b > 0
    BY <1>2
  <2>. QED
    BY <1>2, <2>1, <2>2 DEF Sign
<1>. QED
  BY <1>1, <1>2 DEF Sign

(* Profit comes of closing units, and the change of the quantity shows it.  *)
LEMMA ChangeTold ==
  ASSUME NEW pos \in Positions, NEW f \in Fills,
         NEW before, before = pos.qty, NEW after, after = PositionUpdate(pos, f).qty
  PROVE  /\ RealizedBy(pos, f) # 0 => ChangeType(before, after) \in {"reduce", "close", "flip"}
         /\ ChangeType(before, after) = "flip" => before * after < 0
         /\ ChangeType(before, after) \in {"increase", "reduce"} => before * after > 0
<1>1. /\ f.qty \in Nat \ {0} /\ f.price \in Int /\ f.side \in {"buy", "sell"}
      /\ before \in Int /\ pos.avg \in Int
  BY FillFields DEF Positions
<1>2. SideSign(f.side) \in {1, -1} /\ after = before + SideSign(f.side) * f.qty
  BY <1>1 DEF PositionUpdate, SignedQty, SideSign
<1>3. after \in Int
  BY <1>1, <1>2
<1>4. ASSUME RealizedBy(pos, f) # 0
      PROVE  before # 0 /\ Sign(before) = -SideSign(f.side)
  <2>1. ClosedQty(pos, f) # 0
    <3>1. SUFFICES ASSUME ClosedQty(pos, f) = 0 PROVE FALSE
      OBVIOUS
    <3>2. (f.price - pos.avg) * Sign(pos.qty) \in Int
      BY <1>1, ClosedType
    <3>3. RealizedBy(pos, f) = ((f.price - pos.avg) * Sign(pos.qty)) * 0
      BY <3>1 DEF RealizedBy
    <3>. QED
      BY <1>4, <3>2, <3>3
  <2>. QED
    BY <1>1, <1>2, <2>1 DEF ClosedQty, Sign
<1>5. ASSUME before # 0, Sign(before) = -SideSign(f.side)
      PROVE  ChangeType(before, after) \in {"reduce", "close", "flip"}
  <2>1. CASE SideSign(f.side) = 1
    BY <1>1, <1>2, <1>3, <1>5, <2>1 DEF ChangeType, Sign, Abs
  <2>2. CASE SideSign(f.side) = -1
    BY <1>1, <1>2, <1>3, <1>5, <2>2 DEF ChangeType, Sign, Abs
  <2>. QED
    BY <1>2, <2>1, <2>2
<1>6. before # after
  <2>1. SideSign(f.side) = 1 => after = before + f.qty
    BY <1>1, <1>2
  <2>2. SideSign(f.side) = -1 => after = before - f.qty
    BY <1>1, <1>2
  <2>. QED
    BY <1>1, <1>2, <2>1, <2>2
<1>7. ASSUME ChangeType(before, after) = "flip" PROVE before * after < 0
  <2>1. before # 0 /\ after # 0 /\ Sign(before) # Sign(after)
    BY <1>7 DEF ChangeType
  <2>. QED
    BY <1>1, <1>3, <2>1, SignOfProduct
<1>8. ASSUME ChangeType(before, after) \in {"increase", "reduce"} PROVE before * after > 0
  <2>1. before # 0 /\ Sign(before) = Sign(after)
    BY <1>6, <1>8 DEF ChangeType
  <2>. QED
    BY <1>1, <1>3, <2>1, SignOfProduct
<1>. QED
  BY <1>4, <1>5, <1>7, <1>8

LEMMA BookEventIs ==
  ASSUME NEW books, NEW n
  PROVE  /\ BookEvent(books, n) = "none" <=> (IsFlat(books[n - 1]) <=> IsFlat(books[n]))
         /\ BookEvent(books, n) # "none" =>
              BookEvent(books, n) = IF IsFlat(books[n - 1]) THEN "open_book" ELSE "flatten_book"
<1>. DEFINE was == IsFlat(books[n - 1])
            is == IsFlat(books[n])
<1>1. was \in BOOLEAN /\ is \in BOOLEAN
  BY DEF IsFlat
<1>2. BookEvent(books, n) = IF was = is THEN "none" ELSE IF is THEN "flatten_book" ELSE "open_book"
  BY DEF BookEvent
<1>. HIDE DEF was, is
<1>3. /\ BookEvent(books, n) = "none" <=> (was <=> is)
      /\ BookEvent(books, n) # "none" =>
           BookEvent(books, n) = IF was THEN "open_book" ELSE "flatten_book"
  BY <1>1, <1>2
<1>. QED
  BY <1>3 DEF was, is

(* The trades up to the n-th that opened or flattened the book.             *)
Turns(n) == {m \in 1 .. n : BookEvent(Books, m) # "none"}

(* The book is flat when as many trades flattened it as opened it.          *)
LEMMA TurnsAreEven ==
  ASSUME LedgerTypeOK
  PROVE  \A n \in 0 .. Len(trades) :
           /\ Cardinality(Turns(n)) \in Nat
           /\ Cardinality(Turns(n)) % 2 = 0 <=> IsFlat(Books[n])
<1>. DEFINE Told(n) == /\ Cardinality(Turns(n)) \in Nat
                       /\ Cardinality(Turns(n)) % 2 = 0 <=> IsFlat(Books[n])
            S == {n \in 0 .. Len(trades) : Told(n)}
<1>1. 0 \in S
  <2>1. Turns(0) = {}
    BY DEF Turns
  <2>2. IsFlat(Books[0])
    BY BooksAt DEF IsFlat, NoPositions, NewPosition
  <2>3. Cardinality(Turns(0)) = 0
    BY <2>1, FS_EmptySet
  <2>. QED
    BY <2>2, <2>3, TradesAre
<1>2. ASSUME NEW n \in 1 .. Len(trades), n - 1 \in S PROVE n \in S
  <2>. DEFINE c == Cardinality(Turns(n - 1))
  <2>1. c \in Nat /\ (c % 2 = 0 <=> IsFlat(Books[n - 1]))
    BY <1>2
  <2>2. IsFiniteSet(Turns(n - 1)) /\ n \notin Turns(n - 1)
    <3>1. Turns(n - 1) \subseteq 1 .. (n - 1)
      BY DEF Turns
    <3>2. IsFiniteSet(1 .. (n - 1))
      BY FS_Interval
    <3>. QED
      BY <3>1, <3>2, FS_Subset
  <2>3. CASE BookEvent(Books, n) = "none"
    <3>1. Turns(n) = Turns(n - 1)
      BY <2>3 DEF Turns
    <3>. QED
      BY <2>1, <2>3, <3>1, BookEventIs
  <2>4. CASE BookEvent(Books, n) # "none"
    <3>1. Turns(n) = Turns(n - 1) \cup {n}
      BY <2>4 DEF Turns
    <3>2. Cardinality(Turns(n)) = c + 1
      BY <2>2, <3>1, FS_AddElement
    <3>3. (c + 1) % 2 = 0 <=> ~(c % 2 = 0)
      BY <2>1
    <3>. QED
      BY <2>1, <2>4, <3>2, <3>3, BookEventIs
  <2>. QED
    BY <2>3, <2>4
<1>. HIDE DEF S
<1>3. 0 .. Len(trades) \subseteq S
  BY <1>1, <1>2, UpTo, TradesAre
<1>. QED
  BY <1>3 DEF S

(* The books end as the account's.                                          *)
Replayed == positions = Books[Len(trades)]

LEMMA EventsTell ==
  ASSUME LedgerTypeOK, Replayed
  PROVE  BookEventsTellTheBook
<1>. DEFINE N == Len(trades)
            events == BookEvents
<1>1. DOMAIN trades = 1 .. N /\ N \in Nat
  BY TradesAre
<1>2. /\ DOMAIN events = Turns(N)
      /\ \A n \in Turns(N) : events[n] = BookEvent(Books, n)
  BY <1>1 DEF BookEvents, Turns
<1>3. ASSUME NEW n \in DOMAIN events
      PROVE  LET before == {m \in DOMAIN events : m < n}
             IN  events[n] = IF Cardinality(before) % 2 = 0 THEN "open_book" ELSE "flatten_book"
  <2>1. n \in 1 .. N /\ BookEvent(Books, n) # "none" /\ events[n] = BookEvent(Books, n)
    BY <1>2 DEF Turns
  <2>2. {m \in DOMAIN events : m < n} = Turns(n - 1)
    BY <1>1, <1>2, <2>1 DEF Turns
  <2>3. Cardinality(Turns(n - 1)) % 2 = 0 <=> IsFlat(Books[n - 1])
    BY <1>1, <2>1, TurnsAreEven
  <2>4. events[n] = IF IsFlat(Books[n - 1]) THEN "open_book" ELSE "flatten_book"
    BY <2>1, BookEventIs
  <2>. QED
    BY <2>2, <2>3, <2>4
<1>4. Cardinality(DOMAIN events) % 2 = 0 <=> \A i \in Instruments : positions[i].qty = 0
  BY <1>1, <1>2, TurnsAreEven DEF Replayed, IsFlat
<1>5. ASSUME NEW n \in DOMAIN trades
      PROVE  LET e == PositionEvent(Books, n)
             IN  /\ e.delta # 0 => e.change \in {"reduce", "close", "flip"}
                 /\ e.change = "flip" => e.before * e.after < 0
                 /\ e.change \in {"increase", "reduce"} => e.before * e.after > 0
  <2>. DEFINE f == trades[n]
              pos == Books[n - 1][f.inst]
              before == pos.qty
              after == Books[n][f.inst].qty
  <2>1. /\ f \in Fills /\ pos \in Positions
        /\ after = PositionUpdate(pos, f).qty /\ Delta(Books, n) = RealizedBy(pos, f)
    BY <1>1, BookStep
  <2>2. PositionEvent(Books, n) =
          [delta |-> Delta(Books, n), before |-> before, after |-> after,
           change |-> ChangeType(before, after)]
    BY DEF PositionEvent
  <2>. HIDE DEF f, pos
  <2>3. /\ RealizedBy(pos, f) # 0 => ChangeType(before, after) \in {"reduce", "close", "flip"}
        /\ ChangeType(before, after) = "flip" => before * after < 0
        /\ ChangeType(before, after) \in {"increase", "reduce"} => before * after > 0
    BY <2>1, ChangeTold
  <2>. QED
    BY <2>1, <2>2, <2>3
<1>. HIDE DEF events
<1>. QED
  BY <1>3, <1>4, <1>5 DEF BookEventsTellTheBook, events

-----------------------------------------------------------------------------
(* The invariant of the reports: the replay ends in the account's books, a  *)
(* strategy without trades has booked nothing, counts, fees and notional of *)
(* the strategies are together those of the log, and cash is what the log   *)
(* has left of the capital.                                                 *)

CountFor == [s \in Strategies |-> attribution[s].count]
GrossFor == [s \in Strategies |-> attribution[s].gross]

LogTotal(V, log) == TotalOf(V, log, Among(log, Fills))

IdleBooksNothing ==
  \A s \in Strategies : attribution[s].count = 0 =>
    attribution[s].realized = 0 /\ attribution[s].fees = 0 /\ attribution[s].gross = 0

AttributionAddsUp ==
  /\ SumOver(CountFor, Strategies) = Len(trades)
  /\ SumOver(FeesPaid, Strategies) = LogTotal(FeeOf, trades)
  /\ SumOver(GrossFor, Strategies) = LogTotal(GrossOf, trades)

PaidOf == [t \in Fills |-> Paid(t)]
CashIsLeft == cash = InitialCapital - LogTotal(PaidOf, trades)

ReportInv == BooksInv /\ Replayed /\ IdleBooksNothing /\ AttributionAddsUp /\ CashIsLeft

LEMMA OnFillReplayed ==
  ASSUME NEW f \in Fills, LedgerTypeOK, Replayed, OnFill(f)
  PROVE  Replayed'
<1>. DEFINE N == Len(trades)
            b == Books
            c == Books'
<1>1. LedgerTypeOK'
  BY OnFillType
<1>2. /\ N \in Nat /\ Len(trades') = N + 1 /\ trades' = Append(trades, f)
      /\ \A k \in 1 .. N : trades'[k] = trades[k]
      /\ trades'[N + 1] = f
  <2>. DEFINE F == Fills
  <2>1. trades \in Seq(F) /\ trades' = Append(trades, f) /\ f \in F
    BY DEF LedgerTypeOK, OnFill, AccountOnFill
  <2>. HIDE DEF F
  <2>. QED
    BY <2>1
<1>3. Replays(b, trades, N)
  BY BooksReplay
<1>4. Replays(c, trades', N + 1)
  <2>1. (LedgerTypeOK => Replays(Books, trades, Len(trades)))'
    BY BooksReplay, PTL
  <2>. QED
    BY <1>1, <1>2, <2>1 DEF Replays
<1>. HIDE DEF b, c
<1>5. c[N] = b[N]
  <2>. DEFINE L == trades'
              M == N + 1
  <2>1. N \in Nat /\ M \in Nat /\ N <= M /\ N \in 0 .. N
    BY <1>2
  <2>2. \A k \in 1 .. N : L[k] = trades[k]
    BY <1>2
  <2>3. Replays(c, L, M)
    BY <1>4
  <2>. HIDE DEF L, M, N
  <2>4. \A k \in 0 .. N : c[k] = b[k]
    BY <1>3, <2>1, <2>2, <2>3, ReplaysAgree
  <2>. QED
    BY <2>1, <2>4
<1>6. c[N + 1] = Book(c[N], f)
  <2>. DEFINE L == trades'
  <2>1. c = [k \in 0 .. N + 1 |-> IF k = 0 THEN NoPositions ELSE Book(c[k - 1], L[k])]
    BY <1>4 DEF Replays
  <2>2. L[N + 1] = f /\ N + 1 \in 0 .. N + 1 /\ N + 1 # 0 /\ (N + 1) - 1 = N
    BY <1>2
  <2>. HIDE DEF L, N
  <2>3. c[N + 1] = Book(c[(N + 1) - 1], L[N + 1])
    BY <2>1, <2>2
  <2>. QED
    BY <2>2, <2>3
<1>7. positions' = [positions EXCEPT ![f.inst] = PositionUpdate(positions[f.inst], f)]
  BY DEF OnFill, AccountOnFill
<1>8. positions' = Book(positions, f)
  BY <1>7 DEF Book
<1>9. positions = b[N]
  BY DEF Replayed, b
<1>10. positions' = c[N + 1]
  BY <1>5, <1>6, <1>8, <1>9
<1>. QED
  BY <1>2, <1>10 DEF Replayed, c

LEMMA OnFillAttribution ==
  ASSUME NEW f \in Fills, LedgerTypeOK, IdleBooksNothing, AttributionAddsUp, OnFill(f)
  PROVE  IdleBooksNothing' /\ AttributionAddsUp'
<1>. DEFINE gain == RealizedBy(positions[f.inst], f)
            s == f.strat
            Entries == [count : Nat, realized : Int, fees : Int, gross : Nat]
<1>1. /\ s \in Strategies /\ f.fee \in Int /\ Abs(Cost(f)) \in Nat /\ IsFiniteSet(Strategies)
      /\ attribution \in [Strategies -> Entries]
      /\ attribution' = [attribution EXCEPT ![s] = AttributionUpdate(attribution[s], f, gain)]
  BY FillFields, AbsType, LedgerAssumption DEF LedgerTypeOK, OnFill, AccountOnFill
<1>2. gain \in Int
  <2>1. positions[f.inst] \in Positions
    BY FillFields DEF LedgerTypeOK, Positions
  <2>. QED
    BY <2>1, ClosedType
<1>. HIDE DEF gain
<1>3. /\ attribution'[s].count = attribution[s].count + 1
      /\ attribution'[s].gross = attribution[s].gross + Abs(Cost(f))
      /\ \A t \in Strategies \ {s} : attribution'[t] = attribution[t]
      /\ \A t \in Strategies : attribution[t] \in Entries
      /\ DOMAIN attribution' = Strategies
  BY <1>1 DEF AttributionUpdate
<1>4. IdleBooksNothing'
  <2>1. attribution[s].count + 1 # 0
    BY <1>1
  <2>. QED
    BY <1>3, <2>1 DEF IdleBooksNothing
<1>5. /\ \A t \in Strategies : CountFor[t] \in Int /\ CountFor'[t] \in Int
      /\ \A t \in Strategies \ {s} : CountFor[t] = CountFor'[t]
      /\ CountFor'[s] - CountFor[s] = 1
  BY <1>1, <1>3 DEF CountFor
<1>6. /\ \A t \in Strategies : GrossFor[t] \in Int /\ GrossFor'[t] \in Int
      /\ \A t \in Strategies \ {s} : GrossFor[t] = GrossFor'[t]
      /\ GrossFor'[s] - GrossFor[s] = Abs(Cost(f))
  BY <1>1, <1>3 DEF GrossFor
<1>7. SumOver(CountFor', Strategies) = SumOver(CountFor, Strategies) + (CountFor'[s] - CountFor[s])
  BY <1>1, <1>5, SumChange
<1>8. SumOver(GrossFor', Strategies) = SumOver(GrossFor, Strategies) + (GrossFor'[s] - GrossFor[s])
  BY <1>1, <1>6, SumChange
<1>9. SumOver(FeesPaid', Strategies) = SumOver(FeesPaid, Strategies) + f.fee
  BY OnFillSums
<1>10. /\ LogTotal(FeeOf, trades') = LogTotal(FeeOf, trades) + f.fee
       /\ LogTotal(GrossOf, trades') = LogTotal(GrossOf, trades) + Abs(Cost(f))
  <2>1. FeeOf[f] = f.fee /\ GrossOf[f] = Abs(Cost(f))
    BY DEF FeeOf, GrossOf
  <2>2. LogTotal(FeeOf, trades') = LogTotal(FeeOf, trades) + (IF f \in Fills THEN FeeOf[f] ELSE 0)
    BY TotalOnFill, ValuesOfFills DEF LogTotal
  <2>3. LogTotal(GrossOf, trades') = LogTotal(GrossOf, trades) + (IF f \in Fills THEN GrossOf[f] ELSE 0)
    BY TotalOnFill, ValuesOfFills DEF LogTotal
  <2>. QED
    BY <2>1, <2>2, <2>3
<1>11. Len(trades') = Len(trades) + 1
  <2>. DEFINE F == Fills
  <2>1. trades \in Seq(F) /\ trades' = Append(trades, f) /\ f \in F
    BY DEF LedgerTypeOK, OnFill, AccountOnFill
  <2>. HIDE DEF F
  <2>. QED
    BY <2>1
<1>12. AttributionAddsUp'
  BY <1>5, <1>6, <1>7, <1>8, <1>9, <1>10, <1>11 DEF AttributionAddsUp
<1>. QED
  BY <1>4, <1>12

LEMMA PaidIs ==
  /\ PaidOf \in [Fills -> Int]
  /\ \A f \in Fills : /\ PaidOf[f] = Paid(f) /\ Paid(f) \in Int
                      /\ Paid(f) = SignedQty(f) * f.price + f.fee
<1>1. ASSUME NEW f \in Fills
      PROVE  Paid(f) \in Int /\ Paid(f) = SignedQty(f) * f.price + f.fee
  <2>1. /\ f.side \in {"buy", "sell"} /\ f.qty \in Nat \ {0} /\ f.price \in Int /\ f.fee \in Int
        /\ Cost(f) \in Int
    BY FillFields
  <2>2. SideSign(f.side) \in {-1, 1}
    BY <2>1 DEF SideSign
  <2>3. (SideSign(f.side) * f.qty) * f.price = SideSign(f.side) * (f.qty * f.price)
    BY <2>1, <2>2, SignTimes
  <2>. QED
    BY <2>1, <2>2, <2>3 DEF Paid, SignedQty, Cost
<1>. QED
  BY <1>1 DEF PaidOf

LEMMA OnFillCash ==
  ASSUME NEW f \in Fills, LedgerTypeOK, CashIsLeft, OnFill(f)
  PROVE  CashIsLeft'
<1>1. cash' = CashAfter(f) /\ cash \in Int /\ f.side \in {"buy", "sell"}
      /\ Cost(f) \in Int /\ f.fee \in Int
  BY FillFields DEF OnFill, AccountOnFill, LedgerTypeOK
<1>2. cash' = cash - Paid(f)
  BY <1>1 DEF CashAfter, Paid, SideSign
<1>3. /\ LogTotal(PaidOf, trades') = LogTotal(PaidOf, trades) + (IF f \in Fills THEN PaidOf[f] ELSE 0)
      /\ LogTotal(PaidOf, trades) \in Int
  BY TotalOnFill, PaidIs DEF LogTotal
<1>4. PaidOf[f] = Paid(f) /\ Paid(f) \in Int /\ InitialCapital \in Int
  BY PaidIs, LedgerAssumption
<1>. QED
  BY <1>1, <1>2, <1>3, <1>4 DEF CashIsLeft

LEMMA InitReport == LedgerInit => ReportInv
<1>. SUFFICES ASSUME LedgerInit PROVE ReportInv
  OBVIOUS
<1>1. BooksInv /\ LedgerTypeOK
  BY InitBooks, LedgerInitType
<1>2. /\ trades = <<>> /\ Len(trades) = 0 /\ positions = NoPositions
      /\ \A s \in Strategies : /\ attribution[s].count = 0 /\ attribution[s].realized = 0
                               /\ attribution[s].fees = 0 /\ attribution[s].gross = 0
  BY DEF LedgerInit, NoPositions
<1>3. Replayed
  BY <1>1, <1>2, BooksAt DEF Replayed
<1>4. /\ SumOver(CountFor, Strategies) = 0 /\ SumOver(FeesPaid, Strategies) = 0
      /\ SumOver(GrossFor, Strategies) = 0
  <2>1. \A s \in Strategies : CountFor[s] = 0 /\ FeesPaid[s] = 0 /\ GrossFor[s] = 0
    BY <1>2 DEF CountFor, FeesPaid, GrossFor
  <2>. QED
    BY <2>1, LedgerAssumption, SumOfZeros
<1>5. /\ LogTotal(FeeOf, trades) = 0 /\ LogTotal(GrossOf, trades) = 0
      /\ LogTotal(PaidOf, trades) = 0
  <2>1. Among(trades, Fills) = {}
    BY <1>2 DEF Among
  <2>2. \A V : TotalOf(V, trades, {}) = 0
    BY SumUnfold, FS_EmptySet DEF TotalOf
  <2>. QED
    BY <2>1, <2>2 DEF LogTotal
<1>6. CashIsLeft
  BY <1>5, LedgerAssumption DEF CashIsLeft, LedgerInit
<1>. QED
  BY <1>1, <1>2, <1>3, <1>4, <1>5, <1>6 DEF ReportInv, IdleBooksNothing, AttributionAddsUp

LEMMA OnFillReport ==
  ASSUME NEW f \in Fills, ReportInv, OnFill(f)
  PROVE  ReportInv'
<1>1. LedgerTypeOK
  BY DEF ReportInv, BooksInv
<1>2. BooksInv'
  BY OnFillBooks DEF ReportInv
<1>3. Replayed'
  BY <1>1, OnFillReplayed DEF ReportInv
<1>4. IdleBooksNothing' /\ AttributionAddsUp'
  BY <1>1, OnFillAttribution DEF ReportInv
<1>5. CashIsLeft'
  BY <1>1, OnFillCash DEF ReportInv
<1>. QED
  BY <1>2, <1>3, <1>4, <1>5 DEF ReportInv

LEMMA SameReport ==
  ASSUME ReportInv, UNCHANGED ledgerVars
  PROVE  ReportInv'
<1>1. BooksInv'
  BY SameBooks DEF ReportInv
<1>2. trades' = trades /\ positions' = positions /\ attribution' = attribution /\ cash' = cash
  BY DEF ledgerVars, accountVars
<1>3. Books' = Books
  BY <1>2 DEF Books
<1>4. CountFor' = CountFor /\ GrossFor' = GrossFor /\ FeesPaid' = FeesPaid
  BY <1>2 DEF CountFor, GrossFor, FeesPaid
<1>. QED
  BY <1>1, <1>2, <1>3, <1>4
     DEF ReportInv, Replayed, IdleBooksNothing, AttributionAddsUp, CashIsLeft

LEMMA ReportInvariant == LedgerSpec => []ReportInv
<1>1. ReportInv /\ [LedgerNext]_ledgerVars => ReportInv'
  BY OnFillReport, SameReport DEF LedgerNext
<1>. QED
  BY <1>1, InitReport, PTL DEF LedgerSpec

(* The book opens and is flattened in turn, the last event says how the     *)
(* account ends, and profit is realized where an event says that a position *)
(* shrank: build_position_event_records tells of any sequence of fills what *)
(* the account has booked.                                                  *)
THEOREM ReportEvents == LedgerSpec => []BookEventsTellTheBook
<1>1. ReportInv => BookEventsTellTheBook
  BY EventsTell DEF ReportInv, BooksInv
<1>. QED
  BY <1>1, ReportInvariant, PTL

-----------------------------------------------------------------------------
(* More of sums.                                                            *)

LEMMA SumPlus ==
  ASSUME NEW f, NEW g, NEW h, NEW S, IsFiniteSet(S),
         \A x \in S : f[x] \in Int /\ g[x] \in Int /\ h[x] = f[x] + g[x]
  PROVE  SumOver(h, S) = SumOver(f, S) + SumOver(g, S)
<1>. DEFINE Adds(T) == SumOver(h, T) = SumOver(f, T) + SumOver(g, T)
            Wrong == {T \in SUBSET S : ~Adds(T)}
<1>1. SUFFICES ASSUME Wrong # {} PROVE FALSE
  OBVIOUS
<1>2. PICK T \in Wrong : IsFiniteSet(T) /\ \A U \in Wrong : U \subseteq T => U = T
  <2>1. Wrong \subseteq SUBSET S
    OBVIOUS
  <2>. HIDE DEF Wrong
  <2>. QED
    BY <1>1, <2>1, SmallestSet
<1>3. CASE T = {}
  <2>1. SumOver(h, {}) = 0 /\ SumOver(f, {}) = 0 /\ SumOver(g, {}) = 0
    BY SumUnfold, FS_EmptySet
  <2>2. Adds(T)
    BY <1>3, <2>1
  <2>. QED
    BY <1>2, <2>2
<1>4. CASE T # {}
  <2>1. PICK x \in T : TRUE
    BY <1>4
  <2>. DEFINE U == T \ {x}
  <2>2. U \in SUBSET S /\ U \subseteq T /\ U # T /\ IsFiniteSet(U)
    BY <1>2, <2>1, FS_Subset
  <2>3. Adds(U)
    BY <1>2, <2>2
  <2>4. /\ \A y \in T : f[y] \in Int /\ g[y] \in Int /\ h[y] \in Int /\ h[y] = f[y] + g[y]
        /\ \A y \in U : f[y] \in Int /\ g[y] \in Int
    BY <1>2
  <2>5. SumOver(h, T) = h[x] + SumOver(h, U)
    BY <1>2, <2>1, <2>4, SumRemove
  <2>6. SumOver(f, T) = f[x] + SumOver(f, U)
    BY <1>2, <2>1, <2>4, SumRemove
  <2>7. SumOver(g, T) = g[x] + SumOver(g, U)
    BY <1>2, <2>1, <2>4, SumRemove
  <2>8. SumOver(f, U) \in Int /\ SumOver(g, U) \in Int
    BY <2>2, <2>4, SumType
  <2>. HIDE DEF U
  <2>9. Adds(T)
    BY <2>1, <2>3, <2>4, <2>5, <2>6, <2>7, <2>8
  <2>. QED
    BY <1>2, <2>9
<1>. QED
  BY <1>3, <1>4

LEMMA SumNatural ==
  ASSUME NEW f, NEW S, IsFiniteSet(S), \A x \in S : f[x] \in Nat
  PROVE  SumOver(f, S) \in Nat
<1>. DEFINE Wrong == {T \in SUBSET S : SumOver(f, T) \notin Nat}
<1>1. SUFFICES ASSUME Wrong # {} PROVE FALSE
  OBVIOUS
<1>2. PICK T \in Wrong : IsFiniteSet(T) /\ \A U \in Wrong : U \subseteq T => U = T
  <2>1. Wrong \subseteq SUBSET S
    OBVIOUS
  <2>. HIDE DEF Wrong
  <2>. QED
    BY <1>1, <2>1, SmallestSet
<1>3. T # {}
  <2>1. SumOver(f, {}) = 0
    BY SumUnfold, FS_EmptySet
  <2>2. SumOver(f, T) \notin Nat
    BY <1>2
  <2>3. T = {} => SumOver(f, T) = 0
    BY <2>1
  <2>. QED
    BY <2>2, <2>3
<1>4. PICK x \in T : TRUE
  BY <1>3
<1>5. SumOver(f, T \ {x}) \in Nat
  BY <1>2, <1>4
<1>6. SumOver(f, T) = f[x] + SumOver(f, T \ {x})
  <2>1. \A y \in T : f[y] \in Int
    BY <1>2
  <2>. QED
    BY <1>2, <1>4, <2>1, SumRemove
<1>7. f[x] \in Nat
  BY <1>2, <1>4
<1>. QED
  BY <1>2, <1>5, <1>6, <1>7

LEMMA SumAtMost ==
  ASSUME NEW f, NEW g, NEW S, IsFiniteSet(S),
         \A x \in S : f[x] \in Int /\ g[x] \in Int /\ f[x] <= g[x]
  PROVE  SumOver(f, S) <= SumOver(g, S)
<1>. DEFINE rest == [x \in S |-> g[x] - f[x]]
<1>1. \A x \in S : rest[x] \in Nat /\ rest[x] \in Int /\ g[x] = f[x] + rest[x]
  OBVIOUS
<1>. HIDE DEF rest
<1>2. SumOver(rest, S) \in Nat
  BY <1>1, SumNatural
<1>3. SumOver(g, S) = SumOver(f, S) + SumOver(rest, S)
  BY <1>1, SumPlus
<1>4. SumOver(f, S) \in Int
  BY SumType
<1>. QED
  BY <1>2, <1>3, <1>4

(* A restriction adds up to the sum over its part of the domain.            *)
LEMMA TotalOfRestrict ==
  ASSUME NEW f, NEW S, IsFiniteSet(S)
  PROVE  Total(Restrict(f, S)) = SumOver(f, S)
<1>. DEFINE g == Restrict(f, S)
<1>1. DOMAIN g = S /\ \A x \in S : f[x] = g[x]
  BY DEF Restrict
<1>. HIDE DEF g
<1>2. SumOver(f, S) = SumOver(g, S)
  BY <1>1, SumSame
<1>. QED
  BY <1>1, <1>2 DEF Total, g

(* A sum is that of its gains and that of its losses.                       *)
LEMMA SumBySign ==
  ASSUME NEW f, IsFiniteSet(DOMAIN f), \A x \in DOMAIN f : f[x] \in Int
  PROVE  /\ Total(f) = Total(Gains(f)) + Total(Losses(f))
         /\ Total(Gains(f)) \in Nat /\ Total(Losses(f)) \in Int /\ Total(Losses(f)) <= 0
         /\ Total(Gains(f)) = SumOver([x \in DOMAIN f |-> IF f[x] > 0 THEN f[x] ELSE 0], DOMAIN f)
<1>. DEFINE D == DOMAIN f
            up == [x \in D |-> IF f[x] > 0 THEN f[x] ELSE 0]
            down == [x \in D |-> IF f[x] < 0 THEN f[x] ELSE 0]
            zero == [x \in D |-> 0]
            P == {x \in D : f[x] > 0}
            M == {x \in D : f[x] < 0}
<1>1. /\ \A x \in D : up[x] \in Nat /\ up[x] \in Int /\ down[x] \in Int /\ f[x] = up[x] + down[x]
      /\ \A x \in D : down[x] <= zero[x] /\ zero[x] \in Int /\ zero[x] = 0
      /\ \A x \in D \ P : up[x] = 0
      /\ \A x \in D \ M : down[x] = 0
      /\ \A x \in P : f[x] = up[x]
      /\ \A x \in M : f[x] = down[x]
  OBVIOUS
<1>2. P \subseteq D /\ M \subseteq D /\ IsFiniteSet(P) /\ IsFiniteSet(M) /\ IsFiniteSet(D)
  BY FS_Subset
<1>3. Gains(f) = Restrict(f, P) /\ Losses(f) = Restrict(f, M)
  BY DEF Gains, Losses
<1>. HIDE DEF up, down, zero, P, M
<1>4. SumOver(f, D) = SumOver(up, D) + SumOver(down, D)
  <2>. HIDE DEF D
  <2>. QED
    BY <1>1, <1>2, SumPlus
<1>5. SumOver(up, D) = SumOver(up, P) /\ SumOver(up, P) = SumOver(f, P)
  <2>1. SumOver(up, D) = SumOver(up, P)
    BY <1>1, <1>2, SumNonZero
  <2>2. SumOver(f, P) = SumOver(up, P)
    BY <1>1, <1>2, SumSame
  <2>. QED
    BY <2>1, <2>2
<1>6. SumOver(down, D) = SumOver(down, M) /\ SumOver(down, M) = SumOver(f, M)
  <2>1. SumOver(down, D) = SumOver(down, M)
    BY <1>1, <1>2, SumNonZero
  <2>2. SumOver(f, M) = SumOver(down, M)
    BY <1>1, <1>2, SumSame
  <2>. QED
    BY <2>1, <2>2
<1>7. SumOver(up, D) \in Nat
  BY <1>1, <1>2, SumNatural
<1>8. SumOver(down, D) \in Int /\ SumOver(down, D) <= SumOver(zero, D) /\ SumOver(zero, D) = 0
  <2>1. SumOver(down, D) \in Int
    BY <1>1, <1>2, SumType
  <2>2. SumOver(down, D) <= SumOver(zero, D)
    BY <1>1, <1>2, SumAtMost
  <2>3. SumOver(zero, D) = 0
    BY <1>1, <1>2, SumOfZeros
  <2>. QED
    BY <2>1, <2>2, <2>3
<1>9. Total(Gains(f)) = SumOver(f, P) /\ Total(Losses(f)) = SumOver(f, M) /\ Total(f) = SumOver(f, D)
  BY <1>2, <1>3, TotalOfRestrict DEF Total
<1>. QED
  BY <1>4, <1>5, <1>6, <1>7, <1>8, <1>9 DEF up

-----------------------------------------------------------------------------
(* What the replay realizes is what the account has realized.               *)

LogDeltas == [n \in DOMAIN trades |-> Delta(Books, n)]

LEMMA DeltasAre ==
  ASSUME LedgerTypeOK
  PROVE  /\ IsFiniteSet(DOMAIN trades)
         /\ \A n \in DOMAIN trades : LogDeltas[n] = Delta(Books, n) /\ LogDeltas[n] \in Int
         /\ DOMAIN RealizedDeltas = {n \in DOMAIN trades : LogDeltas[n] # 0}
         /\ \A n \in DOMAIN RealizedDeltas : RealizedDeltas[n] = LogDeltas[n]
         /\ IsFiniteSet(DOMAIN RealizedDeltas)
         /\ Total(RealizedDeltas) = SumOver(LogDeltas, DOMAIN trades)
<1>. DEFINE T == DOMAIN trades
            D == {n \in T : LogDeltas[n] # 0}
<1>1. T = 1 .. Len(trades) /\ IsFiniteSet(T)
  BY TradesAre, FS_Interval
<1>2. \A n \in T : LogDeltas[n] = Delta(Books, n) /\ LogDeltas[n] \in Int
  BY <1>1, BookStep DEF LogDeltas
<1>3. RealizedDeltas = Restrict(LogDeltas, D)
  <2>1. DOMAIN LogDeltas = T
    BY DEF LogDeltas
  <2>. QED
    BY <2>1 DEF RealizedDeltas, NonZero, LogDeltas
<1>4. IsFiniteSet(D) /\ D \subseteq T
  BY <1>1, FS_Subset
<1>5. DOMAIN RealizedDeltas = D /\ \A n \in D : RealizedDeltas[n] = LogDeltas[n]
  <2>. HIDE DEF D
  <2>. QED
    BY <1>3 DEF Restrict
<1>6. \A n \in T \ D : LogDeltas[n] = 0
  OBVIOUS
<1>. HIDE DEF T, D
<1>7. Total(RealizedDeltas) = SumOver(LogDeltas, D)
  BY <1>3, <1>4, TotalOfRestrict
<1>8. SumOver(LogDeltas, T) = SumOver(LogDeltas, D)
  BY <1>1, <1>2, <1>4, <1>6, SumNonZero
<1>. QED
  BY <1>1, <1>2, <1>4, <1>5, <1>7, <1>8 DEF T, D

ReplayRealized(n) == [i \in Instruments |-> Books[n][i].realized]

LEMMA DeltasAddUp ==
  ASSUME LedgerTypeOK, Replayed, RealizedAgrees
  PROVE  Total(RealizedDeltas) = realized_pnl
<1>. DEFINE N == Len(trades)
            Same(n) == SumOver(LogDeltas, 1 .. n) = SumOver(ReplayRealized(n), Instruments)
            S == {n \in 0 .. N : Same(n)}
<1>1. N \in Nat /\ DOMAIN trades = 1 .. N /\ IsFiniteSet(Instruments)
  BY TradesAre, LedgerAssumption
<1>2. 0 \in S
  <2>1. \A i \in Instruments : ReplayRealized(0)[i] = 0
    BY BooksAt DEF ReplayRealized, NoPositions, NewPosition
  <2>2. SumOver(ReplayRealized(0), Instruments) = 0
    BY <1>1, <2>1, SumOfZeros
  <2>3. 1 .. 0 = {}
    OBVIOUS
  <2>4. SumOver(LogDeltas, {}) = 0
    BY SumUnfold, FS_EmptySet
  <2>. QED
    BY <1>1, <2>2, <2>3, <2>4
<1>3. ASSUME NEW n \in 1 .. N, n - 1 \in S PROVE n \in S
  <2>. DEFINE M == 1 .. (n - 1)
              f == trades[n]
              i == f.inst
              old == ReplayRealized(n - 1)
              new == ReplayRealized(n)
  <2>1. /\ i \in Instruments /\ Books[n - 1] \in [Instruments -> Positions]
        /\ Books[n] \in [Instruments -> Positions]
        /\ \A j \in Instruments \ {i} : Books[n][j] = Books[n - 1][j]
        /\ Delta(Books, n) = Books[n][i].realized - Books[n - 1][i].realized
    BY BookStep DEF Delta
  <2>2. /\ \A j \in Instruments : old[j] \in Int /\ new[j] \in Int
        /\ \A j \in Instruments \ {i} : old[j] = new[j]
        /\ new[i] - old[i] = Delta(Books, n)
    BY <2>1 DEF ReplayRealized, Positions
  <2>3. /\ IsFiniteSet(M) /\ n \notin M /\ 1 .. n = M \cup {n}
        /\ \A m \in M \cup {n} : m \in DOMAIN trades
    <3>1. IsFiniteSet(M)
      BY FS_Interval
    <3>2. n \notin M /\ 1 .. n = M \cup {n} /\ M \cup {n} \subseteq 1 .. N
      BY <1>1
    <3>. QED
      BY <1>1, <3>1, <3>2
  <2>4. /\ \A m \in M \cup {n} : LogDeltas[m] \in Int
        /\ LogDeltas[n] = Delta(Books, n)
    BY <2>3, DeltasAre
  <2>5. SumOver(LogDeltas, M) = SumOver(old, Instruments)
    BY <1>3
  <2>. HIDE DEF M, f, i, old, new
  <2>6. SumOver(new, Instruments) = SumOver(old, Instruments) + (new[i] - old[i])
    BY <1>1, <2>1, <2>2, SumChange
  <2>7. SumOver(LogDeltas, M \cup {n}) = SumOver(LogDeltas, M) + LogDeltas[n]
    BY <2>3, <2>4, SumAdd
  <2>8. SumOver(LogDeltas, 1 .. n) = SumOver(new, Instruments)
    BY <2>2, <2>3, <2>4, <2>5, <2>6, <2>7
  <2>. QED
    BY <2>8 DEF new
<1>. HIDE DEF S
<1>4. 0 .. N \subseteq S
  BY <1>1, <1>2, <1>3, UpTo
<1>5. SumOver(LogDeltas, 1 .. N) = SumOver(ReplayRealized(N), Instruments)
  BY <1>1, <1>4 DEF S
<1>6. ReplayRealized(N) = RealizedIn
  BY DEF ReplayRealized, RealizedIn, Replayed
<1>7. realized_pnl = SumOver(RealizedIn, Instruments)
  BY RealizedIs
<1>. QED
  BY <1>1, <1>5, <1>6, <1>7, DeltasAre

(* Where prices are positive an open position has a positive cost, in the   *)
(* replay as in the account: realized_close_stats leaves no close out.      *)
PricesArePositive == \A n \in DOMAIN trades : trades[n].price > 0

LEMMA OpenCostsPositive ==
  ASSUME LedgerTypeOK, PricesArePositive
  PROVE  \A n \in 0 .. Len(trades) : \A i \in Instruments :
           Books[n][i].qty # 0 => Books[n][i].avg > 0
<1>. DEFINE Costs(n) == \A i \in Instruments : Books[n][i].qty # 0 => Books[n][i].avg > 0
            S == {n \in 0 .. Len(trades) : Costs(n)}
<1>1. 0 \in S
  <2>1. \A i \in Instruments : Books[0][i].qty = 0
    BY BooksAt DEF NoPositions, NewPosition
  <2>. QED
    BY <2>1, TradesAre
<1>2. ASSUME NEW n \in 1 .. Len(trades), n - 1 \in S PROVE n \in S
  <2>. DEFINE f == trades[n]
              pos == Books[n - 1][f.inst]
              q == PositionUpdate(pos, f).qty
              c == PositionUpdate(pos, f).avg
  <2>1. /\ f \in Fills /\ f.inst \in Instruments /\ pos \in Positions
        /\ Books[n][f.inst] = PositionUpdate(pos, f)
        /\ \A i \in Instruments \ {f.inst} : Books[n][i] = Books[n - 1][i]
    BY BookStep
  <2>2. f.price > 0 /\ f.price \in Int /\ f.qty \in Nat \ {0}
    BY <2>1, TradesAre, FillFields DEF PricesArePositive
  <2>3. Costs(n - 1)
    BY <1>2
  <2>4. pos.qty # 0 => pos.avg > 0
    BY <2>1, <2>3
  <2>5. pos.qty \in Int /\ pos.avg \in Int /\ Abs(pos.qty) \in Nat /\ (pos.qty # 0 => Abs(pos.qty) # 0)
    BY <2>1, AbsType DEF Positions
  <2>6. q # 0 => c > 0
    <3>. HIDE DEF f, pos, q, c
    <3>1. \/ /\ pos.qty # 0 /\ SideSign(f.side) = Sign(pos.qty) /\ Sign(q) = Sign(pos.qty)
             /\ c = TruncDiv(Abs(pos.qty) * pos.avg + f.qty * f.price, Abs(pos.qty) + f.qty)
          \/ /\ q # 0 /\ SideSign(f.side) = Sign(q) /\ c = f.price
          \/ /\ pos.qty # 0 /\ Sign(q) = Sign(pos.qty) /\ c = pos.avg
          \/ q = 0 /\ c = 0
      BY <2>1, FillCases DEF q, c
    <3>2. ASSUME pos.qty # 0
          PROVE  TruncDiv(Abs(pos.qty) * pos.avg + f.qty * f.price, Abs(pos.qty) + f.qty) > 0
      <4>. DEFINE avg == TruncDiv(Abs(pos.qty) * pos.avg + f.qty * f.price, Abs(pos.qty) + f.qty)
      <4>1. Abs(pos.qty) \in Nat \ {0}
        BY <2>5, <3>2
      <4>2. /\ avg \in Int
            /\ pos.avg <= f.price => pos.avg <= avg /\ avg <= f.price
            /\ f.price <= pos.avg => f.price <= avg /\ avg <= pos.avg
        BY <2>2, <2>5, <4>1, AverageBetween
      <4>. HIDE DEF avg
      <4>3. avg > 0
        BY <2>2, <2>4, <2>5, <3>2, <4>2
      <4>. QED
        BY <4>3 DEF avg
    <3>. QED
      BY <2>2, <2>4, <3>1, <3>2
  <2>7. Costs(n)
    <3>. TAKE i \in Instruments
    <3>1. CASE i = f.inst
      BY <2>1, <2>6, <3>1
    <3>2. CASE i # f.inst
      BY <2>1, <2>3, <3>2
    <3>. QED
      BY <3>1, <3>2
  <2>. QED
    BY <2>7
<1>. HIDE DEF S
<1>3. 0 .. Len(trades) \subseteq S
  BY <1>1, <1>2, UpTo, TradesAre
<1>. QED
  BY <1>3 DEF S

(* Profit is realized by closing units.                                     *)
LEMMA ProfitOfClose ==
  ASSUME NEW pos \in Positions, NEW f \in Fills, RealizedBy(pos, f) # 0
  PROVE  ClosedQty(pos, f) > 0 /\ pos.qty # 0
<1>1. (f.price - pos.avg) * Sign(pos.qty) \in Int /\ ClosedQty(pos, f) \in Nat
  BY ClosedType, FillFields DEF Positions
<1>2. ClosedQty(pos, f) # 0
  <2>1. SUFFICES ASSUME ClosedQty(pos, f) = 0 PROVE FALSE
    OBVIOUS
  <2>2. RealizedBy(pos, f) = ((f.price - pos.avg) * Sign(pos.qty)) * 0
    BY <2>1 DEF RealizedBy
  <2>. QED
    BY <1>1, <2>2
<1>3. f.side \in {"buy", "sell"}
  BY FillFields
<1>4. pos.qty # 0
  BY <1>2, <1>3 DEF ClosedQty, Sign, SideSign
<1>. QED
  BY <1>1, <1>2, <1>4

LEMMA WinsDoAgree ==
  ASSUME LedgerTypeOK, PricesArePositive
  PROVE  WinsAgree
<1>. DEFINE T == DOMAIN trades
            d == RealizedDeltas
            c == CloseStats
            C == {n \in T : CloseStat(Books, n).closed}
<1>1. /\ DOMAIN d = {n \in T : LogDeltas[n] # 0}
      /\ \A n \in DOMAIN d : d[n] = LogDeltas[n]
      /\ \A n \in T : LogDeltas[n] \in Int
  BY DeltasAre
<1>2. DOMAIN c = C /\ \A n \in C : c[n] = CloseStat(Books, n).pnl
  BY DEF CloseStats
<1>3. ASSUME NEW n \in T
      PROVE  /\ CloseStat(Books, n).pnl = LogDeltas[n]
             /\ LogDeltas[n] # 0 => n \in C
  <2>. DEFINE f == trades[n]
              pos == Books[n - 1][f.inst]
  <2>1. /\ n \in 1 .. Len(trades) /\ n - 1 \in 0 .. Len(trades)
        /\ f \in Fills /\ f.inst \in Instruments /\ pos \in Positions
        /\ LogDeltas[n] = RealizedBy(pos, f)
    BY TradesAre, BookStep DEF LogDeltas
  <2>2. pos.qty # 0 => pos.avg > 0
    BY <2>1, OpenCostsPositive
  <2>. DEFINE shut == ClosedQty(pos, f) > 0 /\ pos.avg > 0
  <2>3. CloseStat(Books, n) = [closed |-> shut, pnl |-> RealizedBy(pos, f)]
    BY DEF CloseStat, RealizedBy
  <2>. HIDE DEF f, pos
  <2>4. RealizedBy(pos, f) # 0 => ClosedQty(pos, f) > 0 /\ pos.avg > 0
    BY <2>1, <2>2, ProfitOfClose
  <2>5. CloseStat(Books, n).pnl = RealizedBy(pos, f)
    BY <2>3
  <2>6. ASSUME LogDeltas[n] # 0 PROVE n \in C
    <3>1. shut = TRUE
      BY <2>1, <2>4, <2>6
    <3>. HIDE DEF shut
    <3>2. CloseStat(Books, n).closed = shut
      BY <2>3
    <3>3. CloseStat(Books, n).closed
      BY <3>1, <3>2
    <3>4. n \in T
      OBVIOUS
    <3>. QED
      BY <3>3, <3>4, Zenon
  <2>. QED
    BY <2>1, <2>5, <2>6
<1>. HIDE DEF d, c
<1>4. /\ {n \in DOMAIN c : c[n] > 0} = {n \in DOMAIN d : d[n] > 0}
      /\ {n \in DOMAIN c : c[n] < 0} = {n \in DOMAIN d : d[n] < 0}
  BY <1>1, <1>2, <1>3
<1>5. \A n \in DOMAIN d : n \in C /\ c[n] = d[n]
  BY <1>1, <1>2, <1>3
<1>6. Gains(c) = Gains(d)
  BY <1>4, <1>5 DEF Gains, Restrict
<1>7. Losses(c) = Losses(d)
  BY <1>4, <1>5 DEF Losses, Restrict
<1>. QED
  BY <1>6, <1>7 DEF WinsAgree, d, c

-----------------------------------------------------------------------------
(* Profit factor, tax, the end of the equity curve and the portfolio view.  *)

LEMMA FactorAboveOne ==
  ASSUME LedgerTypeOK
  PROVE  Total(RealizedDeltas) > 0 <=> Less(<<1, 1>>, ProfitFactor(RealizedDeltas))
<1>. DEFINE d == RealizedDeltas
            profit == Total(Gains(d))
            loss == -Total(Losses(d))
<1>1. IsFiniteSet(DOMAIN d) /\ \A n \in DOMAIN d : d[n] \in Int
  BY DeltasAre
<1>2. Total(d) = profit - loss /\ profit \in Nat /\ loss \in Nat
  <2>. HIDE DEF d
  <2>1. /\ Total(d) = Total(Gains(d)) + Total(Losses(d))
        /\ Total(Gains(d)) \in Nat /\ Total(Losses(d)) \in Int /\ Total(Losses(d)) <= 0
    BY <1>1, SumBySign
  <2>. QED
    BY <2>1
<1>3. ProfitFactor(d) = IF loss > 0 THEN <<profit, loss>>
                        ELSE IF profit > 0 THEN <<1, 0>> ELSE <<0, 1>>
  BY DEF ProfitFactor, Infinity
<1>. HIDE DEF d, profit, loss
<1>4. \A p, q \in Nat : Less(<<1, 1>>, <<p, q>>) <=> q < p
  BY DEF Less
<1>. QED
  BY <1>2, <1>3, <1>4 DEF d

LEMMA TaxOfGain ==
  ASSUME NEW x \in Int
  PROVE  ComputeTax(x) \in Nat /\ ComputeTax(x) <= IF x > 0 THEN x ELSE 0
<1>1. CASE x <= 0
  BY <1>1 DEF ComputeTax
<1>2. CASE x > 0
  <2>. DEFINE a == Tax[1]
              b == Tax[2]
              m == 2 * x * a + b
              d == 2 * b
              k == m \div d
  <2>1. a \in Nat /\ b \in Nat \ {0} /\ a <= b
    BY ReportingAssumption
  <2>2. ComputeTax(x) = k
    BY <1>2 DEF ComputeTax, RoundedShare
  <2>. HIDE DEF a, b
  <2>3. x * a <= x * b /\ x * a \in Nat /\ x * b \in Nat
    BY <1>2, <2>1, TimesMonotone
  <2>4. m = 2 * (x * a) + b /\ d * (x + 1) = 2 * (x * b) + 2 * b
    BY <2>1
  <2>5. m \in Nat /\ d \in Nat \ {0} /\ m < d * (x + 1)
    BY <2>1, <2>3, <2>4
  <2>. HIDE DEF m, d
  <2>6. k \in Int /\ d * k <= m /\ m < d * (k + 1)
    BY <2>5
  <2>. HIDE DEF k
  <2>7. k >= 0
    <3>1. SUFFICES ASSUME k + 1 <= 0 PROVE FALSE
      BY <2>6
    <3>2. d * (k + 1) <= d * 0
      BY <2>5, <2>6, <3>1, TimesMonotone
    <3>. QED
      BY <2>5, <2>6, <3>2
  <2>8. k <= x
    <3>1. SUFFICES ASSUME x + 1 <= k PROVE FALSE
      BY <2>6
    <3>2. d * (x + 1) <= d * k
      BY <2>5, <2>6, <3>1, TimesMonotone
    <3>. QED
      BY <2>5, <2>6, <3>2
  <2>. QED
    BY <1>2, <2>2, <2>6, <2>7, <2>8
<1>. QED
  BY <1>1, <1>2

LEMMA TaxBounded ==
  ASSUME LedgerTypeOK
  PROVE  TotalTax(RealizedDeltas) \in 0 .. Total(Gains(RealizedDeltas))
<1>. DEFINE d == RealizedDeltas
            D == DOMAIN d
            tax == [n \in D |-> ComputeTax(d[n])]
            up == [n \in D |-> IF d[n] > 0 THEN d[n] ELSE 0]
<1>1. IsFiniteSet(D) /\ \A n \in D : d[n] \in Int
  BY DeltasAre
<1>2. TotalTax(d) = SumOver(tax, D)
  BY DEF TotalTax, Total
<1>3. Total(Gains(d)) = SumOver(up, D) /\ Total(Gains(d)) \in Nat
  BY <1>1, SumBySign
<1>4. \A n \in D : tax[n] \in Nat /\ tax[n] \in Int /\ up[n] \in Int /\ tax[n] <= up[n]
  <2>. HIDE DEF d
  <2>. QED
    BY <1>1, TaxOfGain
<1>. HIDE DEF d, tax, up
<1>5. SumOver(tax, D) \in Nat
  BY <1>1, <1>4, SumNatural
<1>6. SumOver(tax, D) <= SumOver(up, D)
  BY <1>1, <1>4, SumAtMost
<1>. QED
  BY <1>2, <1>3, <1>5, <1>6 DEF d

LEMMA GreatestExists ==
  ASSUME NEW N \in Nat, NEW T \in SUBSET (0 .. N), T # {}
  PROVE  \E n \in T : \A m \in T : m <= n
<1>. DEFINE I == 0 .. N
            Sets == {n .. N : n \in T}
<1>1. IsFiniteSet(I) /\ Sets \subseteq SUBSET I /\ Sets # {}
  <2>1. IsFiniteSet(I)
    BY FS_Interval
  <2>2. \A n \in T : n .. N \subseteq I
    OBVIOUS
  <2>3. T # {}
    OBVIOUS
  <2>. HIDE DEF I
  <2>. QED
    BY <2>1, <2>2, <2>3
<1>. HIDE DEF I, Sets
<1>2. PICK U \in Sets : \A V \in Sets : V \subseteq U => V = U
  BY <1>1, SmallestSet
<1>. USE DEF I, Sets
<1>3. PICK n \in T : U = n .. N
  BY <1>2
<1>4. ASSUME NEW m \in T, m > n PROVE FALSE
  <2>1. m .. N \in Sets /\ m .. N \subseteq U
    BY <1>3, <1>4
  <2>2. n \in U /\ n \notin m .. N
    BY <1>3, <1>4
  <2>. QED
    BY <1>2, <2>1, <2>2
<1>. QED
  BY <1>4

LEMMA CurveEnds ==
  ASSUME LedgerTypeOK
  PROVE  EquityCurve[FinalPoint(EquityCurve)] = InitialCapital + Total(RealizedDeltas)
<1>. DEFINE d == RealizedDeltas
            D == DOMAIN d
            c == EquityCurve
            P == {0} \cup D
            last == FinalPoint(c)
<1>1. D \subseteq 1 .. Len(trades) /\ Len(trades) \in Nat
  BY DeltasAre, TradesAre
<1>2. DOMAIN c = P /\ \A n \in P : c[n] = InitialCapital + SumOver(d, {m \in D : m <= n})
  BY DEF EquityCurve
<1>3. \E n \in P : \A m \in P : m <= n
  <2>1. P \in SUBSET (0 .. Len(trades)) /\ P # {}
    BY <1>1
  <2>. HIDE DEF P
  <2>. QED
    BY <1>1, <2>1, GreatestExists
<1>4. last \in P /\ \A m \in P : m <= last
  <2>. HIDE DEF P, c
  <2>. QED
    BY <1>2, <1>3 DEF FinalPoint
<1>5. {m \in D : m <= last} = D
  BY <1>4
<1>6. c[last] = InitialCapital + SumOver(d, D)
  <2>. HIDE DEF d, last, c
  <2>. QED
    BY <1>2, <1>4, <1>5
<1>. QED
  BY <1>6 DEF Total

LEMMA TotalsOfTrading ==
  ASSUME ReportInv
  PROVE  /\ PortfolioTotal("realized") = realized_pnl
         /\ PortfolioTotal("fees") = FeesCharged
         /\ PortfolioTotal("gross") = Turnover
         /\ PortfolioTotal("count") = Len(trades)
         /\ SumOver(FeesPaid, Strategies) = FeesCharged
<1>. DEFINE T == Trading
            Entries == [count : Nat, realized : Int, fees : Int, gross : Nat]
<1>1. /\ LedgerTypeOK /\ RealizedAgrees /\ IdleBooksNothing /\ AttributionAddsUp
      /\ attribution \in [Strategies -> Entries]
  BY DEF ReportInv, BooksInv, LedgerTypeOK
<1>2. T \subseteq Strategies /\ IsFiniteSet(Strategies) /\ IsFiniteSet(T)
  BY LedgerAssumption, FS_Subset DEF Trading
<1>3. \A s \in Strategies \ T : attribution[s].count = 0
  BY <1>1 DEF Trading
<1>. DEFINE r == [s \in T |-> attribution[s].realized]
            e == [s \in T |-> attribution[s].fees]
            g == [s \in T |-> attribution[s].gross]
            k == [s \in T |-> attribution[s].count]
<1>4. /\ PortfolioTotal("realized") = SumOver(r, T)
      /\ PortfolioTotal("fees") = SumOver(e, T)
      /\ PortfolioTotal("gross") = SumOver(g, T)
      /\ PortfolioTotal("count") = SumOver(k, T)
  BY DEF PortfolioTotal
<1>5. /\ \A s \in Strategies : RealizedFor[s] \in Int /\ FeesPaid[s] \in Int
                               /\ GrossFor[s] \in Int /\ CountFor[s] \in Int
      /\ \A s \in Strategies \ T : RealizedFor[s] = 0 /\ FeesPaid[s] = 0
                                   /\ GrossFor[s] = 0 /\ CountFor[s] = 0
      /\ \A s \in T : RealizedFor[s] = r[s] /\ FeesPaid[s] = e[s]
                      /\ GrossFor[s] = g[s] /\ CountFor[s] = k[s]
  BY <1>1, <1>2, <1>3 DEF RealizedFor, FeesPaid, GrossFor, CountFor, IdleBooksNothing
<1>. HIDE DEF T, r, e, g, k
<1>6. SumOver(RealizedFor, Strategies) = SumOver(r, T)
  <2>1. SumOver(RealizedFor, Strategies) = SumOver(RealizedFor, T)
    BY <1>2, <1>5, SumNonZero
  <2>2. SumOver(RealizedFor, T) = SumOver(r, T)
    BY <1>2, <1>5, SumSame
  <2>. QED
    BY <2>1, <2>2
<1>7. SumOver(FeesPaid, Strategies) = SumOver(e, T)
  <2>1. SumOver(FeesPaid, Strategies) = SumOver(FeesPaid, T)
    BY <1>2, <1>5, SumNonZero
  <2>2. SumOver(FeesPaid, T) = SumOver(e, T)
    BY <1>2, <1>5, SumSame
  <2>. QED
    BY <2>1, <2>2
<1>8. SumOver(GrossFor, Strategies) = SumOver(g, T)
  <2>1. SumOver(GrossFor, Strategies) = SumOver(GrossFor, T)
    BY <1>2, <1>5, SumNonZero
  <2>2. SumOver(GrossFor, T) = SumOver(g, T)
    BY <1>2, <1>5, SumSame
  <2>. QED
    BY <2>1, <2>2
<1>9. SumOver(CountFor, Strategies) = SumOver(k, T)
  <2>1. SumOver(CountFor, Strategies) = SumOver(CountFor, T)
    BY <1>2, <1>5, SumNonZero
  <2>2. SumOver(CountFor, T) = SumOver(k, T)
    BY <1>2, <1>5, SumSame
  <2>. QED
    BY <2>1, <2>2
<1>10. FeesCharged = LogTotal(FeeOf, trades) /\ Turnover = LogTotal(GrossOf, trades)
  <2>. DEFINE D == DOMAIN trades
              fee == [n \in D |-> trades[n].fee]
              gross == [n \in D |-> Abs(Cost(trades[n]))]
  <2>1. \A n \in D : trades[n] \in Fills
    BY <1>1, TradesAre
  <2>2. Among(trades, Fills) = D
    BY <2>1 DEF Among
  <2>3. fee = [n \in D |-> FeeOf[trades[n]]] /\ gross = [n \in D |-> GrossOf[trades[n]]]
    BY <2>1 DEF FeeOf, GrossOf
  <2>4. DOMAIN fee = D /\ DOMAIN gross = D
    OBVIOUS
  <2>. HIDE DEF D, fee, gross
  <2>5. Total(fee) = LogTotal(FeeOf, trades) /\ Total(gross) = LogTotal(GrossOf, trades)
    BY <2>2, <2>3, <2>4 DEF Total, LogTotal, TotalOf
  <2>. QED
    BY <2>5 DEF FeesCharged, Turnover, fee, gross, D
<1>11. realized_pnl = SumOver(RealizedFor, Strategies)
  BY <1>1, RealizedIs
<1>. QED
  BY <1>1, <1>4, <1>6, <1>7, <1>8, <1>9, <1>10, <1>11 DEF AttributionAddsUp

LEMMA EndsAgree ==
  ASSUME ReportInv
  PROVE  FinalEquity = EquityCurve[FinalPoint(EquityCurve)] - FeesCharged + RoundingDrift
<1>1. LedgerTypeOK /\ RealizedAgrees /\ Replayed
  BY DEF ReportInv, BooksInv
<1>2. EquityCurve[FinalPoint(EquityCurve)] = InitialCapital + realized_pnl
  BY <1>1, CurveEnds, DeltasAddUp
<1>3. RoundingDrift = FinalEquity - (InitialCapital + realized_pnl - SumOver(FeesPaid, Strategies))
  BY Zenon DEF RoundingDrift, FinalEquity, AtCost, FeesPaid
<1>4. SumOver(FeesPaid, Strategies) = FeesCharged
  BY TotalsOfTrading
<1>5. FinalEquity \in Int /\ SumOver(FeesPaid, Strategies) \in Int
      /\ realized_pnl \in Int /\ InitialCapital \in Int
  <2>1. FinalEquity = cash + SumOver(HeldAtCost, Instruments)
    <3>1. [i \in Instruments |-> positions[i].qty * AtCost[i]] = HeldAtCost
      BY DEF AtCost, HeldAtCost
    <3>. QED
      BY <3>1, Zenon DEF FinalEquity, Equity
  <2>2. /\ \A i \in Instruments : HeldAtCost[i] \in Int
        /\ \A s \in Strategies : FeesPaid[s] \in Int
    BY <1>1 DEF HeldAtCost, FeesPaid, LedgerTypeOK
  <2>3. SumOver(HeldAtCost, Instruments) \in Int /\ SumOver(FeesPaid, Strategies) \in Int
    BY <2>2, LedgerAssumption, SumType
  <2>. QED
    BY <1>1, <2>1, <2>3, LedgerAssumption DEF LedgerTypeOK
<1>. QED
  BY <1>2, <1>3, <1>4, <1>5

(* Where prices are positive, the reports of any sequence of fills agree    *)
(* with each other and with the account: metrics.rs, post_analysis.rs and   *)
(* portfolio.rs come to the profit, fees and notional that Account has      *)
(* booked, every close counted as a win or a loss is averaged as one, and   *)
(* the equity at the end differs from the end of the equity curve by fees   *)
(* and rounded costs only.                                                  *)
THEOREM ReportTotals == LedgerSpec => [](PricesArePositive => ReportsAgree)
<1>1. ASSUME ReportInv, PricesArePositive PROVE ReportsAgree
  <2>1. LedgerTypeOK /\ RealizedAgrees /\ Replayed
    BY <1>1 DEF ReportInv, BooksInv
  <2>2. Total(RealizedDeltas) = realized_pnl
    BY <2>1, DeltasAddUp
  <2>3. WinsAgree
    BY <1>1, <2>1, WinsDoAgree
  <2>4. realized_pnl > 0 <=> Less(<<1, 1>>, ProfitFactor(RealizedDeltas))
    BY <2>1, <2>2, FactorAboveOne
  <2>5. TotalTax(RealizedDeltas) \in 0 .. Total(Gains(RealizedDeltas))
    BY <2>1, TaxBounded
  <2>. QED
    BY <1>1, <2>1, <2>2, <2>3, <2>4, <2>5, TotalsOfTrading, EndsAgree DEF ReportsAgree
<1>. QED
  BY <1>1, ReportInvariant, PTL

-----------------------------------------------------------------------------
(* The daily curve.                                                         *)

(* Engine fills come in the order of time, so that sort_by_key leaves the   *)
(* log as it is.                                                            *)
InOrderOfTime ==
  \A m, n \in DOMAIN trades : m <= n => trades[m].ts <= trades[n].ts

LEMMA CardinalityUpTo ==
  ASSUME NEW k \in Nat
  PROVE  IsFiniteSet(1 .. k) /\ Cardinality(1 .. k) = k
  BY FS_Interval

LEMMA DoneIsPrefix ==
  ASSUME LedgerTypeOK, InOrderOfTime, NEW t \in Int
  PROVE  /\ Cardinality(DoneBy(t)) \in 0 .. Len(trades)
         /\ DoneBy(t) = 1 .. Cardinality(DoneBy(t))
<1>. DEFINE D == DoneBy(t)
            N == Len(trades)
<1>1. DOMAIN trades = 1 .. N /\ N \in Nat
  BY TradesAre
<1>2. D \subseteq 1 .. N
  BY <1>1 DEF DoneBy
<1>3. CASE D = {}
  <2>1. Cardinality(D) = 0
    BY <1>3, FS_EmptySet
  <2>. QED
    BY <1>1, <1>3, <2>1
<1>4. CASE D # {}
  <2>1. PICK k \in D : \A m \in D : m <= k
    <3>1. D \in SUBSET (0 .. N)
      BY <1>1, <1>2
    <3>. HIDE DEF D
    <3>. QED
      BY <1>1, <1>4, <3>1, GreatestExists
  <2>2. k \in 1 .. N /\ trades[k].ts <= t
    BY <1>1, <1>2, <2>1 DEF DoneBy
  <2>3. ASSUME NEW m \in 1 .. k PROVE m \in D
    <3>1. m \in 1 .. N /\ m <= k
      BY <1>1, <2>2
    <3>2. trades[m].ts <= trades[k].ts
      BY <1>1, <2>2, <3>1 DEF InOrderOfTime
    <3>3. trades[m].ts \in Int /\ trades[k].ts \in Int
      BY <2>2, <3>1, TradesAre, FillFields
    <3>4. trades[m].ts <= t
      BY <2>2, <3>2, <3>3
    <3>. QED
      BY <1>1, <3>1, <3>4 DEF DoneBy
  <2>4. D = 1 .. k
    <3>1. \A m \in D : m \in 1 .. N /\ m <= k
      BY <1>2, <2>1
    <3>. HIDE DEF D, N
    <3>2. k \in Nat
      BY <1>1, <2>2
    <3>3. D \subseteq 1 .. k
      BY <1>1, <3>1, <3>2
    <3>4. 1 .. k \subseteq D
      BY <2>3
    <3>. QED
      BY <3>3, <3>4
  <2>5. Cardinality(1 .. k) = k
    BY <1>1, <2>2, CardinalityUpTo
  <2>. QED
    BY <1>1, <2>2, <2>4, <2>5
<1>. QED
  BY <1>3, <1>4

(* The value of the replayed positions at given marks is what the trades    *)
(* are worth at them.                                                       *)
WorthOf(marks) == [n \in DOMAIN trades |-> SignedQty(trades[n]) * marks[trades[n].inst]]
HeldAt(n, marks) == [i \in Instruments |-> Books[n][i].qty * marks[i]]

LEMMA WorthIs ==
  ASSUME LedgerTypeOK, NEW marks \in [Instruments -> Int]
  PROVE  \A n \in 0 .. Len(trades) :
           SumOver(HeldAt(n, marks), Instruments) = SumOver(WorthOf(marks), 1 .. n)
<1>. DEFINE N == Len(trades)
            worth == WorthOf(marks)
            S == {n \in 0 .. N : SumOver(HeldAt(n, marks), Instruments) = SumOver(worth, 1 .. n)}
<1>1. /\ N \in Nat /\ DOMAIN trades = 1 .. N /\ IsFiniteSet(Instruments)
      /\ \A n \in 1 .. N : trades[n] \in Fills
  BY TradesAre, LedgerAssumption
<1>2. \A n \in 1 .. N : /\ worth[n] = SignedQty(trades[n]) * marks[trades[n].inst]
                        /\ SignedQty(trades[n]) \in Int /\ marks[trades[n].inst] \in Int
                        /\ worth[n] \in Int
  <2>. TAKE n \in 1 .. N
  <2>1. SignedQty(trades[n]) \in Int /\ trades[n].inst \in Instruments
    BY <1>1, FillFields
  <2>. QED
    BY <1>1, <2>1 DEF WorthOf
<1>. HIDE DEF worth
<1>3. 0 \in S
  <2>1. \A i \in Instruments : Books[0][i].qty = 0
    BY BooksAt DEF NoPositions, NewPosition
  <2>2. \A i \in Instruments : HeldAt(0, marks)[i] = 0
    BY <2>1 DEF HeldAt
  <2>3. SumOver(HeldAt(0, marks), Instruments) = 0
    BY <1>1, <2>2, SumOfZeros
  <2>4. 1 .. 0 = {}
    OBVIOUS
  <2>5. SumOver(worth, {}) = 0
    BY SumUnfold, FS_EmptySet
  <2>. QED
    BY <1>1, <2>3, <2>4, <2>5
<1>4. ASSUME NEW n \in 1 .. N, n - 1 \in S PROVE n \in S
  <2>. DEFINE M == 1 .. (n - 1)
              f == trades[n]
              i == f.inst
              old == HeldAt(n - 1, marks)
              new == HeldAt(n, marks)
  <2>1. /\ f \in Fills /\ i \in Instruments /\ Books[n - 1] \in [Instruments -> Positions]
        /\ Books[n] \in [Instruments -> Positions]
        /\ Books[n][i] = PositionUpdate(Books[n - 1][i], f)
        /\ \A j \in Instruments \ {i} : Books[n][j] = Books[n - 1][j]
    BY BookStep
  <2>2. Books[n][i].qty = Books[n - 1][i].qty + SignedQty(f)
    BY <2>1 DEF PositionUpdate
  <2>3. /\ \A j \in Instruments : /\ Books[n - 1][j].qty \in Int /\ Books[n][j].qty \in Int
                                  /\ marks[j] \in Int
        /\ SignedQty(f) \in Int
    BY <2>1, FillFields DEF Positions
  <2>4. /\ \A j \in Instruments : old[j] \in Int /\ new[j] \in Int
        /\ \A j \in Instruments \ {i} : old[j] = new[j]
    BY <2>1, <2>3 DEF HeldAt
  <2>5. new[i] - old[i] = SignedQty(f) * marks[i]
    <3>1. \A q, s, m \in Int : (q + s) * m - q * m = s * m
      OBVIOUS
    <3>2. new[i] = (Books[n - 1][i].qty + SignedQty(f)) * marks[i]
          /\ old[i] = Books[n - 1][i].qty * marks[i]
      BY <2>1, <2>2 DEF HeldAt
    <3>. QED
      BY <2>1, <2>3, <3>1, <3>2
  <2>6. /\ IsFiniteSet(M) /\ n \notin M /\ 1 .. n = M \cup {n}
        /\ \A m \in M \cup {n} : worth[m] \in Int
    <3>1. IsFiniteSet(M)
      BY FS_Interval
    <3>2. n \notin M /\ 1 .. n = M \cup {n} /\ M \cup {n} \subseteq 1 .. N
      BY <1>1
    <3>. QED
      BY <1>2, <3>1, <3>2
  <2>7. SumOver(worth, M) = SumOver(old, Instruments) /\ worth[n] = SignedQty(f) * marks[i]
    BY <1>2, <1>4
  <2>. HIDE DEF M, f, i, old, new
  <2>8. SumOver(new, Instruments) = SumOver(old, Instruments) + (new[i] - old[i])
    BY <1>1, <2>1, <2>4, SumChange
  <2>9. SumOver(worth, M \cup {n}) = SumOver(worth, M) + worth[n]
    BY <2>6, SumAdd
  <2>10. SumOver(worth, 1 .. n) = SumOver(new, Instruments)
    BY <2>5, <2>6, <2>7, <2>8, <2>9
  <2>. QED
    BY <2>10 DEF new
<1>. HIDE DEF S
<1>5. 0 .. N \subseteq S
  BY <1>1, <1>3, <1>4, UpTo
<1>. QED
  BY <1>5 DEF S, worth

LEMMA MarkIs ==
  ASSUME NEW t \in Nat, NEW i \in Instruments, NEW book, book[i].avg \in Int
  PROVE  /\ MarkAt(i, t, book) \in Int
         /\ (\E u \in DOMAIN Closes[i] : u <= t) =>
              \A other : MarkAt(i, t, other) = MarkAt(i, t, book)
<1>. DEFINE known == {u \in DOMAIN Closes[i] : u <= t}
            last == CHOOSE u \in known : \A v \in known : v <= u
<1>1. /\ \A u \in DOMAIN Closes[i] : u \in Nat /\ Closes[i][u] \in Int
      /\ \A other : MarkAt(i, t, other) = IF known = {} THEN other[i].avg ELSE Closes[i][last]
  BY ReportingAssumption DEF MarkAt
<1>2. known # {} => last \in known
  <2>1. known \in SUBSET (0 .. t)
    BY <1>1
  <2>. HIDE DEF known
  <2>2. known # {} => \E u \in known : \A v \in known : v <= u
    BY <2>1, GreatestExists
  <2>. QED
    BY <2>2
<1>3. known # {} => Closes[i][last] \in Int
  <2>. HIDE DEF last
  <2>. QED
    BY <1>1, <1>2
<1>. HIDE DEF last
<1>. QED
  BY <1>1, <1>3

LEMMA DailyIsMarked ==
  ASSUME ReportInv, InOrderOfTime
  PROVE  DailyCurveIsMarked
<1>. SUFFICES ASSUME NEW b \in Bounds, NEW t \in DayEnds(b)
              PROVE  /\ (\A i \in Instruments : \E u \in DOMAIN Closes[i] : u <= t)
                          => DailyEquity(t) = MarketEquity(t)
                     /\ (\A u \in TradeTimes : u <= t) /\ IsFlat(positions)
                          => DailyEquity(t) = FinalEquity
  BY DEF DailyCurveIsMarked
<1>1. LedgerTypeOK /\ Replayed /\ CashIsLeft /\ IsFiniteSet(Instruments) /\ InitialCapital \in Int
  BY LedgerAssumption DEF ReportInv, BooksInv
<1>2. t \in Nat
  BY ReportingAssumption DEF DayEnds
<1>. DEFINE N == Len(trades)
            D == DoneBy(t)
            k == Cardinality(D)
            book == Books[k]
            marks == [i \in Instruments |-> MarkAt(i, t, book)]
            paid == [n \in D |-> Paid(trades[n])]
            held == [i \in Instruments |-> book[i].qty * MarkAt(i, t, book)]
<1>3. /\ N \in Nat /\ DOMAIN trades = 1 .. N
      /\ \A n \in 1 .. N : trades[n] \in Fills
  BY <1>1, TradesAre
<1>4. k \in 0 .. N /\ D = 1 .. k
  BY <1>1, <1>2, DoneIsPrefix
<1>5. book \in [Instruments -> Positions]
  BY <1>1, <1>4, BooksType
<1>6. marks \in [Instruments -> Int]
  <2>1. \A i \in Instruments : book[i].avg \in Int
    BY <1>5 DEF Positions
  <2>. HIDE DEF book
  <2>. QED
    BY <1>2, <2>1, MarkIs
<1>7. DailyEquity(t) = (InitialCapital - SumOver(paid, D)) + SumOver(held, Instruments)
  BY DEF DailyEquity, CashBy
<1>8. /\ \A n \in D : /\ paid[n] = Paid(trades[n]) /\ paid[n] \in Int
                      /\ paid[n] = SignedQty(trades[n]) * trades[n].price + trades[n].fee
                      /\ trades[n] \in Fills /\ trades[n].inst \in Instruments
                      /\ SignedQty(trades[n]) \in Int /\ trades[n].price \in Int
                      /\ trades[n].fee \in Int
      /\ IsFiniteSet(D)
  <2>1. \A n \in D : trades[n] \in Fills
    BY <1>3, <1>4
  <2>2. IsFiniteSet(D)
    <3>1. k \in Nat
      BY <1>3, <1>4
    <3>2. IsFiniteSet(1 .. k)
      BY <3>1, CardinalityUpTo
    <3>. QED
      BY <1>4, <3>2
  <2>. HIDE DEF D
  <2>3. \A n \in D : /\ paid[n] = Paid(trades[n]) /\ Paid(trades[n]) \in Int
                     /\ Paid(trades[n]) = SignedQty(trades[n]) * trades[n].price + trades[n].fee
    BY <2>1, PaidIs
  <2>4. \A n \in D : /\ trades[n].inst \in Instruments /\ SignedQty(trades[n]) \in Int
                     /\ trades[n].price \in Int /\ trades[n].fee \in Int
    BY <2>1, FillFields
  <2>. HIDE DEF paid
  <2>. QED
    BY <2>1, <2>2, <2>3, <2>4
<1>9. SumOver(held, Instruments) = SumOver(WorthOf(marks), D)
  <2>1. held = HeldAt(k, marks)
    BY DEF HeldAt
  <2>2. SumOver(HeldAt(k, marks), Instruments) = SumOver(WorthOf(marks), 1 .. k)
    <3>. HIDE DEF marks, k
    <3>. QED
      BY <1>1, <1>4, <1>6, WorthIs
  <2>. QED
    BY <1>4, <2>1, <2>2
<1>10. SumOver(paid, D) \in Int
  <2>. HIDE DEF paid, D
  <2>. QED
    BY <1>8, SumType
<1>11. ASSUME \A i \in Instruments : \E u \in DOMAIN Closes[i] : u <= t
       PROVE  DailyEquity(t) = MarketEquity(t)
  <2>. DEFINE gained(f) == SignedQty(f) * (MarkAt(f.inst, t, NoPositions) - f.price) - f.fee
              gains == [n \in D |-> gained(trades[n])]
              worth == WorthOf(marks)
  <2>1. MarketEquity(t) = InitialCapital + SumOver(gains, D)
    BY DEF MarketEquity
  <2>2. \A i \in Instruments : MarkAt(i, t, NoPositions) = marks[i] /\ marks[i] \in Int
    <3>1. \A i \in Instruments : book[i].avg \in Int
      BY <1>5 DEF Positions
    <3>. HIDE DEF book
    <3>2. \A i \in Instruments : MarkAt(i, t, NoPositions) = MarkAt(i, t, book)
      BY <1>2, <1>11, <3>1, MarkIs
    <3>. QED
      BY <1>6, <3>2
  <2>3. \A n \in D : /\ worth[n] = SignedQty(trades[n]) * marks[trades[n].inst]
                     /\ gains[n] = SignedQty(trades[n]) * (marks[trades[n].inst] - trades[n].price)
                                     - trades[n].fee
    <3>1. \A n \in D : n \in DOMAIN trades
      BY DEF DoneBy
    <3>. HIDE DEF D, marks
    <3>. QED
      BY <1>8, <2>2, <3>1 DEF WorthOf
  <2>4. \A n \in D : /\ gains[n] \in Int /\ paid[n] \in Int /\ worth[n] \in Int
                     /\ worth[n] = gains[n] + paid[n]
    <3>. TAKE n \in D
    <3>1. \A s, m, p, e \in Int : /\ s * (m - p) - e \in Int /\ s * m \in Int
                                  /\ s * m = (s * (m - p) - e) + (s * p + e)
      OBVIOUS
    <3>. HIDE DEF D, marks, paid, worth, gains
    <3>. QED
      BY <1>8, <2>2, <2>3, <3>1
  <2>. HIDE DEF D, paid, worth, gains
  <2>5. SumOver(worth, D) = SumOver(gains, D) + SumOver(paid, D)
    BY <1>8, <2>4, SumPlus
  <2>6. SumOver(gains, D) \in Int
    BY <1>8, <2>4, SumType
  <2>. QED
    BY <1>1, <1>7, <1>9, <1>10, <2>1, <2>5, <2>6 DEF worth
<1>12. ASSUME \A u \in TradeTimes : u <= t, IsFlat(positions)
       PROVE  DailyEquity(t) = FinalEquity
  <2>1. D = 1 .. N
    BY <1>3, <1>12 DEF TradeTimes, DoneBy
  <2>2. k = N
    BY <1>3, <2>1, CardinalityUpTo
  <2>3. book = positions
    BY <1>1, <2>2 DEF Replayed
  <2>4. \A i \in Instruments : book[i].qty = 0 /\ positions[i].qty = 0
    BY <1>12, <2>3 DEF IsFlat
  <2>5. SumOver(held, Instruments) = 0
    <3>1. \A i \in Instruments : held[i] = 0
      <4>1. \A i \in Instruments : held[i] = book[i].qty * marks[i] /\ marks[i] \in Int
        BY <1>6
      <4>. HIDE DEF held, marks, book
      <4>. QED
        BY <2>4, <4>1
    <3>. HIDE DEF held
    <3>. QED
      BY <1>1, <3>1, SumOfZeros
  <2>6. FinalEquity = cash
    <3>1. \A i \in Instruments : HeldAtCost[i] = 0
      BY <1>1, <2>4 DEF HeldAtCost, LedgerTypeOK
    <3>2. SumOver(HeldAtCost, Instruments) = 0
      BY <1>1, <3>1, SumOfZeros
    <3>3. [i \in Instruments |-> positions[i].qty * AtCost[i]] = HeldAtCost
      BY DEF AtCost, HeldAtCost
    <3>4. FinalEquity = cash + SumOver(HeldAtCost, Instruments)
      BY <3>3, Zenon DEF FinalEquity, Equity
    <3>. QED
      BY <1>1, <3>2, <3>4 DEF LedgerTypeOK
  <2>7. SumOver(paid, D) = LogTotal(PaidOf, trades)
    <3>1. Among(trades, Fills) = D
      BY <1>3, <2>1 DEF Among
    <3>2. paid = [n \in D |-> PaidOf[trades[n]]]
      BY <1>8, PaidIs
    <3>. HIDE DEF D, paid
    <3>. QED
      BY <3>1, <3>2 DEF LogTotal, TotalOf
  <2>. HIDE DEF paid, held, D
  <2>. QED
    BY <1>1, <1>7, <1>10, <2>5, <2>6, <2>7 DEF CashIsLeft
<1>. QED
  BY <1>11, <1>12

-----------------------------------------------------------------------------
(* The drawdown.                                                            *)

Walks(w, c, n) ==
  w = [k \in 0 .. n |-> IF k = 0 THEN Drawdown(Unfallen(c[0]), 0, c[0])
                        ELSE IF k \in DOMAIN c THEN Drawdown(w[k - 1], k, c[k])
                        ELSE w[k - 1]]

LEMMA WalkExists ==
  ASSUME NEW c, NEW N \in Nat
  PROVE  \E w : Walks(w, c, N)
<1>. DEFINE First == Drawdown(Unfallen(c[0]), 0, c[0])
            After(k, acc) == IF k \in DOMAIN c THEN Drawdown(acc, k, c[k]) ELSE acc
            S == {n \in 0 .. N : \E w : Walks(w, c, n)}
<1>1. 0 \in S
  <2>. DEFINE w == [k \in 0 .. 0 |-> First]
  <2>1. Walks(w, c, 0)
    BY DEF Walks
  <2>. QED
    BY <2>1
<1>2. ASSUME NEW n \in 1 .. N, n - 1 \in S PROVE n \in S
  <2>1. PICK w : Walks(w, c, n - 1)
    BY <1>2
  <2>. DEFINE v == [k \in 0 .. n |-> IF k < n THEN w[k] ELSE After(n, w[n - 1])]
  <2>2. \A k \in 0 .. n - 1 : w[k] = IF k = 0 THEN First ELSE After(k, w[k - 1])
    BY <2>1 DEF Walks
  <2>3. \A k \in 0 .. n : v[k] = IF k = 0 THEN First ELSE After(k, v[k - 1])
    <3>. HIDE DEF First, After
    <3>. TAKE k \in 0 .. n
    <3>1. CASE k = n
      BY <3>1
    <3>2. CASE k < n
      BY <3>2, <2>2
    <3>. QED
      BY <3>1, <3>2
  <2>4. v = [k \in 0 .. n |-> v[k]]
    OBVIOUS
  <2>. HIDE DEF v
  <2>5. Walks(v, c, n)
    BY <2>3, <2>4 DEF Walks
  <2>. QED
    BY <2>5
<1>. HIDE DEF S
<1>3. 0 .. N \subseteq S
  BY <1>1, <1>2, UpTo
<1>. QED
  BY <1>3 DEF S

LEMMA WalkEnds ==
  ASSUME LedgerTypeOK, NEW c
  PROVE  \E w : Walks(w, c, Len(trades)) /\ Walk(c) = w[Len(trades)]
<1>. DEFINE w == CHOOSE v : Walks(v, c, Len(trades))
<1>1. Len(trades) \in Nat
  BY TradesAre
<1>2. Walks(w, c, Len(trades))
  <2>1. \E v : Walks(v, c, Len(trades))
    BY <1>1, WalkExists
  <2>. QED
    BY <2>1
<1>3. Walk(c) = w[Len(trades)]
  BY DEF Walk, Walks
<1>. QED
  BY <1>2, <1>3

(* Comparing ratios without dividing.                                       *)
LEMMA TimesStrict ==
  ASSUME NEW a \in Int, NEW b \in Int, NEW d \in Nat \ {0}
  PROVE  d * a < d * b <=> a < b
<1>1. a < b => d * a < d * b
  <2>1. a < b => d * (a + 1) <= d * b
    BY TimesMonotone
  <2>2. d * (a + 1) = d * a + d
    OBVIOUS
  <2>. QED
    BY <2>1, <2>2
<1>2. b <= a => d * b <= d * a
  BY TimesMonotone
<1>. QED
  BY <1>1, <1>2

(* A ratio below one that is at most one lies below its peak.               *)
LEMMA BelowPeak ==
  ASSUME NEW e \in Int, NEW p \in Nat \ {0}, NEW a \in Int, NEW b \in Nat \ {0},
         a <= b, e * b < a * p
  PROVE  e < p
<1>1. SUFFICES ASSUME p <= e PROVE FALSE
  OBVIOUS
<1>2. b * p <= b * e
  BY <1>1, TimesMonotone
<1>3. p * a <= p * b
  BY TimesMonotone
<1>. QED
  BY <1>2, <1>3

(* What was no lower than the old least ratio is no lower than the new.     *)
LEMMA RatioKept ==
  ASSUME NEW x \in Nat \ {0}, NEW y \in Nat \ {0}, NEW e \in Nat \ {0}, NEW p \in Nat \ {0},
         NEW a \in Int, NEW b \in Nat \ {0}, a * x <= y * b, e * b < a * p
  PROVE  e * x <= y * p
<1>1. p * (a * x) <= p * (y * b)
  <2>. DEFINE l == a * x
              r == y * b
  <2>1. l \in Int /\ r \in Int /\ l <= r
    OBVIOUS
  <2>. HIDE DEF l, r
  <2>. QED
    BY <2>1, TimesMonotone DEF l, r
<1>2. x * (e * b) <= x * (a * p)
  <2>. DEFINE l == e * b
              r == a * p
  <2>1. l \in Int /\ r \in Int /\ l <= r
    OBVIOUS
  <2>. HIDE DEF l, r
  <2>. QED
    BY <2>1, TimesMonotone DEF l, r
<1>3. p * (a * x) = x * (a * p) /\ p * (y * b) = b * (y * p) /\ x * (e * b) = b * (e * x)
  OBVIOUS
<1>4. b * (e * x) <= b * (y * p)
  BY <1>1, <1>2, <1>3
<1>5. e * x \in Int /\ y * p \in Int
  OBVIOUS
<1>6. ~(y * p < e * x)
  <2>. DEFINE l == y * p
              r == e * x
  <2>1. l \in Int /\ r \in Int /\ b * r <= b * l
    BY <1>4, <1>5
  <2>. HIDE DEF l, r
  <2>2. b * l < b * r <=> l < r
    BY <2>1, TimesStrict
  <2>3. b * l \in Int /\ b * r \in Int
    BY <2>1
  <2>4. ~(l < r)
    BY <2>1, <2>2, <2>3
  <2>. QED
    BY <2>4 DEF l, r
<1>. QED
  BY <1>5, <1>6

Accs == [peak : Int, worst : Int \X (Nat \ {0}), trough : SUBSET Nat]

(* What a walk over the points P of the curve c has found.                  *)
Found(acc, c, P) ==
  /\ acc \in Accs /\ acc.worst[1] <= acc.worst[2]
  /\ \A p \in P : c[p] <= acc.peak
  /\ \E p \in P : c[p] = acc.peak
  /\ \E p \in P : \E q \in P : p <= q /\ c[q] * acc.worst[2] = acc.worst[1] * c[p]
  /\ \A n \in acc.trough : n \in P /\ c[n] < acc.worst[2]
  /\ (\A p \in P : c[p] > 0) =>
       /\ acc.worst[1] > 0
       /\ \A p \in P : \A q \in P : p <= q => acc.worst[1] * c[p] <= c[q] * acc.worst[2]

LEMMA DrawdownStep ==
  ASSUME NEW c, NEW P \in SUBSET Nat, NEW n \in Nat, NEW acc, Found(acc, c, P),
         \A p \in P : p < n, \A p \in P \cup {n} : c[p] \in Int
  PROVE  Found(Drawdown(acc, n, c[n]), c, P \cup {n})
<1>. DEFINE e == c[n]
            a == acc.worst[1]
            b == acc.worst[2]
            peak == Larger(acc.peak, e)
            Q == P \cup {n}
            new == Drawdown(acc, n, e)
<1>1. /\ acc \in Accs /\ a \in Int /\ b \in Nat \ {0} /\ a <= b /\ acc.peak \in Int
      /\ acc.trough \subseteq Nat /\ e \in Int
      /\ \A p \in P : c[p] \in Int /\ c[p] <= acc.peak
      /\ \E p \in P : c[p] = acc.peak
      /\ \E p \in P : \E q \in P : p <= q /\ c[q] * b = a * c[p]
      /\ \A m \in acc.trough : m \in P /\ c[m] < b
      /\ (\A p \in P : c[p] > 0) =>
           /\ a > 0
           /\ \A p \in P : \A q \in P : p <= q => a * c[p] <= c[q] * b
  BY DEF Found, Accs
<1>2. /\ peak \in Int /\ e <= peak /\ acc.peak <= peak
      /\ \A p \in Q : c[p] <= peak
      /\ \E p \in Q : c[p] = peak
  <2>1. peak = IF acc.peak >= e THEN acc.peak ELSE e
    BY DEF Larger
  <2>2. peak \in Int /\ e <= peak /\ acc.peak <= peak
    BY <1>1, <2>1
  <2>. HIDE DEF peak, e
  <2>3. ASSUME NEW p \in P PROVE c[p] <= peak
    <3>1. c[p] \in Int /\ c[p] <= acc.peak /\ acc.peak \in Int
      BY <1>1
    <3>. QED
      BY <2>2, <3>1
  <2>4. c[n] <= peak
    BY <2>2 DEF e
  <2>5. \E p \in Q : c[p] = peak
    <3>1. CASE acc.peak >= e
      BY <1>1, <2>1, <3>1
    <3>2. CASE ~(acc.peak >= e)
      BY <2>1, <3>2 DEF e
    <3>. QED
      BY <3>1, <3>2
  <2>. QED
    BY <2>2, <2>3, <2>4, <2>5
<1>3. (peak > 0 /\ Less(<<e, peak>>, acc.worst)) <=> (peak > 0 /\ e * b < a * peak)
  BY DEF Less
<1>4. CASE peak > 0 /\ e * b < a * peak
  <2>1. new = [peak |-> peak, worst |-> <<e, peak>>, trough |-> {n}]
    BY <1>3, <1>4 DEF Drawdown
  <2>2. peak \in Nat \ {0}
    BY <1>2, <1>4
  <2>3. e < peak
    <3>. HIDE DEF e, a, b, peak
    <3>. QED
      BY <1>1, <1>4, <2>2, BelowPeak
  <2>4. /\ new \in Accs /\ new.worst[1] = e /\ new.worst[2] = peak /\ new.peak = peak
        /\ new.trough = {n}
    <3>. HIDE DEF e, peak, new
    <3>. QED
      BY <1>1, <1>2, <2>1, <2>2 DEF Accs
  <2>5. \E p \in Q : \E q \in Q : p <= q /\ c[q] * peak = e * c[p]
    <3>1. PICK p \in Q : c[p] = peak
      BY <1>2
    <3>2. p <= n
      BY <3>1
    <3>3. c[n] * peak = e * c[p]
      BY <3>1
    <3>. QED
      BY <3>1, <3>2, <3>3
  <2>6. ASSUME \A p \in Q : c[p] > 0
        PROVE  e > 0 /\ \A p \in Q : \A q \in Q : p <= q => e * c[p] <= c[q] * peak
    <3>1. e > 0
      BY <2>6
    <3>2. ASSUME NEW p \in Q, NEW q \in Q, p <= q PROVE e * c[p] <= c[q] * peak
      <4>1. CASE q = n
        <5>1. c[p] <= peak /\ c[p] \in Int /\ e \in Nat
          BY <1>1, <1>2, <2>6, <3>1
        <5>. HIDE DEF peak
        <5>2. e * c[p] <= e * peak
          BY <1>2, <5>1, TimesMonotone
        <5>. QED
          BY <4>1, <5>2
      <4>2. CASE q # n
        <5>1. p \in P /\ q \in P
          BY <3>2, <4>2
        <5>. DEFINE x == c[p]
                    y == c[q]
        <5>2. x \in Nat \ {0} /\ y \in Nat \ {0} /\ e \in Nat \ {0}
          BY <1>1, <2>6, <3>1, <5>1
        <5>3. a * x <= y * b
          BY <1>1, <2>6, <3>2, <5>1
        <5>4. e * b < a * peak
          BY <1>4
        <5>. HIDE DEF e, a, b, peak, x, y
        <5>5. e * x <= y * peak
          BY <1>1, <2>2, <5>2, <5>3, <5>4, RatioKept
        <5>. QED
          BY <5>5 DEF x, y
      <4>. QED
        BY <4>1, <4>2
    <3>. QED
      BY <3>1, <3>2
  <2>7. \A m \in new.trough : m \in Q /\ c[m] < peak
    BY <2>3, <2>4
  <2>. HIDE DEF e, a, b, peak, new
  <2>8. Found(new, c, Q)
    BY <1>2, <2>3, <2>4, <2>5, <2>6, <2>7 DEF Found
  <2>. QED
    BY <2>8 DEF new, e
<1>5. CASE ~(peak > 0 /\ e * b < a * peak)
  <2>1. new = [acc EXCEPT !.peak = peak]
    BY <1>3, <1>5 DEF Drawdown
  <2>2. /\ new \in Accs /\ new.worst[1] = a /\ new.worst[2] = b /\ new.peak = peak
        /\ new.trough = acc.trough
    <3>. HIDE DEF peak, new
    <3>. QED
      BY <1>1, <1>2, <2>1 DEF Accs
  <2>3. \E p \in Q : \E q \in Q : p <= q /\ c[q] * b = a * c[p]
    BY <1>1
  <2>4. ASSUME \A p \in Q : c[p] > 0
        PROVE  a > 0 /\ \A p \in Q : \A q \in Q : p <= q => a * c[p] <= c[q] * b
    <3>1. /\ a > 0
          /\ \A p \in P : \A q \in P : p <= q => a * c[p] <= c[q] * b
      BY <1>1, <2>4
    <3>2. e > 0 /\ peak > 0
      BY <1>1, <1>2, <2>4
    <3>3. a * peak <= e * b
      BY <1>1, <1>2, <1>5, <3>2
    <3>4. ASSUME NEW p \in Q, NEW q \in Q, p <= q PROVE a * c[p] <= c[q] * b
      <4>1. CASE q = n
        <5>1. c[p] <= peak /\ c[p] \in Int /\ a \in Nat
          BY <1>1, <1>2, <3>1
        <5>. HIDE DEF peak, a, b
        <5>2. a * c[p] <= a * peak
          BY <1>2, <5>1, TimesMonotone
        <5>3. a * c[p] \in Int /\ a * peak \in Int /\ e * b \in Int
          BY <1>1, <1>2, <5>1
        <5>. QED
          BY <3>3, <4>1, <5>2, <5>3
      <4>2. CASE q # n
        BY <3>1, <3>4, <4>2
      <4>. QED
        BY <4>1, <4>2
    <3>. QED
      BY <3>1, <3>4
  <2>5. \A m \in new.trough : m \in Q /\ c[m] < b
    BY <1>1, <2>2
  <2>. HIDE DEF e, a, b, peak, new
  <2>6. Found(new, c, Q)
    BY <1>1, <1>2, <2>2, <2>3, <2>4, <2>5 DEF Found
  <2>. QED
    BY <2>6 DEF new, e
<1>. QED
  BY <1>4, <1>5

LEMMA LeastExists ==
  ASSUME NEW N \in Nat, NEW T \in SUBSET (0 .. N), T # {}
  PROVE  \E n \in T : \A m \in T : n <= m
<1>. DEFINE I == 0 .. N
            Sets == {0 .. n : n \in T}
<1>1. IsFiniteSet(I) /\ Sets \subseteq SUBSET I /\ Sets # {}
  <2>1. IsFiniteSet(I)
    BY FS_Interval
  <2>2. \A n \in T : 0 .. n \subseteq I
    OBVIOUS
  <2>3. T # {}
    OBVIOUS
  <2>. HIDE DEF I
  <2>. QED
    BY <2>1, <2>2, <2>3
<1>. HIDE DEF I, Sets
<1>2. PICK U \in Sets : \A V \in Sets : V \subseteq U => V = U
  BY <1>1, SmallestSet
<1>. USE DEF I, Sets
<1>3. PICK n \in T : U = 0 .. n
  BY <1>2
<1>4. ASSUME NEW m \in T, m < n PROVE FALSE
  <2>1. 0 .. m \in Sets /\ 0 .. m \subseteq U
    BY <1>3, <1>4
  <2>2. n \in U /\ n \notin 0 .. m
    BY <1>3, <1>4
  <2>. QED
    BY <1>2, <2>1, <2>2
<1>. QED
  BY <1>4

LEMMA CurveIs ==
  ASSUME LedgerTypeOK
  PROVE  /\ 0 \in DOMAIN EquityCurve
         /\ DOMAIN EquityCurve \subseteq 0 .. Len(trades)
         /\ \A n \in DOMAIN EquityCurve : EquityCurve[n] \in Int
<1>. DEFINE d == RealizedDeltas
            D == DOMAIN d
<1>1. D \subseteq 1 .. Len(trades) /\ Len(trades) \in Nat /\ IsFiniteSet(D)
      /\ \A n \in D : d[n] \in Int
  <2>1. /\ D = {n \in DOMAIN trades : LogDeltas[n] # 0} /\ IsFiniteSet(D)
        /\ \A n \in DOMAIN trades : LogDeltas[n] \in Int
        /\ \A n \in D : d[n] = LogDeltas[n]
    BY DeltasAre
  <2>2. DOMAIN trades = 1 .. Len(trades) /\ Len(trades) \in Nat
    BY TradesAre
  <2>. HIDE DEF d
  <2>. QED
    BY <2>1, <2>2
<1>2. /\ DOMAIN EquityCurve = {0} \cup D
      /\ \A n \in {0} \cup D : EquityCurve[n] = InitialCapital + SumOver(d, {m \in D : m <= n})
  BY DEF EquityCurve
<1>. HIDE DEF d
<1>3. \A n \in {0} \cup D : SumOver(d, {m \in D : m <= n}) \in Int
  <2>. TAKE n \in {0} \cup D
  <2>1. IsFiniteSet({m \in D : m <= n}) /\ {m \in D : m <= n} \subseteq D
    BY <1>1, FS_Subset
  <2>. DEFINE M == {m \in D : m <= n}
  <2>2. \A m \in M : d[m] \in Int
    BY <1>1
  <2>. HIDE DEF M
  <2>3. SumOver(d, M) \in Int
    BY <2>1, <2>2, SumType DEF M
  <2>. QED
    BY <2>3 DEF M
<1>4. InitialCapital \in Int
  BY LedgerAssumption
<1>5. \A n \in DOMAIN EquityCurve : EquityCurve[n] \in Int
  <2>. DEFINE T(n) == SumOver(d, {m \in D : m <= n})
  <2>1. \A n \in {0} \cup D : EquityCurve[n] = InitialCapital + T(n) /\ T(n) \in Int
    BY <1>2, <1>3
  <2>2. DOMAIN EquityCurve = {0} \cup D
    BY <1>2
  <2>. HIDE DEF D, T
  <2>3. ASSUME NEW n \in {0} \cup D PROVE InitialCapital + T(n) \in Int
    <3>1. T(n) \in Int
      BY <2>1
    <3>. QED
      BY <1>4, <3>1
  <2>4. \A n \in {0} \cup D : EquityCurve[n] \in Int
    BY <2>1, <2>3, Zenon
  <2>. QED
    BY <2>2, <2>4, Zenon
<1>6. 0 \in DOMAIN EquityCurve /\ DOMAIN EquityCurve \subseteq 0 .. Len(trades)
  BY <1>1, <1>2
<1>. QED
  BY <1>5, <1>6

(* The walk over the whole curve finds what Found says.                     *)
LEMMA WalkFinds ==
  ASSUME LedgerTypeOK
  PROVE  Found(Walk(EquityCurve), EquityCurve, DOMAIN EquityCurve)
<1>. DEFINE c == EquityCurve
            P == DOMAIN c
            N == Len(trades)
            Upto(k) == {n \in P : n <= k}
<1>1. N \in Nat /\ 0 \in P /\ P \subseteq 0 .. N /\ \A n \in P : c[n] \in Int
  BY CurveIs, TradesAre
<1>. HIDE DEF c
<1>2. PICK w : Walks(w, c, N) /\ Walk(c) = w[N]
  BY WalkEnds
<1>3. \A k \in 0 .. N : w[k] = IF k = 0 THEN Drawdown(Unfallen(c[0]), 0, c[0])
                               ELSE IF k \in P THEN Drawdown(w[k - 1], k, c[k])
                               ELSE w[k - 1]
  BY <1>2 DEF Walks
<1>. DEFINE S == {k \in 0 .. N : Found(w[k], c, Upto(k))}
<1>4. 0 \in S
  <2>. DEFINE e == c[0]
  <2>1. e \in Int /\ 0 \in 0 .. N
    BY <1>1
  <2>2. w[0] = Drawdown(Unfallen(e), 0, e)
    BY <1>3, <2>1
  <2>. HIDE DEF e
  <2>3. Larger(e, e) = e
    BY DEF Larger
  <2>4. ~Less(<<e, e>>, <<1, 1>>)
    BY <2>1 DEF Less
  <2>5. Drawdown(Unfallen(e), 0, e) = Unfallen(e)
    BY <2>3, <2>4 DEF Drawdown, Unfallen
  <2>6. Upto(0) = {0}
    BY <1>1
  <2>7. /\ w[0] \in Accs /\ w[0].worst[1] = 1 /\ w[0].worst[2] = 1 /\ w[0].peak = e
        /\ w[0].trough = {}
    <3>. DEFINE r == Unfallen(e)
    <3>1. r = [peak |-> e, worst |-> <<1, 1>>, trough |-> {}]
      BY DEF Unfallen
    <3>2. {} \in SUBSET Nat /\ <<1, 1>> \in Int \X (Nat \ {0})
      OBVIOUS
    <3>. HIDE DEF r
    <3>3. r \in Accs /\ r.worst = <<1, 1>> /\ r.peak = e /\ r.trough = {}
      BY <2>1, <3>1, <3>2 DEF Accs
    <3>4. w[0] = r
      BY <2>2, <2>5 DEF r
    <3>. QED
      BY <3>3, <3>4
  <2>8. Found(w[0], c, {0})
    <3>1. c[0] = e
      BY DEF e
    <3>. QED
      BY <2>1, <2>7, <3>1 DEF Found
  <2>. QED
    BY <2>1, <2>6, <2>8
<1>5. ASSUME NEW k \in 1 .. N, k - 1 \in S PROVE k \in S
  <2>1. Found(w[k - 1], c, Upto(k - 1)) /\ k \in 0 .. N /\ k # 0 /\ k \in Nat
    BY <1>5
  <2>2. CASE k \in P
    <3>. DEFINE Q == Upto(k - 1)
    <3>1. Upto(k) = Q \cup {k}
      BY <1>1, <2>2
    <3>2. Q \in SUBSET Nat /\ (\A p \in Q : p < k) /\ \A p \in Q \cup {k} : c[p] \in Int
      BY <1>1, <2>2
    <3>3. w[k] = Drawdown(w[k - 1], k, c[k])
      BY <1>3, <2>1, <2>2
    <3>. HIDE DEF Q
    <3>4. Found(Drawdown(w[k - 1], k, c[k]), c, Q \cup {k})
      BY <2>1, <3>2, DrawdownStep DEF Q
    <3>. QED
      BY <2>1, <3>1, <3>3, <3>4
  <2>3. CASE k \notin P
    <3>1. Upto(k) = Upto(k - 1)
      BY <1>1, <2>3
    <3>2. w[k] = w[k - 1]
      BY <1>3, <2>1, <2>3
    <3>. QED
      BY <2>1, <3>1, <3>2
  <2>. QED
    BY <2>2, <2>3
<1>. HIDE DEF S
<1>6. 0 .. N \subseteq S
  BY <1>1, <1>4, <1>5, UpTo
<1>7. Found(w[N], c, Upto(N))
  <2>1. N \in S
    BY <1>1, <1>6
  <2>. QED
    BY <2>1 DEF S
<1>8. Upto(N) = P
  BY <1>1
<1>. QED
  BY <1>2, <1>7, <1>8 DEF c

LEMMA DrawdownTells ==
  ASSUME LedgerTypeOK
  PROVE  DrawdownIsWorst
<1>. DEFINE c == EquityCurve
            P == DOMAIN c
            N == Len(trades)
            w == Walk(c)
            After == AfterTrough(c)
            pairs == {p \in P \X P : p[1] <= p[2]}
            back == {n \in After : c[n] >= w.worst[2]}
            first == CHOOSE n \in back : \A m \in back : n <= m
            k == DrawdownRecovery(c)
<1>1. N \in Nat /\ P \subseteq 0 .. N /\ \A n \in P : c[n] \in Int
  BY CurveIs, TradesAre
<1>2. Found(w, c, P)
  BY WalkFinds
<1>3. After = {n \in P : \E t \in w.trough : t < n}
  BY DEF AfterTrough
<1>4. k = IF back = {} THEN 0 ELSE Cardinality({n \in After : n <= first})
  BY DEF DrawdownRecovery
<1>. HIDE DEF c, w, After, k
<1>5. w.worst[1] \in Int /\ w.worst[2] \in Nat
  BY <1>2 DEF Found, Accs
<1>6. ASSUME \A n \in P : c[n] > 0, NEW p \in pairs
      PROVE  ~Less(<<c[p[2]], c[p[1]]>>, w.worst)
  <2>1. p[1] \in P /\ p[2] \in P /\ p[1] <= p[2]
    OBVIOUS
  <2>2. w.worst[1] * c[p[1]] <= c[p[2]] * w.worst[2]
    BY <1>2, <1>6, <2>1 DEF Found
  <2>3. w.worst[1] * c[p[1]] \in Int /\ c[p[2]] * w.worst[2] \in Int
    BY <1>1, <1>5, <2>1
  <2>4. ~(c[p[2]] * w.worst[2] < w.worst[1] * c[p[1]])
    BY <2>2, <2>3
  <2>. QED
    BY <2>4 DEF Less
<1>7. \E p \in pairs : c[p[2]] * w.worst[2] = w.worst[1] * c[p[1]]
  <2>1. PICK m \in P, n \in P : m <= n /\ c[n] * w.worst[2] = w.worst[1] * c[m]
    BY <1>2 DEF Found
  <2>2. <<m, n>> \in pairs
    BY <2>1
  <2>. QED
    BY <2>1, <2>2
<1>8. SUFFICES /\ k = 0 => \A n \in After : c[n] < w.worst[2]
               /\ k > 0 => \E n \in After :
                    /\ c[n] >= w.worst[2] /\ k = Cardinality({m \in After : m <= n})
                    /\ \A m \in w.trough \cup After : m < n => c[m] < w.worst[2]
  <2>1. (\A n \in P : c[n] > 0) => \A p \in pairs : ~Less(<<c[p[2]], c[p[1]]>>, w.worst)
    BY <1>6
  <2>. QED
    BY <1>7, <2>1, Zenon DEF DrawdownIsWorst, c, w, After, k
<1>9. CASE back = {}
  <2>1. k = 0
    BY <1>4, <1>9
  <2>2. \A n \in After : c[n] < w.worst[2]
    <3>. TAKE n \in After
    <3>1. n \in P /\ ~(c[n] >= w.worst[2])
      BY <1>3, <1>9
    <3>. QED
      BY <1>1, <1>5, <3>1
  <2>3. ~(k > 0)
    BY <2>1
  <2>. QED
    BY <1>8, <2>1, <2>2, <2>3
<1>10. CASE back # {}
  <2>1. back \subseteq 0 .. N
    BY <1>1, <1>3
  <2>. HIDE DEF back
  <2>2. \E n \in back : \A m \in back : n <= m
    BY <1>1, <1>10, <2>1, LeastExists
  <2>3. first \in back /\ \A m \in back : first <= m
    BY <2>2
  <2>. HIDE DEF first
  <2>4. first \in After /\ c[first] >= w.worst[2] /\ first \in 0 .. N
    BY <2>1, <2>3 DEF back
  <2>5. k = Cardinality({n \in After : n <= first})
    BY <1>4, <1>10
  <2>6. k > 0
    <3>. DEFINE M == {n \in After : n <= first}
    <3>1. first \in M
      BY <2>4
    <3>2. IsFiniteSet(0 .. N) /\ M \subseteq 0 .. N
      BY <1>1, <1>3, FS_Interval
    <3>. HIDE DEF M
    <3>3. IsFiniteSet(M) /\ M # {}
      BY <3>1, <3>2, FS_Subset
    <3>4. Cardinality(M) \in Nat /\ Cardinality(M) # 0
      BY <3>3, FS_CardinalityType, FS_EmptySet
    <3>. QED
      BY <2>5, <3>4 DEF M
  <2>7. ASSUME NEW m \in w.trough \cup After, m < first PROVE c[m] < w.worst[2]
    <3>1. CASE m \in w.trough
      BY <1>2, <3>1 DEF Found
    <3>2. CASE m \in After
      <4>1. m \in P /\ m \in 0 .. N
        BY <1>1, <1>3, <3>2
      <4>2. m \notin back
        BY <2>3, <2>4, <2>7, <4>1
      <4>3. ~(c[m] >= w.worst[2])
        BY <3>2, <4>2 DEF back
      <4>. QED
        BY <1>1, <1>5, <4>1, <4>3
    <3>. QED
      BY <3>1, <3>2
  <2>8. \E n \in After :
          /\ c[n] >= w.worst[2] /\ k = Cardinality({m \in After : m <= n})
          /\ \A m \in w.trough \cup After : m < n => c[m] < w.worst[2]
    BY <2>4, <2>5, <2>7
  <2>9. k # 0
    BY <2>6
  <2>. QED
    BY <1>8, <2>8, <2>9
<1>. QED
  BY <1>9, <1>10

(* Where fills are booked in the order of time, both curves of the report   *)
(* are what they are said to be, whatever fills came: the drawdown that     *)
(* calculate_metrics walks to is the worst fall from any point to a later   *)
(* one, a recovery is counted to the first point back at the peak, and each *)
(* day of build_daily_curves is the capital and what the fills until then   *)
(* have gained at the market.                                               *)
THEOREM ReportCurves == LedgerSpec => [](InOrderOfTime => CurvesAreReal)
<1>1. ASSUME ReportInv, InOrderOfTime PROVE CurvesAreReal
  <2>1. LedgerTypeOK
    BY <1>1 DEF ReportInv, BooksInv
  <2>. QED
    BY <1>1, <2>1, DrawdownTells, DailyIsMarked DEF CurvesAreReal
<1>. QED
  BY <1>1, ReportInvariant, PTL
=============================================================================
