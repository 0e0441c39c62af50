--------------------------- MODULE MCOptionBuying ---------------------------
(* Three days of option buying for TLC.                                     *)
EXTENDS OptionBuying, TLC

CONSTANTS a, b, s1, Unknown

(* Two days with bars before, at, between and after the alarms at 4 and 8;  *)
(* a third with a gap over both.                                            *)
MCTimes == {2, 4, 5, 6, 7, 8, 10, 22, 24, 25, 26, 27, 28, 30, 42, 50}
MCDayOf == [t \in MCTimes |-> 1 + t \div 20]

(* A price that falls to 10 a bar after the entries, one that falls a bar   *)
(* later; both fall further before the cutoff, and reach the lowest entry   *)
(* and the middle target at the bar of the cutoff.                          *)
Bar(low, high, close) == [low |-> low, high |-> high, close |-> close]
Early(x) == CASE x = 5 -> Bar(9, 11, 10)
              [] x = 6 -> Bar(9, 12, 11)
              [] x = 7 -> Bar(7, 12, 9)
              [] x = 8 -> Bar(4, 16, 10)
              [] OTHER -> Bar(11, 13, 12)
Late(x) == CASE x = 6 -> Bar(9, 11, 10)
             [] x = 7 -> Bar(7, 13, 8)
             [] x = 8 -> Bar(4, 16, 11)
             [] OTHER -> Bar(11, 13, 12)

(* The instruments change places on the second day.                         *)
MCBars ==
  [i \in {a, b} |-> [t \in MCTimes |->
     IF (i = a) = (MCDayOf[t] = 1) THEN Early(t % 20) ELSE Late(t % 20)]]

(* Entries that fill at a bar of their own, at one bar with the other's, or *)
(* are only reached at the cutoff; targets that are reached before the      *)
(* cutoff, at it or never.  The other rows fill at the bar of the entries,  *)
(* cost more than there is, are dropped when loaded, or name no listed      *)
(* ticker.                                                                  *)
Row(i, entry, target) ==
  [inst |-> i, qty |-> IF i = b THEN 2 ELSE 1, entry |-> entry, target |-> target]
RowsFor(i) == {Row(i, e, t) : e \in {5, 7, 10}, t \in {12, 14, 30}}
Others == {Row(b, 12, 14), Row(b, 200, 300), Row(b, 0, 12), Row(Unknown, 10, 12)}

(* What the second day buys, b before a.                                    *)
NextDay == {<<Row(b, 10, u), Row(a, e, v)>> : u \in {12, 30}, e \in {7, 10}, v \in {14, 30}}

(* The last folder lists a ticker twice.                                    *)
MCCsvFolders ==
  {[d \in 1 .. 3 |-> <<<<r, q>>, rows, <<r>>>>[d]] :
     r \in RowsFor(a), q \in RowsFor(b) \cup Others, rows \in NextDay}
  \cup {<<>>, <<<<Row(a, 10, 14), Row(a, 7, 30)>>>>}

NoRules == [s \in {} |-> 0]
=============================================================================
