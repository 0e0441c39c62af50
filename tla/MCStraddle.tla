----------------------------- MODULE MCStraddle -----------------------------
(* Small instances of the shipped strategies for TLC.                                 *)
EXTENDS Examples, TLC

(* A day of bars at even times of day and the next morning; alarms ring between bars.         *)
MCTimes == {2, 4, 6, 8, 12, 22}
MCDayOf == [t \in MCTimes |-> 1 + t \div 20]
(* The last one of the premium straddle opens and closes between two bars.  *)
MCWindows ==
  [weekly  |-> {<<[entry |-> 2, exit |-> 6]>>},
   premium |-> {<<[entry |-> 2, exit |-> 4]>>, <<[entry |-> 8, exit |-> 10]>>},
   windows |-> {<<[entry |-> 2, exit |-> 4], [entry |-> 4, exit |-> 6]>>}]

(* How the options of a market move: prices at 2, 4, ... of a day.         *)
Bar(low, high, close) == [low |-> low, high |-> high, close |-> close]
Flat == [x \in 1 .. 6 |-> Bar(9, 11, 10)]
Rise == [x \in 1 .. 6 |-> IF x <= 2 THEN Bar(9, 11, 10) ELSE Bar(11, 14, 13)]
Wild == [x \in 1 .. 6 |-> IF x = 2 THEN Bar(9, 15, 10) ELSE Bar(9, 11, 10)]

(* A market says how calls and puts move, whether the strike at the money   *)
(* has a put, when the other strike expires, and since when there is an     *)
(* index.                                                                   *)
Market == [calls |-> [ce |-> Rise, pe |-> Flat, put |-> TRUE, far |-> 2, index |-> 2],
           both  |-> [ce |-> Wild, pe |-> Rise, put |-> TRUE, far |-> 1, index |-> 2],
           gap   |-> [ce |-> Flat, pe |-> Rise, put |-> FALSE, far |-> 2, index |-> 2],
           late  |-> [ce |-> Wild, pe |-> Flat, put |-> TRUE, far |-> 2, index |-> 4]]
MCMarkets == DOMAIN Market

Strikes == {100, 150}
MCInstruments ==
  MCMarkets \X ({<<"index", 0>>} \cup ({"CE", "PE"} \X Strikes))

Trading(i) ==
  {t \in MCTimes : /\ i[2] = <<"PE", 100>> => Market[i[1]].put
                   /\ i[2][1] = "index" => Market[i[1]].index <= t}
Moves(i) == IF i[2][1] = "CE" THEN Market[i[1]].ce
            ELSE IF i[2][1] = "PE" THEN Market[i[1]].pe
            ELSE [x \in 1 .. 6 |-> LET c == <<130, 120, 140, 120, 110, 100>>[x]
                                   IN  Bar(c, c, c)]

(* The far strike is dearer by 3.                                           *)
Dearer(bar, n) == Bar(bar.low + n, bar.high + n, bar.close + n)
MCBars ==
  [i \in MCInstruments |->
     [t \in Trading(i) |->
        Dearer(Moves(i)[(t % 20) \div 2], IF i[2][2] = 150 THEN 3 ELSE 0)]]
MCMeta ==
  [i \in MCInstruments |-> [market |-> i[1], kind |-> i[2][1],
                            strike |-> i[2][2],
                            expiry |-> IF i[2][2] = 100 THEN 2 ELSE Market[i[1]].far]]
MCHours == [entry |-> 2, exit |-> 6]
CONSTANT s1

NoRules == [s \in {} |-> 0]
=============================================================================
