------------------------------ MODULE MCOrbBtst ------------------------------
(* Three days of the opening-range strategy for TLC.                        *)
EXTENDS OrbBtst, TLC

CONSTANTS c1, c2, cw, cn, p1, p2, pn, s1

(* A full day, one that ends before the exit time, and another.             *)
MCTimes == {2, 4, 6, 8, 10, 22, 24, 26, 42, 44, 46, 48, 50}
MCDayOf == [t \in MCTimes |-> 1 + t \div 20]

(* cw expires in the month of the others, before them; these expire on the  *)
(* third day, when cn and pn of the next month take their place.            *)
Options == {c1, c2, cw, cn, p1, p2, pn}
MCMeta ==
  [i \in Options |->
     [kind |-> IF i \in {p1, p2, pn} THEN "pe" ELSE "ce",
      expiry |-> IF i = cw THEN 2 ELSE IF i \in {cn, pn} THEN 9 ELSE 3,
      month |-> IF i \in {cn, pn} THEN 2 ELSE 1]]

(* Closes by timestamp; bars reach one above and below, wide ones six.  c1  *)
(* breaks out at once and is stopped, c2 meets its target and its exit time *)
(* at one bar, p1 is bought on two days, p2 has no bar on the second day,   *)
(* so that its sale rests.                                                  *)
Path(i) ==
  CASE i = c1 -> <<10, 10, 13, 13, 8, 10, 12, 12, 10, 10, 10, 14, 13>>
    [] i = c2 -> <<20, 21, 23, 24, 25, 26, 25, 24, 25, 30, 40, 41, 41>>
    [] i = cw -> <<10, 11, 14, 11, 11, 11, 11, 11, 11, 11, 11, 11, 11>>
    [] i = cn -> <<10, 10, 10, 10, 10, 10, 10, 10, 10, 11, 13, 14, 13>>
    [] i = pn -> <<10, 10, 10, 10, 10, 10, 10, 10, 10, 12, 10, 16, 0>>
    [] i = p1 -> <<10, 9, 9, 12, 12, 11, 11, 13, 13, 12, 12, 12, 12>>
    [] i = p2 -> <<20, 18, 22, 22, 21, 0, 0, 0, 0, 20, 22, 0, 26>>
Nth(t) == Cardinality({u \in MCTimes : u <= t})
Wide(i, t) == (i = c1 /\ t = 26) \/ (i = c2 /\ t = 24)
MCBars ==
  [i \in Options |->
     [t \in {u \in MCTimes : Path(i)[Nth(u)] # 0} |->
        LET c == Path(i)[Nth(t)]
            w == IF Wide(i, t) THEN 6 ELSE 1
        IN  [low |-> c - w, high |-> c + w, close |-> c]]]

MCParams ==
  {[premium |-> p, range_start |-> 2, range_end |-> e, cutoff |-> 8,
    day2_exit |-> x, target |-> t, stop |-> 25] :
     p \in {10, 15, 20}, e \in {4, 6}, x \in {4, 8}, t \in {10, 30}}

NoRules == [s \in {} |-> 0]
=============================================================================
