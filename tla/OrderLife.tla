------------------------------ MODULE OrderLife ------------------------------
(***************************************************************************)
(* What the engine promises about orders, without its queue, its buffer,   *)
(* its clock and its callbacks: an accepted order works until it is        *)
(* matched or cancelled; a match is final and is booked exactly once, in   *)
(* some order, and soon.                                                   *)
(***************************************************************************)
EXTENDS Sequences

CONSTANT OrderIds

VARIABLES
  working,   (* accepted, neither matched nor cancelled                     *)
  matched,   (* matched with the market, not yet in the books               *)
  booked,    (* the trades of the account, in the order of booking          *)
  gone       (* cancelled                                                   *)

vars == <<working, matched, booked, gone>>

Range(seq) == {seq[n] : n \in DOMAIN seq}
Known == working \cup matched \cup Range(booked) \cup gone

Init == working = {} /\ matched = {} /\ booked = <<>> /\ gone = {}

Place(u) ==
  /\ u \notin Known
  /\ working' = working \cup {u}
  /\ UNCHANGED <<matched, booked, gone>>

(* One bar may match several resting orders.                                *)
Match(S) ==
  /\ S \subseteq working /\ S # {}
  /\ working' = working \ S
  /\ matched' = matched \cup S
  /\ UNCHANGED <<booked, gone>>

Book(u) ==
  /\ u \in matched
  /\ matched' = matched \ {u}
  /\ booked' = Append(booked, u)
  /\ UNCHANGED <<working, gone>>

(* One cancel takes every working order that has its id.                    *)
Cancel(S) ==
  /\ S \subseteq working /\ S # {}
  /\ working' = working \ S
  /\ gone' = gone \cup S
  /\ UNCHANGED <<matched, booked>>

Next ==
  \/ \E u \in OrderIds : Place(u) \/ Book(u)
  \/ \E S \in SUBSET working : Match(S) \/ Cancel(S)

Safe == Init /\ [][Next]_vars
Spec == Safe /\ WF_vars(\E u \in OrderIds : Book(u))
=============================================================================
