---------------------------- MODULE CacheRegistry ----------------------------
(***************************************************************************)
(* What a cache store promises, without its threads and its files: at most *)
(* one handle is registered for a key; it stays as it is until the key is  *)
(* evicted; no generation is registered twice in the life of a server.     *)
(***************************************************************************)
EXTENDS Functions

CONSTANT Keys

VARIABLES
  registered,   (* key -> handle, a record with a generation, gen           *)
  used          (* generations registered or given up since the start       *)

vars == <<registered, used>>

Init == registered = << >> /\ used = {}

(* A handle nobody had before: what it says is left open.                   *)
Register(k) ==
  /\ k \notin DOMAIN registered
  /\ DOMAIN registered' = DOMAIN registered \cup {k}
  /\ \A j \in DOMAIN registered : registered'[j] = registered[j]
  /\ registered'[k].gen \notin used
  /\ used' = used \cup {registered'[k].gen}

(* A handle was made for a key that got another one meanwhile.              *)
GiveUp ==
  /\ \E g \in used' : g \notin used /\ used' = used \cup {g}
  /\ UNCHANGED registered

Remove(S) ==
  /\ registered' = Restrict(registered, DOMAIN registered \ S)
  /\ UNCHANGED used

(* The server starts anew.                                                  *)
Forget == registered' = << >> /\ used' = {}

Next ==
  \/ \E k \in Keys : Register(k)
  \/ GiveUp
  \/ \E S \in SUBSET Keys : Remove(S)
  \/ Forget

Spec == Init /\ [][Next]_vars
=============================================================================
