---------------------------- MODULE StrategyHost ----------------------------
(***************************************************************************)
(* A particular strategy in place of Engine's arbitrary one.  A handler of *)
(* the strategy runs once in every callback: it changes the strategy's own *)
(* state and hands over the calls it makes on the Context, in order; they  *)
(* are then made one by one, each as a step of the engine, and the         *)
(* callback returns after the last.  Handlers of one callback cannot be    *)
(* interrupted, so this is the order in which the program does it.         *)
(***************************************************************************)
EXTENDS Engine, Sequences

VARIABLES
  todo,         (* calls the running handler has still to make               *)
  handled,      (* the handler of this callback has run                     *)
  alarm_keys    (* AlarmEvent.key of every alarm scheduled: id -> key        *)

hostVars == <<todo, handled, alarm_keys>>

(* The calls: tag says which order it is, for the id that is returned.      *)
Place(inst, side, type, price, qty, tag) ==
  [op |-> "place", tag |-> tag,
   in |-> [inst |-> inst, side |-> side, type |-> type, price |-> price,
           qty |-> qty]]
Cancel(id) == [op |-> "cancel", id |-> id]
Alarm(ts, key) == [op |-> "alarm", ts |-> ts, key |-> key]

(* The id place_order returns: 0 for a rejected order.                      *)
PlacedId(in) == IF RejectReason(in) = "none" THEN GenerateOrderId ELSE 0

(* The strategy's handler runs and asks for these calls.                    *)
Handle(calls) ==
  /\ pc = "callback" /\ ~handled
  /\ handled' = TRUE
  /\ todo' = calls
  /\ UNCHANGED <<vars, alarm_keys>>

(* The next call is made; cancel_order(0) does nothing.                     *)
MakeCall ==
  /\ pc = "callback" /\ todo # <<>>
  /\ LET call == Head(todo)
     IN  \/ /\ call.op = "place" /\ PlaceOrderAt(call.in, now)
            /\ UNCHANGED alarm_keys
         \/ /\ call.op = "cancel"
            /\ IF call.id = 0 THEN UNCHANGED vars ELSE CancelOrder(call.id)
            /\ UNCHANGED alarm_keys
         \/ /\ call.op = "alarm" /\ ScheduleAlarmAt(call.ts)
            /\ alarm_keys' = Append(alarm_keys, call.key)
  /\ todo' = Tail(todo)
  /\ UNCHANGED handled

(* The engine goes on when the callback has returned.                       *)
Proceed ==
  /\ pc = "callback" => handled /\ todo = <<>>
  /\ Run
  /\ handled' = FALSE
  /\ UNCHANGED <<todo, alarm_keys>>

HostInit == Init /\ todo = <<>> /\ handled = FALSE /\ alarm_keys = <<>>

HostStops == Terminating /\ UNCHANGED hostVars
=============================================================================
