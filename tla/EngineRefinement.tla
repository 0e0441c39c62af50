-------------------------- MODULE EngineRefinement --------------------------
(* The engine implements OrderLife: the refinement mapping.                 *)
EXTENDS Engine

Life == INSTANCE OrderLife WITH
          OrderIds <- 1 .. MaxCalls,
          working  <- Announced \cup Resting,
          matched  <- Matched,
          booked   <- [n \in DOMAIN trades |-> trades[n].of],
          gone     <- cancelled

(* An accepted order of the engine lives the life of OrderLife: it never    *)
(* comes back once matched or cancelled, and a match is booked, once.       *)
ImplementsOrderLife == Life!Spec
=============================================================================
