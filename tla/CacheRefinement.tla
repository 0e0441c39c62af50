--------------------------- MODULE CacheRefinement ---------------------------
(* The cache server implements CacheRegistry: the refinement mapping.       *)
EXTENDS CacheClient

(* The generations of handles that are made and not yet registered.         *)
Holds(t) ==
  \/ At(t, "insert")
  \/ (At(t, "metacreate") \/ At(t, "metawrite")) /\ Cold(t)
Holders == {t \in Connections : Holds(t)}
Held == {thread[t].handle.gen : t \in Holders}

Registry == INSTANCE CacheRegistry WITH
              registered <- entries,
              used <- (1 .. next_generation - 1) \ Held

(* An entry never changes under a client: it is registered once, under a    *)
(* generation of its own, and stays until it is evicted.                    *)
ImplementsRegistry == Registry!Spec
=============================================================================
