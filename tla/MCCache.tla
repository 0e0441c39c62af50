------------------------------- MODULE MCCache -------------------------------
(* Small instances of the cache for TLC.                                    *)
EXTENDS CacheRefinement, TLC

CONSTANTS p1, c1, c2, c3, c4

MCConnections == Clients \X (1 .. MaxRequests)
OneDataset == [c \in Clients |-> p1]

(* The second version of a dataset is the shorter one.                      *)
MCLength == [v \in 1 .. MaxVersion |-> 3 - v]

RunAndRunner == (c1 :> "run" @@ c2 :> "runner")
OneOfEach == RunAndRunner @@ (c3 :> "evict" @@ c4 :> "query")
=============================================================================
