------------------------------ MODULE MCCache ------------------------------
(***************************************************************************)
(* The cache on three keys and renderings of 1 to 3 bytes: a capacity of 3 *)
(* lets three small entries fit, one large one displace two, and an entry  *)
(* of 4 bytes exceed the whole capacity.                                   *)
(***************************************************************************)
EXTENDS CacheRefinement

CONSTANTS k1, k2, k3, c1, c2

MCKeys == {k1, k2, k3}
MCCallers == {c1, c2}
MCData == {1, 2, 4}
MCSize == [d \in MCData |-> d]
=============================================================================
