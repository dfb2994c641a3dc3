------------------------------ MODULE MCCatalog ------------------------------
(***************************************************************************)
(* A small instance of Catalog for TLC: a path of three segments, the same *)
(* segments in another order and in another spelling, and the name ".".    *)
(***************************************************************************)
EXTENDS Catalog

CONSTANTS b, huge

SmallSize == [d \in Data |-> IF d = huge THEN 3 ELSE 1]

SmallName ==
    {<<A, b, b>>, <<A, Empty, b>>, <<b>>, <<b, A>>, <<Empty>>}

=============================================================================
