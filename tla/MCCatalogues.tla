----------------------------- MODULE MCCatalogues -----------------------------
(***************************************************************************)
(* Instance of Catalogues for TLC: a seeded category and a seeded portal,  *)
(* a third parameter, and two or three rows of everything else.            *)
(***************************************************************************)
EXTENDS Catalogues, TLC

CONSTANTS k1, g1, x1

MCSeeds ==
    [p \in Parameters |->
        [row |-> IF p = x1 THEN "absent" ELSE "active", code |-> "a",
         type |-> IF p = k1 THEN "category" ELSE "portal"]]

MCCallers == {Types, {"category"}}
=============================================================================
