----------------------------- MODULE MCCatalog -----------------------------
(***************************************************************************)
(* Catalog on a small instance: two items, and between two starts another  *)
(* file, other defaults and another seller, or no file at all.             *)
(***************************************************************************)
EXTENDS Catalog, TLC

CONSTANTS i1, i2, b1, seller, heir, s1, s2, q1

Prices(buy, chunk) == [m \in Modes |-> IF m = "buy" THEN buy ELSE chunk]

\* i1 has a price of its own for sale and none for chunks.
FirstFile == (i1 :> Prices(5, Unset)) @@ (i2 :> Prices(Unset, 2))
First == [file |-> FirstFile, default |-> Prices(4, 1), seller |-> seller]
Edited == [file |-> (i1 :> Prices(Unset, 3)), default |-> Prices(6, 2), seller |-> heir]
NoItems == [file |-> <<>>, default |-> Prices(6, 2), seller |-> heir]
MCConfigs == {First, Edited, NoItems}
MCItems == {i1, i2}
SaleSymmetry == Permutations({s1, s2})
MCAsked == [item : MCItems, mode : {"buy"}]
=============================================================================
