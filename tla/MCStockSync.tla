---------------------------- MODULE MCStockSync ----------------------------
(***************************************************************************)
(* One product; the second listing offers at most one of it.               *)
(***************************************************************************)
EXTENDS StockSync

Caps == [l \in Listings |-> IF l = "l1" THEN 2 ELSE 1]
=============================================================================
