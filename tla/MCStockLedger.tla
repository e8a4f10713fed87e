--------------------------- MODULE MCStockLedger ---------------------------
(* Small instances of StockLedger for TLC.                                 *)
EXTENDS StockLedger, TLC

Symmetry == Permutations(Variants)
=============================================================================
