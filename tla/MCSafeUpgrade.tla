--------------------------- MODULE MCSafeUpgrade ---------------------------
(* Small instances of SafeUpgrade for TLC.                                 *)
EXTENDS SafeUpgrade, TLC

Symmetry == Permutations(Entries)
=============================================================================
