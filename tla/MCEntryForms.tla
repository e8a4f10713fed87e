---------------------------- MODULE MCEntryForms ----------------------------
(* EntryForms for TLC: two lines that look the same and one that does not.    *)
EXTENDS EntryForms, TLC

CONSTANTS l1, l2, l3, a, b

MCLines == {l1, l2, l3}
MCContents == {a, b}
MCContentOf == (l1 :> a) @@ (l2 :> a) @@ (l3 :> b)

Symmetry == Permutations(Calls)
=============================================================================
