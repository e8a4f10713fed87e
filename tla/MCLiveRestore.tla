---------------------------- MODULE MCLiveRestore ----------------------------
EXTENDS LiveRestore, TLC

CONSTANTS e1, e2, f1

Symmetry == Permutations({e1, e2})
=============================================================================
