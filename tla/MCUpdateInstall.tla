-------------------------- MODULE MCUpdateInstall --------------------------
EXTENDS UpdateInstall, TLC
Symmetry == Permutations(Users) \cup Permutations(Runs)
=============================================================================
