---------------------------- MODULE MCTillPosting ----------------------------
(* Instances of TillPosting: which forms the tills fill in.                *)
EXTENDS TillPosting, TLC

CONSTANTS f1, f2

Sale(lines) == [kind |-> "sale", lines |-> lines]
Return(lines) == [kind |-> "return", lines |-> lines]

\* Two carts rung up in opposite orders.
Carts == f1 :> Sale(<<1, 2>>) @@ f2 :> Sale(<<2, 1>>)

\* A cart, and a return of a receipt that lists variant 2 first; with
\* TwoAndOne they compete for the only unit of variant 2.
CartAndReturn == f1 :> Sale(<<1, 2>>) @@ f2 :> Return(<<1, 2>>)

Crossed == 1 :> 2 @@ 2 :> 1
TwoOfEach == 1 :> 2 @@ 2 :> 2
TwoAndOne == 1 :> 2 @@ 2 :> 1

Symmetry == Permutations(Tills) \cup Permutations(Backends)
            \cup Permutations(Requests) \cup Permutations(Sessions)
=============================================================================
