--------------------------- MODULE MCReceivables ---------------------------
(* Receivables for TLC: documents, approvals and connections are              *)
(* interchangeable; customers are not, one of them has an opening balance.    *)
EXTENDS Receivables, TLC

Symmetry == Permutations(Calls) \union Permutations(Invoices) \union Permutations(Payments)
            \union Permutations(Authorizations) \union Permutations(Tokens)
=============================================================================
