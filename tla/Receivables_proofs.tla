-------------------------- MODULE Receivables_proofs --------------------------
(* What holds of Receivables for any number of customers, documents,          *)
(* approvals and connections. The argument is about the locks: two            *)
(* transactions never hold locks that exclude each other, so what one of them *)
(* read of a customer under the lock of the credit state is still true when   *)
(* it commits. From there its commit is a step of CustomerAccount.            *)
EXTENDS Receivables, FiniteSetTheorems, WellFoundedInduction, TLAPS

-----------------------------------------------------------------------------
(* Sums over a finite set, by induction on its subsets.                    *)

\* The element a fold takes out of a set.
Some(s) == CHOOSE x \in s : TRUE

\* The equation of the recursion a sum over the finite set S unfolds to.
IsSum(g, f, S) ==
    g = [s \in SUBSET S |->
            IF s = {} THEN 0 ELSE f[Some(s)] + g[s \ {Some(s)}]]

\* A non-empty collection of finite sets has a member none of whose
\* strict subsets belongs to it: induction over finite sets.
LEMMA SmallestSet ==
  ASSUME NEW S, IsFiniteSet(S), NEW X, X \subseteq SUBSET S, X # {}
  PROVE  \E T \in X : \A U \in X : U \subseteq T => U = T
<1>1. IsWellFoundedOn(StrictSubsetOrdering(S), SUBSET S)
  BY FS_StrictSubsetOrderingWellFounded, FS_FiniteSubsetsOfFinite
<1>2. PICK T \in X : \A U \in X : ~ (<<U, T>> \in StrictSubsetOrdering(S))
  BY <1>1, WFMin
<1>3. \A U \in X : U \subseteq T => U = T
  BY <1>2 DEF StrictSubsetOrdering
<1> QED
  BY <1>3

\* A non-empty set holds the element a fold takes out of it.
LEMMA SomeIsIn ==
  ASSUME NEW s, s # {}
  PROVE  Some(s) \in s
BY DEF Some

\* Two solutions of the equation agree on the sets they share.
LEMMA SumsAgree ==
  ASSUME NEW f, NEW S, NEW T, NEW g, NEW h, IsSum(g, f, S), IsSum(h, f, T),
         NEW V, V \subseteq S, V \subseteq T, IsFiniteSet(V)
  PROVE  g[V] = h[V]
<1> DEFINE Bad == {U \in SUBSET V : g[U] # h[U]}
<1>1. SUFFICES ASSUME Bad # {} PROVE FALSE
  OBVIOUS
<1>2. PICK U \in Bad : \A W \in Bad : W \subseteq U => W = U
  <2>1. Bad \subseteq SUBSET V
    OBVIOUS
  <2> HIDE DEF Bad
  <2> QED
    BY <1>1, <2>1, SmallestSet
<1>3. U # {}
  BY U \in SUBSET S, U \in SUBSET T DEF IsSum
<1>4. g[U] = f[Some(U)] + g[U \ {Some(U)}]
  BY <1>3, U \in SUBSET S DEF IsSum
<1>5. h[U] = f[Some(U)] + h[U \ {Some(U)}]
  BY <1>3, U \in SUBSET T DEF IsSum
<1>6. U \ {Some(U)} \notin Bad
  BY <1>2, <1>3, SomeIsIn
<1> QED
  BY <1>4, <1>5, <1>6

\* The equation has a solution over every finite set.
LEMMA SumExists ==
  ASSUME NEW f, NEW S, IsFiniteSet(S)
  PROVE  \E g : IsSum(g, f, S)
<1> DEFINE Bad == {T \in SUBSET S : ~ \E g : IsSum(g, f, T)}
<1>1. SUFFICES ASSUME Bad # {} PROVE FALSE
  OBVIOUS
<1>2. PICK T \in Bad : \A U \in Bad : U \subseteq T => U = T
  <2>1. Bad \subseteq SUBSET S
    OBVIOUS
  <2> HIDE DEF Bad
  <2> QED
    BY <1>1, <2>1, SmallestSet
<1> DEFINE G(U) == CHOOSE g : IsSum(g, f, U)
           Left(s) == s \ {Some(s)}
           h == [s \in SUBSET T |->
                    IF s = {} THEN 0 ELSE f[Some(s)] + G(Left(s))[Left(s)]]
<1>3. \A U \in SUBSET T : U # T => IsSum(G(U), f, U)
  BY <1>2
<1>4. ASSUME NEW s \in SUBSET T, s # {}
      PROVE  h[Left(s)] = G(Left(s))[Left(s)]
  <2>1. IsSum(G(Left(s)), f, Left(s))
    BY <1>3, <1>4, SomeIsIn
  <2>2. CASE Left(s) = {}
    BY <2>1, <2>2 DEF IsSum
  <2>3. CASE Left(s) # {}
    <3>1. /\ Left(Left(s)) \subseteq Left(s)
          /\ Left(Left(s)) # T
      BY <1>4, SomeIsIn
    <3>2. IsSum(G(Left(Left(s))), f, Left(Left(s)))
      BY <1>3, <3>1
    <3>3. IsFiniteSet(Left(Left(s)))
      BY <3>1, FS_Subset
    <3>4. G(Left(s))[Left(Left(s))] = G(Left(Left(s)))[Left(Left(s))]
      BY <2>1, <3>1, <3>2, <3>3, SumsAgree
    <3>5. G(Left(s))[Left(s)] = f[Some(Left(s))] + G(Left(s))[Left(Left(s))]
      BY <2>1, <2>3 DEF IsSum
    <3>6. h[Left(s)] = f[Some(Left(s))] + G(Left(Left(s)))[Left(Left(s))]
      BY <2>3, Left(s) \in SUBSET T
    <3> QED
      BY <3>4, <3>5, <3>6
  <2> HIDE DEF h, G, Left
  <2> QED
    BY <2>2, <2>3
<1>5. IsSum(h, f, T)
  <2>1. \A s \in SUBSET T :
            h[s] = IF s = {} THEN 0 ELSE f[Some(s)] + G(Left(s))[Left(s)]
    OBVIOUS
  <2>2. \A s \in SUBSET T :
            h[s] = IF s = {} THEN 0 ELSE f[Some(s)] + h[s \ {Some(s)}]
    <3> HIDE DEF h, G
    <3> QED
      BY <1>4, <2>1
  <2>3. h = [s \in SUBSET T |-> h[s]]
    OBVIOUS
  <2> HIDE DEF h, G, Left
  <2> QED
    BY <2>2, <2>3 DEF IsSum
<1> QED
  BY <1>2, <1>5

\* A sum is the value of a solution at the whole set.
LEMMA SumIsASolution ==
  ASSUME NEW f, NEW S, IsFiniteSet(S)
  PROVE  \E g : IsSum(g, f, S) /\ SumFunctionOnSet(f, S) = g[S]
<1> DEFINE g == CHOOSE iter : IsSum(iter, f, S)
<1>1. IsSum(g, f, S)
  BY SumExists
<1>2. SumFunctionOnSet(f, S) = g[S]
  BY DEF SumFunctionOnSet, FoldFunctionOnSet, MapThenFoldSet, IsSum, Some
<1> HIDE DEF g
<1> QED
  BY <1>1, <1>2

\* The sum over no index is 0.
LEMMA SumOfNone ==
  ASSUME NEW f
  PROVE  SumFunctionOnSet(f, {}) = 0
<1>1. PICK g : IsSum(g, f, {}) /\ SumFunctionOnSet(f, {}) = g[{}]
  BY SumIsASolution, FS_EmptySet
<1> QED
  BY <1>1 DEF IsSum

\* A sum over some indices is one value and the sum over the others.
LEMMA SumUnfolds ==
  ASSUME NEW f, NEW S, IsFiniteSet(S), S # {}
  PROVE  SumFunctionOnSet(f, S) =
            f[Some(S)] + SumFunctionOnSet(f, S \ {Some(S)})
<1> DEFINE R == S \ {Some(S)}
<1>1. IsFiniteSet(R)
  BY FS_RemoveElement
<1>2. PICK g : IsSum(g, f, S) /\ SumFunctionOnSet(f, S) = g[S]
  BY SumIsASolution
<1>3. PICK h : IsSum(h, f, R) /\ SumFunctionOnSet(f, R) = h[R]
  BY <1>1, SumIsASolution
<1>4. g[R] = h[R]
  BY <1>1, <1>2, <1>3, SumsAgree
<1>5. g[S] = f[Some(S)] + g[R]
  BY <1>2, S \in SUBSET S DEF IsSum
<1> QED
  BY <1>2, <1>3, <1>4, <1>5

\* A sum of integers is an integer.
LEMMA SumType ==
  ASSUME NEW f, NEW S, IsFiniteSet(S), \A x \in S : f[x] \in Int
  PROVE  SumFunctionOnSet(f, S) \in Int
<1> DEFINE Bad == {T \in SUBSET S : SumFunctionOnSet(f, T) \notin Int}
<1>1. SUFFICES ASSUME Bad # {} PROVE FALSE
  OBVIOUS
<1>2. PICK T \in Bad : \A U \in Bad : U \subseteq T => U = T
  <2>1. Bad \subseteq SUBSET S
    OBVIOUS
  <2> HIDE DEF Bad
  <2> QED
    BY <1>1, <2>1, SmallestSet
<1>3. T # {}
  BY SumOfNone
<1>4. SumFunctionOnSet(f, T) = f[Some(T)] + SumFunctionOnSet(f, T \ {Some(T)})
  BY <1>3, SumUnfolds, FS_Subset
<1>5. Some(T) \in T
  BY <1>3, SomeIsIn
<1>6. SumFunctionOnSet(f, T \ {Some(T)}) \in Int
  BY <1>2, <1>5
<1> QED
  BY <1>4, <1>5, <1>6

\* Every index may be taken out first: the order of a sum does not matter.
LEMMA SumTakesOut ==
  ASSUME NEW f, NEW S, IsFiniteSet(S), \A x \in S : f[x] \in Int, NEW z \in S
  PROVE  SumFunctionOnSet(f, S) = f[z] + SumFunctionOnSet(f, S \ {z})
<1> DEFINE Sum(T) == SumFunctionOnSet(f, T)
           Bad == {T \in SUBSET S : \E x \in T : Sum(T) # f[x] + Sum(T \ {x})}
<1>1. SUFFICES ASSUME Bad # {} PROVE FALSE
  OBVIOUS
<1>2. PICK T \in Bad : \A U \in Bad : U \subseteq T => U = T
  <2>1. Bad \subseteq SUBSET S
    OBVIOUS
  <2> HIDE DEF Bad
  <2> QED
    BY <1>1, <2>1, SmallestSet
<1>3. PICK x \in T : Sum(T) # f[x] + Sum(T \ {x})
  OBVIOUS
<1> DEFINE c == Some(T)
           R == T \ {x, c}
<1>4. Sum(T) = f[c] + Sum(T \ {c})
  BY SumUnfolds, FS_Subset
<1>5. c \in T /\ c # x
  BY <1>3, <1>4, SomeIsIn
<1>6. /\ T \ {c} \notin Bad
      /\ T \ {x} \notin Bad
  BY <1>2, <1>5
<1>7. Sum(T \ {c}) = f[x] + Sum(R)
  BY <1>5, <1>6, (T \ {c}) \ {x} = R
<1>8. Sum(T \ {x}) = f[c] + Sum(R)
  BY <1>5, <1>6, (T \ {x}) \ {c} = R
<1>9. /\ Sum(R) \in Int
      /\ f[x] \in Int
      /\ f[c] \in Int
  BY <1>5, SumType, FS_Subset
<1> HIDE DEF Sum, R, c
<1> QED
  BY <1>3, <1>4, <1>7, <1>8, <1>9

\* Functions that agree on the indices have the same sum.
LEMMA SumsOfEquals ==
  ASSUME NEW f, NEW g, NEW S, IsFiniteSet(S), \A x \in S : f[x] = g[x]
  PROVE  SumFunctionOnSet(f, S) = SumFunctionOnSet(g, S)
<1> DEFINE Bad == {T \in SUBSET S :
                      SumFunctionOnSet(f, T) # SumFunctionOnSet(g, T)}
<1>1. SUFFICES ASSUME Bad # {} PROVE FALSE
  OBVIOUS
<1>2. PICK T \in Bad : \A U \in Bad : U \subseteq T => U = T
  <2>1. Bad \subseteq SUBSET S
    OBVIOUS
  <2> HIDE DEF Bad
  <2> QED
    BY <1>1, <2>1, SmallestSet
<1>3. T # {}
  BY SumOfNone
<1>4. /\ SumFunctionOnSet(f, T) = f[Some(T)] + SumFunctionOnSet(f, T \ {Some(T)})
      /\ SumFunctionOnSet(g, T) = g[Some(T)] + SumFunctionOnSet(g, T \ {Some(T)})
  BY <1>3, SumUnfolds, FS_Subset
<1>5. Some(T) \in T
  BY <1>3, SomeIsIn
<1>6. SumFunctionOnSet(f, T \ {Some(T)}) = SumFunctionOnSet(g, T \ {Some(T)})
  BY <1>2, <1>5
<1> QED
  BY <1>4, <1>5, <1>6

\* Changing the value at one index changes the sum by as much.
LEMMA SumChanges ==
  ASSUME NEW f, NEW g, NEW S, IsFiniteSet(S), NEW z \in S,
         \A x \in S : f[x] \in Int, g[z] \in Int, \A x \in S \ {z} : g[x] = f[x]
  PROVE  SumFunctionOnSet(g, S) = SumFunctionOnSet(f, S) + g[z] - f[z]
<1> DEFINE R == S \ {z}
<1>1. IsFiniteSet(R)
  BY FS_RemoveElement
<1>2. SumFunctionOnSet(f, S) = f[z] + SumFunctionOnSet(f, R)
  BY SumTakesOut
<1>3. \A x \in S : g[x] \in Int
  OBVIOUS
<1>4. SumFunctionOnSet(g, S) = g[z] + SumFunctionOnSet(g, R)
  BY <1>3, SumTakesOut
<1>5. SumFunctionOnSet(g, R) = SumFunctionOnSet(f, R)
  BY <1>1, SumsOfEquals
<1>6. SumFunctionOnSet(f, R) \in Int
  BY <1>1, SumType
<1> HIDE DEF R
<1> QED
  BY <1>2, <1>4, <1>5, <1>6

\* A sum of zeros is zero.
LEMMA SumOfZeros ==
  ASSUME NEW f, NEW S, IsFiniteSet(S), \A x \in S : f[x] = 0
  PROVE  SumFunctionOnSet(f, S) = 0
<1> DEFINE Bad == {T \in SUBSET S : SumFunctionOnSet(f, T) # 0}
<1>1. SUFFICES ASSUME Bad # {} PROVE FALSE
  OBVIOUS
<1>2. PICK T \in Bad : \A U \in Bad : U \subseteq T => U = T
  <2>1. Bad \subseteq SUBSET S
    OBVIOUS
  <2> HIDE DEF Bad
  <2> QED
    BY <1>1, <2>1, SmallestSet
<1>3. T # {}
  BY SumOfNone
<1>4. SumFunctionOnSet(f, T) = f[Some(T)] + SumFunctionOnSet(f, T \ {Some(T)})
  BY <1>3, SumUnfolds, FS_Subset
<1>5. Some(T) \in T
  BY <1>3, SomeIsIn
<1>6. SumFunctionOnSet(f, T \ {Some(T)}) = 0
  BY <1>2, <1>5
<1> QED
  BY <1>4, <1>5, <1>6

\* A sum of naturals is a natural.
LEMMA SumOfNaturals ==
  ASSUME NEW f, NEW S, IsFiniteSet(S), \A x \in S : f[x] \in Nat
  PROVE  SumFunctionOnSet(f, S) \in Nat
<1> DEFINE Bad == {T \in SUBSET S : SumFunctionOnSet(f, T) \notin Nat}
<1>1. SUFFICES ASSUME Bad # {} PROVE FALSE
  OBVIOUS
<1>2. PICK T \in Bad : \A U \in Bad : U \subseteq T => U = T
  <2>1. Bad \subseteq SUBSET S
    OBVIOUS
  <2> HIDE DEF Bad
  <2> QED
    BY <1>1, <2>1, SmallestSet
<1>3. T # {}
  BY SumOfNone
<1>4. SumFunctionOnSet(f, T) = f[Some(T)] + SumFunctionOnSet(f, T \ {Some(T)})
  BY <1>3, SumUnfolds, FS_Subset
<1>5. Some(T) \in T
  BY <1>3, SomeIsIn
<1>6. SumFunctionOnSet(f, T \ {Some(T)}) \in Nat
  BY <1>2, <1>5
<1> QED
  BY <1>4, <1>5, <1>6

\* The sum of the differences is the difference of the sums.
LEMMA SumOfDifferences ==
  ASSUME NEW f, NEW g, NEW h, NEW S, IsFiniteSet(S),
         \A x \in S : f[x] \in Int /\ g[x] \in Int /\ h[x] = f[x] - g[x]
  PROVE  SumFunctionOnSet(h, S) = SumFunctionOnSet(f, S) - SumFunctionOnSet(g, S)
<1> DEFINE Bad == {T \in SUBSET S : SumFunctionOnSet(h, T) #
                     SumFunctionOnSet(f, T) - SumFunctionOnSet(g, T)}
<1>1. SUFFICES ASSUME Bad # {} PROVE FALSE
  OBVIOUS
<1>2. PICK T \in Bad : \A U \in Bad : U \subseteq T => U = T
  <2>1. Bad \subseteq SUBSET S
    OBVIOUS
  <2> HIDE DEF Bad
  <2> QED
    BY <1>1, <2>1, SmallestSet
<1>3. T # {}
  <2>1. \A k : SumFunctionOnSet(k, {}) = 0
    BY SumOfNone
  <2>2. {} \notin Bad
    BY <2>1
  <2> QED
    BY <2>2
<1> DEFINE R == T \ {Some(T)}
<1>4. /\ SumFunctionOnSet(f, T) = f[Some(T)] + SumFunctionOnSet(f, R)
      /\ SumFunctionOnSet(g, T) = g[Some(T)] + SumFunctionOnSet(g, R)
      /\ SumFunctionOnSet(h, T) = h[Some(T)] + SumFunctionOnSet(h, R)
  BY <1>3, SumUnfolds, FS_Subset
<1>5. Some(T) \in T
  BY <1>3, SomeIsIn
<1>6. SumFunctionOnSet(h, R) = SumFunctionOnSet(f, R) - SumFunctionOnSet(g, R)
  BY <1>2, <1>5
<1>7. SumFunctionOnSet(f, R) \in Int /\ SumFunctionOnSet(g, R) \in Int
  BY SumType, FS_Subset
<1>8. /\ f[Some(T)] \in Int /\ g[Some(T)] \in Int
      /\ h[Some(T)] = f[Some(T)] - g[Some(T)]
  BY <1>5
<1>9. SumFunctionOnSet(h, T) # SumFunctionOnSet(f, T) - SumFunctionOnSet(g, T)
  OBVIOUS
<1> HIDE DEF Bad, R
<1> QED
  BY <1>4, <1>6, <1>7, <1>8, <1>9

\* Of the subsets a function u names, one at least holds no other.
LEMMA SmallestOfAll ==
  ASSUME NEW D, IsFiniteSet(D), D # {}, NEW u, \A d \in D : u[d] \subseteq D
  PROVE  \E d \in D : \A e \in D : u[e] \subseteq u[d] => u[e] = u[d]
<1> DEFINE X == {u[d] : d \in D}
<1>1. X \subseteq SUBSET D /\ X # {}
  OBVIOUS
<1>2. \E T \in X : \A U \in X : U \subseteq T => U = T
  <2> HIDE DEF X
  <2> QED
    BY <1>1, SmallestSet
<1> QED
  BY <1>2

\* A non-empty finite set of integers has a least member.
LEMMA LeastIsIn ==
  ASSUME NEW D, IsFiniteSet(D), D # {}, \A d \in D : d \in Int
  PROVE  Min(D) \in D /\ \A e \in D : Min(D) <= e
<1> DEFINE u == [d \in D |-> {x \in D : x <= d}]
<1>1. PICK d \in D : \A e \in D : u[e] \subseteq u[d] => u[e] = u[d]
  <2>1. \A e \in D : u[e] \subseteq D
    OBVIOUS
  <2> HIDE DEF u
  <2> QED
    BY <2>1, SmallestOfAll
<1>2. ASSUME NEW e \in D, e < d PROVE FALSE
  <2>1. d \in Int /\ e \in Int
    OBVIOUS
  <2>2. \A x \in Int : x <= e => x <= d
    BY <1>2, <2>1
  <2>3. u[e] \subseteq u[d]
    BY <2>2
  <2>4. d \in u[d] /\ d \notin u[e]
    BY <1>2, <2>1
  <2> HIDE DEF u
  <2> QED
    BY <1>1, <2>3, <2>4
<1>3. \A e \in D : d <= e
  <2> TAKE e \in D
  <2>1. d \in Int /\ e \in Int
    OBVIOUS
  <2> QED
    BY <1>2, <2>1
<1> QED
  BY <1>3 DEF Min

-----------------------------------------------------------------------------
(* The invariant.                                                             *)

Kinds == {"none", "sell", "pay", "refund", "void", "update", "open"}

(* Transactions, with the exposures they may have read.                       *)
CallRows(V) ==
    [op : Kinds, c : Customers \union {None}, i : Invoices \union {None},
     p : Payments \union {None}, a : Authorizations \union {None},
     t : Tokens \union {None}, cash : BOOLEAN, amount : Totals \union {0},
     of : Allocations, to : Policies, day : Days, live : BOOLEAN, taken : Nat,
     seen : V, override : BOOLEAN]

CallsAreRows == \E V : call \in [Calls -> CallRows(V)]

BooksAreRows ==
    /\ invoice \in [Invoices -> InvoiceRows \union {None}]
    /\ payment \in [Payments -> PaymentRows \union {None}]
    /\ authorization \in [Authorizations -> AuthorizationRows \union {None}]
    /\ today \in Days
    /\ exposure = [c \in Customers |-> exposure[c]]

TakenInRange == \A k \in Calls : call[k].taken \in 0..Len(Locks(call[k]))

(* What a transaction is about exists, and a new document is nobody else's.   *)
HasArguments(q) ==
    /\ q.op \in {"sell", "pay", "update", "open"} => q.c \in Customers
    /\ q.op = "sell" => q.i \in Invoices /\ q.amount \in Totals
    /\ q.op = "pay" => q.p \in Payments
    /\ q.op = "refund" =>
         /\ q.a \in Authorizations /\ q.p \in Payments
         /\ authorization[q.a] # None /\ authorization[q.a].payment = q.p
         /\ payment[q.p] # None /\ payment[q.p].customer = q.c
    /\ q.op = "void" =>
         q.i \in Invoices /\ invoice[q.i] # None /\ invoice[q.i].customer = q.c
    /\ q.op = "open" => q.c = Mapped

ArgumentsExist == \A k \in Calls : HasArguments(call[k])

AuthorizationsArePaid ==
    \A a \in Authorizations :
        authorization[a] # None => payment[authorization[a].payment] # None

DocumentsAreOwn ==
    \A k \in Calls :
        /\ call[k].op = "sell" =>
             /\ invoice[call[k].i] = None
             /\ \A m \in Calls : m # k /\ call[m].op = "sell" => call[m].i # call[k].i
        /\ call[k].op = "pay" =>
             /\ payment[call[k].p] = None
             /\ \A m \in Calls : m # k /\ call[m].op = "pay" => call[m].p # call[k].p

(* Part of TypeOK: locks exclude.                                             *)
LocksExclude ==
    \A k, m \in Calls : \A n \in 1..call[k].taken :
        m # k => ~Blocks(m, Locks(call[k])[n])

(* How many locks it takes to hold the credit state of the customer.          *)
CreditAt(op) ==
    CASE op \in {"sell", "pay", "update", "refund"} -> 2
      [] op \in {"void", "open"} -> 3
      [] op = "none" -> 1

HoldsCredit(k) == call[k].op # "none" /\ call[k].taken >= CreditAt(call[k].op)

(* What was read under a lock that is still held is still so.                 *)
SeenIsCurrent ==
    \A k \in Calls : HoldsCredit(k) => call[k].seen = exposure[call[k].c]

ChecksStillHold ==
    \A k \in Calls : LET q == call[k] IN
        /\ q.op = "void" /\ q.taken >= 1 => q.i \notin voided
        /\ q.op = "void" /\ q.taken >= 3 => ~Account!Allocated(q.i)
        /\ q.op = "open" /\ q.taken >= 1 => ~opened

IInv ==
    /\ CallsAreRows /\ BooksAreRows /\ TakenInRange /\ ArgumentsExist
    /\ DocumentsAreOwn /\ LocksExclude /\ SeenIsCurrent /\ ChecksStillHold
    /\ AuthorizationsArePaid /\ RefundedOnce

-----------------------------------------------------------------------------
(* Locks.                                                                     *)

LEMMA LocksOfProfile ==
    ASSUME NEW q, q.op \in {"sell", "pay", "update"}, q.cash \in BOOLEAN
    PROVE  /\ Len(Locks(q)) \in {2, 3}
           /\ Locks(q)[1] = Row(q.c) /\ Locks(q)[2] = Credit(q.c)
           /\ Len(Locks(q)) = 3 => Locks(q)[3] = Drawer
<1>1. Locks(q) = <<Row(q.c), Credit(q.c)>> \o DrawerIf(q.cash)
  BY DEF Locks
<1> DEFINE s == <<Row(q.c), Credit(q.c)>>
<1>2. CASE q.cash
  <2>1. Locks(q) = s \o <<Drawer>>
    BY <1>1, <1>2 DEF DrawerIf
  <2> QED
    BY <2>1
<1>3. CASE ~q.cash
  <2>1. Locks(q) = s \o <<>>
    BY <1>1, <1>3 DEF DrawerIf
  <2> QED
    BY <2>1
<1> QED
  BY <1>2, <1>3

LEMMA LocksOfRefund ==
    ASSUME NEW q, q.op = "refund", q.cash \in BOOLEAN
    PROVE  /\ Len(Locks(q)) \in {3, 4}
           /\ Locks(q)[1] = Approval(q.a) /\ Locks(q)[2] = Credit(q.c)
<1>1. Locks(q) = <<Approval(q.a), Credit(q.c)>> \o DrawerIf(q.cash) \o <<Key(q.c)>>
  BY DEF Locks
<1> DEFINE s == <<Approval(q.a), Credit(q.c)>>
<1>2. CASE q.cash
  <2>1. Locks(q) = s \o <<Drawer>> \o <<Key(q.c)>>
    BY <1>1, <1>2 DEF DrawerIf
  <2> QED
    BY <2>1
<1>3. CASE ~q.cash
  <2>1. Locks(q) = s \o <<>> \o <<Key(q.c)>>
    BY <1>1, <1>3 DEF DrawerIf
  <2> QED
    BY <2>1
<1> QED
  BY <1>2, <1>3

LEMMA LocksOfOthers ==
    ASSUME NEW q
    PROVE  /\ q.op = "void" => Locks(q) = <<Document(q.i), Drawer, Credit(q.c), Key(q.c)>>
           /\ q.op = "open" => Locks(q) = <<Package, Key(q.c), Credit(q.c)>>
           /\ q.op = "none" => Locks(q) = <<>>
BY DEF Locks

LEMMA LocksOfSame ==
    ASSUME NEW q, NEW x, x.op = q.op, x.c = q.c, x.i = q.i, x.a = q.a, x.cash = q.cash
    PROVE  Locks(x) = Locks(q)
BY DEF Locks

LEMMA CallFacts ==
    ASSUME CallsAreRows, NEW k \in Calls
    PROVE  /\ call[k].op \in Kinds /\ call[k].cash \in BOOLEAN /\ call[k].taken \in Nat
           /\ call[k].of \in Allocations /\ call[k].to \in Policies /\ call[k].day \in Days
           /\ call[k].p \in Payments \union {None}
           /\ call[k].a \in Authorizations \union {None}
           /\ call[k].t \in Tokens \union {None}
BY DEF CallsAreRows, CallRows

(* The credit state is a lock of every transaction, at its place.             *)
LEMMA CreditIsLocked ==
    ASSUME CallsAreRows, NEW k \in Calls, call[k].op # "none"
    PROVE  /\ CreditAt(call[k].op) \in {2, 3}
           /\ Len(Locks(call[k])) \in Nat
           /\ CreditAt(call[k].op) <= Len(Locks(call[k]))
           /\ Locks(call[k])[CreditAt(call[k].op)] = Credit(call[k].c)
<1> DEFINE q == call[k]
<1>1. q.op \in Kinds /\ q.cash \in BOOLEAN
  BY CallFacts
<1>2. CASE q.op \in {"sell", "pay", "update"}
  <2>1. CreditAt(q.op) = 2
    BY <1>2 DEF CreditAt
  <2> QED
    BY <1>1, <1>2, <2>1, LocksOfProfile
<1>3. CASE q.op = "refund"
  <2>1. CreditAt(q.op) = 2
    BY <1>3 DEF CreditAt
  <2> QED
    BY <1>1, <1>3, <2>1, LocksOfRefund
<1>4. CASE q.op \in {"void", "open"}
  <2>1. CreditAt(q.op) = 3
    BY <1>4 DEF CreditAt
  <2> QED
    BY <1>4, <2>1, LocksOfOthers
<1> QED
  BY <1>1, <1>2, <1>3, <1>4 DEF Kinds

LEMMA ReadyHoldsCredit ==
    ASSUME CallsAreRows, TakenInRange, NEW k \in Calls, call[k].op # "none", ~Locking(k)
    PROVE  HoldsCredit(k) /\ call[k].taken = Len(Locks(call[k]))
<1>1. call[k].taken = Len(Locks(call[k]))
  BY CreditIsLocked DEF TakenInRange, Locking
<1> QED
  BY <1>1, CreditIsLocked DEF HoldsCredit

(* Two transactions that hold a credit state hold those of two customers.     *)
LEMMA CreditExcludes ==
    ASSUME CallsAreRows, LocksExclude, NEW k \in Calls, NEW m \in Calls, m # k,
           HoldsCredit(k), HoldsCredit(m)
    PROVE  call[k].c # call[m].c
<1> SUFFICES ASSUME call[k].c = call[m].c PROVE FALSE
  OBVIOUS
<1> DEFINE n == CreditAt(call[k].op)  l == CreditAt(call[m].op)
<1>1. /\ n \in 1..call[k].taken /\ Locks(call[k])[n] = Credit(call[k].c)
      /\ l \in 1..call[m].taken /\ Locks(call[m])[l] = Credit(call[k].c)
  BY CallFacts, CreditIsLocked DEF HoldsCredit
<1>2. ~Blocks(m, Locks(call[k])[n])
  BY <1>1 DEF LocksExclude
<1>3. Conflict(Locks(call[m])[l], Locks(call[k])[n])
  BY <1>1 DEF Conflict, Credit
<1> QED
  BY <1>1, <1>2, <1>3 DEF Blocks

LEMMA FirstLockExcludes ==
    ASSUME CallsAreRows, LocksExclude, NEW k \in Calls, NEW m \in Calls, m # k,
           call[k].taken >= 1, call[m].taken >= 1
    PROVE  /\ ~(call[k].op = "open" /\ call[m].op = "open")
           /\ call[k].op = "void" /\ call[m].op = "void" => call[k].i # call[m].i
<1>1. 1 \in 1..call[k].taken /\ 1 \in 1..call[m].taken
  BY CallFacts
<1>2. ~Conflict(Locks(call[m])[1], Locks(call[k])[1])
  BY <1>1 DEF LocksExclude, Blocks
<1>3. ASSUME call[k].op = "open", call[m].op = "open" PROVE FALSE
  <2>1. Locks(call[k])[1] = Package /\ Locks(call[m])[1] = Package
    BY <1>3, LocksOfOthers
  <2> QED
    BY <1>2, <2>1 DEF Conflict, Package
<1>4. ASSUME call[k].op = "void", call[m].op = "void", call[k].i = call[m].i PROVE FALSE
  <2>1. /\ Locks(call[k])[1] = Document(call[k].i)
        /\ Locks(call[m])[1] = Document(call[k].i)
    BY <1>4, LocksOfOthers
  <2> QED
    BY <1>2, <2>1 DEF Conflict, Document
<1> QED
  BY <1>3, <1>4

-----------------------------------------------------------------------------
(* Cycles of waits. Sales, payments, policy changes and the opening state     *)
(* lock in the order of these ranks.                                          *)

Rank(r) ==
    CASE r[1] = "opening_state_packages" -> 0
      [] r[1] = "customers" -> 1
      [] r[1] = "customer_credit_state" -> 2
      [] r[1] = "cash_sessions" -> 3

LEMMA RowRanks ==
    ASSUME NEW c
    PROVE  /\ Rank(Row(c)) = 1 /\ Rank(Key(c)) = 1 /\ Rank(Credit(c)) = 2
           /\ Rank(Package) = 0 /\ Rank(Drawer) = 3
BY DEF Rank, Row, Key, Credit, Package, Drawer

LEMMA ConflictRanks ==
    ASSUME NEW r, NEW s, Conflict(r, s)
    PROVE  Rank(r) = Rank(s)
BY DEF Conflict, Rank

LEMMA LocksAscend ==
    ASSUME NEW q, q.op \in {"sell", "pay", "update", "open"}, q.cash \in BOOLEAN
    PROVE  /\ Len(Locks(q)) \in Nat
           /\ \A n \in 1..Len(Locks(q)) : Rank(Locks(q)[n]) \in 0..3
           /\ \A n, m \in 1..Len(Locks(q)) : n < m => Rank(Locks(q)[n]) < Rank(Locks(q)[m])
<1>1. CASE q.op \in {"sell", "pay", "update"}
  <2>1. Rank(Row(q.c)) = 1 /\ Rank(Credit(q.c)) = 2 /\ Rank(Drawer) = 3
    BY RowRanks
  <2> QED
    BY <1>1, <2>1, LocksOfProfile
<1>2. CASE q.op = "open"
  <2>1. Rank(Package) = 0 /\ Rank(Key(q.c)) = 1 /\ Rank(Credit(q.c)) = 2
    BY RowRanks
  <2> QED
    BY <1>2, <2>1, LocksOfOthers
<1> QED
  BY <1>1, <1>2

LEMMA NoCycleWithoutACancellation ==
    ASSUME CallsAreRows, TakenInRange
    PROVE  DeadlocksNeedACancellation
<1> SUFFICES ASSUME NEW S \in SUBSET Calls, Deadlocked(S),
                    \A k \in S : call[k].op \notin {"refund", "void"}
             PROVE  FALSE
  BY DEF DeadlocksNeedACancellation
<1> DEFINE w(k) == Rank(Wanted(k))
<1>1. \A k \in S : Locking(k)
  BY DEF Deadlocked, WaitsFor
<1>2. ASSUME NEW k \in S
      PROVE  /\ call[k].op \in {"sell", "pay", "update", "open"} /\ call[k].cash \in BOOLEAN
             /\ call[k].taken \in Nat /\ call[k].taken + 1 \in 1..Len(Locks(call[k]))
             /\ w(k) \in 0..3
  <2>1. call[k].op \in Kinds /\ call[k].cash \in BOOLEAN /\ call[k].taken \in Nat
    BY CallFacts
  <2>2. call[k].op # "none"
    BY <1>1, <2>1, LocksOfOthers DEF Locking
  <2>3. call[k].op \in {"sell", "pay", "update", "open"}
    BY <2>1, <2>2 DEF Kinds
  <2>4. call[k].taken + 1 \in 1..Len(Locks(call[k]))
    BY <1>1, <2>1, <2>3, LocksAscend DEF Locking
  <2> QED
    BY <2>1, <2>3, <2>4, LocksAscend DEF Wanted
<1>3. ASSUME NEW k \in S PROVE \E m \in S : w(m) > w(k)
  <2>1. PICK m \in S : WaitsFor(k, m)
    BY DEF Deadlocked
  <2>2. PICK n \in 1..call[m].taken : Conflict(Locks(call[m])[n], Wanted(k))
    BY <2>1 DEF WaitsFor, Blocks
  <2>3. Rank(Locks(call[m])[n]) = w(k)
    BY <2>2, ConflictRanks
  <2>4. n \in 1..Len(Locks(call[m])) /\ n < call[m].taken + 1
    BY <1>2, LocksAscend
  <2>5. Rank(Locks(call[m])[n]) < w(m)
    BY <1>2, <2>4, LocksAscend DEF Wanted
  <2> QED
    BY <1>2, <2>3, <2>5
<1> HIDE DEF w
<1>4. PICK k0 \in S : TRUE
  BY DEF Deadlocked
<1>5. PICK k1 \in S : w(k1) > w(k0)
  BY <1>3
<1>6. PICK k2 \in S : w(k2) > w(k1)
  BY <1>3
<1>7. PICK k3 \in S : w(k3) > w(k2)
  BY <1>3
<1>8. PICK k4 \in S : w(k4) > w(k3)
  BY <1>3
<1>9. w(k0) \in 0..3 /\ w(k1) \in 0..3 /\ w(k2) \in 0..3 /\ w(k3) \in 0..3 /\ w(k4) \in 0..3
  BY <1>2
<1> QED
  BY <1>5, <1>6, <1>7, <1>8, <1>9

-----------------------------------------------------------------------------
(* Rows and records.                                                          *)

LEMMA IdleIsARow ==
    /\ Idle \in CallRows({0}) /\ Idle.op = "none" /\ Idle.taken = 0
BY AmountsArePositive, OpeningIsPositive, PoliciesAreKnown
DEF Idle, CallRows, Kinds, Allocations, Days

LEMMA WiderRows ==
    ASSUME NEW V, NEW W, NEW q \in CallRows(V)
    PROVE  q \in CallRows(V \union W)
BY DEF CallRows

LEMMA DatedRow ==
    ASSUME NEW q \in CallRows({0}), today \in Days
    PROVE  LET x == [q EXCEPT !.day = today]
           IN  /\ x \in CallRows({0}) /\ x.op = q.op /\ x.c = q.c /\ x.i = q.i /\ x.p = q.p
               /\ x.a = q.a /\ x.amount = q.amount /\ x.taken = q.taken
BY DEF CallRows

(* What a transaction is after one more lock.                                 *)
OneMore(x, q, e, b, V) ==
    /\ x \in CallRows(V)
    /\ x.op = q.op /\ x.c = q.c /\ x.i = q.i /\ x.p = q.p /\ x.a = q.a
    /\ x.cash = q.cash /\ x.amount = q.amount /\ x.of = q.of
    /\ x.t = q.t /\ x.day = q.day
    /\ x.taken = q.taken + 1 /\ x.seen = e /\ x.override = b

LEMMA TakenRow ==
    ASSUME NEW V, NEW q \in CallRows(V), NEW l \in BOOLEAN, NEW e \in V, NEW b \in BOOLEAN
    PROVE  OneMore([q EXCEPT !.taken = q.taken + 1, !.live = l, !.seen = e, !.override = b],
                   q, e, b, V)
<1> DEFINE x == [q EXCEPT !.taken = q.taken + 1, !.live = l, !.seen = e, !.override = b]
<1>1. x \in CallRows(V)
  <2>1. \A n \in Nat :
          [q EXCEPT !.taken = n, !.live = l, !.seen = e, !.override = b] \in CallRows(V)
    BY DEF CallRows
  <2>2. q.taken + 1 \in Nat
    BY DEF CallRows
  <2> QED
    BY <2>1, <2>2
<1>2. /\ x.op = q.op /\ x.c = q.c /\ x.i = q.i /\ x.p = q.p /\ x.a = q.a
      /\ x.cash = q.cash /\ x.amount = q.amount /\ x.of = q.of
      /\ x.t = q.t /\ x.day = q.day
  BY DEF CallRows
<1>3. x.taken = q.taken + 1 /\ x.seen = e /\ x.override = b
  BY DEF CallRows
<1> QED
  BY <1>1, <1>2, <1>3 DEF OneMore

-----------------------------------------------------------------------------
(* A transaction that begins holds nothing.                                   *)

LEMMA BeginKeeps ==
    ASSUME IInv, NEW k \in Calls, NEW q \in CallRows({0}), Begin(k, q),
           q.op # "none", q.taken = 0, HasArguments(q),
           q.op = "sell" => /\ invoice[q.i] = None
                            /\ \A m \in Calls : call[m].op = "sell" => call[m].i # q.i,
           q.op = "pay" => /\ payment[q.p] = None
                           /\ \A m \in Calls : call[m].op = "pay" => call[m].p # q.p
    PROVE  IInv'
<1> DEFINE x == [q EXCEPT !.day = today]
<1>1. /\ x \in CallRows({0}) /\ x.op = q.op /\ x.c = q.c /\ x.i = q.i /\ x.p = q.p
      /\ x.a = q.a /\ x.amount = q.amount /\ x.taken = 0
  BY DatedRow DEF IInv, BooksAreRows
<1> HIDE DEF x
<1>2. /\ call' = [call EXCEPT ![k] = x]
      /\ UNCHANGED <<invoice, over, voided, payment, exposure, oldest, opened, standing,
                     authorization, token, today>>
  BY DEF Begin, books, desk, x
<1>3. PICK V : call \in [Calls -> CallRows(V)]
  BY DEF IInv, CallsAreRows
<1>4. /\ call' \in [Calls -> CallRows(V \union {0})] /\ call'[k] = x
      /\ \A m \in Calls : m # k => call'[m] = call[m]
  BY <1>1, <1>2, <1>3, WiderRows
<1>5. CallsAreRows' /\ BooksAreRows'
  BY <1>2, <1>4 DEF CallsAreRows, IInv, BooksAreRows
<1>6. TakenInRange'
  <2>1. Len(Locks(x)) \in Nat
    <3>1. x.op \in Kinds /\ x.cash \in BOOLEAN /\ x.op # "none"
      BY <1>1 DEF CallRows
    <3> QED
      BY <3>1, LocksOfProfile, LocksOfRefund, LocksOfOthers DEF Kinds
  <2>2. \A m \in Calls : call'[m].taken \in 0..Len(Locks(call'[m]))
    BY <1>1, <1>4, <2>1 DEF IInv, TakenInRange
  <2> QED
    BY <2>2 DEF TakenInRange, Locks
<1>7. ArgumentsExist'
  <2>1. HasArguments(x)
    BY <1>1 DEF HasArguments
  <2> QED
    BY <1>2, <1>4, <2>1 DEF IInv, ArgumentsExist, HasArguments
<1>8. DocumentsAreOwn'
  BY <1>1, <1>2, <1>4 DEF IInv, DocumentsAreOwn
<1>9. LocksExclude'
  BY <1>1, <1>4 DEF IInv, LocksExclude, Blocks
<1>10. SeenIsCurrent' /\ ChecksStillHold'
  <2>1. CreditAt(x.op) \in {2, 3}
    BY <1>1 DEF CreditAt, CallRows, Kinds
  <2>2. \A m \in Calls : HoldsCredit(m)' => m # k /\ HoldsCredit(m)
    BY <1>1, <1>4, <2>1 DEF HoldsCredit
  <2>3. \A i \in Invoices : Account!Allocated(i)' = Account!Allocated(i)
    BY <1>2 DEF Account!Allocated, Refunded, Used
  <2> QED
    BY <1>1, <1>2, <1>4, <2>2, <2>3 DEF IInv, SeenIsCurrent, ChecksStillHold, ArgumentsExist,
       HasArguments
<1>11. RefundedOnce'
  BY <1>2 DEF IInv, RefundedOnce, Used
<1>12. AuthorizationsArePaid'
  BY <1>2 DEF IInv, AuthorizationsArePaid
<1> QED
  BY <1>5, <1>6, <1>7, <1>8, <1>9, <1>10, <1>11, <1>12 DEF IInv

-----------------------------------------------------------------------------
(* A lock is granted: nobody else holds one that excludes it, and what is     *)
(* read or checked with it is read and checked from the books as they are.    *)

LEMMA TakeChanges ==
    ASSUME IInv, NEW k \in Calls, Take(k)
    PROVE  /\ CallsAreRows' /\ (\A m \in Calls : m # k => call'[m] = call[m])
           /\ LET x == call'[k]  q == call[k] IN
              /\ x.op = q.op /\ x.c = q.c /\ x.i = q.i /\ x.p = q.p /\ x.a = q.a
              /\ x.cash = q.cash /\ x.amount = q.amount /\ x.of = q.of
              /\ x.taken = q.taken + 1 /\ x.t = q.t /\ x.day = q.day
              /\ x.seen = IF Wanted(k) = Credit(q.c) THEN exposure[q.c] ELSE q.seen
              /\ x.override = IF Wanted(k) = Credit(q.c) THEN OverdueBlocks(q) ELSE q.override
<1> DEFINE q == call[k]
           l == IF q.op = "sell" /\ Wanted(k) = Row(q.c) THEN q.live ELSE FALSE
           e == IF Wanted(k) = Credit(q.c) THEN exposure[q.c] ELSE q.seen
           b == IF Wanted(k) = Credit(q.c) THEN OverdueBlocks(q) ELSE q.override
           x == [q EXCEPT !.taken = q.taken + 1, !.live = l, !.seen = e, !.override = b]
<1>1. call' = [call EXCEPT ![k] = x]
  BY Zenon DEF Take
<1>2. PICK V : call \in [Calls -> CallRows(V)]
  BY DEF IInv, CallsAreRows
<1> DEFINE W == V \union {exposure[q.c]}
<1>3. call \in [Calls -> CallRows(W)]
  BY <1>2, WiderRows
<1>4. q \in CallRows(W) /\ q.taken + 1 \in Nat /\ q.seen \in V
  BY <1>2, <1>3 DEF CallRows
<1>5. q.live \in BOOLEAN /\ q.override \in BOOLEAN
  BY <1>2 DEF CallRows
<1>6. l \in BOOLEAN /\ b \in BOOLEAN
  BY <1>5 DEF OverdueBlocks
<1>7. e \in W
  BY <1>4
<1>8. OneMore(x, q, e, b, W)
  <2> HIDE DEF l, e, b, q, W
  <2> QED
    BY <1>4, <1>6, <1>7, TakenRow, Zenon
<1> HIDE DEF x, W
<1>9. call' \in [Calls -> CallRows(W)]
  BY <1>1, <1>3, <1>8 DEF OneMore
<1>10. call'[k] = x /\ \A m \in Calls : m # k => call'[m] = call[m]
  BY <1>1, <1>3
<1>11. CallsAreRows'
  BY <1>9 DEF CallsAreRows, CallRows
<1> QED
  BY <1>8, <1>10, <1>11 DEF OneMore

LEMMA TakeKeeps ==
    ASSUME IInv, NEW k \in Calls, Take(k)
    PROVE  IInv'
<1> DEFINE q == call[k]  x == call'[k]
<1>1. /\ CallsAreRows' /\ (\A m \in Calls : m # k => call'[m] = call[m])
      /\ x.op = q.op /\ x.c = q.c /\ x.i = q.i /\ x.p = q.p /\ x.a = q.a
      /\ x.cash = q.cash /\ x.amount = q.amount /\ x.of = q.of
      /\ x.taken = q.taken + 1
      /\ x.seen = IF Wanted(k) = Credit(q.c) THEN exposure[q.c] ELSE q.seen
  BY TakeChanges
<1>2. UNCHANGED <<invoice, over, voided, payment, exposure, oldest, opened, standing,
                  authorization, token, today>>
  BY DEF Take, books, desk
<1>3. Locks(x) = Locks(q)
  BY <1>1, LocksOfSame
<1>4. /\ Len(Locks(q)) \in Nat /\ q.taken \in Nat /\ q.op \in Kinds
      /\ q.taken < Len(Locks(q)) /\ q.op # "none"
  <2>1. q.op \in Kinds /\ q.cash \in BOOLEAN /\ q.taken \in Nat
    BY CallFacts DEF IInv
  <2>2. q.taken < Len(Locks(q))
    BY DEF Take, Served, Locking
  <2>3. q.op # "none"
    BY <2>1, <2>2, LocksOfOthers
  <2> QED
    BY <2>1, <2>2, <2>3, CreditIsLocked DEF IInv
<1>5. \A m \in Calls : Locks(call'[m]) = Locks(call[m])
  BY <1>1, <1>3
<1>6. TakenInRange'
  <2>1. \A m \in Calls : call'[m].taken \in 0..Len(Locks(call'[m]))
    BY <1>1, <1>3, <1>4, <1>5 DEF IInv, TakenInRange
  <2> QED
    BY <2>1 DEF TakenInRange, Locks
<1>7. ArgumentsExist' /\ BooksAreRows'
  <2>1. HasArguments(q)
    BY DEF IInv, ArgumentsExist
  <2>2. HasArguments(x)
    BY <1>1, <2>1 DEF HasArguments
  <2> QED
    BY <1>1, <1>2, <2>2 DEF IInv, ArgumentsExist, HasArguments, BooksAreRows
<1>8. DocumentsAreOwn'
  BY <1>1, <1>2 DEF IInv, DocumentsAreOwn
<1>9. LocksExclude'
  <2>1. \A m \in Calls : m # k => ~Blocks(m, Wanted(k))
    BY DEF Take, Served, WaitsFor
  <2>2. ASSUME NEW m \in Calls, NEW o \in Calls, NEW n \in 1..call'[m].taken, m # o,
               NEW j \in 1..call'[o].taken,
               Conflict(Locks(call[o])[j], Locks(call[m])[n])
        PROVE  FALSE
    <3>0. \A r, s : Conflict(r, s) => Conflict(s, r)
      BY DEF Conflict
    <3>1. CASE m # k /\ o # k
      BY <1>1, <2>2, <3>1 DEF IInv, LocksExclude, Blocks
    <3>2. CASE m = k
      <4>1. CASE n = q.taken + 1
        <5>1. Blocks(o, Wanted(k))
          BY <1>1, <2>2, <3>2, <4>1 DEF Blocks, Wanted
        <5> QED
          BY <2>1, <2>2, <3>2, <5>1
      <4>2. CASE n # q.taken + 1
        BY <1>1, <1>4, <2>2, <3>2, <4>2 DEF IInv, LocksExclude, Blocks
      <4> QED
        BY <4>1, <4>2
    <3>3. CASE o = k
      <4>1. CASE j = q.taken + 1
        <5>1. Blocks(m, Wanted(k))
          BY <1>1, <2>2, <3>0, <3>3, <4>1 DEF Blocks, Wanted
        <5> QED
          BY <2>1, <2>2, <3>3, <5>1
      <4>2. CASE j # q.taken + 1
        BY <1>1, <1>4, <2>2, <3>3, <4>2 DEF IInv, LocksExclude, Blocks
      <4> QED
        BY <4>1, <4>2
    <3> QED
      BY <3>1, <3>2, <3>3
  <2>3. \A m, o \in Calls : \A n \in 1..call'[m].taken : m # o =>
          ~\E j \in 1..call'[o].taken : Conflict(Locks(call'[o])[j], Locks(call'[m])[n])
    BY <1>5, <2>2
  <2> QED
    BY <2>3 DEF LocksExclude, Blocks
<1>10. SeenIsCurrent'
  <2>1. ASSUME NEW m \in Calls, HoldsCredit(m)'
        PROVE  call'[m].seen = exposure[call'[m].c]
    <3>1. CASE m # k
      BY <1>1, <2>1, <3>1 DEF HoldsCredit, IInv, SeenIsCurrent
    <3>2. CASE m = k /\ HoldsCredit(k)
      BY <1>1, <3>2 DEF IInv, SeenIsCurrent
    <3>3. CASE m = k /\ ~HoldsCredit(k)
      <4>1. CreditAt(q.op) \in {2, 3} /\ Locks(q)[CreditAt(q.op)] = Credit(q.c)
        BY <1>4, CreditIsLocked DEF IInv
      <4>2. q.taken + 1 = CreditAt(q.op)
        BY <1>1, <1>4, <2>1, <3>3, <4>1 DEF HoldsCredit
      <4> QED
        BY <1>1, <3>3, <4>1, <4>2 DEF Wanted
    <3> QED
      BY <3>1, <3>2, <3>3
  <2> QED
    BY <1>2, <2>1 DEF SeenIsCurrent
<1>11. ChecksStillHold'
  <2>1. \A i \in Invoices : Account!Allocated(i)' = Account!Allocated(i)
    BY <1>2 DEF Account!Allocated, Refunded, Used
  <2>2. Accepts(q, Wanted(k))
    BY DEF Take
  <2>3. ASSUME x.op = "void", x.taken >= 1 PROVE x.i \notin voided
    <3>1. CASE q.taken >= 1
      BY <1>1, <2>3, <3>1 DEF IInv, ChecksStillHold
    <3>2. CASE q.taken = 0
      <4>1. Wanted(k) = Document(q.i)
        <5>0. q.op = "void"
          BY <1>1, <2>3
        <5>1. Locks(q)[1] = Document(q.i)
          BY <5>0, LocksOfOthers
        <5>2. q.taken + 1 = 1
          BY <3>2
        <5> QED
          BY <5>1, <5>2 DEF Wanted
      <4> QED
        BY <1>1, <2>2, <2>3, <4>1 DEF Accepts
    <3> QED
      BY <1>4, <3>1, <3>2
  <2>4. ASSUME x.op = "void", x.taken >= 3 PROVE ~Account!Allocated(x.i)
    <3>1. CASE q.taken >= 3
      BY <1>1, <2>4, <3>1 DEF IInv, ChecksStillHold
    <3>2. CASE q.taken = 2
      <4>1. Wanted(k) = Credit(q.c)
        <5>0. q.op = "void"
          BY <1>1, <2>4
        <5>1. Locks(q)[3] = Credit(q.c)
          BY <5>0, LocksOfOthers
        <5>2. q.taken + 1 = 3
          BY <3>2
        <5> QED
          BY <5>1, <5>2 DEF Wanted
      <4> QED
        BY <1>1, <2>2, <2>4, <4>1 DEF Accepts
    <3> QED
      BY <1>1, <1>4, <2>4, <3>1, <3>2
  <2>5. ASSUME x.op = "open", x.taken >= 1 PROVE ~opened
    <3>1. CASE q.taken >= 1
      BY <1>1, <2>5, <3>1 DEF IInv, ChecksStillHold
    <3>2. CASE q.taken = 0
      <4>1. Wanted(k) = Package
        <5>0. q.op = "open"
          BY <1>1, <2>5
        <5>1. Locks(q)[1] = Package
          BY <5>0, LocksOfOthers
        <5>2. q.taken + 1 = 1
          BY <3>2
        <5> QED
          BY <5>1, <5>2 DEF Wanted
      <4> QED
        BY <1>1, <2>2, <2>5, <4>1 DEF Accepts
    <3> QED
      BY <1>4, <3>1, <3>2
  <2>6. x.op = "void" => x.i \in Invoices
    BY <1>1 DEF IInv, ArgumentsExist, HasArguments
  <2>7. \A m \in Calls : call[m].op = "void" => call[m].i \in Invoices
    BY DEF IInv, ArgumentsExist, HasArguments
  <2> QED
    BY <1>1, <1>2, <2>1, <2>3, <2>4, <2>5, <2>6, <2>7 DEF IInv, ChecksStillHold
<1>12. RefundedOnce' /\ AuthorizationsArePaid'
  BY <1>2 DEF IInv, RefundedOnce, Used, AuthorizationsArePaid
<1> QED
  BY <1>1, <1>6, <1>7, <1>8, <1>9, <1>10, <1>11, <1>12 DEF IInv

-----------------------------------------------------------------------------
(* A transaction that ends, with what it posts.                               *)

LEMMA CustomerOf ==
    ASSUME IInv, NEW k \in Calls, call[k].op # "none"
    PROVE  call[k].c \in Customers
<1>1. HasArguments(call[k]) /\ call[k].op \in Kinds
  BY CallFacts DEF IInv, ArgumentsExist
<1>2. CASE call[k].op \in {"sell", "pay", "update", "open"}
  BY <1>1, <1>2 DEF HasArguments
<1>3. CASE call[k].op = "refund"
  <2>1. /\ call[k].p \in Payments /\ payment[call[k].p] # None
        /\ payment[call[k].p].customer = call[k].c
    BY <1>1, <1>3 DEF HasArguments
  <2>2. payment[call[k].p] \in PaymentRows
    BY <2>1 DEF IInv, BooksAreRows
  <2> QED
    BY <2>1, <2>2 DEF PaymentRows
<1>4. CASE call[k].op = "void"
  <2>1. /\ call[k].i \in Invoices /\ invoice[call[k].i] # None
        /\ invoice[call[k].i].customer = call[k].c
    BY <1>1, <1>4 DEF HasArguments
  <2>2. invoice[call[k].i] \in InvoiceRows
    BY <2>1 DEF IInv, BooksAreRows
  <2> QED
    BY <2>1, <2>2 DEF InvoiceRows
<1> QED
  BY <1>1, <1>2, <1>3, <1>4 DEF Kinds

LEMMA EndLocks ==
    ASSUME IInv, NEW k \in Calls, End(k)
    PROVE  /\ CallsAreRows' /\ TakenInRange' /\ LocksExclude'
           /\ call'[k].op = "none" /\ call'[k].taken = 0
           /\ \A m \in Calls : m # k => call'[m] = call[m]
<1>1. PICK V : call \in [Calls -> CallRows(V)]
  BY DEF IInv, CallsAreRows
<1>2. Idle \in CallRows(V \union {0}) /\ Idle.op = "none" /\ Idle.taken = 0
  <2>1. Idle \in CallRows({0} \union V)
    BY IdleIsARow, WiderRows
  <2>2. {0} \union V = V \union {0}
    OBVIOUS
  <2> QED
    BY <2>1, <2>2, IdleIsARow
<1>3. call \in [Calls -> CallRows(V \union {0})]
  BY <1>1, WiderRows
<1>4. call' \in [Calls -> CallRows(V \union {0})] /\ call'[k] = Idle
      /\ \A m \in Calls : m # k => call'[m] = call[m]
  BY <1>2, <1>3 DEF End
<1>5. CallsAreRows'
  BY <1>4 DEF CallsAreRows, CallRows
<1>6. TakenInRange'
  <2>1. \A m \in Calls : call'[m].taken \in 0..Len(Locks(call'[m]))
    BY <1>2, <1>4, LocksOfOthers DEF IInv, TakenInRange
  <2> QED
    BY <2>1 DEF TakenInRange, Locks
<1>7. LocksExclude'
  BY <1>2, <1>4 DEF IInv, LocksExclude, Blocks
<1> QED
  BY <1>2, <1>4, <1>5, <1>6, <1>7

(* What a transaction may change when it ends: it posts its own documents,    *)
(* and moves only what it holds.                                              *)
LEMMA EndKeeps ==
    ASSUME IInv, NEW k \in Calls, End(k), BooksAreRows',
           \A i \in Invoices : invoice[i] # None => invoice'[i] = invoice[i],
           \A i \in Invoices :
               invoice'[i] # invoice[i] => call[k].op = "sell" /\ i = call[k].i,
           \A p \in Payments : payment[p] # None => payment'[p] = payment[p],
           \A p \in Payments :
               payment'[p] # payment[p] => call[k].op = "pay" /\ p = call[k].p,
           \A a \in Authorizations : authorization[a] # None =>
               /\ authorization'[a] # None
               /\ authorization'[a].payment = authorization[a].payment,
           AuthorizationsArePaid',
           \A c \in Customers :
               exposure'[c] # exposure[c] => HoldsCredit(k) /\ c = call[k].c,
           \A i \in Invoices : i \in voided' =>
               i \in voided \/ (call[k].op = "void" /\ i = call[k].i /\ call[k].taken >= 1),
           opened' => opened \/ (call[k].op = "open" /\ call[k].taken >= 1),
           \A i \in Invoices : Account!Allocated(i)' =>
               \/ Account!Allocated(i)
               \/ HoldsCredit(k) /\ invoice[i].customer = call[k].c,
           RefundedOnce'
    PROVE  IInv'
<1>1. /\ CallsAreRows' /\ TakenInRange' /\ LocksExclude'
      /\ call'[k].op = "none" /\ call'[k].taken = 0
      /\ \A m \in Calls : m # k => call'[m] = call[m]
  BY EndLocks
<1>2. ArgumentsExist'
  <2>1. ASSUME NEW m \in Calls PROVE HasArguments(call[m])'
    <3>1. CASE m = k
      BY <1>1, <3>1 DEF HasArguments
    <3>2. CASE m # k
      BY <1>1, <3>2 DEF IInv, ArgumentsExist, HasArguments
    <3> QED
      BY <3>1, <3>2
  <2> QED
    BY <2>1 DEF ArgumentsExist
<1>3. DocumentsAreOwn'
  <2>1. ASSUME NEW m \in Calls, m # k, call[m].op = "sell" PROVE invoice'[call[m].i] = None
    BY <2>1 DEF IInv, DocumentsAreOwn, ArgumentsExist, HasArguments
  <2>2. ASSUME NEW m \in Calls, m # k, call[m].op = "pay" PROVE payment'[call[m].p] = None
    BY <2>2 DEF IInv, DocumentsAreOwn, ArgumentsExist, HasArguments
  <2> QED
    BY <1>1, <2>1, <2>2 DEF IInv, DocumentsAreOwn
<1>4. SeenIsCurrent'
  <2>1. ASSUME NEW m \in Calls, HoldsCredit(m)'
        PROVE  call'[m].seen = exposure'[call'[m].c]
    <3>1. m # k /\ HoldsCredit(m) /\ call[m].op # "none"
      BY <1>1, <2>1 DEF HoldsCredit
    <3>2. call[m].c \in Customers
      BY <3>1, CustomerOf
    <3>3. HoldsCredit(k) => call[k].c # call[m].c
      BY <3>1, CreditExcludes DEF IInv
    <3> QED
      BY <1>1, <3>1, <3>2, <3>3 DEF IInv, SeenIsCurrent
  <2> QED
    BY <2>1 DEF SeenIsCurrent
<1>5. ChecksStillHold'
  <2>1. ASSUME NEW m \in Calls, m # k, call[m].op = "void", call[m].taken >= 1
        PROVE  call[m].i \in Invoices /\ call[m].i \notin voided'
    <3>1. call[m].i \in Invoices /\ call[m].i \notin voided
      BY <2>1 DEF IInv, ArgumentsExist, HasArguments, ChecksStillHold
    <3>2. ~(call[k].op = "void" /\ call[k].i = call[m].i /\ call[k].taken >= 1)
      BY <2>1, FirstLockExcludes DEF IInv
    <3> QED
      BY <3>1, <3>2
  <2>2. ASSUME NEW m \in Calls, m # k, call[m].op = "void", call[m].taken >= 3
        PROVE  \A i \in Invoices : i = call[m].i => ~Account!Allocated(i)'
    <3>1. /\ call[m].i \in Invoices /\ ~Account!Allocated(call[m].i)
          /\ invoice[call[m].i].customer = call[m].c
      BY <2>2 DEF IInv, ArgumentsExist, HasArguments, ChecksStillHold
    <3>2. HoldsCredit(m)
      BY <2>2 DEF HoldsCredit, CreditAt
    <3>3. HoldsCredit(k) => call[k].c # call[m].c
      BY <2>2, <3>2, CreditExcludes DEF IInv
    <3> QED
      BY <3>1, <3>3
  <2>3. ASSUME NEW m \in Calls, m # k, call[m].op = "open", call[m].taken >= 1
        PROVE  ~opened'
    <3>1. ~opened
      BY <2>3 DEF IInv, ChecksStillHold
    <3>2. ~(call[k].op = "open" /\ call[k].taken >= 1)
      BY <2>3, FirstLockExcludes DEF IInv
    <3> QED
      BY <3>1, <3>2
  <2>4. ASSUME NEW m \in Calls
        PROVE  /\ call'[m].op = "void" /\ call'[m].taken >= 1 => call'[m].i \notin voided'
               /\ call'[m].op = "void" /\ call'[m].taken >= 3 =>
                    \A i \in Invoices : i = call'[m].i => ~Account!Allocated(i)'
               /\ call'[m].op = "open" /\ call'[m].taken >= 1 => ~opened'
    <3>1. CASE m = k
      BY <1>1, <3>1
    <3>2. CASE m # k
      BY <1>1, <2>1, <2>2, <2>3, <3>2
    <3> QED
      BY <3>1, <3>2
  <2>5. \A m \in Calls : call'[m].op = "void" => call'[m].i \in Invoices
    BY <1>2 DEF ArgumentsExist, HasArguments
  <2> QED
    BY <2>4, <2>5 DEF ChecksStillHold, Account!Allocated
<1> QED
  BY <1>1, <1>2, <1>3, <1>4, <1>5 DEF IInv

-----------------------------------------------------------------------------
(* The commits.                                                               *)

LEMMA ReadyFacts ==
    ASSUME IInv, NEW k \in Calls, NEW op \in Kinds \ {"none"}, Ready(k, op)
    PROVE  /\ call[k].op = op /\ call[k].op # "none" /\ HoldsCredit(k)
           /\ call[k].c \in Customers /\ HasArguments(call[k])
           /\ call[k].taken >= 1 /\ (op = "void" => call[k].taken >= 3)
           /\ call[k].of \in Allocations /\ call[k].day \in Days
<1>1. call[k].op = op /\ op # "none" /\ ~Locking(k)
  BY DEF Ready
<1>2. HoldsCredit(k)
  BY <1>1, ReadyHoldsCredit DEF IInv
<1>3. call[k].taken >= 1 /\ (op = "void" => call[k].taken >= 3)
  BY <1>1, <1>2, CreditIsLocked, CallFacts DEF HoldsCredit, CreditAt, IInv, Kinds
<1> QED
  BY <1>1, <1>2, <1>3, CustomerOf, CallFacts DEF IInv, ArgumentsExist

LEMMA SameAllocations ==
    ASSUME UNCHANGED <<payment, authorization>>
    PROVE  /\ \A i \in Invoices : Account!Allocated(i)' = Account!Allocated(i)
           /\ Refunded' = Refunded /\ Used' = Used
           /\ IInv => RefundedOnce'
BY DEF Account!Allocated, Refunded, Used, IInv, RefundedOnce

LEMMA SaleKeeps ==
    ASSUME IInv, NEW k \in Calls, CommitSale(k)
    PROVE  IInv'
<1> DEFINE q == call[k]
<1>1. /\ q.op = "sell" /\ HoldsCredit(k) /\ q.c \in Customers /\ q.i \in Invoices
      /\ q.amount \in Totals /\ q.day \in Days
  BY ReadyFacts DEF CommitSale, HasArguments, Kinds
<1>2. End(k) /\ UNCHANGED <<voided, payment, opened, authorization, today>>
  BY DEF CommitSale
<1>3. /\ invoice' = [invoice EXCEPT ![q.i] =
                       [customer |-> q.c, amount |-> q.amount, due |-> q.day]]
      /\ exposure' = [exposure EXCEPT ![q.c] = q.seen + q.amount]
  BY DEF CommitSale
<1>4. [customer |-> q.c, amount |-> q.amount, due |-> q.day] \in InvoiceRows
  BY <1>1 DEF InvoiceRows
<1>5. BooksAreRows'
  BY <1>1, <1>2, <1>3, <1>4 DEF IInv, BooksAreRows
<1>6. invoice[q.i] = None
  BY <1>1 DEF IInv, DocumentsAreOwn
<1>7. /\ \A i \in Invoices : i # q.i => invoice'[i] = invoice[i]
      /\ \A c \in Customers : c # q.c => exposure'[c] = exposure[c]
  BY <1>3 DEF IInv, BooksAreRows
<1>8. RefundedOnce' /\ \A i \in Invoices : Account!Allocated(i)' = Account!Allocated(i)
  BY <1>2, SameAllocations
<1>20. AuthorizationsArePaid'
  BY <1>2 DEF IInv, AuthorizationsArePaid, BooksAreRows, AuthorizationRows
<1> QED
  BY <1>1, <1>2, <1>5, <1>6, <1>7, <1>8, <1>20, EndKeeps

LEMMA PaymentKeeps ==
    ASSUME IInv, NEW k \in Calls, CommitPayment(k)
    PROVE  IInv'
<1> DEFINE q == call[k]  row == [customer |-> q.c, of |-> q.of]
<1>1. /\ q.op = "pay" /\ HoldsCredit(k) /\ q.c \in Customers /\ q.p \in Payments
      /\ q.of \in Allocations
  BY ReadyFacts DEF CommitPayment, HasArguments, Kinds
<1>2. End(k) /\ UNCHANGED <<invoice, voided, opened, authorization, today>>
  BY DEF CommitPayment
<1>3. /\ payment' = [payment EXCEPT ![q.p] = row]
      /\ exposure' = [exposure EXCEPT ![q.c] = q.seen - Account!Total(q.of)]
  BY DEF CommitPayment
<1>4. row \in PaymentRows /\ row.of = q.of
  BY <1>1 DEF PaymentRows
<1> HIDE DEF row
<1>5. BooksAreRows'
  BY <1>1, <1>2, <1>3, <1>4 DEF IInv, BooksAreRows
<1>6. payment[q.p] = None
  BY <1>1 DEF IInv, DocumentsAreOwn
<1>7. /\ \A p \in Payments : p # q.p => payment'[p] = payment[p]
      /\ payment'[q.p] = row
      /\ \A c \in Customers : c # q.c => exposure'[c] = exposure[c]
  BY <1>1, <1>3 DEF IInv, BooksAreRows
<1>8. Refunded' = Refunded /\ RefundedOnce'
  BY <1>2 DEF Refunded, Used, IInv, RefundedOnce
<1>9. ASSUME NEW i \in Invoices, Account!Allocated(i)'
      PROVE  Account!Allocated(i) \/ (HoldsCredit(k) /\ invoice[i].customer = q.c)
  <2>1. PICK p \in Payments : payment'[p] # None /\ p \notin Refunded' /\ payment'[p].of[i] > 0
    BY <1>9 DEF Account!Allocated
  <2>2. CASE p = q.p
    <3>1. q.of[i] > 0
      BY <1>4, <1>7, <2>1, <2>2
    <3>2. invoice[i].customer = q.c
      BY <3>1 DEF CommitPayment, PaymentFits, Account!Fits
    <3> QED
      BY <1>1, <3>2
  <2>3. CASE p # q.p
    BY <1>7, <1>8, <2>1, <2>3 DEF Account!Allocated
  <2> QED
    BY <2>2, <2>3
<1>20. AuthorizationsArePaid'
  BY <1>2, <1>5, <1>6, <1>7 DEF IInv, AuthorizationsArePaid, BooksAreRows, AuthorizationRows
<1> QED
  BY <1>1, <1>2, <1>5, <1>6, <1>7, <1>8, <1>9, <1>20, EndKeeps

(* A refund consumes its authorization, and no other of the same payment.     *)
LEMMA RefundChanges ==
    ASSUME IInv, NEW k \in Calls, CommitRefund(k)
    PROVE  /\ authorization' \in [Authorizations -> AuthorizationRows \union {None}]
           /\ \A a \in Authorizations : authorization[a] # None =>
                /\ authorization'[a] # None
                /\ authorization'[a].payment = authorization[a].payment
           /\ \A a \in Authorizations : authorization[a] = None => authorization'[a] = None
           /\ Used' = Used \union {call[k].a}
           /\ Refunded' = Refunded \union {call[k].p}
<1> DEFINE q == call[k]  old == authorization[q.a]  row == [old EXCEPT !.status = "used"]
<1>1. /\ q.a \in Authorizations /\ q.p \in Payments /\ old # None /\ old.payment = q.p
  BY ReadyFacts DEF CommitRefund, HasArguments, Kinds
<1>2. old \in AuthorizationRows
  BY <1>1 DEF IInv, BooksAreRows
<1>3. row \in AuthorizationRows /\ row.payment = q.p /\ row.status = "used"
  BY <1>1, <1>2 DEF AuthorizationRows
<1>4. row # None
  BY <1>3, NoneIsNothing
<1>5. authorization' = [authorization EXCEPT ![q.a] = row]
  BY DEF CommitRefund
<1> HIDE DEF row
<1>6. /\ authorization' \in [Authorizations -> AuthorizationRows \union {None}]
      /\ authorization'[q.a] = row
      /\ \A a \in Authorizations : a # q.a => authorization'[a] = authorization[a]
  BY <1>1, <1>3, <1>5 DEF IInv, BooksAreRows
<1>7. \A a \in Authorizations : authorization[a] # None =>
        /\ authorization'[a] # None
        /\ authorization'[a].payment = authorization[a].payment
  BY <1>1, <1>3, <1>4, <1>6
<1>8. Used' = Used \union {q.a}
  BY <1>1, <1>3, <1>4, <1>6 DEF Used
<1>9. \A a \in Used' : authorization'[a].payment = authorization[a].payment
  BY <1>1, <1>7, <1>8 DEF Used
<1>10. Refunded' = {authorization[a].payment : a \in Used \union {q.a}}
  BY <1>8, <1>9 DEF Refunded
<1>11. Refunded' = Refunded \union {q.p}
  BY <1>1, <1>10 DEF Refunded
<1> QED
  BY <1>1, <1>6, <1>7, <1>8, <1>11

LEMMA RefundKeeps ==
    ASSUME IInv, NEW k \in Calls, CommitRefund(k)
    PROVE  IInv'
<1> DEFINE q == call[k]
<1>1. /\ q.op = "refund" /\ HoldsCredit(k) /\ q.c \in Customers /\ q.a \in Authorizations
      /\ q.p \in Payments /\ authorization[q.a].payment = q.p
  BY ReadyFacts DEF CommitRefund, HasArguments, Kinds
<1>2. End(k) /\ UNCHANGED <<invoice, voided, payment, opened, today>>
  BY DEF CommitRefund
<1>3. exposure' = [exposure EXCEPT ![q.c] = q.seen + Account!Total(payment[q.p].of)]
  BY DEF CommitRefund
<1>4. /\ authorization' \in [Authorizations -> AuthorizationRows \union {None}]
      /\ \A a \in Authorizations : authorization[a] # None =>
           /\ authorization'[a] # None
           /\ authorization'[a].payment = authorization[a].payment
      /\ \A a \in Authorizations : authorization[a] = None => authorization'[a] = None
      /\ Used' = Used \union {q.a}
      /\ Refunded' = Refunded \union {q.p}
  BY RefundChanges
<1>5. BooksAreRows'
  BY <1>2, <1>3, <1>4 DEF IInv, BooksAreRows
<1>6. \A c \in Customers : c # q.c => exposure'[c] = exposure[c]
  BY <1>3 DEF IInv, BooksAreRows
<1>7. \A i \in Invoices : Account!Allocated(i)' => Account!Allocated(i)
  BY <1>2, <1>4 DEF Account!Allocated
<1>8. RefundedOnce'
  <2>1. q.p \notin Refunded
    BY DEF CommitRefund, FirstRefund
  <2>2. \A a \in Used : authorization[a] # None /\ a \in Authorizations
    BY DEF Used
  <2>3. \A a \in Used : authorization'[a].payment = authorization[a].payment
    BY <1>4, <2>2
  <2>4. \A a \in Used : authorization'[a].payment # q.p
    BY <2>1, <2>3 DEF Refunded
  <2>5. authorization'[q.a].payment = q.p
    BY <1>1, <1>4, ReadyFacts DEF CommitRefund, HasArguments, Kinds
  <2>6. \A a, b \in Used' : authorization'[a].payment = authorization'[b].payment => a = b
    BY <1>4, <2>3, <2>4, <2>5 DEF IInv, RefundedOnce
  <2> QED
    BY <2>6 DEF RefundedOnce
<1>20. AuthorizationsArePaid'
  BY <1>2, <1>4 DEF IInv, AuthorizationsArePaid, BooksAreRows, AuthorizationRows
<1> QED
  BY <1>1, <1>2, <1>4, <1>5, <1>6, <1>7, <1>8, <1>20, EndKeeps

LEMMA VoidKeeps ==
    ASSUME IInv, NEW k \in Calls, CommitVoid(k)
    PROVE  IInv'
<1> DEFINE q == call[k]
<1>1. q.op = "void" /\ HoldsCredit(k) /\ q.c \in Customers /\ q.taken >= 1
  BY ReadyFacts DEF CommitVoid, Kinds
<1>2. End(k) /\ UNCHANGED <<invoice, payment, opened, authorization, today>>
  BY DEF CommitVoid
<1>3. /\ voided' = voided \union {q.i}
      /\ exposure' = [exposure EXCEPT ![q.c] = @ - invoice[q.i].amount]
  BY DEF CommitVoid
<1>4. BooksAreRows' /\ \A c \in Customers : c # q.c => exposure'[c] = exposure[c]
  BY <1>2, <1>3 DEF IInv, BooksAreRows
<1>5. RefundedOnce' /\ \A i \in Invoices : Account!Allocated(i)' = Account!Allocated(i)
  BY <1>2, SameAllocations
<1>20. AuthorizationsArePaid'
  BY <1>2 DEF IInv, AuthorizationsArePaid, BooksAreRows, AuthorizationRows
<1> QED
  BY <1>1, <1>2, <1>3, <1>4, <1>5, <1>20, EndKeeps

LEMMA OpeningKeeps ==
    ASSUME IInv, NEW k \in Calls, CommitOpening(k)
    PROVE  IInv'
<1> DEFINE q == call[k]
<1>1. q.op = "open" /\ HoldsCredit(k) /\ q.c \in Customers /\ q.taken >= 1
  BY ReadyFacts DEF CommitOpening, Kinds
<1>2. End(k) /\ UNCHANGED <<invoice, voided, payment, authorization, today>>
  BY DEF CommitOpening
<1>3. exposure' = [exposure EXCEPT ![q.c] = @ + Balance]
  BY DEF CommitOpening
<1>4. BooksAreRows' /\ \A c \in Customers : c # q.c => exposure'[c] = exposure[c]
  BY <1>2, <1>3 DEF IInv, BooksAreRows
<1>5. RefundedOnce' /\ \A i \in Invoices : Account!Allocated(i)' = Account!Allocated(i)
  BY <1>2, SameAllocations
<1>20. AuthorizationsArePaid'
  BY <1>2 DEF IInv, AuthorizationsArePaid, BooksAreRows, AuthorizationRows
<1> QED
  BY <1>1, <1>2, <1>4, <1>5, <1>20, EndKeeps

(* A transaction that ends and posts nothing.                                 *)
LEMMA QuietEndKeeps ==
    ASSUME IInv, NEW k \in Calls, End(k), UNCHANGED <<books, authorization, today>>
    PROVE  IInv'
<1>1. UNCHANGED <<invoice, voided, payment, exposure, opened, authorization, today>>
  BY DEF books
<1>2. BooksAreRows'
  BY <1>1 DEF IInv, BooksAreRows
<1>3. RefundedOnce' /\ \A i \in Invoices : Account!Allocated(i)' = Account!Allocated(i)
  BY <1>1, SameAllocations
<1>20. AuthorizationsArePaid'
  BY <1>1 DEF IInv, AuthorizationsArePaid, BooksAreRows, AuthorizationRows
<1> QED
  BY <1>1, <1>2, <1>3, <1>20, EndKeeps

-----------------------------------------------------------------------------
(* The screens.                                                               *)

SaleAsked(x, c, i, amount, t) ==
    /\ x \in CallRows({0}) /\ x.op = "sell" /\ x.c = c /\ x.i = i /\ x.amount = amount
    /\ x.t = t /\ x.taken = 0

PaymentAsked(x, c, p) ==
    x \in CallRows({0}) /\ x.op = "pay" /\ x.c = c /\ x.p = p /\ x.taken = 0

RefundAsked(x, a, p, c) ==
    /\ x \in CallRows({0}) /\ x.op = "refund" /\ x.a = a /\ x.p = p /\ x.c = c
    /\ x.taken = 0

VoidAsked(x, i, c) ==
    x \in CallRows({0}) /\ x.op = "void" /\ x.i = i /\ x.c = c /\ x.taken = 0

UpdateAsked(x, c) ==
    x \in CallRows({0}) /\ x.op = "update" /\ x.c = c /\ x.taken = 0

LEMMA SaleRow ==
    ASSUME NEW z \in CallRows({0}), z.taken = 0, NEW c \in Customers, NEW i \in Invoices,
           NEW amount \in Totals, NEW t \in Tokens \union {None}, NEW live \in BOOLEAN
    PROVE  SaleAsked([z EXCEPT !.op = "sell", !.c = c, !.i = i, !.amount = amount, !.t = t,
                               !.live = live], c, i, amount, t)
<1> DEFINE y == [z EXCEPT !.op = "sell", !.c = c, !.i = i]
           x == [y EXCEPT !.amount = amount, !.t = t, !.live = live]
<1>1. y \in CallRows({0}) /\ y.op = "sell" /\ y.c = c /\ y.i = i /\ y.taken = 0
  BY DEF CallRows, Kinds
<1>2. x = [z EXCEPT !.op = "sell", !.c = c, !.i = i, !.amount = amount, !.t = t, !.live = live]
  BY DEF CallRows
<1> HIDE DEF y
<1>3. /\ x \in CallRows({0}) /\ x.op = "sell" /\ x.c = c /\ x.i = i
      /\ x.amount = amount /\ x.t = t /\ x.taken = 0
  BY <1>1 DEF CallRows
<1> QED
  BY <1>2, <1>3 DEF SaleAsked

LEMMA PaymentRow ==
    ASSUME NEW z \in CallRows({0}), z.taken = 0, NEW c \in Customers, NEW p \in Payments,
           NEW of \in Allocations, NEW cash \in BOOLEAN
    PROVE  PaymentAsked([z EXCEPT !.op = "pay", !.c = c, !.p = p, !.of = of, !.cash = cash],
                        c, p)
BY DEF CallRows, Kinds, PaymentAsked

LEMMA RefundRow ==
    ASSUME NEW z \in CallRows({0}), z.taken = 0, NEW a \in Authorizations,
           NEW p \in Payments, NEW c \in Customers, NEW cash \in BOOLEAN,
           NEW live \in BOOLEAN
    PROVE  RefundAsked([z EXCEPT !.op = "refund", !.a = a, !.p = p, !.c = c, !.cash = cash,
                                 !.live = live], a, p, c)
<1> DEFINE y == [z EXCEPT !.op = "refund", !.a = a, !.p = p]
           x == [y EXCEPT !.c = c, !.cash = cash, !.live = live]
<1>1. y \in CallRows({0}) /\ y.op = "refund" /\ y.a = a /\ y.p = p /\ y.taken = 0
  BY DEF CallRows, Kinds
<1>2. x = [z EXCEPT !.op = "refund", !.a = a, !.p = p, !.c = c, !.cash = cash, !.live = live]
  BY DEF CallRows
<1> HIDE DEF y
<1>3. x \in CallRows({0})
  BY <1>1 DEF CallRows
<1>4. x.op = "refund" /\ x.a = a /\ x.p = p /\ x.c = c /\ x.taken = 0
  BY <1>1 DEF CallRows
<1> QED
  BY <1>2, <1>3, <1>4 DEF RefundAsked

LEMMA VoidRow ==
    ASSUME NEW z \in CallRows({0}), z.taken = 0, NEW i \in Invoices, NEW c \in Customers
    PROVE  VoidAsked([z EXCEPT !.op = "void", !.i = i, !.c = c], i, c)
BY DEF CallRows, Kinds, VoidAsked

LEMMA UpdateRow ==
    ASSUME NEW z \in CallRows({0}), z.taken = 0, NEW c \in Customers, NEW to \in Policies
    PROVE  UpdateAsked([z EXCEPT !.op = "update", !.c = c, !.to = to], c)
BY DEF CallRows, Kinds, UpdateAsked

LEMMA OpeningRow ==
    ASSUME NEW z \in CallRows({0})
    PROVE  LET x == [z EXCEPT !.op = "open", !.c = Mapped]
           IN  x \in CallRows({0}) /\ x.op = "open" /\ x.c = Mapped /\ x.taken = z.taken
BY OpeningIsPositive DEF CallRows, Kinds

LEMMA AskKeeps ==
    ASSUME IInv, NEW k \in Calls, Ask(k)
    PROVE  IInv'
<1>1. Idle \in CallRows({0}) /\ Idle.taken = 0
  BY IdleIsARow
<1>2. ASSUME NEW c \in Customers, NEW i \in Invoices, NEW amount \in Totals,
             NEW t \in Tokens \union {None}, NEW live \in BOOLEAN,
             StartSale(k, c, i, amount, t, live)
      PROVE  IInv'
  <2> DEFINE x == [Idle EXCEPT !.op = "sell", !.c = c, !.i = i, !.amount = amount, !.t = t,
                               !.live = live]
  <2>1. /\ x \in CallRows({0}) /\ x.op = "sell" /\ x.c = c /\ x.i = i
        /\ x.amount = amount /\ x.taken = 0
    <3>1. SaleAsked(x, c, i, amount, t)
      BY <1>1, SaleRow, Zenon
    <3> QED
      BY <3>1 DEF SaleAsked
  <2>2. Begin(k, x) /\ invoice[i] = None /\ \A m \in Calls : call[m].i # i
    BY <1>2 DEF StartSale
  <2> HIDE DEF x
  <2>3. HasArguments(x)
    BY <2>1 DEF HasArguments
  <2> QED
    BY <2>1, <2>2, <2>3, BeginKeeps
<1>3. ASSUME NEW c \in Customers, NEW p \in Payments, NEW of \in Allocations,
             NEW cash \in BOOLEAN, StartPayment(k, c, p, of, cash)
      PROVE  IInv'
  <2> DEFINE x == [Idle EXCEPT !.op = "pay", !.c = c, !.p = p, !.of = of, !.cash = cash]
  <2>1. /\ x \in CallRows({0}) /\ x.op = "pay" /\ x.c = c /\ x.p = p /\ x.taken = 0
    <3>1. PaymentAsked(x, c, p)
      BY <1>1, PaymentRow, Zenon
    <3> QED
      BY <3>1 DEF PaymentAsked
  <2>2. Begin(k, x) /\ payment[p] = None /\ \A m \in Calls : call[m].p # p
    BY <1>3 DEF StartPayment
  <2> HIDE DEF x
  <2>3. HasArguments(x)
    BY <2>1 DEF HasArguments
  <2> QED
    BY <2>1, <2>2, <2>3, BeginKeeps
<1>4. ASSUME NEW a \in Authorizations, NEW live \in BOOLEAN, StartRefund(k, a, live)
      PROVE  IInv'
  <2> DEFINE p == authorization[a].payment
             x == [Idle EXCEPT !.op = "refund", !.a = a, !.p = p, !.c = payment[p].customer,
                               !.cash = authorization[a].cash, !.live = live]
  <2>1. authorization[a] # None /\ p \in Payments /\ authorization[a].cash \in BOOLEAN
    BY <1>4 DEF StartRefund, IInv, BooksAreRows, AuthorizationRows
  <2>2. payment[p] # None /\ payment[p].customer \in Customers
    BY <2>1 DEF IInv, AuthorizationsArePaid, BooksAreRows, PaymentRows
  <2>3. /\ x \in CallRows({0}) /\ x.op = "refund" /\ x.a = a /\ x.p = p
        /\ x.c = payment[p].customer /\ x.taken = 0
    <3>1. RefundAsked(x, a, p, payment[p].customer)
      BY <1>1, <2>1, <2>2, RefundRow, Zenon
    <3> QED
      BY <3>1 DEF RefundAsked
  <2>4. Begin(k, x)
    BY <1>4 DEF StartRefund
  <2> HIDE DEF x
  <2>5. HasArguments(x)
    BY <2>1, <2>2, <2>3 DEF HasArguments
  <2> QED
    BY <2>3, <2>4, <2>5, BeginKeeps
<1>5. ASSUME NEW i \in Invoices, StartVoid(k, i) PROVE IInv'
  <2> DEFINE c == invoice[i].customer
             x == [Idle EXCEPT !.op = "void", !.i = i, !.c = c]
  <2>1. invoice[i] # None /\ c \in Customers
    BY <1>5 DEF StartVoid, IInv, BooksAreRows, InvoiceRows
  <2>2. /\ x \in CallRows({0}) /\ x.op = "void" /\ x.i = i /\ x.c = c /\ x.taken = 0
    <3>1. VoidAsked(x, i, c)
      BY <1>1, <2>1, VoidRow, Zenon
    <3> QED
      BY <3>1 DEF VoidAsked
  <2>3. Begin(k, x)
    BY <1>5 DEF StartVoid
  <2> HIDE DEF x
  <2>4. HasArguments(x)
    BY <2>1, <2>2 DEF HasArguments
  <2> QED
    BY <2>2, <2>3, <2>4, BeginKeeps
<1>6. ASSUME NEW c \in Customers, NEW to \in Policies, StartUpdate(k, c, to) PROVE IInv'
  <2> DEFINE x == [Idle EXCEPT !.op = "update", !.c = c, !.to = to]
  <2>1. x \in CallRows({0}) /\ x.op = "update" /\ x.c = c /\ x.taken = 0
    <3>1. UpdateAsked(x, c)
      BY <1>1, UpdateRow, Zenon
    <3> QED
      BY <3>1 DEF UpdateAsked
  <2>2. Begin(k, x)
    BY <1>6 DEF StartUpdate
  <2> HIDE DEF x
  <2>3. HasArguments(x)
    BY <2>1 DEF HasArguments
  <2> QED
    BY <2>1, <2>2, <2>3, BeginKeeps
<1>7. ASSUME StartOpening(k) PROVE IInv'
  <2> DEFINE x == [Idle EXCEPT !.op = "open", !.c = Mapped]
  <2>1. x \in CallRows({0}) /\ x.op = "open" /\ x.c = Mapped /\ x.taken = 0
    BY <1>1, OpeningRow
  <2>2. Begin(k, x)
    BY <1>7 DEF StartOpening
  <2> HIDE DEF x
  <2>3. HasArguments(x)
    BY <2>1, OpeningIsPositive DEF HasArguments
  <2> QED
    BY <2>1, <2>2, <2>3, BeginKeeps
<1> QED
  BY <1>2, <1>3, <1>4, <1>5, <1>6, <1>7 DEF Ask

LEMMA SameCalls ==
    ASSUME CallsAreRows, TakenInRange, LocksExclude, UNCHANGED call
    PROVE  CallsAreRows' /\ TakenInRange' /\ LocksExclude'
<1>1. CallsAreRows'
  BY DEF CallsAreRows, CallRows
<1>2. TakenInRange'
  BY DEF TakenInRange, Locks
<1>3. LocksExclude'
  BY DEF LocksExclude, Blocks
<1> QED
  BY <1>1, <1>2, <1>3

LEMMA SameBooks ==
    ASSUME IInv, UNCHANGED <<books, authorization, call>>, today' \in Days
    PROVE  IInv'
<1>1. UNCHANGED <<invoice, over, voided, payment, exposure, oldest, opened, authorization, call>>
  BY DEF books
<1>2. RefundedOnce' /\ \A i \in Invoices : Account!Allocated(i)' = Account!Allocated(i)
  BY <1>1, SameAllocations
<1>3. CallsAreRows' /\ TakenInRange' /\ LocksExclude'
  BY <1>1, SameCalls DEF IInv
<1>4. BooksAreRows' /\ DocumentsAreOwn' /\ SeenIsCurrent' /\ AuthorizationsArePaid'
  BY <1>1 DEF IInv, BooksAreRows, DocumentsAreOwn, SeenIsCurrent, HoldsCredit,
     AuthorizationsArePaid
<1>5. ArgumentsExist' /\ ChecksStillHold'
  BY <1>1, <1>2 DEF IInv, ChecksStillHold, ArgumentsExist, HasArguments
<1> QED
  BY <1>2, <1>3, <1>4, <1>5 DEF IInv

LEMMA ApproveKeeps ==
    ASSUME IInv, Approve \/ NextDay
    PROVE  IInv'
<1>1. ASSUME NEW a \in Authorizations, NEW p \in Payments, NEW cash \in BOOLEAN,
             Authorize(a, p, cash)
      PROVE  IInv'
  <2> DEFINE row == [payment |-> p, cash |-> cash, status |-> "open"]
  <2>1. /\ authorization[a] = None /\ payment[p] # None
        /\ authorization' = [authorization EXCEPT ![a] = row]
        /\ UNCHANGED <<invoice, over, voided, payment, exposure, oldest, opened, today, call>>
    BY <1>1 DEF Authorize, books
  <2>2. row \in AuthorizationRows /\ row.status # "used" /\ row.payment = p
    BY DEF AuthorizationRows
  <2> HIDE DEF row
  <2>3. row # None
    BY <2>2, NoneIsNothing
  <2>4. /\ authorization' \in [Authorizations -> AuthorizationRows \union {None}]
        /\ authorization'[a] = row
        /\ \A b \in Authorizations : b # a => authorization'[b] = authorization[b]
    BY <2>1, <2>2 DEF IInv, BooksAreRows
  <2>5. Used' = Used
    BY <2>1, <2>2, <2>3, <2>4 DEF Used
  <2>6. \A b \in Used : authorization'[b] = authorization[b]
    BY <2>1, <2>4 DEF Used
  <2>7. Refunded' = Refunded
    BY <2>5, <2>6 DEF Refunded
  <2>8. RefundedOnce'
    BY <2>5, <2>6 DEF IInv, RefundedOnce
  <2>9. \A i \in Invoices : Account!Allocated(i)' = Account!Allocated(i)
    BY <2>1, <2>7 DEF Account!Allocated
  <2>10. ArgumentsExist'
    BY <2>1, <2>4 DEF IInv, ArgumentsExist, HasArguments
  <2>11. AuthorizationsArePaid'
    BY <2>1, <2>2, <2>4 DEF IInv, AuthorizationsArePaid
  <2>12. CallsAreRows' /\ TakenInRange' /\ LocksExclude'
    BY <2>1, SameCalls DEF IInv
  <2>13. BooksAreRows' /\ DocumentsAreOwn' /\ SeenIsCurrent'
    BY <2>1, <2>4 DEF IInv, BooksAreRows, DocumentsAreOwn, SeenIsCurrent, HoldsCredit
  <2>14. ChecksStillHold'
    BY <2>1, <2>9 DEF IInv, ChecksStillHold, ArgumentsExist, HasArguments
  <2> QED
    BY <2>8, <2>10, <2>11, <2>12, <2>13, <2>14 DEF IInv
<1>3. ASSUME NEW t \in Tokens, NEW c \in Customers, NEW amount \in Totals,
             AuthorizeOverride(t, c, amount)
      PROVE  IInv'
  BY <1>3, SameBooks DEF AuthorizeOverride, IInv, BooksAreRows
<1>4. ASSUME NextDay PROVE IInv'
  BY <1>4, SameBooks, OpeningIsPositive DEF NextDay, IInv, BooksAreRows, Days
<1> QED
  BY <1>1, <1>3, <1>4 DEF Approve

-----------------------------------------------------------------------------
(* The theorems.                                                              *)

LEMMA InitInvariant == Init => IInv
<1> SUFFICES ASSUME Init PROVE IInv
  OBVIOUS
<1>1. Idle \in CallRows({0}) /\ Idle.op = "none" /\ Idle.taken = 0
  BY IdleIsARow
<1>2. call \in [Calls -> CallRows({0})] /\ \A k \in Calls : call[k] = Idle
  BY <1>1 DEF Init
<1>3. CallsAreRows
  BY <1>2 DEF CallsAreRows
<1>4. BooksAreRows /\ AuthorizationsArePaid
  BY OpeningIsPositive DEF Init, BooksAreRows, AuthorizationsArePaid, Days
<1>5. TakenInRange
  BY <1>1, <1>2, LocksOfOthers DEF TakenInRange
<1>6. ArgumentsExist /\ DocumentsAreOwn
  BY <1>1, <1>2 DEF ArgumentsExist, HasArguments, DocumentsAreOwn
<1>7. LocksExclude /\ SeenIsCurrent /\ ChecksStillHold
  BY <1>1, <1>2 DEF LocksExclude, SeenIsCurrent, ChecksStillHold, HoldsCredit
<1>8. Used = {}
  BY DEF Init, Used
<1>9. RefundedOnce
  BY <1>8 DEF RefundedOnce
<1> QED
  BY <1>3, <1>4, <1>5, <1>6, <1>7, <1>9 DEF IInv

LEMMA StepInvariant == IInv /\ [Next]_vars => IInv'
<1> SUFFICES ASSUME IInv, [Next]_vars PROVE IInv'
  OBVIOUS
<1>1. ASSUME NEW k \in Calls, Work(k) PROVE IInv'
  <2>1. ASSUME Refuse(k) PROVE IInv'
    BY <2>1, QuietEndKeeps DEF Refuse, desk
  <2>2. ASSUME RollBack(k) PROVE IInv'
    BY <2>2, QuietEndKeeps DEF RollBack, desk
  <2>3. ASSUME DeadlockDetected(k) PROVE IInv'
    BY <2>3, QuietEndKeeps DEF DeadlockDetected, desk
  <2>4. ASSUME CommitUpdate(k) PROVE IInv'
    BY <2>4, QuietEndKeeps DEF CommitUpdate
  <2> QED
    BY <1>1, <2>1, <2>2, <2>3, <2>4, TakeKeeps, SaleKeeps, PaymentKeeps, RefundKeeps,
       VoidKeeps, OpeningKeeps DEF Work
<1>2. CASE UNCHANGED vars
  <2>1. UNCHANGED <<books, authorization, today, call>>
    BY <1>2 DEF vars, books
  <2>2. ASSUME UNCHANGED <<books, authorization, call>>, today' \in Days PROVE IInv'
    BY <2>2, SameBooks
  <2> QED
    BY <2>1, <2>2 DEF IInv, BooksAreRows
<1> QED
  BY <1>1, <1>2, AskKeeps, ApproveKeeps DEF Next

THEOREM ReceivablesInvariant == Spec => []IInv
BY InitInvariant, StepInvariant, PTL DEF Spec

(* The locks do what they are for: two transactions never hold rows in modes  *)
(* that exclude each other (the last part of TypeOK).                         *)
THEOREM HeldLocksExclude == Spec => []LocksExclude
<1>1. IInv => LocksExclude
  BY DEF IInv
<1> QED
  BY <1>1, ReceivablesInvariant, PTL

(* A payment is given back once, for any number of payments, of authorizations *)
(* issued for them and of refunds that run at the same time.                  *)
THEOREM PaymentsAreRefundedOnce == Spec => []RefundedOnce
<1>1. IInv => RefundedOnce
  BY DEF IInv
<1> QED
  BY <1>1, ReceivablesInvariant, PTL

(* Whatever the number of connections, a cycle of waits has a refund or a     *)
(* cancellation in it.                                                        *)
THEOREM OnlyCancellationsDeadlock == Spec => []DeadlocksNeedACancellation
<1>1. IInv => DeadlocksNeedACancellation
  BY NoCycleWithoutACancellation DEF IInv
<1> QED
  BY <1>1, ReceivablesInvariant, PTL

-----------------------------------------------------------------------------
(* Overrides. What a sale found under the lock of the credit state, that the  *)
(* customer owes something overdue and that its override is open, is still so *)
(* when it commits: nobody else moves the due date of this customer, and only *)
(* sales to this customer spend an override of this customer.                 *)

NamesAToken(q) == q.t # None => q.t \in Tokens /\ token[q.t] # None

OverrideIsOpen(q) ==
    /\ q.t \in Tokens /\ token[q.t] # None /\ token[q.t].status # "used"
    /\ token[q.t].customer = q.c /\ token[q.t].amount = q.amount

OverrideInv ==
    /\ token \in [Tokens -> TokenRows \union {None}]
    /\ oldest = [c \in Customers |-> oldest[c]]
    /\ \A k \in Calls : call[k].op = "sell" => NamesAToken(call[k])
    /\ \A k \in Calls : call[k].op = "sell" /\ HoldsCredit(k) =>
         /\ call[k].override = OverdueBlocks(call[k])
         /\ OverdueBlocks(call[k]) => OverrideIsOpen(call[k])

(* A transaction that begins names an override that was issued.               *)
LEMMA AskNames ==
    ASSUME IInv, NEW k \in Calls, Ask(k)
    PROVE  /\ UNCHANGED <<token, oldest>>
           /\ \A m \in Calls : m # k => call'[m] = call[m]
           /\ call'[k].taken = 0
           /\ call'[k].op = "sell" => NamesAToken(call'[k])
<1>1. Idle \in CallRows({0}) /\ Idle.taken = 0
  BY IdleIsARow
<1>2. PICK V : call \in [Calls -> CallRows(V)]
  BY DEF IInv, CallsAreRows
<1>3. ASSUME NEW q \in CallRows({0}), q.taken = 0, Begin(k, q),
             q.op = "sell" => NamesAToken(q)
      PROVE  /\ UNCHANGED <<token, oldest>>
             /\ \A m \in Calls : m # k => call'[m] = call[m]
             /\ call'[k].taken = 0
             /\ call'[k].op = "sell" => NamesAToken(call'[k])
  <2> DEFINE x == [q EXCEPT !.day = today]
  <2>1. x.op = q.op /\ x.t = q.t /\ x.taken = 0
    BY <1>3 DEF CallRows
  <2> HIDE DEF x
  <2>2. call' = [call EXCEPT ![k] = x] /\ UNCHANGED <<token, oldest>>
    BY <1>3 DEF Begin, books, desk, x
  <2>3. call'[k] = x /\ \A m \in Calls : m # k => call'[m] = call[m]
    BY <1>2, <2>2
  <2> QED
    BY <1>3, <2>1, <2>2, <2>3 DEF NamesAToken
<1> DEFINE Named == /\ UNCHANGED <<token, oldest>>
                    /\ \A m \in Calls : m # k => call'[m] = call[m]
                    /\ call'[k].taken = 0
                    /\ call'[k].op = "sell" => NamesAToken(call'[k])
<1>4. \A q \in CallRows({0}) :
        q.taken = 0 /\ Begin(k, q) /\ (q.op = "sell" => NamesAToken(q)) => Named
  BY <1>3
<1> HIDE DEF Named
<1>5. ASSUME NEW c \in Customers, NEW i \in Invoices, NEW amount \in Totals,
             NEW t \in Tokens \union {None}, NEW live \in BOOLEAN,
             StartSale(k, c, i, amount, t, live)
      PROVE  Named
  <2> DEFINE x == [Idle EXCEPT !.op = "sell", !.c = c, !.i = i, !.amount = amount, !.t = t,
                               !.live = live]
  <2>1. x \in CallRows({0}) /\ x.t = t /\ x.taken = 0
    <3>1. SaleAsked(x, c, i, amount, t)
      BY <1>1, SaleRow, Zenon
    <3> QED
      BY <3>1 DEF SaleAsked
  <2>2. Begin(k, x) /\ (t # None => token[t] # None)
    BY <1>5 DEF StartSale
  <2> HIDE DEF x
  <2> QED
    BY <1>4, <2>1, <2>2 DEF NamesAToken
<1>6. ASSUME NEW c \in Customers, NEW p \in Payments, NEW of \in Allocations,
             NEW cash \in BOOLEAN, StartPayment(k, c, p, of, cash)
      PROVE  Named
  <2> DEFINE x == [Idle EXCEPT !.op = "pay", !.c = c, !.p = p, !.of = of, !.cash = cash]
  <2>1. x \in CallRows({0}) /\ x.op = "pay" /\ x.taken = 0
    <3>1. PaymentAsked(x, c, p)
      BY <1>1, PaymentRow, Zenon
    <3> QED
      BY <3>1 DEF PaymentAsked
  <2>2. Begin(k, x)
    BY <1>6 DEF StartPayment
  <2> HIDE DEF x
  <2> QED
    BY <1>4, <2>1, <2>2
<1>7. ASSUME NEW a \in Authorizations, NEW live \in BOOLEAN, StartRefund(k, a, live)
      PROVE  Named
  <2> DEFINE p == authorization[a].payment
             x == [Idle EXCEPT !.op = "refund", !.a = a, !.p = p, !.c = payment[p].customer,
                               !.cash = authorization[a].cash, !.live = live]
  <2>1. authorization[a] # None /\ p \in Payments /\ authorization[a].cash \in BOOLEAN
    BY <1>7 DEF StartRefund, IInv, BooksAreRows, AuthorizationRows
  <2>2. payment[p].customer \in Customers
    BY <2>1 DEF IInv, AuthorizationsArePaid, BooksAreRows, PaymentRows
  <2>3. x \in CallRows({0}) /\ x.op = "refund" /\ x.taken = 0
    <3>1. RefundAsked(x, a, p, payment[p].customer)
      BY <1>1, <2>1, <2>2, RefundRow, Zenon
    <3> QED
      BY <3>1 DEF RefundAsked
  <2>4. Begin(k, x)
    BY <1>7 DEF StartRefund
  <2> HIDE DEF x
  <2> QED
    BY <1>4, <2>3, <2>4
<1>8. ASSUME NEW i \in Invoices, StartVoid(k, i) PROVE Named
  <2> DEFINE c == invoice[i].customer
             x == [Idle EXCEPT !.op = "void", !.i = i, !.c = c]
  <2>1. c \in Customers
    BY <1>8 DEF StartVoid, IInv, BooksAreRows, InvoiceRows
  <2>2. x \in CallRows({0}) /\ x.op = "void" /\ x.taken = 0
    <3>1. VoidAsked(x, i, c)
      BY <1>1, <2>1, VoidRow, Zenon
    <3> QED
      BY <3>1 DEF VoidAsked
  <2>3. Begin(k, x)
    BY <1>8 DEF StartVoid
  <2> HIDE DEF x
  <2> QED
    BY <1>4, <2>2, <2>3
<1>9. ASSUME NEW c \in Customers, NEW to \in Policies, StartUpdate(k, c, to) PROVE Named
  <2> DEFINE x == [Idle EXCEPT !.op = "update", !.c = c, !.to = to]
  <2>1. x \in CallRows({0}) /\ x.op = "update" /\ x.taken = 0
    <3>1. UpdateAsked(x, c)
      BY <1>1, UpdateRow, Zenon
    <3> QED
      BY <3>1 DEF UpdateAsked
  <2>2. Begin(k, x)
    BY <1>9 DEF StartUpdate
  <2> HIDE DEF x
  <2> QED
    BY <1>4, <2>1, <2>2
<1>10. ASSUME StartOpening(k) PROVE Named
  <2> DEFINE x == [Idle EXCEPT !.op = "open", !.c = Mapped]
  <2>1. x \in CallRows({0}) /\ x.op = "open" /\ x.taken = 0
    BY <1>1, OpeningRow
  <2>2. Begin(k, x)
    BY <1>10 DEF StartOpening
  <2> HIDE DEF x
  <2> QED
    BY <1>4, <2>1, <2>2
<1>11. Named
  BY <1>5, <1>6, <1>7, <1>8, <1>9, <1>10 DEF Ask
<1> QED
  BY <1>11 DEF Named

LEMMA AskKeepsOverrides ==
    ASSUME IInv, OverrideInv, NEW k \in Calls, Ask(k)
    PROVE  OverrideInv'
<1>1. /\ UNCHANGED <<token, oldest>>
      /\ \A m \in Calls : m # k => call'[m] = call[m]
      /\ call'[k].taken = 0
      /\ call'[k].op = "sell" => NamesAToken(call'[k])
  BY AskNames
<1>2. call'[k].op = "sell" => ~HoldsCredit(k)'
  BY <1>1 DEF HoldsCredit, CreditAt
<1>3. \A m \in Calls : m # k => (HoldsCredit(m)' <=> HoldsCredit(m))
  BY <1>1 DEF HoldsCredit
<1>4. \A m \in Calls : call'[m].op = "sell" => NamesAToken(call[m])'
  BY <1>1 DEF OverrideInv, NamesAToken
<1>5. \A m \in Calls : call'[m].op = "sell" /\ HoldsCredit(m)' =>
         /\ call'[m].override = OverdueBlocks(call[m])'
         /\ OverdueBlocks(call[m])' => OverrideIsOpen(call[m])'
  BY <1>1, <1>2, <1>3 DEF OverrideInv, OverdueBlocks, OverrideIsOpen
<1> QED
  BY <1>1, <1>4, <1>5 DEF OverrideInv

LEMMA TakeKeepsOverrides ==
    ASSUME IInv, OverrideInv, NEW k \in Calls, Take(k)
    PROVE  OverrideInv'
<1> DEFINE q == call[k]  x == call'[k]
<1>1. /\ \A m \in Calls : m # k => call'[m] = call[m]
      /\ x.op = q.op /\ x.c = q.c /\ x.amount = q.amount
      /\ x.taken = q.taken + 1 /\ x.t = q.t /\ x.day = q.day
      /\ x.override = IF Wanted(k) = Credit(q.c) THEN OverdueBlocks(q) ELSE q.override
  BY TakeChanges
<1>2. UNCHANGED <<token, oldest>> /\ Accepts(q, Wanted(k))
  BY DEF Take, books, desk
<1>3. q.t \in Tokens \union {None} /\ q.taken \in Nat
  BY CallFacts DEF IInv
<1>4. \A m \in Calls : call'[m].op = "sell" => NamesAToken(call[m])'
  BY <1>1, <1>2 DEF OverrideInv, NamesAToken
<1>5. ASSUME x.op = "sell", HoldsCredit(k)'
      PROVE  /\ x.override = OverdueBlocks(q)
             /\ OverdueBlocks(q) => OverrideIsOpen(q)
  <2>1. CASE HoldsCredit(k)
    BY <1>1, <1>5, <2>1 DEF OverrideInv
  <2>2. CASE ~HoldsCredit(k)
    <3>1. CreditAt(q.op) = 2 /\ Locks(q)[2] = Credit(q.c)
      BY <1>1, <1>5, CreditIsLocked DEF CreditAt, IInv
    <3>2. q.taken + 1 = 2
      BY <1>1, <1>3, <1>5, <2>2, <3>1 DEF HoldsCredit
    <3>3. Wanted(k) = Credit(q.c)
      BY <3>1, <3>2 DEF Wanted
    <3>4. SaleAccepted(q)
      BY <1>1, <1>2, <1>5, <3>3 DEF Accepts
    <3>5. NamesAToken(q)
      BY <1>1, <1>5 DEF OverrideInv
    <3> QED
      BY <1>1, <3>3, <3>4, <3>5 DEF SaleAccepted, OverrideFits, NamesAToken, OverrideIsOpen
  <2> QED
    BY <2>1, <2>2
<1>6. OverdueBlocks(call[k])' = OverdueBlocks(q) /\ OverrideIsOpen(call[k])' = OverrideIsOpen(q)
  BY <1>1, <1>2 DEF OverdueBlocks, OverrideIsOpen
<1>7. \A m \in Calls : call'[m].op = "sell" /\ HoldsCredit(m)' =>
         /\ call'[m].override = OverdueBlocks(call[m])'
         /\ OverdueBlocks(call[m])' => OverrideIsOpen(call[m])'
  <2>1. ASSUME NEW m \in Calls, m # k, call'[m].op = "sell", HoldsCredit(m)'
        PROVE  /\ call'[m].override = OverdueBlocks(call[m])'
               /\ OverdueBlocks(call[m])' => OverrideIsOpen(call[m])'
    BY <1>1, <1>2, <2>1 DEF OverrideInv, HoldsCredit, OverdueBlocks, OverrideIsOpen
  <2> QED
    BY <1>5, <1>6, <2>1
<1> QED
  BY <1>2, <1>4, <1>7 DEF OverrideInv

(* A transaction that ends moves the due date of its customer alone and       *)
(* spends overrides of its customer alone.                                    *)
LEMMA EndKeepsOverrides ==
    ASSUME IInv, OverrideInv, NEW k \in Calls, End(k),
           oldest' = [c \in Customers |-> oldest'[c]],
           \A c \in Customers : oldest'[c] # oldest[c] => HoldsCredit(k) /\ c = call[k].c,
           token' \in [Tokens -> TokenRows \union {None}],
           \A t \in Tokens : token[t] # None => token'[t] # None,
           \A t \in Tokens :
               token'[t] # token[t] => HoldsCredit(k) /\ token[t].customer = call[k].c
    PROVE  OverrideInv'
<1>1. call'[k].op = "none" /\ \A m \in Calls : m # k => call'[m] = call[m]
  BY EndLocks
<1>2. \A m \in Calls : call'[m].op = "sell" => NamesAToken(call[m])'
  BY <1>1 DEF OverrideInv, NamesAToken
<1>3. ASSUME NEW m \in Calls, call'[m].op = "sell", HoldsCredit(m)'
      PROVE  /\ call'[m].override = OverdueBlocks(call[m])'
             /\ OverdueBlocks(call[m])' => OverrideIsOpen(call[m])'
  <2>1. m # k /\ call'[m] = call[m] /\ call[m].op = "sell" /\ HoldsCredit(m)
    BY <1>1, <1>3 DEF HoldsCredit
  <2>2. HoldsCredit(k) => call[k].c # call[m].c
    BY <2>1, CreditExcludes DEF IInv
  <2>3. call[m].c \in Customers
    BY <2>1, CustomerOf
  <2>4. OverdueBlocks(call[m])' = OverdueBlocks(call[m])
    BY <2>1, <2>2, <2>3 DEF OverdueBlocks
  <2>5. OverrideIsOpen(call[m]) => token'[call[m].t] = token[call[m].t]
    BY <2>2 DEF OverrideIsOpen
  <2>6. OverrideIsOpen(call[m]) => OverrideIsOpen(call[m])'
    BY <2>1, <2>5 DEF OverrideIsOpen
  <2> QED
    BY <2>1, <2>4, <2>6 DEF OverrideInv
<1> QED
  BY <1>2, <1>3 DEF OverrideInv

LEMMA WorkKeepsOverrides ==
    ASSUME IInv, OverrideInv, NEW k \in Calls, Work(k)
    PROVE  OverrideInv'
<1> DEFINE q == call[k]
<1>1. ASSUME Refuse(k) \/ RollBack(k) \/ DeadlockDetected(k) \/ CommitUpdate(k)
      PROVE  OverrideInv'
  <2>1. End(k) /\ UNCHANGED <<token, oldest>>
    BY <1>1 DEF Refuse, RollBack, DeadlockDetected, CommitUpdate, books, desk
  <2> QED
    BY <2>1, EndKeepsOverrides DEF OverrideInv
<1>2. ASSUME NEW op \in {"pay", "refund", "void"}, Ready(k, op), End(k), UNCHANGED token,
             oldest' = [c \in Customers |-> IF c = q.c THEN Account!OldestDue(c)' ELSE oldest[c]]
      PROVE  OverrideInv'
  <2>1. HoldsCredit(k)
    BY <1>2, ReadyFacts DEF Kinds
  <2>2. /\ oldest' = [c \in Customers |-> oldest'[c]]
        /\ \A c \in Customers : c # q.c => oldest'[c] = oldest[c]
    BY <1>2
  <2> QED
    BY <1>2, <2>1, <2>2, EndKeepsOverrides DEF OverrideInv
<1>3. ASSUME CommitPayment(k) \/ CommitRefund(k) \/ CommitVoid(k) PROVE OverrideInv'
  <2>1. CASE CommitPayment(k)
    BY <1>2, <2>1 DEF CommitPayment
  <2>2. CASE CommitRefund(k)
    BY <1>2, <2>2 DEF CommitRefund
  <2>3. CASE CommitVoid(k)
    BY <1>2, <2>3 DEF CommitVoid
  <2> QED
    BY <1>3, <2>1, <2>2, <2>3
<1>4. ASSUME NEW d, oldest' = [oldest EXCEPT ![q.c] = d]
      PROVE  /\ oldest' = [c \in Customers |-> oldest'[c]]
             /\ \A c \in Customers : c # q.c => oldest'[c] = oldest[c]
  BY <1>4 DEF OverrideInv
<1>5. ASSUME CommitOpening(k) PROVE OverrideInv'
  <2>1. /\ Ready(k, "open") /\ End(k) /\ UNCHANGED token
        /\ oldest' = [oldest EXCEPT ![q.c] = Account!LeastDue(oldest[q.c], Cutover)]
    BY <1>5 DEF CommitOpening
  <2>2. HoldsCredit(k)
    BY <2>1, ReadyFacts DEF Kinds
  <2> QED
    BY <1>4, <2>1, <2>2, EndKeepsOverrides DEF OverrideInv
<1>6. ASSUME CommitSale(k) PROVE OverrideInv'
  <2>1. /\ Ready(k, "sell") /\ End(k)
        /\ oldest' = [oldest EXCEPT ![q.c] = Account!LeastDue(oldest[q.c], q.day)]
        /\ token' = IF q.override
                    THEN [token EXCEPT ![q.t] = [token[q.t] EXCEPT !.status = "used"]]
                    ELSE token
    BY <1>6 DEF CommitSale
  <2>2. HoldsCredit(k) /\ q.op = "sell"
    BY <2>1, ReadyFacts DEF Kinds
  <2>3. q.override => OverrideIsOpen(q)
    BY <2>2 DEF OverrideInv
  <2>4. CASE q.override
    <3>1. q.t \in Tokens /\ token[q.t] \in TokenRows /\ token[q.t].customer = q.c
      BY <2>3, <2>4 DEF OverrideIsOpen, OverrideInv
    <3> DEFINE row == [token[q.t] EXCEPT !.status = "used"]
    <3>2. row \in TokenRows /\ row # None
      BY <3>1, NoneIsNothing DEF TokenRows
    <3> HIDE DEF row
    <3>3. token' = [token EXCEPT ![q.t] = row]
      BY <2>1, <2>4 DEF row
    <3>4. /\ token' \in [Tokens -> TokenRows \union {None}]
          /\ token'[q.t] = row /\ \A t \in Tokens : t # q.t => token'[t] = token[t]
      BY <3>1, <3>2, <3>3 DEF OverrideInv
    <3> QED
      BY <1>4, <2>1, <2>2, <3>1, <3>2, <3>4, EndKeepsOverrides
  <2>5. CASE ~q.override
    <3>1. UNCHANGED token
      BY <2>1, <2>5
    <3> QED
      BY <1>4, <2>1, <2>2, <3>1, EndKeepsOverrides DEF OverrideInv
  <2>6. q.override \in BOOLEAN
    BY DEF IInv, CallsAreRows, CallRows
  <2> QED
    BY <2>4, <2>5, <2>6
<1> QED
  BY <1>1, <1>3, <1>5, <1>6, TakeKeepsOverrides DEF Work

LEMMA SameOverrides ==
    ASSUME OverrideInv, UNCHANGED <<oldest, call>>,
           token' \in [Tokens -> TokenRows \union {None}],
           \A t \in Tokens : token[t] # None => token'[t] = token[t]
    PROVE  OverrideInv'
<1>1. \A k \in Calls : call'[k].op = "sell" => NamesAToken(call[k])'
  BY DEF OverrideInv, NamesAToken
<1>2. \A k \in Calls : call'[k].op = "sell" /\ HoldsCredit(k)' =>
         /\ call'[k].override = OverdueBlocks(call[k])'
         /\ OverdueBlocks(call[k])' => OverrideIsOpen(call[k])'
  BY DEF OverrideInv, HoldsCredit, OverdueBlocks, OverrideIsOpen
<1> QED
  BY <1>1, <1>2 DEF OverrideInv

LEMMA StepOverrides == IInv /\ OverrideInv /\ [Next]_vars => OverrideInv'
<1> SUFFICES ASSUME IInv, OverrideInv, [Next]_vars PROVE OverrideInv'
  OBVIOUS
<1>1. ASSUME NEW t \in Tokens, NEW c \in Customers, NEW amount \in Totals,
             AuthorizeOverride(t, c, amount)
      PROVE  OverrideInv'
  <2> DEFINE row == [customer |-> c, amount |-> amount, status |-> "open"]
  <2>1. /\ token[t] = None /\ token' = [token EXCEPT ![t] = row]
        /\ UNCHANGED <<oldest, call>>
    BY <1>1 DEF AuthorizeOverride, books
  <2>2. row \in TokenRows
    BY DEF TokenRows
  <2> HIDE DEF row
  <2>3. /\ token' \in [Tokens -> TokenRows \union {None}]
        /\ \A u \in Tokens : token[u] # None => token'[u] = token[u]
    BY <2>1, <2>2 DEF OverrideInv
  <2> QED
    BY <2>1, <2>3, SameOverrides
<1>2. ASSUME UNCHANGED <<oldest, token, call>> PROVE OverrideInv'
  BY <1>2, SameOverrides DEF OverrideInv
<1>3. ASSUME NEW a \in Authorizations, NEW p \in Payments, NEW cash \in BOOLEAN,
             Authorize(a, p, cash)
      PROVE  OverrideInv'
  BY <1>2, <1>3 DEF Authorize, books
<1>4. CASE NextDay
  BY <1>2, <1>4 DEF NextDay, books
<1>5. CASE UNCHANGED vars
  BY <1>2, <1>5 DEF vars
<1> QED
  BY <1>1, <1>3, <1>4, <1>5, AskKeepsOverrides, WorkKeepsOverrides DEF Next, Approve

LEMMA InitOverrides == Init => OverrideInv
<1> SUFFICES ASSUME Init PROVE OverrideInv
  OBVIOUS
<1>1. \A k \in Calls : call[k].op = "none"
  BY IdleIsARow DEF Init
<1> QED
  BY <1>1 DEF Init, OverrideInv

LEMMA SaleSpends ==
    ASSUME IInv, OverrideInv, NEW k \in Calls, CommitSale(k), OverdueBlocks(call[k])
    PROVE  \E t \in Tokens :
              /\ token[t] # None /\ token[t].status = "open" /\ token'[t].status = "used"
              /\ token[t].customer = call[k].c /\ token[t].amount = call[k].amount
<1> DEFINE q == call[k]
<1>1. HoldsCredit(k) /\ q.op = "sell"
  BY ReadyFacts DEF CommitSale, Kinds
<1>2. q.override /\ OverrideIsOpen(q)
  BY <1>1 DEF OverrideInv
<1>3. token[q.t] \in TokenRows /\ q.t \in Tokens
  BY <1>2 DEF OverrideIsOpen, OverrideInv
<1>4. token' = [token EXCEPT ![q.t] = [token[q.t] EXCEPT !.status = "used"]]
  BY <1>2 DEF CommitSale
<1>5. token[q.t].status = "open" /\ token'[q.t].status = "used"
  BY <1>2, <1>3, <1>4 DEF OverrideIsOpen, OverrideInv, TokenRows
<1> QED
  BY <1>2, <1>3, <1>5 DEF OverrideIsOpen

(* An override that a sale relies on stays open for it, at every moment.      *)
THEOREM OverrideInvariant == Spec => []OverrideInv
<1>1. Init => OverrideInv
  BY InitOverrides
<1>2. IInv /\ OverrideInv /\ [Next]_vars => OverrideInv'
  BY StepOverrides
<1> QED
  BY <1>1, <1>2, ReceivablesInvariant, PTL DEF Spec

(* However many sales, payments, policy changes and approvals run at once, a  *)
(* sale to a customer who owes something overdue spends an open override for  *)
(* this customer and this amount.                                             *)
THEOREM OverdueSalesAreOverridden == Spec => OverdueSalesSpendAnOverride
<1>1. IInv /\ OverrideInv =>
        [\A k \in Calls : CommitSale(k) /\ OverdueBlocks(call[k]) =>
           \E t \in Tokens :
              /\ token[t] # None /\ token[t].status = "open" /\ token'[t].status = "used"
              /\ token[t].customer = call[k].c /\ token[t].amount = call[k].amount]_vars
  BY SaleSpends
<1> QED
  BY <1>1, OverrideInvariant, ReceivablesInvariant, PTL DEF OverdueSalesSpendAnOverride

-----------------------------------------------------------------------------
(* The refinement: a commit is a step of the account, all else is silent.     *)

LEMMA InitRefines == Init => Account!Init
<1> SUFFICES ASSUME Init PROVE Account!Init
  OBVIOUS
<1>1. Used = {}
  BY DEF Init, Used
<1>2. Refunded = {}
  BY <1>1 DEF Refunded
<1> QED
  BY <1>2 DEF Init, Account!Init

LEMMA SaleRefines ==
    ASSUME IInv, NEW k \in Calls, CommitSale(k)
    PROVE  Account!Next
<1> DEFINE q == call[k]
<1>1. /\ q.op = "sell" /\ HoldsCredit(k) /\ q.c \in Customers /\ q.i \in Invoices
      /\ q.amount \in Totals /\ q.day \in Days
  BY ReadyFacts DEF CommitSale, HasArguments, Kinds
<1>2. invoice[q.i] = None /\ q.seen = exposure[q.c]
  BY <1>1 DEF IInv, DocumentsAreOwn, SeenIsCurrent
<1>3. Refunded' = Refunded
  BY SameAllocations DEF CommitSale
<1>4. Account!Sell(q.c, q.i, q.amount, q.day)
  BY <1>2, <1>3 DEF CommitSale, Account!Sell
<1> QED
  BY <1>1, <1>4 DEF Account!Next

LEMMA PaymentRefines ==
    ASSUME IInv, NEW k \in Calls, CommitPayment(k)
    PROVE  Account!Next
<1> DEFINE q == call[k]
<1>1. /\ q.op = "pay" /\ HoldsCredit(k) /\ q.c \in Customers /\ q.p \in Payments
      /\ q.of \in Allocations
  BY ReadyFacts DEF CommitPayment, HasArguments, Kinds
<1>2. payment[q.p] = None /\ q.seen = exposure[q.c]
  BY <1>1 DEF IInv, DocumentsAreOwn, SeenIsCurrent
<1>3. Refunded' = Refunded
  BY DEF CommitPayment, Refunded, Used
<1>4. Account!Pay(q.c, q.p, q.of)
  BY <1>2, <1>3 DEF CommitPayment, PaymentFits, Account!Pay
<1> QED
  BY <1>1, <1>4 DEF Account!Next, Allocations

LEMMA RefundRefines ==
    ASSUME IInv, NEW k \in Calls, CommitRefund(k)
    PROVE  Account!Next
<1> DEFINE q == call[k]
<1>1. /\ q.op = "refund" /\ HoldsCredit(k) /\ q.p \in Payments
      /\ payment[q.p] # None /\ payment[q.p].customer = q.c
  BY ReadyFacts DEF CommitRefund, HasArguments, Kinds
<1>2. q.p \notin Refunded /\ q.seen = exposure[q.c]
  BY <1>1 DEF CommitRefund, FirstRefund, IInv, SeenIsCurrent
<1>3. Refunded' = Refunded \union {q.p}
  BY RefundChanges
<1>4. Account!Refund(q.p)
  BY <1>1, <1>2, <1>3 DEF CommitRefund, Account!Refund
<1> QED
  BY <1>1, <1>4 DEF Account!Next

LEMMA VoidRefines ==
    ASSUME IInv, NEW k \in Calls, CommitVoid(k)
    PROVE  Account!Next
<1> DEFINE q == call[k]
<1>1. /\ q.op = "void" /\ q.taken >= 1 /\ q.taken >= 3 /\ q.i \in Invoices
      /\ invoice[q.i] # None /\ invoice[q.i].customer = q.c
  BY ReadyFacts DEF CommitVoid, HasArguments, Kinds
<1>2. q.i \notin voided /\ ~Account!Allocated(q.i)
  BY <1>1, Zenon DEF IInv, ChecksStillHold
<1>3. Refunded' = Refunded
  BY SameAllocations DEF CommitVoid
<1>4. Account!Void(q.i)
  BY <1>1, <1>2, <1>3 DEF CommitVoid, Account!Void
<1> QED
  BY <1>1, <1>4 DEF Account!Next

LEMMA OpeningRefines ==
    ASSUME IInv, NEW k \in Calls, CommitOpening(k)
    PROVE  Account!Next
<1>1. call[k].op = "open" /\ call[k].taken >= 1 /\ call[k].c = Mapped
  BY ReadyFacts DEF CommitOpening, HasArguments, Kinds
<1>2. ~opened
  BY <1>1 DEF IInv, ChecksStillHold
<1>3. Refunded' = Refunded
  BY SameAllocations DEF CommitOpening
<1>4. Account!ApplyOpening
  BY <1>1, <1>2, <1>3 DEF CommitOpening, Account!ApplyOpening
<1> QED
  BY <1>4 DEF Account!Next

LEMMA SilentStep ==
    ASSUME UNCHANGED <<books, authorization>>
    PROVE  UNCHANGED Account!ledger
BY DEF books, Account!ledger, Refunded, Used

LEMMA AuthorizeIsSilent ==
    ASSUME NEW a \in Authorizations, NEW p \in Payments, NEW cash \in BOOLEAN, IInv,
           Authorize(a, p, cash)
    PROVE  UNCHANGED Account!ledger
<1> DEFINE row == [payment |-> p, cash |-> cash, status |-> "open"]
<1>1. /\ authorization[a] = None /\ authorization' = [authorization EXCEPT ![a] = row]
      /\ UNCHANGED books
  BY DEF Authorize
<1>2. row.status # "used"
  OBVIOUS
<1> HIDE DEF row
<1>3. /\ authorization'[a] = row
      /\ \A b \in Authorizations : b # a => authorization'[b] = authorization[b]
  BY <1>1 DEF IInv, BooksAreRows
<1>4. Used' = Used /\ \A b \in Used : authorization'[b] = authorization[b]
  BY <1>1, <1>2, <1>3 DEF Used
<1>5. Refunded' = Refunded
  BY <1>4 DEF Refunded
<1> QED
  BY <1>1, <1>5 DEF books, Account!ledger

LEMMA StepRefines == IInv /\ [Next]_vars => [Account!Next]_(Account!ledger)
<1> SUFFICES ASSUME IInv, [Next]_vars PROVE Account!Next \/ UNCHANGED Account!ledger
  OBVIOUS
<1>1. ASSUME NEW k \in Calls, Ask(k) PROVE UNCHANGED Account!ledger
  <2>1. UNCHANGED <<books, authorization>>
    BY <1>1 DEF Ask, StartSale, StartPayment, StartRefund, StartVoid, StartUpdate,
       StartOpening, Begin, desk
  <2> QED
    BY <2>1, SilentStep
<1>2. ASSUME NEW k \in Calls,
             Take(k) \/ Refuse(k) \/ RollBack(k) \/ DeadlockDetected(k) \/ CommitUpdate(k)
      PROVE  UNCHANGED Account!ledger
  <2>1. UNCHANGED <<books, authorization>>
    BY <1>2 DEF Take, Refuse, RollBack, DeadlockDetected, CommitUpdate, desk
  <2> QED
    BY <2>1, SilentStep
<1>3. ASSUME Approve \/ NextDay PROVE UNCHANGED Account!ledger
  <2>1. ASSUME NEW t \in Tokens, NEW c \in Customers, NEW amount \in Totals,
               AuthorizeOverride(t, c, amount)
        PROVE  UNCHANGED Account!ledger
    BY <2>1, SilentStep DEF AuthorizeOverride
  <2>2. ASSUME NextDay PROVE UNCHANGED Account!ledger
    BY <2>2, SilentStep DEF NextDay
  <2> QED
    BY <1>3, <2>1, <2>2, AuthorizeIsSilent DEF Approve
<1>4. CASE UNCHANGED vars
  BY <1>4, SilentStep DEF vars, books
<1>5. ASSUME NEW k \in Calls, Work(k) PROVE Account!Next \/ UNCHANGED Account!ledger
  BY <1>2, <1>5, SaleRefines, PaymentRefines, RefundRefines, VoidRefines, OpeningRefines DEF Work
<1> QED
  BY <1>1, <1>3, <1>4, <1>5 DEF Next

(* The locking transactions implement the account that runs one operation at  *)
(* a time: a sale, payment, refund, cancellation or opening balance never     *)
(* posts from an exposure that another transaction has moved.                 *)
THEOREM TransactionsImplementTheAccount == Spec => ImplementsAccount
<1>1. Init => Account!Init
  BY InitRefines
<1>2. IInv /\ [Next]_vars => [Account!Next]_(Account!ledger)
  BY StepRefines
<1> QED
  BY <1>1, <1>2, ReceivablesInvariant, PTL DEF Spec, ImplementsAccount, Account!Spec

-----------------------------------------------------------------------------
(* The account, one operation at a time. What a payment puts on an invoice is *)
(* on an invoice of its customer, so that an operation for one customer       *)
(* leaves the debt and the due dates of all the others alone; then the cached *)
(* exposure moves with the debt, and no invoice is paid beyond its amount.    *)

AllocationsAreOwn ==
    \A p \in Payments : payment[p] # None => \A i \in Invoices : payment[p].of[i] > 0 =>
        invoice[i] # None /\ invoice[i].customer = payment[p].customer

AccountRows ==
    /\ over \subseteq Invoices /\ voided \subseteq Invoices
    /\ oldest \in [Customers -> Days \union {0}]
    /\ opened \in BOOLEAN
    /\ \A i \in voided : invoice[i] # None

AccountInv ==
    AccountRows /\ AllocationsAreOwn /\ InvoicesAreNotOverpaid /\ CacheReconciles

(* The account and the transactions add up in the same way.                   *)
LEMMA SameSums ==
    ASSUME NEW f
    PROVE  Account!SumFunction(f) = SumFunctionOnSet(f, DOMAIN f)
BY DEF Account!SumFunction, Account!SumFunctionOnSet, Account!FoldFunctionOnSet,
   Account!MapThenFoldSet, SumFunctionOnSet, FoldFunctionOnSet, MapThenFoldSet

(* Nor do they differ in what the least of a set is.                          *)
LEMMA SameLeast ==
    ASSUME NEW D
    PROVE  Account!Min(D) = Min(D)
BY DEF Account!Min, Min

(* What each payment has on an invoice.                                       *)
PutOn(pay, ref, i) ==
    [p \in Payments |-> IF pay[p] = None \/ p \in ref THEN 0 ELSE pay[p].of[i]]

Paid(pay, ref, i) == SumFunctionOnSet(PutOn(pay, ref, i), Payments)

(* What is settled of an invoice: the payments on it and its credit note.     *)
LEMMA NetIs ==
    ASSUME NEW i \in Invoices
    PROVE  Account!NetAllocated(i) =
             Paid(payment, Refunded, i) + (IF i \in voided THEN invoice[i].amount ELSE 0)
BY SameSums DEF Account!NetAllocated, Paid, PutOn

(* The same of the next state.                                                *)
LEMMA NetIsNext ==
    ASSUME NEW i \in Invoices
    PROVE  Account!NetAllocated(i)' =
             Paid(payment', Refunded', i) + (IF i \in voided' THEN invoice'[i].amount ELSE 0)
BY SameSums DEF Account!NetAllocated, Paid, PutOn

(* Allocations are natural numbers.                                           *)
LEMMA AllocatedAmounts ==
    ASSUME NEW of \in Allocations, NEW i \in Invoices
    PROVE  of[i] \in Nat
BY AmountsArePositive DEF Allocations

(* So is what a payment has on an invoice,                                    *)
LEMMA PutOnType ==
    ASSUME NEW pay \in [Payments -> PaymentRows \union {None}], NEW ref, NEW i \in Invoices
    PROVE  \A p \in Payments : PutOn(pay, ref, i)[p] \in Nat
<1> TAKE p \in Payments
<1>1. CASE pay[p] = None \/ p \in ref
  BY <1>1 DEF PutOn
<1>2. CASE ~(pay[p] = None \/ p \in ref)
  <2>1. pay[p] \in PaymentRows
    BY <1>2
  <2>2. pay[p].of \in Allocations
    BY <2>1 DEF PaymentRows
  <2> QED
    BY <1>2, <2>2, AllocatedAmounts DEF PutOn
<1> QED
  BY <1>1, <1>2

(* and what all of them have on it together.                                  *)
LEMMA PaidType ==
    ASSUME NEW pay \in [Payments -> PaymentRows \union {None}], NEW ref, NEW i \in Invoices
    PROVE  Paid(pay, ref, i) \in Nat
BY PutOnType, SumOfNaturals, DocumentsAreFinite DEF Paid

(* Payments that have nothing on an invoice sum up to nothing.                *)
LEMMA NothingPaid ==
    ASSUME NEW pay \in [Payments -> PaymentRows \union {None}], NEW ref, NEW i \in Invoices,
           \A p \in Payments : pay[p] # None /\ p \notin ref => ~(pay[p].of[i] > 0)
    PROVE  Paid(pay, ref, i) = 0
<1>1. ASSUME NEW p \in Payments PROVE PutOn(pay, ref, i)[p] = 0
  <2>1. CASE pay[p] = None \/ p \in ref
    BY <2>1 DEF PutOn
  <2>2. CASE ~(pay[p] = None \/ p \in ref)
    <3>1. PutOn(pay, ref, i)[p] = pay[p].of[i] /\ ~(pay[p].of[i] > 0)
      BY <2>2 DEF PutOn
    <3>2. PutOn(pay, ref, i)[p] \in Nat
      BY PutOnType
    <3> QED
      BY <3>1, <3>2
  <2> QED
    BY <2>1, <2>2
<1> QED
  BY <1>1, SumOfZeros, DocumentsAreFinite DEF Paid

(* A payment adds what it allocates, and giving it back takes that off again: *)
(* more and less are payments and refunds with and without the payment p.     *)
LEMMA OnePaymentMore ==
    ASSUME NEW pay \in [Payments -> PaymentRows \union {None}], NEW ref,
           NEW more \in [Payments -> PaymentRows \union {None}], NEW less,
           NEW p \in Payments, NEW i \in Invoices, NEW of \in Allocations,
           pay[p] = None \/ p \in ref,
           more[p] # None, more[p].of = of, p \notin less,
           \A r \in Payments \ {p} : pay[r] = more[r] /\ (r \in ref <=> r \in less)
    PROVE  Paid(more, less, i) = Paid(pay, ref, i) + of[i]
<1> DEFINE f == PutOn(pay, ref, i)  g == PutOn(more, less, i)
<1>1. f[p] = 0 /\ g[p] = of[i] /\ \A r \in Payments \ {p} : g[r] = f[r]
  BY DEF PutOn
<1>2. \A r \in Payments : f[r] \in Int
  BY PutOnType
<1>3. of[i] \in Nat
  BY AllocatedAmounts
<1>4. Paid(pay, ref, i) \in Nat
  BY PaidType
<1>5. SumFunctionOnSet(g, Payments) = SumFunctionOnSet(f, Payments) + g[p] - f[p]
  <2> HIDE DEF f, g
  <2> QED
    BY <1>1, <1>2, <1>3, SumChanges, DocumentsAreFinite
<1>6. Paid(more, less, i) = SumFunctionOnSet(g, Payments)
      /\ Paid(pay, ref, i) = SumFunctionOnSet(f, Payments)
  BY DEF Paid
<1> HIDE DEF f, g
<1> QED
  BY <1>1, <1>3, <1>4, <1>5, <1>6

(* The least of some due dates, 0 for none.                                   *)
DueOf(D) == IF D = {} THEN 0 ELSE Min(D)

DueDates(c) == {invoice[i].due : i \in Account!OpenInvoices(c)}

(* The oldest due date in those terms, in this state and in the next.         *)
LEMMA OldestIs ==
    ASSUME NEW c
    PROVE  /\ Account!OldestDue(c) = DueOf(DueDates(c))
           /\ Account!OldestDue(c)' = DueOf(DueDates(c)')
BY SameLeast DEF Account!OldestDue, DueOf, DueDates

(* A non-empty set of days has a least one.                                   *)
LEMMA LeastDay ==
    ASSUME NEW D, D \subseteq Days, D # {}
    PROVE  Min(D) \in D /\ \A e \in D : Min(D) <= e
<1>1. IsFiniteSet(Days)
  BY OpeningIsPositive, FS_Interval DEF Days
<1>2. IsFiniteSet(D)
  BY <1>1, FS_Subset
<1>3. \A d \in D : d \in Int
  BY DEF Days
<1> QED
  BY <1>2, <1>3, LeastIsIn

(* The least due date is a day, or 0.                                         *)
LEMMA DueOfType ==
    ASSUME NEW D, D \subseteq Days
    PROVE  DueOf(D) \in Days \union {0}
BY LeastDay DEF DueOf

(* One more due date: the earlier of it and the least of the others.          *)
LEMMA DueOfMore ==
    ASSUME NEW D, D \subseteq Days, NEW d \in Days
    PROVE  DueOf(D \union {d}) = Account!LeastDue(DueOf(D), d)
<1> DEFINE E == D \union {d}
<1>1. E \subseteq Days /\ E # {} /\ d \in E /\ D \subseteq E /\ D \union {d} = E
  OBVIOUS
<1>2. Min(E) \in E /\ \A e \in E : Min(E) <= e
  <2> HIDE DEF E
  <2> QED
    BY <1>1, LeastDay
<1>3. DueOf(E) = Min(E)
  BY DEF DueOf
<1>4. \A e \in E : e \in Int /\ e # 0
  BY DEF Days
<1>5. CASE D = {}
  <2>1. E = {d}
    BY <1>5
  <2>2. DueOf(D) = 0
    BY <1>5 DEF DueOf
  <2> HIDE DEF E
  <2> QED
    BY <1>1, <1>2, <1>3, <2>1, <2>2 DEF Account!LeastDue
<1>6. CASE D # {}
  <2>1. Min(D) \in D /\ \A e \in D : Min(D) <= e
    BY <1>6, LeastDay
  <2>2. DueOf(D) = Min(D)
    BY <1>6 DEF DueOf
  <2>3. \A e \in E : e \in D \/ e = d
    OBVIOUS
  <2>4. Min(D) \in Int /\ Min(D) # 0 /\ Min(D) \in E
    BY <1>1, <1>4, <2>1
  <2> HIDE DEF E
  <2>5. CASE d < Min(D)
    BY <1>1, <1>2, <1>3, <1>4, <2>1, <2>2, <2>3, <2>4, <2>5 DEF Account!LeastDue
  <2>6. CASE ~(d < Min(D))
    <3>1. Min(E) = Min(D)
      BY <1>1, <1>2, <1>4, <2>1, <2>3, <2>4, <2>6
    <3> QED
      BY <1>1, <1>3, <2>2, <2>4, <2>6, <3>1 DEF Account!LeastDue
  <2> QED
    BY <2>5, <2>6
<1> QED
  BY <1>5, <1>6

(* Invoices have a customer, a day and a positive amount.                     *)
LEMMA OwnRows ==
    ASSUME BooksAreRows
    PROVE  \A i \in Invoices : invoice[i] # None =>
              /\ invoice[i] \in InvoiceRows
              /\ invoice[i].customer \in Customers /\ invoice[i].due \in Days
              /\ invoice[i].amount \in Nat /\ invoice[i].amount > 0
BY AmountsArePositive DEF BooksAreRows, InvoiceRows

(* What is settled of an invoice lies between 0 and its amount.               *)
LEMMA NetType ==
    ASSUME BooksAreRows, InvoicesAreNotOverpaid
    PROVE  \A i \in Invoices : invoice[i] # None =>
              /\ invoice[i].amount \in Nat /\ Account!NetAllocated(i) \in Nat
              /\ Account!NetAllocated(i) <= invoice[i].amount
BY OwnRows DEF InvoicesAreNotOverpaid

(* What a customer owes on an invoice is a natural number; so is the sum.     *)
LEMMA OwedType ==
    ASSUME BooksAreRows, InvoicesAreNotOverpaid, NEW c
    PROVE  /\ \A i \in Invoices : Owed(c)[i] \in Nat
           /\ SumFunctionOnSet(Owed(c), Invoices) \in Nat
<1>1. ASSUME NEW i \in Invoices PROVE Owed(c)[i] \in Nat
  <2>1. Owed(c)[i] = IF i \in Account!InvoicesOf(c)
                     THEN invoice[i].amount - Account!NetAllocated(i) ELSE 0
    BY DEF Owed
  <2>2. CASE i \in Account!InvoicesOf(c)
    <3>1. invoice[i] # None
      BY <2>2 DEF Account!InvoicesOf
    <3> QED
      BY <2>1, <2>2, <3>1, NetType
  <2> QED
    BY <2>1, <2>2
<1> QED
  BY <1>1, SumOfNaturals, DocumentsAreFinite

Opening(c) == IF opened /\ c = Mapped THEN Balance ELSE 0

(* The debt in those terms, in this state and in the next.                    *)
LEMMA DebtIs ==
    ASSUME NEW c
    PROVE  /\ Debt(c) = SumFunctionOnSet(Owed(c), Invoices) + Opening(c)
           /\ Debt(c)' = SumFunctionOnSet(Owed(c)', Invoices) + Opening(c)'
           /\ Opening(c) \in Nat /\ Opening(c)' \in Nat
<1>1. DOMAIN Owed(c) = Invoices /\ DOMAIN (Owed(c)') = Invoices
  BY DEF Owed
<1>2. /\ Debt(c) = SumFunctionOnSet(Owed(c), DOMAIN Owed(c)) + Opening(c)
      /\ Debt(c)' = SumFunctionOnSet(Owed(c)', DOMAIN (Owed(c)')) + Opening(c)'
  BY DEF Debt, SumFunction, Opening
<1>3. Opening(c) \in Nat /\ Opening(c)' \in Nat
  BY OpeningIsPositive DEF Opening
<1> QED
  BY <1>1, <1>2, <1>3

(* An operation for one customer leaves the others alone.                     *)
LEMMA OthersKeep ==
    ASSUME NEW d, Account!InvoicesOf(d)' = Account!InvoicesOf(d),
           \A i \in Account!InvoicesOf(d) :
               invoice'[i] = invoice[i] /\ Account!NetAllocated(i)' = Account!NetAllocated(i)
    PROVE  Owed(d)' = Owed(d) /\ DueDates(d)' = DueDates(d)
<1>1. Owed(d)' = Owed(d)
  BY DEF Owed
<1>2. \A i \in Account!InvoicesOf(d) : i \in Invoices
  BY DEF Account!InvoicesOf
<1>3. Account!OpenInvoices(d)' = Account!OpenInvoices(d)
  BY DEF Account!OpenInvoices
<1>4. \A i \in Account!OpenInvoices(d) : invoice'[i] = invoice[i]
  BY DEF Account!OpenInvoices
<1>5. DueDates(d)' = DueDates(d)
  BY <1>3, <1>4 DEF DueDates
<1> QED
  BY <1>1, <1>5

(* What the invariants say of the account.                                    *)
LEMMA AccountFacts ==
    ASSUME IInv, AccountInv
    PROVE  /\ invoice \in [Invoices -> InvoiceRows \union {None}]
           /\ payment \in [Payments -> PaymentRows \union {None}]
           /\ exposure = [c \in Customers |-> exposure[c]]
           /\ BooksAreRows /\ AccountRows /\ AllocationsAreOwn
           /\ InvoicesAreNotOverpaid /\ CacheReconciles
BY DEF IInv, BooksAreRows, AccountInv

(* The cache after an operation for customer c, told from before by how much  *)
(* the debt moved; the others owe what they owed.                             *)
LEMMA CacheMoves ==
    ASSUME IInv, AccountInv, NEW c \in Customers, NEW m \in Int,
           opened' = opened,
           exposure' = [exposure EXCEPT ![c] = exposure[c] + m],
           Debt(c)' = Debt(c) + m,
           oldest' = [d \in Customers |-> IF d = c THEN oldest'[d] ELSE oldest[d]],
           ~(opened /\ c = Mapped) => oldest'[c] = Account!OldestDue(c)',
           \A d \in Customers \ {c} : Owed(d)' = Owed(d) /\ DueDates(d)' = DueDates(d)
    PROVE  CacheReconciles'
<1>1. ASSUME NEW d \in Customers \ {c}
      PROVE  Debt(d)' = Debt(d) /\ Account!OldestDue(d)' = Account!OldestDue(d)
             /\ oldest'[d] = oldest[d]
  BY DebtIs, OldestIs DEF Opening
<1>2. /\ exposure'[c] = exposure[c] + m
      /\ \A d \in Customers \ {c} : exposure'[d] = exposure[d]
  BY AccountFacts
<1>3. \A d \in Customers : exposure[d] = Debt(d)
      /\ (~(opened /\ d = Mapped) => oldest[d] = Account!OldestDue(d))
  BY AccountFacts DEF CacheReconciles
<1>4. \A d \in Customers : exposure'[d] = Debt(d)'
  BY <1>1, <1>2, <1>3
<1>5. \A d \in Customers : ~(opened' /\ d = Mapped) => oldest'[d] = Account!OldestDue(d)'
  BY <1>1, <1>3
<1> QED
  BY <1>4, <1>5 DEF CacheReconciles

(* A new invoice has no payment, and is one customer's.                       *)
LEMMA NewInvoice ==
    ASSUME IInv, IInv', AccountInv, NEW c \in Customers, NEW i \in Invoices,
           NEW amount \in Totals, NEW due \in Days, Account!Sell(c, i, amount, due)
    PROVE  /\ invoice[i] = None /\ i \notin voided
           /\ invoice'[i] # None /\ invoice'[i].customer = c
           /\ invoice'[i].amount = amount /\ invoice'[i].due = due /\ amount \in Nat /\ amount > 0
           /\ \A j \in Invoices \ {i} : invoice'[j] = invoice[j]
           /\ \A j \in Invoices : Account!NetAllocated(j)' = Account!NetAllocated(j)
           /\ Account!NetAllocated(i) = 0
           /\ Account!InvoicesOf(c)' = Account!InvoicesOf(c) \union {i}
           /\ \A d \in Customers \ {c} : Account!InvoicesOf(d)' = Account!InvoicesOf(d)
           /\ \A d \in Customers : i \notin Account!InvoicesOf(d)
<1> DEFINE row == [customer |-> c, amount |-> amount, due |-> due]
<1>1. invoice[i] = None /\ invoice' = [invoice EXCEPT ![i] = row]
      /\ voided' = voided /\ payment' = payment /\ Refunded' = Refunded
  BY DEF Account!Sell
<1>2. row \in InvoiceRows /\ row.customer = c /\ row.amount = amount /\ row.due = due
  BY DEF InvoiceRows
<1>3. row # None
  BY <1>2, NoneIsNothing
<1> HIDE DEF row
<1>4. invoice'[i] = row /\ \A j \in Invoices \ {i} : invoice'[j] = invoice[j]
  BY <1>1, AccountFacts
<1>5. i \notin voided
  BY <1>1, AccountFacts DEF AccountRows
<1>6. ASSUME NEW j \in Invoices PROVE Account!NetAllocated(j)' = Account!NetAllocated(j)
  <2>1. j \in voided => invoice'[j] = invoice[j]
    BY <1>4, <1>5
  <2> QED
    BY <1>1, <2>1, NetIs, NetIsNext
<1>7. Account!NetAllocated(i) = 0
  <2>1. Paid(payment, Refunded, i) = 0
    <3>1. \A p \in Payments : payment[p] # None /\ p \notin Refunded => ~(payment[p].of[i] > 0)
      BY <1>1, AccountFacts DEF AllocationsAreOwn
    <3> QED
      BY <3>1, AccountFacts, NothingPaid
  <2> QED
    BY <1>5, <2>1, NetIs
<1>8. amount \in Nat /\ amount > 0
  BY AmountsArePositive
<1>9. /\ Account!InvoicesOf(c)' = Account!InvoicesOf(c) \union {i}
      /\ \A d \in Customers \ {c} : Account!InvoicesOf(d)' = Account!InvoicesOf(d)
      /\ \A d \in Customers : i \notin Account!InvoicesOf(d)
  BY <1>1, <1>2, <1>3, <1>4 DEF Account!InvoicesOf
<1> QED
  BY <1>1, <1>2, <1>3, <1>4, <1>5, <1>6, <1>7, <1>8, <1>9

(* A sale: the debt grows by the new invoice, the due date is the earlier one.*)
LEMMA SaleKeepsTheAccount ==
    ASSUME IInv, IInv', AccountInv, NEW c \in Customers, NEW i \in Invoices,
           NEW amount \in Totals, NEW due \in Days, Account!Sell(c, i, amount, due)
    PROVE  AccountInv'
<1>1. /\ invoice[i] = None /\ i \notin voided
      /\ invoice'[i] # None /\ invoice'[i].customer = c
      /\ invoice'[i].amount = amount /\ invoice'[i].due = due /\ amount \in Nat /\ amount > 0
      /\ \A j \in Invoices \ {i} : invoice'[j] = invoice[j]
      /\ \A j \in Invoices : Account!NetAllocated(j)' = Account!NetAllocated(j)
      /\ Account!NetAllocated(i) = 0
      /\ Account!InvoicesOf(c)' = Account!InvoicesOf(c) \union {i}
      /\ \A d \in Customers \ {c} : Account!InvoicesOf(d)' = Account!InvoicesOf(d)
      /\ \A d \in Customers : i \notin Account!InvoicesOf(d)
  BY NewInvoice
<1>2. /\ voided' = voided /\ payment' = payment /\ Refunded' = Refunded /\ opened' = opened
      /\ exposure' = [exposure EXCEPT ![c] = exposure[c] + amount]
      /\ over' \subseteq over \union {i}
      /\ oldest' = [oldest EXCEPT ![c] = Account!LeastDue(oldest[c], due)]
  BY DEF Account!Sell
<1>3. BooksAreRows /\ BooksAreRows' /\ AccountRows /\ AllocationsAreOwn
      /\ InvoicesAreNotOverpaid /\ CacheReconciles
  BY AccountFacts DEF IInv
<1>4. AccountRows'
  <2>1. Account!LeastDue(oldest[c], due) \in Days \union {0}
    BY <1>3 DEF AccountRows, Account!LeastDue
  <2>2. oldest' \in [Customers -> Days \union {0}]
    BY <1>2, <1>3, <2>1 DEF AccountRows
  <2>3. \A j \in voided' : invoice'[j] # None
    BY <1>1, <1>2, <1>3 DEF AccountRows
  <2> QED
    BY <1>2, <1>3, <2>2, <2>3 DEF AccountRows
<1>5. AllocationsAreOwn'
  BY <1>1, <1>2, <1>3 DEF AllocationsAreOwn
<1>6. InvoicesAreNotOverpaid'
  <2>1. ASSUME NEW j \in Invoices, invoice'[j] # None
        PROVE  Account!NetAllocated(j)' \in 0..invoice'[j].amount
    BY <1>1, <1>3, <2>1 DEF InvoicesAreNotOverpaid
  <2>2. ASSUME NEW j \in Invoices, j \in voided' PROVE ~Account!Allocated(j)'
    BY <1>2, <1>3, <2>2 DEF InvoicesAreNotOverpaid, Account!Allocated
  <2> QED
    BY <2>1, <2>2 DEF InvoicesAreNotOverpaid
<1>7. \A d \in Customers \ {c} : Owed(d)' = Owed(d) /\ DueDates(d)' = DueDates(d)
  <2> TAKE d \in Customers \ {c}
  <2>1. \A j \in Account!InvoicesOf(d) : j \in Invoices \ {i}
    BY <1>1 DEF Account!InvoicesOf
  <2> QED
    BY <1>1, <2>1, OthersKeep
<1>8. Debt(c)' = Debt(c) + amount
  <2>1. /\ Owed(c)[i] = 0 /\ Owed(c)'[i] = amount
        /\ \A j \in Invoices \ {i} : Owed(c)'[j] = Owed(c)[j]
    BY <1>1 DEF Owed
  <2>2. /\ \A j \in Invoices : Owed(c)[j] \in Int
        /\ SumFunctionOnSet(Owed(c), Invoices) \in Int
    BY <1>3, OwedType
  <2>3. SumFunctionOnSet(Owed(c)', Invoices) =
          SumFunctionOnSet(Owed(c), Invoices) + Owed(c)'[i] - Owed(c)[i]
    BY <1>1, <2>1, <2>2, SumChanges, DocumentsAreFinite
  <2>4. Opening(c)' = Opening(c) /\ Opening(c) \in Int
    BY <1>2, DebtIs DEF Opening
  <2> QED
    BY <1>1, <2>1, <2>2, <2>3, <2>4, DebtIs
<1>9. Account!OldestDue(c)' = Account!LeastDue(Account!OldestDue(c), due)
  <2>1. Account!OpenInvoices(c)' = Account!OpenInvoices(c) \union {i}
    <3>1. \A j \in Account!InvoicesOf(c) : invoice'[j] = invoice[j]
      BY <1>1 DEF Account!InvoicesOf
    <3>2. invoice'[i].amount > Account!NetAllocated(i)'
      BY <1>1
    <3>3. \A j \in Account!InvoicesOf(c) : Account!NetAllocated(j)' = Account!NetAllocated(j)
      BY <1>1 DEF Account!InvoicesOf
    <3>4. Account!InvoicesOf(c)' = Account!InvoicesOf(c) \union {i}
      BY <1>1
    <3> QED
      BY <3>1, <3>2, <3>3, <3>4 DEF Account!OpenInvoices
  <2>2. \A j \in Account!OpenInvoices(c) : j \in Invoices \ {i} /\ invoice[j] # None
    BY <1>1 DEF Account!OpenInvoices, Account!InvoicesOf
  <2>3. DueDates(c)' = DueDates(c) \union {due}
    BY <1>1, <2>1, <2>2 DEF DueDates
  <2>4. DueDates(c) \subseteq Days
    BY <1>3, <2>2, OwnRows DEF DueDates
  <2> QED
    BY <2>3, <2>4, DueOfMore, OldestIs
<1>10. /\ oldest' = [d \in Customers |-> IF d = c THEN oldest'[d] ELSE oldest[d]]
       /\ oldest'[c] = Account!LeastDue(oldest[c], due)
  BY <1>2, <1>3 DEF AccountRows
<1>11. CacheReconciles'
  <2>1. ~(opened /\ c = Mapped) => oldest'[c] = Account!OldestDue(c)'
    BY <1>3, <1>9, <1>10 DEF CacheReconciles
  <2>2. amount \in Int /\ opened' = opened
        /\ exposure' = [exposure EXCEPT ![c] = exposure[c] + amount]
    BY <1>1, <1>2
  <2> QED
    BY <1>7, <1>8, <1>10, <2>1, <2>2, CacheMoves
<1> QED
  BY <1>4, <1>5, <1>6, <1>11 DEF AccountInv

(* The due date that is computed again is a day, or none.                     *)
LEMMA RereadDue ==
    ASSUME IInv, AccountInv, invoice' = invoice, NEW c \in Customers,
           oldest' = [d \in Customers |-> IF d = c THEN Account!OldestDue(d)' ELSE oldest[d]]
    PROVE  /\ oldest' \in [Customers -> Days \union {0}]
           /\ oldest'[c] = Account!OldestDue(c)'
           /\ oldest' = [d \in Customers |-> IF d = c THEN oldest'[d] ELSE oldest[d]]
           /\ \A d : Account!InvoicesOf(d)' = Account!InvoicesOf(d)
<1>1. \A d : Account!InvoicesOf(d)' = Account!InvoicesOf(d)
  BY DEF Account!InvoicesOf
<1>2. DueDates(c)' \subseteq Days
  <2>1. \A i \in Account!InvoicesOf(c) : invoice[i].due \in Days
    BY AccountFacts, OwnRows DEF Account!InvoicesOf
  <2>2. DueDates(c)' = {invoice[i].due : i \in Account!OpenInvoices(c)'}
    BY DEF DueDates
  <2>3. Account!OpenInvoices(c)' \subseteq Account!InvoicesOf(c)
    BY <1>1 DEF Account!OpenInvoices
  <2> QED
    BY <2>1, <2>2, <2>3
<1>3. Account!OldestDue(c)' \in Days \union {0}
  BY <1>2, DueOfType, OldestIs
<1>4. oldest \in [Customers -> Days \union {0}]
  BY AccountFacts DEF AccountRows
<1>5. oldest'[c] = Account!OldestDue(c)' /\ \A d \in Customers \ {c} : oldest'[d] = oldest[d]
  OBVIOUS
<1>6. oldest' = [d \in Customers |-> oldest'[d]]
  OBVIOUS
<1>7. oldest' \in [Customers -> Days \union {0}]
  BY <1>3, <1>4, <1>5, <1>6
<1>8. oldest' = [d \in Customers |-> IF d = c THEN oldest'[d] ELSE oldest[d]]
  BY <1>5, <1>6
<1> QED
  BY <1>1, <1>5, <1>7, <1>8

(* Debts that differ by what one payment allocates differ by its total.       *)
LEMMA DebtsDiffer ==
    ASSUME NEW of \in Allocations, NEW f, NEW g,
           \A i \in Invoices : f[i] \in Int /\ g[i] = f[i] - of[i]
    PROVE  /\ Account!Total(of) \in Int /\ SumFunctionOnSet(f, Invoices) \in Int
           /\ SumFunctionOnSet(g, Invoices) = SumFunctionOnSet(f, Invoices) - Account!Total(of)
<1>1. Account!Total(of) = SumFunctionOnSet(of, Invoices)
  BY SameSums DEF Account!Total, Allocations
<1>2. \A i \in Invoices : of[i] \in Int
  BY AllocatedAmounts
<1>3. SumFunctionOnSet(g, Invoices) =
        SumFunctionOnSet(f, Invoices) - SumFunctionOnSet(of, Invoices)
  BY <1>2, SumOfDifferences, DocumentsAreFinite
<1>4. SumFunctionOnSet(of, Invoices) \in Int /\ SumFunctionOnSet(f, Invoices) \in Int
  BY <1>2, SumType, DocumentsAreFinite
<1> QED
  BY <1>1, <1>3, <1>4

(* A new payment adds to what is settled of the invoices it names.            *)
LEMMA NewPayment ==
    ASSUME IInv, IInv', AccountInv, NEW c \in Customers, NEW p \in Payments,
           NEW of \in Allocations, Account!Pay(c, p, of)
    PROVE  /\ invoice' = invoice /\ voided' = voided /\ over' = over /\ opened' = opened
           /\ Refunded' = Refunded /\ payment[p] = None
           /\ payment'[p] # None /\ payment'[p].customer = c /\ payment'[p].of = of
           /\ \A r \in Payments \ {p} : payment'[r] = payment[r]
           /\ exposure' = [exposure EXCEPT ![c] = exposure[c] - Account!Total(of)]
           /\ oldest' = [d \in Customers |-> IF d = c THEN Account!OldestDue(d)' ELSE oldest[d]]
           /\ \A i \in Invoices : Account!NetAllocated(i)' = Account!NetAllocated(i) + of[i]
<1> DEFINE row == [customer |-> c, of |-> of]
<1>1. /\ invoice' = invoice /\ voided' = voided /\ over' = over /\ opened' = opened
      /\ Refunded' = Refunded /\ payment[p] = None
      /\ payment' = [payment EXCEPT ![p] = row]
      /\ exposure' = [exposure EXCEPT ![c] = exposure[c] - Account!Total(of)]
      /\ oldest' = [d \in Customers |-> IF d = c THEN Account!OldestDue(d)' ELSE oldest[d]]
  BY DEF Account!Pay
<1>2. row \in PaymentRows /\ row.customer = c /\ row.of = of
  BY DEF PaymentRows
<1>3. row # None
  BY <1>2, NoneIsNothing
<1> HIDE DEF row
<1>4. payment'[p] = row /\ \A r \in Payments \ {p} : payment'[r] = payment[r]
  BY <1>1, AccountFacts
<1>5. payment' \in [Payments -> PaymentRows \union {None}]
  BY DEF IInv, BooksAreRows
<1>6. ASSUME NEW i \in Invoices
      PROVE  Account!NetAllocated(i)' = Account!NetAllocated(i) + of[i]
  <2>1. p \notin Refunded
    <3>1. \A a \in Used : authorization[a] # None /\ a \in Authorizations
      BY DEF Used
    <3>2. \A a \in Used : payment[authorization[a].payment] # None
      BY <3>1 DEF IInv, AuthorizationsArePaid
    <3> QED
      BY <1>1, <3>2 DEF Refunded
  <2>2. Paid(payment', Refunded', i) = Paid(payment, Refunded, i) + of[i]
    <3>1. /\ payment[p] = None \/ p \in Refunded
          /\ payment'[p] # None /\ payment'[p].of = of /\ p \notin Refunded'
          /\ \A r \in Payments \ {p} : payment[r] = payment'[r] /\ (r \in Refunded <=> r \in Refunded')
      BY <1>1, <1>2, <1>3, <1>4, <2>1
    <3> QED
      BY <1>5, <3>1, AccountFacts, OnePaymentMore
  <2>3. Paid(payment, Refunded, i) \in Nat /\ of[i] \in Nat
    BY AccountFacts, PaidType, AllocatedAmounts
  <2> DEFINE v == IF i \in voided THEN invoice[i].amount ELSE 0
  <2>4. v \in Nat
    BY AccountFacts, OwnRows DEF AccountRows
  <2>5. Account!NetAllocated(i) = Paid(payment, Refunded, i) + v
    BY NetIs
  <2>6. Account!NetAllocated(i)' = Paid(payment', Refunded', i) + v
    BY <1>1, NetIsNext
  <2> HIDE DEF v
  <2> QED
    BY <2>2, <2>3, <2>4, <2>5, <2>6
<1> QED
  BY <1>1, <1>2, <1>3, <1>4, <1>6

(* A cancelled invoice is covered by its credit note, and by nothing else.    *)
LEMMA CancelledIsFull ==
    ASSUME IInv, AccountInv, NEW i \in Invoices, i \in voided
    PROVE  invoice[i] # None /\ Account!NetAllocated(i) = invoice[i].amount
<1>1. invoice[i] # None /\ ~Account!Allocated(i)
  BY AccountFacts DEF AccountRows, InvoicesAreNotOverpaid
<1>2. Paid(payment, Refunded, i) = 0
  BY <1>1, NothingPaid, AccountFacts DEF Account!Allocated
<1>3. invoice[i].amount \in Nat
  BY <1>1, OwnRows, AccountFacts
<1> QED
  BY <1>1, <1>2, <1>3, NetIs

(* The cached exposure is an integer.                                         *)
LEMMA ExposureType ==
    ASSUME IInv, AccountInv, NEW c \in Customers
    PROVE  exposure[c] \in Int
<1>1. exposure[c] = Debt(c)
  BY AccountFacts DEF CacheReconciles
<1>2. SumFunctionOnSet(Owed(c), Invoices) \in Nat
  BY OwedType, AccountFacts
<1> QED
  BY <1>1, <1>2, DebtIs

(* A payment: the debt falls by its total, and every invoice still has room.  *)
LEMMA PaymentKeepsTheAccount ==
    ASSUME IInv, IInv', AccountInv, NEW c \in Customers, NEW p \in Payments,
           NEW of \in Allocations, Account!Pay(c, p, of)
    PROVE  AccountInv'
<1>1. /\ invoice' = invoice /\ voided' = voided /\ over' = over /\ opened' = opened
      /\ Refunded' = Refunded /\ payment[p] = None
      /\ payment'[p] # None /\ payment'[p].customer = c /\ payment'[p].of = of
      /\ \A r \in Payments \ {p} : payment'[r] = payment[r]
      /\ exposure' = [exposure EXCEPT ![c] = exposure[c] - Account!Total(of)]
      /\ oldest' = [d \in Customers |-> IF d = c THEN Account!OldestDue(d)' ELSE oldest[d]]
      /\ \A i \in Invoices : Account!NetAllocated(i)' = Account!NetAllocated(i) + of[i]
  BY NewPayment
<1>2. BooksAreRows /\ BooksAreRows' /\ AccountRows /\ AllocationsAreOwn
      /\ InvoicesAreNotOverpaid /\ CacheReconciles
  BY AccountFacts DEF IInv
<1>3. \A i \in Invoices : of[i] > 0 =>
        /\ invoice[i] # None /\ invoice[i].customer = c
        /\ Account!NetAllocated(i) + of[i] <= invoice[i].amount
  BY DEF Account!Pay, Account!Fits
<1>4. \A i \in Invoices : of[i] \in Nat /\ (of[i] > 0 \/ of[i] = 0)
  BY AllocatedAmounts
<1>5. \A i \in Invoices : invoice[i] # None =>
        /\ invoice[i].amount \in Nat /\ Account!NetAllocated(i) \in Nat
        /\ Account!NetAllocated(i) <= invoice[i].amount
  BY <1>2, NetType
<1>6. /\ oldest' \in [Customers -> Days \union {0}]
      /\ oldest'[c] = Account!OldestDue(c)'
      /\ oldest' = [d \in Customers |-> IF d = c THEN oldest'[d] ELSE oldest[d]]
      /\ \A d : Account!InvoicesOf(d)' = Account!InvoicesOf(d)
  BY <1>1, RereadDue
<1>7. AccountRows'
  BY <1>1, <1>2, <1>6 DEF AccountRows
<1>8. AllocationsAreOwn'
  <2> SUFFICES ASSUME NEW r \in Payments, payment'[r] # None,
                      NEW i \in Invoices, payment'[r].of[i] > 0
               PROVE  invoice'[i] # None /\ invoice'[i].customer = payment'[r].customer
    BY DEF AllocationsAreOwn
  <2>1. CASE r = p
    BY <1>1, <1>3, <2>1
  <2>2. CASE r # p
    BY <1>1, <1>2, <2>2 DEF AllocationsAreOwn
  <2> QED
    BY <2>1, <2>2
<1>9. InvoicesAreNotOverpaid'
  <2>1. ASSUME NEW i \in Invoices, invoice'[i] # None
        PROVE  Account!NetAllocated(i)' \in 0..invoice'[i].amount
    <3>1. Account!NetAllocated(i)' = Account!NetAllocated(i) + of[i] /\ invoice'[i] = invoice[i]
      BY <1>1
    <3>2. /\ invoice[i].amount \in Nat /\ Account!NetAllocated(i) \in Nat
          /\ Account!NetAllocated(i) <= invoice[i].amount
      BY <1>1, <1>5, <2>1
    <3> QED
      BY <1>3, <1>4, <3>1, <3>2
  <2>2. ASSUME NEW i \in Invoices, i \in voided' PROVE ~Account!Allocated(i)'
    <3>1. ~Account!Allocated(i) /\ i \in voided
      BY <1>1, <1>2, <2>2 DEF InvoicesAreNotOverpaid
    <3>2. invoice[i] # None /\ Account!NetAllocated(i) = invoice[i].amount
      BY <3>1, CancelledIsFull
    <3>3. ~(of[i] > 0)
      BY <1>3, <1>4, <1>5, <3>2
    <3> QED
      BY <1>1, <3>1, <3>3 DEF Account!Allocated
  <2> QED
    BY <2>1, <2>2 DEF InvoicesAreNotOverpaid
<1>10. \A d \in Customers \ {c} : Owed(d)' = Owed(d) /\ DueDates(d)' = DueDates(d)
  <2> TAKE d \in Customers \ {c}
  <2>1. ASSUME NEW i \in Account!InvoicesOf(d)
        PROVE  invoice'[i] = invoice[i] /\ Account!NetAllocated(i)' = Account!NetAllocated(i)
    <3>1. i \in Invoices /\ invoice[i] # None /\ invoice[i].customer # c
      BY DEF Account!InvoicesOf
    <3>2. of[i] = 0 /\ Account!NetAllocated(i) \in Nat
      BY <1>3, <1>4, <1>5, <3>1
    <3> QED
      BY <1>1, <3>1, <3>2
  <2> QED
    BY <1>6, <2>1, OthersKeep
<1>11. Debt(c)' = Debt(c) + (0 - Account!Total(of)) /\ 0 - Account!Total(of) \in Int
  <2>1. \A i \in Invoices : Owed(c)[i] \in Int
    BY <1>2, OwedType
  <2>2. ASSUME NEW i \in Invoices PROVE Owed(c)'[i] = Owed(c)[i] - of[i]
    <3>1. Owed(c)[i] = IF i \in Account!InvoicesOf(c)
                       THEN invoice[i].amount - Account!NetAllocated(i) ELSE 0
      BY DEF Owed
    <3>2. Owed(c)'[i] = IF i \in Account!InvoicesOf(c)
                        THEN invoice[i].amount - Account!NetAllocated(i)' ELSE 0
      BY <1>1, <1>6 DEF Owed
    <3>3. CASE i \in Account!InvoicesOf(c)
      <4>1. invoice[i] # None
        BY <3>3 DEF Account!InvoicesOf
      <4>2. Account!NetAllocated(i)' = Account!NetAllocated(i) + of[i]
        BY <1>1
      <4> QED
        BY <1>4, <1>5, <3>1, <3>2, <3>3, <4>1, <4>2
    <3>4. CASE i \notin Account!InvoicesOf(c)
      <4>1. of[i] = 0
        BY <1>3, <1>4, <3>4 DEF Account!InvoicesOf
      <4> QED
        BY <3>1, <3>2, <3>4, <4>1
    <3> QED
      BY <3>3, <3>4
  <2>3. /\ Account!Total(of) \in Int /\ SumFunctionOnSet(Owed(c), Invoices) \in Int
        /\ SumFunctionOnSet(Owed(c)', Invoices) =
             SumFunctionOnSet(Owed(c), Invoices) - Account!Total(of)
    BY <2>1, <2>2, DebtsDiffer
  <2>4. Opening(c)' = Opening(c)
    BY <1>1 DEF Opening
  <2> QED
    BY <2>3, <2>4, DebtIs
<1>12. exposure' = [exposure EXCEPT ![c] = exposure[c] + (0 - Account!Total(of))]
  <2>1. Account!Total(of) \in Int
    <3>1. Account!Total(of) = SumFunctionOnSet(of, Invoices)
      BY SameSums DEF Account!Total, Allocations
    <3> QED
      BY <1>4, <3>1, SumType, DocumentsAreFinite
  <2>2. exposure[c] - Account!Total(of) = exposure[c] + (0 - Account!Total(of))
    BY <2>1, ExposureType
  <2> QED
    BY <1>1, <2>2
<1>13. CacheReconciles'
  BY <1>1, <1>6, <1>10, <1>11, <1>12, CacheMoves
<1> QED
  BY <1>7, <1>8, <1>9, <1>13 DEF AccountInv

(* A refund: what the payment allocated is owed again.                        *)
LEMMA RefundKeepsTheAccount ==
    ASSUME IInv, IInv', AccountInv, NEW p \in Payments, Account!Refund(p)
    PROVE  AccountInv'
<1>3. PICK c \in Customers, of \in Allocations :
        c = payment[p].customer /\ of = payment[p].of
  <2>1. payment[p] \in PaymentRows
    BY AccountFacts DEF Account!Refund
  <2> QED
    BY <2>1 DEF PaymentRows
<1>1. /\ invoice' = invoice /\ voided' = voided /\ over' = over /\ opened' = opened
      /\ payment' = payment /\ Refunded' = Refunded \union {p}
      /\ payment[p] # None /\ p \notin Refunded
      /\ exposure' = [exposure EXCEPT ![c] = exposure[c] + Account!Total(of)]
      /\ oldest' = [d \in Customers |-> IF d = c THEN Account!OldestDue(d)' ELSE oldest[d]]
  BY <1>3 DEF Account!Refund
<1>2. BooksAreRows /\ BooksAreRows' /\ AccountRows /\ AllocationsAreOwn
      /\ InvoicesAreNotOverpaid /\ CacheReconciles
  BY AccountFacts DEF IInv
<1>4. \A i \in Invoices : of[i] > 0 => invoice[i] # None /\ invoice[i].customer = c
  BY <1>1, <1>2, <1>3 DEF AllocationsAreOwn
<1>5. \A i \in Invoices : of[i] \in Nat /\ (of[i] > 0 \/ of[i] = 0)
  BY <1>3, AllocatedAmounts
<1>6. /\ oldest' \in [Customers -> Days \union {0}]
      /\ oldest'[c] = Account!OldestDue(c)'
      /\ oldest' = [d \in Customers |-> IF d = c THEN oldest'[d] ELSE oldest[d]]
      /\ \A d : Account!InvoicesOf(d)' = Account!InvoicesOf(d)
  BY <1>1, <1>3, RereadDue
<1>7. AccountRows' /\ AllocationsAreOwn'
  BY <1>1, <1>2, <1>6 DEF AccountRows, AllocationsAreOwn
<1>8. ASSUME NEW i \in Invoices
      PROVE  /\ Account!NetAllocated(i) = Account!NetAllocated(i)' + of[i]
             /\ Account!NetAllocated(i)' \in Nat
  <2>1. Paid(payment, Refunded, i) = Paid(payment, Refunded', i) + of[i]
    <3>1. /\ payment[p] = None \/ p \in Refunded'
          /\ payment[p] # None /\ payment[p].of = of /\ p \notin Refunded
          /\ \A r \in Payments \ {p} : payment[r] = payment[r] /\ (r \in Refunded' <=> r \in Refunded)
      BY <1>1, <1>3
    <3> QED
      BY <1>3, <3>1, AccountFacts, OnePaymentMore
  <2>2. /\ Paid(payment, Refunded, i) \in Nat /\ Paid(payment, Refunded', i) \in Nat
        /\ of[i] \in Nat
    BY <1>5, AccountFacts, PaidType
  <2> DEFINE v == IF i \in voided THEN invoice[i].amount ELSE 0
  <2>3. v \in Nat
    BY AccountFacts, OwnRows DEF AccountRows
  <2>4. Account!NetAllocated(i) = Paid(payment, Refunded, i) + v
    BY NetIs
  <2>5. Account!NetAllocated(i)' = Paid(payment, Refunded', i) + v
    BY <1>1, NetIsNext
  <2> HIDE DEF v
  <2> QED
    BY <2>1, <2>2, <2>3, <2>4, <2>5
<1>9. \A i \in Invoices : invoice[i] # None =>
        /\ invoice[i].amount \in Nat /\ Account!NetAllocated(i) \in Nat
        /\ Account!NetAllocated(i) <= invoice[i].amount
  BY <1>2, NetType
<1>10. InvoicesAreNotOverpaid'
  <2>1. ASSUME NEW i \in Invoices, invoice'[i] # None
        PROVE  Account!NetAllocated(i)' \in 0..invoice'[i].amount
    BY <1>1, <1>5, <1>8, <1>9, <2>1
  <2>2. ASSUME NEW i \in Invoices, i \in voided' PROVE ~Account!Allocated(i)'
    BY <1>1, <1>2, <2>2 DEF InvoicesAreNotOverpaid, Account!Allocated
  <2> QED
    BY <2>1, <2>2 DEF InvoicesAreNotOverpaid
<1>11. \A d \in Customers \ {c} : Owed(d)' = Owed(d) /\ DueDates(d)' = DueDates(d)
  <2> TAKE d \in Customers \ {c}
  <2>1. ASSUME NEW i \in Account!InvoicesOf(d)
        PROVE  invoice'[i] = invoice[i] /\ Account!NetAllocated(i)' = Account!NetAllocated(i)
    <3>1. i \in Invoices /\ invoice[i].customer # c
      BY DEF Account!InvoicesOf
    <3>2. of[i] = 0
      BY <1>4, <1>5, <3>1
    <3> QED
      BY <1>1, <1>8, <3>1, <3>2
  <2> QED
    BY <1>6, <2>1, OthersKeep
<1>12. Debt(c)' = Debt(c) + Account!Total(of) /\ Account!Total(of) \in Int
  <2>1. \A i \in Invoices : Owed(c)'[i] \in Int /\ Owed(c)[i] = Owed(c)'[i] - of[i]
    <3> TAKE i \in Invoices
    <3>1. Owed(c)[i] = IF i \in Account!InvoicesOf(c)
                       THEN invoice[i].amount - Account!NetAllocated(i) ELSE 0
      BY DEF Owed
    <3>2. Owed(c)'[i] = IF i \in Account!InvoicesOf(c)
                        THEN invoice[i].amount - Account!NetAllocated(i)' ELSE 0
      BY <1>1, <1>6 DEF Owed
    <3>3. CASE i \in Account!InvoicesOf(c)
      <4>1. invoice[i] # None
        BY <3>3 DEF Account!InvoicesOf
      <4> QED
        BY <1>5, <1>8, <1>9, <3>1, <3>2, <3>3, <4>1
    <3>4. CASE i \notin Account!InvoicesOf(c)
      <4>1. of[i] = 0
        BY <1>4, <1>5, <3>4 DEF Account!InvoicesOf
      <4> QED
        BY <3>1, <3>2, <3>4, <4>1
    <3> QED
      BY <3>3, <3>4
  <2>2. /\ Account!Total(of) \in Int /\ SumFunctionOnSet(Owed(c)', Invoices) \in Int
        /\ SumFunctionOnSet(Owed(c), Invoices) =
             SumFunctionOnSet(Owed(c)', Invoices) - Account!Total(of)
    <3>1. ASSUME NEW f, NEW g, f = Owed(c)', g = Owed(c)
          PROVE  /\ Account!Total(of) \in Int /\ SumFunctionOnSet(f, Invoices) \in Int
                 /\ SumFunctionOnSet(g, Invoices) =
                      SumFunctionOnSet(f, Invoices) - Account!Total(of)
      <4>1. \A i \in Invoices : f[i] \in Int /\ g[i] = f[i] - of[i]
        BY <2>1, <3>1
      <4> QED
        BY <4>1, DebtsDiffer
    <3> QED
      BY <3>1
  <2>3. Opening(c)' = Opening(c)
    BY <1>1 DEF Opening
  <2> QED
    BY <2>2, <2>3, DebtIs
<1>13. CacheReconciles'
  BY <1>1, <1>3, <1>6, <1>11, <1>12, CacheMoves
<1> QED
  BY <1>7, <1>10, <1>13 DEF AccountInv

(* A cancellation: the credit note covers an invoice nothing was paid on.     *)
LEMMA VoidKeepsTheAccount ==
    ASSUME IInv, IInv', AccountInv, NEW i \in Invoices, Account!Void(i)
    PROVE  AccountInv'
<1>3. PICK c \in Customers, amount \in Nat :
        c = invoice[i].customer /\ amount = invoice[i].amount
  BY OwnRows, AccountFacts DEF Account!Void
<1>1. /\ invoice' = invoice /\ voided' = voided \union {i} /\ over' = over /\ opened' = opened
      /\ payment' = payment /\ Refunded' = Refunded
      /\ invoice[i] # None /\ i \notin voided /\ ~Account!Allocated(i)
      /\ exposure' = [exposure EXCEPT ![c] = exposure[c] - amount]
      /\ oldest' = [d \in Customers |-> IF d = c THEN Account!OldestDue(d)' ELSE oldest[d]]
  BY <1>3 DEF Account!Void
<1>2. BooksAreRows /\ BooksAreRows' /\ AccountRows /\ AllocationsAreOwn
      /\ InvoicesAreNotOverpaid /\ CacheReconciles
  BY AccountFacts DEF IInv
<1>4. /\ oldest' \in [Customers -> Days \union {0}]
      /\ oldest'[c] = Account!OldestDue(c)'
      /\ oldest' = [d \in Customers |-> IF d = c THEN oldest'[d] ELSE oldest[d]]
      /\ \A d : Account!InvoicesOf(d)' = Account!InvoicesOf(d)
  BY <1>1, <1>3, RereadDue
<1>5. AccountRows' /\ AllocationsAreOwn'
  BY <1>1, <1>2, <1>4 DEF AccountRows, AllocationsAreOwn
<1>6. Paid(payment, Refunded, i) = 0
  BY <1>1, AccountFacts, NothingPaid DEF Account!Allocated
<1>7. Account!NetAllocated(i) = 0 /\ Account!NetAllocated(i)' = amount
  BY <1>1, <1>3, <1>6, NetIs, NetIsNext
<1>8. \A j \in Invoices \ {i} : Account!NetAllocated(j)' = Account!NetAllocated(j)
  BY <1>1, NetIs, NetIsNext
<1>9. InvoicesAreNotOverpaid'
  <2>1. ASSUME NEW j \in Invoices, invoice'[j] # None
        PROVE  Account!NetAllocated(j)' \in 0..invoice'[j].amount
    <3>1. CASE j = i
      BY <1>1, <1>3, <1>7, <3>1
    <3>2. CASE j # i
      BY <1>1, <1>2, <1>8, <2>1, <3>2 DEF InvoicesAreNotOverpaid
    <3> QED
      BY <3>1, <3>2
  <2>2. ASSUME NEW j \in Invoices, j \in voided' PROVE ~Account!Allocated(j)'
    <3>1. ~Account!Allocated(j)
      BY <1>1, <1>2, <2>2 DEF InvoicesAreNotOverpaid
    <3> QED
      BY <1>1, <3>1 DEF Account!Allocated
  <2> QED
    BY <2>1, <2>2 DEF InvoicesAreNotOverpaid
<1>10. \A d \in Customers \ {c} : Owed(d)' = Owed(d) /\ DueDates(d)' = DueDates(d)
  <2> TAKE d \in Customers \ {c}
  <2>1. \A j \in Account!InvoicesOf(d) : j \in Invoices \ {i}
    BY <1>3 DEF Account!InvoicesOf
  <2> QED
    BY <1>1, <1>4, <1>8, <2>1, OthersKeep
<1>11. Debt(c)' = Debt(c) + (0 - amount)
  <2>1. i \in Account!InvoicesOf(c)
    BY <1>1, <1>3 DEF Account!InvoicesOf
  <2>2. Owed(c)[i] = amount - Account!NetAllocated(i)
    BY <1>3, <2>1 DEF Owed
  <2>3. Owed(c)'[i] = amount - Account!NetAllocated(i)'
    BY <1>1, <1>3, <1>4, <2>1 DEF Owed
  <2>4. \A j \in Invoices \ {i} : Owed(c)'[j] = Owed(c)[j]
    BY <1>1, <1>4, <1>8 DEF Owed
  <2>5. Owed(c)[i] = amount /\ Owed(c)'[i] = 0
    BY <1>3, <1>7, <2>2, <2>3
  <2>6. /\ \A j \in Invoices : Owed(c)[j] \in Int
        /\ SumFunctionOnSet(Owed(c), Invoices) \in Int
    BY <1>2, OwedType
  <2>7. SumFunctionOnSet(Owed(c)', Invoices) =
          SumFunctionOnSet(Owed(c), Invoices) + Owed(c)'[i] - Owed(c)[i]
    BY <2>4, <2>5, <2>6, SumChanges, DocumentsAreFinite
  <2>8. Opening(c)' = Opening(c)
    BY <1>1 DEF Opening
  <2> QED
    BY <1>3, <2>5, <2>6, <2>7, <2>8, DebtIs
<1>12. exposure' = [exposure EXCEPT ![c] = exposure[c] + (0 - amount)] /\ 0 - amount \in Int
  <2>1. exposure[c] - amount = exposure[c] + (0 - amount)
    BY <1>3, ExposureType
  <2>2. 0 - amount \in Int
    BY <1>3
  <2>3. exposure' = [exposure EXCEPT ![c] = exposure[c] - amount]
    BY <1>1
  <2> QED
    BY <2>1, <2>2, <2>3
<1>13. CacheReconciles'
  BY <1>1, <1>4, <1>10, <1>11, <1>12, CacheMoves
<1> QED
  BY <1>5, <1>9, <1>13 DEF AccountInv

(* The opening balance is added to the debt of its customer; it is no         *)
(* invoice, so from then on the due date of that customer is its own.         *)
LEMMA OpeningKeepsTheAccount ==
    ASSUME IInv, IInv', AccountInv, Account!ApplyOpening
    PROVE  AccountInv'
<1>1. /\ invoice' = invoice /\ voided' = voided /\ over' = over
      /\ payment' = payment /\ Refunded' = Refunded
      /\ ~opened /\ opened' = TRUE
      /\ exposure' = [exposure EXCEPT ![Mapped] = exposure[Mapped] + Balance]
      /\ oldest' = [oldest EXCEPT ![Mapped] = Account!LeastDue(oldest[Mapped], Cutover)]
  BY DEF Account!ApplyOpening
<1>2. BooksAreRows /\ BooksAreRows' /\ AccountRows /\ AllocationsAreOwn
      /\ InvoicesAreNotOverpaid /\ CacheReconciles
  BY AccountFacts DEF IInv
<1>3. AccountRows' /\ AllocationsAreOwn'
  <2>1. Account!LeastDue(oldest[Mapped], Cutover) \in Days \union {0}
    BY <1>2, OpeningIsPositive DEF AccountRows, Account!LeastDue
  <2>2. oldest' \in [Customers -> Days \union {0}]
    BY <1>1, <1>2, <2>1 DEF AccountRows
  <2> QED
    BY <1>1, <1>2, <2>2 DEF AccountRows, AllocationsAreOwn
<1>4. \A i \in Invoices : Account!NetAllocated(i)' = Account!NetAllocated(i)
  BY <1>1, NetIs, NetIsNext
<1>5. InvoicesAreNotOverpaid'
  <2>1. \A i \in Invoices : Account!Allocated(i)' = Account!Allocated(i)
    BY <1>1 DEF Account!Allocated
  <2> QED
    BY <1>1, <1>2, <1>4, <2>1 DEF InvoicesAreNotOverpaid
<1>6. \A d \in Customers : Owed(d)' = Owed(d) /\ DueDates(d)' = DueDates(d)
  <2> TAKE d \in Customers
  <2>1. Account!InvoicesOf(d)' = Account!InvoicesOf(d)
        /\ \A i \in Account!InvoicesOf(d) : i \in Invoices
    BY <1>1 DEF Account!InvoicesOf
  <2> QED
    BY <1>1, <1>4, <2>1, OthersKeep
<1>7. \A d \in Customers :
        exposure'[d] = exposure[d] + (IF d = Mapped THEN Balance ELSE 0)
  BY <1>1, AccountFacts, ExposureType, OpeningIsPositive
<1>8. \A d \in Customers : Debt(d)' = Debt(d) + (IF d = Mapped THEN Balance ELSE 0)
  <2> TAKE d \in Customers
  <2>1. Opening(d) = 0 /\ Opening(d)' = (IF d = Mapped THEN Balance ELSE 0)
    BY <1>1 DEF Opening
  <2>2. SumFunctionOnSet(Owed(d), Invoices) \in Int
    BY <1>2, OwedType
  <2> QED
    BY <1>6, <2>1, <2>2, DebtIs, OpeningIsPositive
<1>9. \A d \in Customers : exposure'[d] = Debt(d)'
  BY <1>2, <1>7, <1>8 DEF CacheReconciles
<1>10. ASSUME NEW d \in Customers, ~(opened' /\ d = Mapped)
       PROVE  oldest'[d] = Account!OldestDue(d)'
  <2>1. d # Mapped
    BY <1>1, <1>10
  <2>2. oldest'[d] = oldest[d]
    BY <1>1, <1>2, <2>1 DEF AccountRows
  <2>3. Account!OldestDue(d)' = Account!OldestDue(d)
    BY <1>6, OldestIs
  <2> QED
    BY <1>1, <1>2, <2>2, <2>3 DEF CacheReconciles
<1>11. CacheReconciles'
  BY <1>9, <1>10 DEF CacheReconciles
<1> QED
  BY <1>3, <1>5, <1>11 DEF AccountInv

(* The account begins sound.                                                  *)
LEMMA InitAccount == Init => AccountInv
<1> SUFFICES ASSUME Init PROVE AccountInv
  OBVIOUS
<1>1. /\ \A i \in Invoices : invoice[i] = None
      /\ \A p \in Payments : payment[p] = None
      /\ over = {} /\ voided = {} /\ opened = FALSE
      /\ exposure = [c \in Customers |-> 0] /\ oldest = [c \in Customers |-> 0]
  BY DEF Init
<1>2. AccountRows /\ AllocationsAreOwn /\ InvoicesAreNotOverpaid
  BY <1>1 DEF AccountRows, AllocationsAreOwn, InvoicesAreNotOverpaid
<1>3. ASSUME NEW c \in Customers PROVE Debt(c) = 0 /\ Account!OldestDue(c) = 0
  <2>1. Account!InvoicesOf(c) = {} /\ Account!OpenInvoices(c) = {}
    BY <1>1 DEF Account!InvoicesOf, Account!OpenInvoices
  <2>2. \A i \in Invoices : Owed(c)[i] = 0
    BY <2>1 DEF Owed
  <2>3. SumFunctionOnSet(Owed(c), Invoices) = 0
    BY <2>2, SumOfZeros, DocumentsAreFinite
  <2>4. Opening(c) = 0
    BY <1>1 DEF Opening
  <2> QED
    BY <2>1, <2>3, <2>4, DebtIs DEF Account!OldestDue
<1>4. CacheReconciles
  BY <1>1, <1>3 DEF CacheReconciles
<1> QED
  BY <1>2, <1>4 DEF AccountInv

(* What no step of the account touches, the cache does not see either.        *)
LEMMA SilenceKeepsTheAccount ==
    ASSUME IInv, IInv', AccountInv, UNCHANGED Account!ledger
    PROVE  AccountInv'
<1>1. UNCHANGED <<invoice, over, voided, payment, Refunded, exposure, oldest, opened>>
  BY DEF Account!ledger
<1>2. AccountRows /\ AllocationsAreOwn /\ InvoicesAreNotOverpaid /\ CacheReconciles
  BY DEF AccountInv
<1>3. AccountRows' /\ AllocationsAreOwn'
  BY <1>1, <1>2 DEF AccountRows, AllocationsAreOwn
<1>4. \A i \in Invoices : /\ Account!NetAllocated(i)' = Account!NetAllocated(i)
                          /\ Account!Allocated(i)' = Account!Allocated(i)
  BY <1>1, NetIs, NetIsNext DEF Account!Allocated
<1>5. InvoicesAreNotOverpaid'
  BY <1>1, <1>2, <1>4 DEF InvoicesAreNotOverpaid
<1>6. ASSUME NEW d \in Customers
      PROVE  Debt(d)' = Debt(d) /\ Account!OldestDue(d)' = Account!OldestDue(d)
  <2>1. Account!InvoicesOf(d)' = Account!InvoicesOf(d)
        /\ \A i \in Account!InvoicesOf(d) : i \in Invoices
    BY <1>1 DEF Account!InvoicesOf
  <2>2. Owed(d)' = Owed(d) /\ DueDates(d)' = DueDates(d)
    BY <1>1, <1>4, <2>1, OthersKeep
  <2>3. Opening(d)' = Opening(d)
    BY <1>1 DEF Opening
  <2> QED
    BY <2>2, <2>3, DebtIs, OldestIs
<1>7. CacheReconciles'
  BY <1>1, <1>2, <1>6 DEF CacheReconciles
<1> QED
  BY <1>3, <1>5, <1>7 DEF AccountInv

(* Every step keeps it sound.                                                 *)
LEMMA StepAccount == IInv /\ IInv' /\ AccountInv /\ [Next]_vars => AccountInv'
<1> SUFFICES ASSUME IInv, IInv', AccountInv, [Next]_vars PROVE AccountInv'
  OBVIOUS
<1>1. Account!Next \/ UNCHANGED Account!ledger
  BY StepRefines
<1>2. ASSUME NEW c \in Customers, NEW p \in Payments,
             NEW of \in [Invoices -> Amounts \union {0}], Account!Pay(c, p, of)
      PROVE  AccountInv'
  BY <1>2, PaymentKeepsTheAccount DEF Allocations
<1> QED
  BY <1>1, <1>2, SaleKeepsTheAccount, RefundKeepsTheAccount, VoidKeepsTheAccount,
     OpeningKeepsTheAccount, SilenceKeepsTheAccount DEF Account!Next

(* The account is sound whatever transactions run at once: the step of every  *)
(* transaction is one of the account or silent, and each of these keeps it.   *)
THEOREM AccountInvariant == Spec => []AccountInv
<1>1. Init => AccountInv
  BY InitAccount
<1>2. IInv /\ IInv' /\ AccountInv /\ [Next]_vars => AccountInv'
  BY StepAccount
<1> QED
  BY <1>1, <1>2, ReceivablesInvariant, PTL DEF Spec

(* No invoice is paid beyond its amount and none is both cancelled and paid,  *)
(* for any number of payments, refunds and cancellations that run at once.    *)
THEOREM NoInvoiceIsOverpaid == Spec => []InvoicesAreNotOverpaid
<1>1. AccountInv => InvoicesAreNotOverpaid
  BY DEF AccountInv
<1> QED
  BY <1>1, AccountInvariant, PTL

(* The cached exposure of a customer is what the invoices and the opening     *)
(* balance leave to pay, and the cached due date the least of the open        *)
(* invoices, at every moment of any run.                                      *)
THEOREM TheCacheReconciles == Spec => []CacheReconciles
<1>1. AccountInv => CacheReconciles
  BY DEF AccountInv
<1> QED
  BY <1>1, AccountInvariant, PTL

StandingType == standing \in [Customers -> Policies]

(* A policy changes to a policy.                                              *)
LEMMA StepStanding == IInv /\ StandingType /\ [Next]_vars => StandingType'
<1> SUFFICES ASSUME IInv, StandingType, [Next]_vars PROVE StandingType'
  OBVIOUS
<1>1. ASSUME NEW k \in Calls, CommitUpdate(k) PROVE StandingType'
  <2>1. standing' = [standing EXCEPT ![call[k].c] = call[k].to]
    BY <1>1 DEF CommitUpdate
  <2>2. call[k].to \in Policies
    BY DEF IInv, CallsAreRows, CallRows
  <2> QED
    BY <2>1, <2>2 DEF StandingType
<1>2. ASSUME NEW k \in Calls, Ask(k) PROVE UNCHANGED standing
  BY <1>2 DEF Ask, StartSale, StartPayment, StartRefund, StartVoid, StartUpdate,
     StartOpening, Begin, desk
<1>3. ASSUME NEW k \in Calls, Work(k) PROVE CommitUpdate(k) \/ UNCHANGED standing
  BY <1>3 DEF Work, Take, Refuse, RollBack, DeadlockDetected, CommitSale, CommitPayment,
     CommitRefund, CommitVoid, CommitOpening, desk
<1>4. ASSUME Approve \/ NextDay PROVE UNCHANGED standing
  BY <1>4 DEF Approve, Authorize, AuthorizeOverride, NextDay
<1>5. CASE UNCHANGED vars
  BY <1>5 DEF vars, StandingType
<1> QED
  BY <1>1, <1>2, <1>3, <1>4, <1>5 DEF Next, StandingType

(* The domains follow from the invariants.                                    *)
LEMMA TypesFollow == IInv /\ OverrideInv /\ AccountInv /\ StandingType => TypeOK
<1> SUFFICES ASSUME IInv, OverrideInv, AccountInv, StandingType PROVE TypeOK
  OBVIOUS
<1>1. standing \in [Customers -> Policies] /\ token \in [Tokens -> TokenRows \union {None}]
  BY DEF StandingType, OverrideInv
<1>2. /\ over \subseteq Invoices /\ voided \subseteq Invoices
      /\ oldest \in [Customers -> Days \union {0}] /\ opened \in BOOLEAN
  BY AccountFacts DEF AccountRows
<1>3. exposure \in [Customers -> Int]
  BY AccountFacts, ExposureType
<1>4. /\ invoice \in [Invoices -> InvoiceRows \union {None}]
      /\ payment \in [Payments -> PaymentRows \union {None}]
      /\ authorization \in [Authorizations -> AuthorizationRows \union {None}]
      /\ today \in Days
  BY DEF IInv, BooksAreRows
<1>5. /\ \A k \in Calls : call[k].taken \in 0..Len(Locks(call[k]))
      /\ \A k, m \in Calls : \A n \in 1..call[k].taken :
           m # k => ~Blocks(m, Locks(call[k])[n])
  BY DEF IInv, TakenInRange, LocksExclude
<1> QED
  BY <1>1, <1>2, <1>3, <1>4, <1>5 DEF TypeOK

(* The books and the transactions hold values of their domains, and no two    *)
(* transactions hold locks that exclude each other, at any size of the shop.  *)
THEOREM TypeCorrect == Spec => []TypeOK
<1>1. Init => StandingType
  BY PoliciesAreKnown DEF Init, StandingType
<1>2. IInv /\ StandingType /\ [Next]_vars => StandingType'
  BY StepStanding
<1>3. IInv /\ OverrideInv /\ AccountInv /\ StandingType => TypeOK
  BY TypesFollow
<1> QED
  BY <1>1, <1>2, <1>3, ReceivablesInvariant, OverrideInvariant, AccountInvariant, PTL DEF Spec

=============================================================================
