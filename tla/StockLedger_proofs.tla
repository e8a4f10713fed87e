------------------------- MODULE StockLedger_proofs -------------------------
(***************************************************************************)
(* What the stock ledger guarantees at every scale, for all quantities and *)
(* costs: proofs of the invariants of StockLedger.                         *)
(***************************************************************************)
EXTENDS StockLedger, SequenceTheorems, FiniteSetTheorems, WellFoundedInduction, TLAPS


-----------------------------------------------------------------------------
(* Sums over a finite set, by induction on its subsets.                    *)

\* The element a fold takes out of a set.
Some(s) == CHOOSE x \in s : TRUE

\* The equation of the recursion a sum over the finite set S unfolds to.
IsSum(g, f, S) ==
    g = [s \in SUBSET S |->
            IF s = {} THEN 0 ELSE f[Some(s)] + g[s \ {Some(s)}]]

\* A non-empty collection of finite sets has a member none of whose
\* strict subsets belongs to it: induction over finite sets.
LEMMA SmallestSet ==
  ASSUME NEW S, IsFiniteSet(S), NEW X, X \subseteq SUBSET S, X # {}
  PROVE  \E T \in X : \A U \in X : U \subseteq T => U = T
<1>1. IsWellFoundedOn(StrictSubsetOrdering(S), SUBSET S)
  BY FS_StrictSubsetOrderingWellFounded, FS_FiniteSubsetsOfFinite
<1>2. PICK T \in X : \A U \in X : ~ (<<U, T>> \in StrictSubsetOrdering(S))
  BY <1>1, WFMin
<1>3. \A U \in X : U \subseteq T => U = T
  BY <1>2 DEF StrictSubsetOrdering
<1> QED
  BY <1>3

\* A non-empty set holds the element a fold takes out of it.
LEMMA SomeIsIn ==
  ASSUME NEW s, s # {}
  PROVE  Some(s) \in s
BY DEF Some

\* Two solutions of the equation agree on the sets they share.
LEMMA SumsAgree ==
  ASSUME NEW f, NEW S, NEW T, NEW g, NEW h, IsSum(g, f, S), IsSum(h, f, T),
         NEW V, V \subseteq S, V \subseteq T, IsFiniteSet(V)
  PROVE  g[V] = h[V]
<1> DEFINE Bad == {U \in SUBSET V : g[U] # h[U]}
<1>1. SUFFICES ASSUME Bad # {} PROVE FALSE
  OBVIOUS
<1>2. PICK U \in Bad : \A W \in Bad : W \subseteq U => W = U
  <2>1. Bad \subseteq SUBSET V
    OBVIOUS
  <2> HIDE DEF Bad
  <2> QED
    BY <1>1, <2>1, SmallestSet
<1>3. U # {}
  BY U \in SUBSET S, U \in SUBSET T DEF IsSum
<1>4. g[U] = f[Some(U)] + g[U \ {Some(U)}]
  BY <1>3, U \in SUBSET S DEF IsSum
<1>5. h[U] = f[Some(U)] + h[U \ {Some(U)}]
  BY <1>3, U \in SUBSET T DEF IsSum
<1>6. U \ {Some(U)} \notin Bad
  BY <1>2, <1>3, SomeIsIn
<1> QED
  BY <1>4, <1>5, <1>6

\* The equation has a solution over every finite set.
LEMMA SumExists ==
  ASSUME NEW f, NEW S, IsFiniteSet(S)
  PROVE  \E g : IsSum(g, f, S)
<1> DEFINE Bad == {T \in SUBSET S : ~ \E g : IsSum(g, f, T)}
<1>1. SUFFICES ASSUME Bad # {} PROVE FALSE
  OBVIOUS
<1>2. PICK T \in Bad : \A U \in Bad : U \subseteq T => U = T
  <2>1. Bad \subseteq SUBSET S
    OBVIOUS
  <2> HIDE DEF Bad
  <2> QED
    BY <1>1, <2>1, SmallestSet
<1> DEFINE G(U) == CHOOSE g : IsSum(g, f, U)
           Left(s) == s \ {Some(s)}
           h == [s \in SUBSET T |->
                    IF s = {} THEN 0 ELSE f[Some(s)] + G(Left(s))[Left(s)]]
<1>3. \A U \in SUBSET T : U # T => IsSum(G(U), f, U)
  BY <1>2
<1>4. ASSUME NEW s \in SUBSET T, s # {}
      PROVE  h[Left(s)] = G(Left(s))[Left(s)]
  <2>1. IsSum(G(Left(s)), f, Left(s))
    BY <1>3, <1>4, SomeIsIn
  <2>2. CASE Left(s) = {}
    BY <2>1, <2>2 DEF IsSum
  <2>3. CASE Left(s) # {}
    <3>1. /\ Left(Left(s)) \subseteq Left(s)
          /\ Left(Left(s)) # T
      BY <1>4, SomeIsIn
    <3>2. IsSum(G(Left(Left(s))), f, Left(Left(s)))
      BY <1>3, <3>1
    <3>3. IsFiniteSet(Left(Left(s)))
      BY <3>1, FS_Subset
    <3>4. G(Left(s))[Left(Left(s))] = G(Left(Left(s)))[Left(Left(s))]
      BY <2>1, <3>1, <3>2, <3>3, SumsAgree
    <3>5. G(Left(s))[Left(s)] = f[Some(Left(s))] + G(Left(s))[Left(Left(s))]
      BY <2>1, <2>3 DEF IsSum
    <3>6. h[Left(s)] = f[Some(Left(s))] + G(Left(Left(s)))[Left(Left(s))]
      BY <2>3, Left(s) \in SUBSET T
    <3> QED
      BY <3>4, <3>5, <3>6
  <2> HIDE DEF h, G, Left
  <2> QED
    BY <2>2, <2>3
<1>5. IsSum(h, f, T)
  <2>1. \A s \in SUBSET T :
            h[s] = IF s = {} THEN 0 ELSE f[Some(s)] + G(Left(s))[Left(s)]
    OBVIOUS
  <2>2. \A s \in SUBSET T :
            h[s] = IF s = {} THEN 0 ELSE f[Some(s)] + h[s \ {Some(s)}]
    <3> HIDE DEF h, G
    <3> QED
      BY <1>4, <2>1
  <2>3. h = [s \in SUBSET T |-> h[s]]
    OBVIOUS
  <2> HIDE DEF h, G, Left
  <2> QED
    BY <2>2, <2>3 DEF IsSum
<1> QED
  BY <1>2, <1>5

\* A sum is the value of a solution at the whole set.
LEMMA SumIsASolution ==
  ASSUME NEW f, NEW S, IsFiniteSet(S)
  PROVE  \E g : IsSum(g, f, S) /\ SumFunctionOnSet(f, S) = g[S]
<1> DEFINE g == CHOOSE iter : IsSum(iter, f, S)
<1>1. IsSum(g, f, S)
  BY SumExists
<1>2. SumFunctionOnSet(f, S) = g[S]
  BY DEF SumFunctionOnSet, FoldFunctionOnSet, MapThenFoldSet, IsSum, Some
<1> HIDE DEF g
<1> QED
  BY <1>1, <1>2

\* The sum over no index is 0.
LEMMA SumOfNone ==
  ASSUME NEW f
  PROVE  SumFunctionOnSet(f, {}) = 0
<1>1. PICK g : IsSum(g, f, {}) /\ SumFunctionOnSet(f, {}) = g[{}]
  BY SumIsASolution, FS_EmptySet
<1> QED
  BY <1>1 DEF IsSum

\* A sum over some indices is one value and the sum over the others.
LEMMA SumUnfolds ==
  ASSUME NEW f, NEW S, IsFiniteSet(S), S # {}
  PROVE  SumFunctionOnSet(f, S) =
            f[Some(S)] + SumFunctionOnSet(f, S \ {Some(S)})
<1> DEFINE R == S \ {Some(S)}
<1>1. IsFiniteSet(R)
  BY FS_RemoveElement
<1>2. PICK g : IsSum(g, f, S) /\ SumFunctionOnSet(f, S) = g[S]
  BY SumIsASolution
<1>3. PICK h : IsSum(h, f, R) /\ SumFunctionOnSet(f, R) = h[R]
  BY <1>1, SumIsASolution
<1>4. g[R] = h[R]
  BY <1>1, <1>2, <1>3, SumsAgree
<1>5. g[S] = f[Some(S)] + g[R]
  BY <1>2, S \in SUBSET S DEF IsSum
<1> QED
  BY <1>2, <1>3, <1>4, <1>5

\* A sum of integers is an integer.
LEMMA SumType ==
  ASSUME NEW f, NEW S, IsFiniteSet(S), \A x \in S : f[x] \in Int
  PROVE  SumFunctionOnSet(f, S) \in Int
<1> DEFINE Bad == {T \in SUBSET S : SumFunctionOnSet(f, T) \notin Int}
<1>1. SUFFICES ASSUME Bad # {} PROVE FALSE
  OBVIOUS
<1>2. PICK T \in Bad : \A U \in Bad : U \subseteq T => U = T
  <2>1. Bad \subseteq SUBSET S
    OBVIOUS
  <2> HIDE DEF Bad
  <2> QED
    BY <1>1, <2>1, SmallestSet
<1>3. T # {}
  BY SumOfNone
<1>4. SumFunctionOnSet(f, T) = f[Some(T)] + SumFunctionOnSet(f, T \ {Some(T)})
  BY <1>3, SumUnfolds, FS_Subset
<1>5. Some(T) \in T
  BY <1>3, SomeIsIn
<1>6. SumFunctionOnSet(f, T \ {Some(T)}) \in Int
  BY <1>2, <1>5
<1> QED
  BY <1>4, <1>5, <1>6

\* Every index may be taken out first: the order of a sum does not matter.
LEMMA SumTakesOut ==
  ASSUME NEW f, NEW S, IsFiniteSet(S), \A x \in S : f[x] \in Int, NEW z \in S
  PROVE  SumFunctionOnSet(f, S) = f[z] + SumFunctionOnSet(f, S \ {z})
<1> DEFINE Sum(T) == SumFunctionOnSet(f, T)
           Bad == {T \in SUBSET S : \E x \in T : Sum(T) # f[x] + Sum(T \ {x})}
<1>1. SUFFICES ASSUME Bad # {} PROVE FALSE
  OBVIOUS
<1>2. PICK T \in Bad : \A U \in Bad : U \subseteq T => U = T
  <2>1. Bad \subseteq SUBSET S
    OBVIOUS
  <2> HIDE DEF Bad
  <2> QED
    BY <1>1, <2>1, SmallestSet
<1>3. PICK x \in T : Sum(T) # f[x] + Sum(T \ {x})
  OBVIOUS
<1> DEFINE c == Some(T)
           R == T \ {x, c}
<1>4. Sum(T) = f[c] + Sum(T \ {c})
  BY SumUnfolds, FS_Subset
<1>5. c \in T /\ c # x
  BY <1>3, <1>4, SomeIsIn
<1>6. /\ T \ {c} \notin Bad
      /\ T \ {x} \notin Bad
  BY <1>2, <1>5
<1>7. Sum(T \ {c}) = f[x] + Sum(R)
  BY <1>5, <1>6, (T \ {c}) \ {x} = R
<1>8. Sum(T \ {x}) = f[c] + Sum(R)
  BY <1>5, <1>6, (T \ {x}) \ {c} = R
<1>9. /\ Sum(R) \in Int
      /\ f[x] \in Int
      /\ f[c] \in Int
  BY <1>5, SumType, FS_Subset
<1> HIDE DEF Sum, R, c
<1> QED
  BY <1>3, <1>4, <1>7, <1>8, <1>9

\* Functions that agree on the indices have the same sum.
LEMMA SumsOfEquals ==
  ASSUME NEW f, NEW g, NEW S, IsFiniteSet(S), \A x \in S : f[x] = g[x]
  PROVE  SumFunctionOnSet(f, S) = SumFunctionOnSet(g, S)
<1> DEFINE Bad == {T \in SUBSET S :
                      SumFunctionOnSet(f, T) # SumFunctionOnSet(g, T)}
<1>1. SUFFICES ASSUME Bad # {} PROVE FALSE
  OBVIOUS
<1>2. PICK T \in Bad : \A U \in Bad : U \subseteq T => U = T
  <2>1. Bad \subseteq SUBSET S
    OBVIOUS
  <2> HIDE DEF Bad
  <2> QED
    BY <1>1, <2>1, SmallestSet
<1>3. T # {}
  BY SumOfNone
<1>4. /\ SumFunctionOnSet(f, T) = f[Some(T)] + SumFunctionOnSet(f, T \ {Some(T)})
      /\ SumFunctionOnSet(g, T) = g[Some(T)] + SumFunctionOnSet(g, T \ {Some(T)})
  BY <1>3, SumUnfolds, FS_Subset
<1>5. Some(T) \in T
  BY <1>3, SomeIsIn
<1>6. SumFunctionOnSet(f, T \ {Some(T)}) = SumFunctionOnSet(g, T \ {Some(T)})
  BY <1>2, <1>5
<1> QED
  BY <1>4, <1>5, <1>6

\* Changing the value at one index changes the sum by as much.
LEMMA SumChanges ==
  ASSUME NEW f, NEW g, NEW S, IsFiniteSet(S), NEW z \in S,
         \A x \in S : f[x] \in Int, g[z] \in Int, \A x \in S \ {z} : g[x] = f[x]
  PROVE  SumFunctionOnSet(g, S) = SumFunctionOnSet(f, S) + g[z] - f[z]
<1> DEFINE R == S \ {z}
<1>1. IsFiniteSet(R)
  BY FS_RemoveElement
<1>2. SumFunctionOnSet(f, S) = f[z] + SumFunctionOnSet(f, R)
  BY SumTakesOut
<1>3. \A x \in S : g[x] \in Int
  OBVIOUS
<1>4. SumFunctionOnSet(g, S) = g[z] + SumFunctionOnSet(g, R)
  BY <1>3, SumTakesOut
<1>5. SumFunctionOnSet(g, R) = SumFunctionOnSet(f, R)
  BY <1>1, SumsOfEquals
<1>6. SumFunctionOnSet(f, R) \in Int
  BY <1>1, SumType
<1> HIDE DEF R
<1> QED
  BY <1>2, <1>4, <1>5, <1>6

\* A sum of zeros is zero.
LEMMA SumOfZeros ==
  ASSUME NEW f, NEW S, IsFiniteSet(S), \A x \in S : f[x] = 0
  PROVE  SumFunctionOnSet(f, S) = 0
<1> DEFINE Bad == {T \in SUBSET S : SumFunctionOnSet(f, T) # 0}
<1>1. SUFFICES ASSUME Bad # {} PROVE FALSE
  OBVIOUS
<1>2. PICK T \in Bad : \A U \in Bad : U \subseteq T => U = T
  <2>1. Bad \subseteq SUBSET S
    OBVIOUS
  <2> HIDE DEF Bad
  <2> QED
    BY <1>1, <2>1, SmallestSet
<1>3. T # {}
  BY SumOfNone
<1>4. SumFunctionOnSet(f, T) = f[Some(T)] + SumFunctionOnSet(f, T \ {Some(T)})
  BY <1>3, SumUnfolds, FS_Subset
<1>5. Some(T) \in T
  BY <1>3, SomeIsIn
<1>6. SumFunctionOnSet(f, T \ {Some(T)}) = 0
  BY <1>2, <1>5
<1> QED
  BY <1>4, <1>5, <1>6

-----------------------------------------------------------------------------
(* Rounding.                                                               *)

USE ScaleAssumption, InputAssumption

\* round() moves a number by at most half a unit, and keeps its sign.
LEMMA RoundDivNat ==
    ASSUME NEW n \in Nat, NEW d \in Nat \ {0}
    PROVE  /\ RoundDiv(n, d) \in Nat
           /\ 2 * (RoundDiv(n, d) * d - n) <= d
           /\ 2 * (n - RoundDiv(n, d) * d) <= d
<1> DEFINE a == 2 * n + d
           b == 2 * d
           k == a \div b
<1>1. a \in Nat /\ b \in Nat \ {0}
  OBVIOUS
<1>2. \A x \in Nat, y \in Nat \ {0} : x \div y \in Nat /\ y * (x \div y) <= x /\ x < y * (x \div y) + y
  OBVIOUS
<1>3. k \in Nat /\ b * k <= a /\ a < b * k + b
  BY <1>1, <1>2
<1>4. RoundDiv(n, d) = k
  BY DEF RoundDiv
<1> HIDE DEF k
<1>5. b * k = 2 * (k * d) /\ k * d \in Int
  BY <1>3
<1>6. QED
  BY <1>3, <1>4, <1>5

-----------------------------------------------------------------------------
(* One position: every operation keeps it sound.                           *)

Sound(s) == s \in Positions /\ Explained(s) /\ Tracks(s)

\* What Tracks says, without the absolute value.
LEMMA TracksMeans ==
    ASSUME NEW s \in Positions
    PROVE  /\ Drift(s) \in Int
           /\ Slack(s) \in Nat
           /\ Tracks(s) <=> 2 * Drift(s) <= Slack(s) /\ -(2 * Drift(s)) <= Slack(s)
<1>1. s.value * RateScale \in Nat /\ s.qty * s.wac \in Nat
  BY DEF Positions
<1>2. s.basis \in Nat /\ RateScale * s.issues \in Nat
      /\ RateScale * ValuePerCent * s.returns \in Nat
  BY DEF Positions
<1>3. Drift(s) \in Int /\ Slack(s) \in Nat
  BY <1>1, <1>2 DEF Drift, Slack
<1>4. 2 * Abs(Drift(s)) <= Slack(s) <=> 2 * Drift(s) <= Slack(s) /\ -(2 * Drift(s)) <= Slack(s)
  BY <1>3 DEF Abs
<1>5. QED
  BY <1>3, <1>4 DEF Tracks

\* A step that adds as much slack as it may add drift.
LEMMA TracksStep ==
    ASSUME NEW s \in Positions, NEW t \in Positions, NEW extra \in Int, Tracks(s),
           Slack(t) = Slack(s) + extra,
           2 * (Drift(t) - Drift(s)) <= extra,
           2 * (Drift(s) - Drift(t)) <= extra
    PROVE  Tracks(t)
  BY TracksMeans

\* Without stock there is nothing to drift from.
LEMMA TracksNothing ==
    ASSUME NEW t \in Positions, t.qty = 0, t.value = 0
    PROVE  Tracks(t)
<1>1. Drift(t) = 0
  BY DEF Drift, Positions
<1>2. QED
  BY <1>1, TracksMeans

\* The value a quantity takes along at average cost.
LEMMA CostBounds ==
    ASSUME NEW q \in Nat, NEW wac \in Nat
    PROVE  /\ Cost(q, wac) \in Nat
           /\ 2 * (Cost(q, wac) * RateScale - q * wac) <= RateScale
           /\ 2 * (q * wac - Cost(q, wac) * RateScale) <= RateScale
<1>1. q * wac \in Nat
  OBVIOUS
<1>2. QED
  BY <1>1, RoundDivNat DEF Cost

\* A sale line or a write-off that the code lets through.
LEMMA IssuedSound ==
    ASSUME NEW s, NEW q \in Nat, Sound(s), CanIssue(s, q)
    PROVE  Sound(Issued(s, q))
<1> DEFINE c == Cost(q, s.wac)
           t == Issued(s, q)
<1>1. s \in Positions /\ s.qty \in Nat /\ s.value \in Nat /\ s.wac \in Nat /\ s.qty >= q
      /\ s.moved \in Int /\ s.movedQty \in Int /\ s.cleared \in Nat /\ s.issues \in Nat
      /\ s.returns \in Nat /\ s.basis \in Nat /\ s.conjured \in Nat
      /\ s.qty = s.movedQty /\ s.value = s.moved + s.conjured
  BY DEF Sound, CanIssue, Positions, Explained
<1>2. c \in Nat /\ 2 * (c * RateScale - q * s.wac) <= RateScale
      /\ 2 * (q * s.wac - c * RateScale) <= RateScale
  BY <1>1, CostBounds
<1>3. /\ t.qty = s.qty - q /\ t.wac = s.wac /\ t.basis = s.basis /\ t.returns = s.returns
      /\ t.issues = s.issues + 1 /\ t.conjured = s.conjured /\ t.movedQty = s.movedQty - q
      /\ t.cleared = s.cleared + Abs(Residual(s, q))
      /\ t.value = s.value - c - Residual(s, q)
      /\ t.moved = s.moved - c - Residual(s, q)
  BY <1>1 DEF Issued, Rest, Positions
<1>4. /\ Residual(s, q) \in Int /\ Abs(Residual(s, q)) \in Nat
      /\ s.qty = q => t.value = 0
      /\ s.qty # q => t.value = s.value - c /\ t.value >= 0
  BY <1>1, <1>2, <1>3 DEF Residual, Rest, Abs, CanIssue
<1>5. t \in Positions
  <2>1. t.value \in Nat
    BY <1>1, <1>2, <1>4
  <2>2. t = [s EXCEPT !.qty = t.qty, !.value = t.value, !.movedQty = t.movedQty,
                      !.moved = t.moved, !.cleared = t.cleared, !.issues = t.issues]
    BY <1>1, <1>3 DEF Issued, Positions
  <2>3. t.qty \in Nat /\ t.movedQty \in Int /\ t.moved \in Int /\ t.cleared \in Nat
        /\ t.issues \in Nat
    BY <1>1, <1>2, <1>3, <1>4
  <2> HIDE DEF t
  <2>4. QED
    BY <1>1, <2>1, <2>2, <2>3 DEF Positions
<1>6. Explained(t)
  BY <1>1, <1>2, <1>3, <1>4 DEF Explained, ZeroRule
<1>7. Tracks(t)
  <2>1. CASE s.qty = q
    BY <1>1, <1>3, <1>4, <1>5, <2>1, TracksNothing
  <2>2. CASE s.qty # q
    <3>1. Drift(t) - Drift(s) = q * s.wac - c * RateScale
      BY <1>1, <1>2, <1>3, <1>4, <2>2 DEF Drift
    <3>2. Slack(t) = Slack(s) + RateScale
      BY <1>1, <1>3 DEF Slack
    <3> HIDE DEF t, c
    <3>3. QED
      BY <1>1, <1>2, <1>5, <3>1, <3>2, TracksMeans, TracksStep DEF Sound
  <2>3. QED
    BY <2>1, <2>2
<1>8. QED
  BY <1>5, <1>6, <1>7 DEF Sound

\* Stock found by a count.
LEMMA FoundSound ==
    ASSUME NEW s, NEW q \in Nat, Sound(s), CanFind(s), q > 0
    PROVE  Sound(Found(s, q))
<1> DEFINE c == Cost(q, s.wac)
           t == Found(s, q)
<1>1. s \in Positions /\ s.qty \in Nat /\ s.value \in Nat /\ s.wac \in Nat
      /\ s.moved \in Int /\ s.movedQty \in Int /\ s.issues \in Nat
      /\ s.returns \in Nat /\ s.basis \in Nat /\ s.conjured \in Nat
      /\ s.qty = s.movedQty /\ s.value = s.moved + s.conjured
  BY DEF Sound, Positions, Explained
<1>2. c \in Nat /\ 2 * (c * RateScale - q * s.wac) <= RateScale
      /\ 2 * (q * s.wac - c * RateScale) <= RateScale
  BY <1>1, CostBounds
<1>3. /\ t.qty = s.qty + q /\ t.wac = s.wac /\ t.basis = s.basis /\ t.returns = s.returns
      /\ t.issues = s.issues + 1 /\ t.conjured = s.conjured /\ t.movedQty = s.movedQty + q
      /\ t.value = s.value + c
      /\ t.moved = s.moved + c
  BY <1>1 DEF Found, Positions
<1>4. t \in Positions
  <2>1. t = [s EXCEPT !.qty = t.qty, !.value = t.value, !.movedQty = t.movedQty,
                      !.moved = t.moved, !.issues = t.issues]
    BY <1>1, <1>3 DEF Found, Positions
  <2>2. t.qty \in Nat /\ t.value \in Nat /\ t.movedQty \in Int /\ t.moved \in Int
        /\ t.issues \in Nat
    BY <1>1, <1>2, <1>3
  <2> HIDE DEF t
  <2>3. QED
    BY <1>1, <2>1, <2>2 DEF Positions
<1>5. Explained(t)
  BY <1>1, <1>2, <1>3 DEF Explained, ZeroRule
<1>6. Tracks(t)
  <2>1. Drift(t) - Drift(s) = c * RateScale - q * s.wac
    BY <1>1, <1>2, <1>3 DEF Drift
  <2>2. Slack(t) = Slack(s) + RateScale
    BY <1>1, <1>3 DEF Slack
  <2> HIDE DEF t, c
  <2>3. QED
    BY <1>1, <1>2, <1>4, <2>1, <2>2, TracksMeans, TracksStep DEF Sound
<1>7. QED
  BY <1>4, <1>5, <1>6 DEF Sound

\* A purchase line, or the part of a late cost the stock takes.
LEMMA ReceivedSound ==
    ASSUME NEW s, NEW q \in Nat, NEW cents \in Nat, Sound(s), s.qty + q > 0
    PROVE  Sound(Received(s, q, cents))
<1> DEFINE t == Received(s, q, cents)
           v == s.value + cents * ValuePerCent
           n == s.qty + q
<1>1. s \in Positions /\ s.qty \in Nat /\ s.value \in Nat /\ s.wac \in Nat
      /\ s.moved \in Int /\ s.movedQty \in Int /\ s.issues \in Nat
      /\ s.returns \in Nat /\ s.basis \in Nat /\ s.conjured \in Nat
      /\ s.qty = s.movedQty /\ s.value = s.moved + s.conjured
  BY DEF Sound, Positions, Explained
<1>2. cents * ValuePerCent \in Nat /\ v \in Nat /\ n \in Nat \ {0}
  BY <1>1
<1>3. v * RateScale \in Nat
  BY <1>2
<1>4. /\ Average(v, n) \in Nat
      /\ 2 * (Average(v, n) * n - v * RateScale) <= n
      /\ 2 * (v * RateScale - Average(v, n) * n) <= n
  BY <1>2, <1>3, RoundDivNat DEF Average
<1>5. /\ t.qty = n /\ t.value = v /\ t.wac = Average(v, n) /\ t.basis = n
      /\ t.issues = 0 /\ t.returns = 0 /\ t.conjured = s.conjured
      /\ t.movedQty = s.movedQty + q /\ t.moved = s.moved + cents * ValuePerCent
  BY <1>1 DEF Received, Positions
<1>6. t \in Positions
  <2> DEFINE u == [s EXCEPT !.qty = t.qty, !.value = t.value, !.wac = t.wac,
                            !.movedQty = t.movedQty]
  <2>1. t = [u EXCEPT !.moved = t.moved, !.basis = t.basis, !.issues = t.issues,
                      !.returns = t.returns]
    BY <1>1 DEF Received, Positions
  <2>2. /\ t.qty \in Nat /\ t.value \in Nat /\ t.wac \in Nat /\ t.basis \in Nat
        /\ t.issues \in Nat /\ t.returns \in Nat /\ t.movedQty \in Int /\ t.moved \in Int
    BY <1>1, <1>2, <1>4, <1>5
  <2> HIDE DEF t
  <2>3. u \in Positions
    BY <1>1, <2>2 DEF Positions
  <2> HIDE DEF u
  <2>4. QED
    BY <2>1, <2>2, <2>3 DEF Positions
<1>7. Explained(t)
  BY <1>1, <1>2, <1>5 DEF Explained, ZeroRule
<1>8. Tracks(t)
  <2>1. Drift(t) = v * RateScale - n * Average(v, n) /\ Slack(t) = n
    BY <1>2, <1>5 DEF Drift, Slack
  <2>2. n * Average(v, n) = Average(v, n) * n
    BY <1>2, <1>4
  <2> HIDE DEF t, v, n
  <2>3. QED
    BY <1>2, <1>3, <1>4, <1>6, <2>1, <2>2, TracksMeans
<1>9. QED
  BY <1>6, <1>7, <1>8 DEF Sound

\* A supplier return that does not meet the zero-quantity rule.
LEMMA ReturnedSound ==
    ASSUME NEW s, NEW q \in Nat, Sound(s), s.qty >= q, ZeroRule(Returned(s, q))
    PROVE  Sound(Returned(s, q)) /\ ReturnCents(s, q) \in Nat
<1> DEFINE t == Returned(s, q)
           c == ReturnCents(s, q)
           m == RateScale * ValuePerCent
<1>1. s \in Positions /\ s.qty \in Nat /\ s.value \in Nat /\ s.wac \in Nat
      /\ s.moved \in Int /\ s.movedQty \in Int /\ s.issues \in Nat
      /\ s.returns \in Nat /\ s.basis \in Nat /\ s.conjured \in Nat
      /\ s.qty = s.movedQty /\ s.value = s.moved + s.conjured
  BY DEF Sound, Positions, Explained
<1>2. q * s.wac \in Nat /\ m \in Nat \ {0}
  BY <1>1
<1>3. c \in Nat /\ 2 * (c * m - q * s.wac) <= m /\ 2 * (q * s.wac - c * m) <= m
  BY <1>2, RoundDivNat DEF ReturnCents
<1>4. /\ c * ValuePerCent \in Nat
      /\ Shortfall(s, q) \in Nat
      /\ \/ /\ s.value - c * ValuePerCent >= 0
            /\ Shortfall(s, q) = 0
         \/ /\ s.value - c * ValuePerCent < 0
            /\ s.value - c * ValuePerCent + Shortfall(s, q) = 0
  <2>1. c * ValuePerCent \in Nat
    BY <1>3
  <2> HIDE DEF c
  <2>2. Shortfall(s, q) = IF s.value - c * ValuePerCent < 0
                          THEN -(s.value - c * ValuePerCent) ELSE 0
    BY DEF Shortfall, c
  <2>3. QED
    BY <1>1, <2>1, <2>2
<1>5. /\ t.qty = s.qty - q /\ t.wac = s.wac /\ t.basis = s.basis /\ t.issues = s.issues
      /\ t.returns = s.returns + 1 /\ t.conjured = s.conjured + Shortfall(s, q)
      /\ t.movedQty = s.movedQty - q
      /\ t.value = s.value - c * ValuePerCent + Shortfall(s, q)
      /\ t.moved = s.moved - c * ValuePerCent
  BY <1>1 DEF Returned, Positions
<1>6. t \in Positions
  <2>1. t = [s EXCEPT !.qty = t.qty, !.value = t.value, !.movedQty = t.movedQty,
                      !.moved = t.moved, !.conjured = t.conjured, !.returns = t.returns]
    BY <1>1, <1>5 DEF Returned, Positions
  <2>2. t.qty \in Nat /\ t.value \in Nat /\ t.movedQty \in Int /\ t.moved \in Int
        /\ t.conjured \in Nat /\ t.returns \in Nat
    BY <1>1, <1>4, <1>5
  <2> HIDE DEF t
  <2>3. QED
    BY <1>1, <2>1, <2>2 DEF Positions
<1>7. Explained(t)
  BY <1>1, <1>4, <1>5 DEF Explained
<1>8. Tracks(t)
  <2>1. Slack(t) = Slack(s) + m
    BY <1>1, <1>5 DEF Slack
  <2>2. CASE t.value = s.value - c * ValuePerCent
    <3>1. Drift(t) - Drift(s) = q * s.wac - c * m
      BY <1>1, <1>3, <1>5, <2>2 DEF Drift
    <3> HIDE DEF t, c, m
    <3>2. QED
      BY <1>1, <1>2, <1>3, <1>6, <2>1, <3>1, TracksMeans, TracksStep DEF Sound
  <2>3. CASE t.value = 0 /\ s.value - c * ValuePerCent < 0
    <3>1. Drift(t) = -((s.qty - q) * s.wac)
      BY <1>1, <1>5, <2>3 DEF Drift
    <3>2. (s.qty - q) * s.wac \in Nat
      BY <1>1
    <3>3. (s.value - c * ValuePerCent) * RateScale <= 0
      BY <1>1, <1>4, <2>3
    <3>4. (s.value - c * ValuePerCent) * RateScale - (s.qty - q) * s.wac
             = Drift(s) + q * s.wac - c * m
      BY <1>1, <1>3 DEF Drift
    <3>5. (s.value - c * ValuePerCent) * RateScale \in Int /\ c * m \in Int
      BY <1>1, <1>2, <1>3, <1>4
    <3> DEFINE rest == (s.value - c * ValuePerCent) * RateScale
               left == (s.qty - q) * s.wac
               gone == q * s.wac
               taken == c * m
    <3>6. /\ rest \in Int /\ rest <= 0 /\ left \in Nat /\ gone \in Int /\ taken \in Int
          /\ m \in Int /\ Drift(t) = -left /\ rest - left = Drift(s) + gone - taken
          /\ 2 * (taken - gone) <= m
          /\ Drift(s) \in Int /\ Slack(s) \in Nat /\ -(2 * Drift(s)) <= Slack(s)
      BY <1>1, <1>2, <1>3, <3>1, <3>2, <3>3, <3>4, <3>5, TracksMeans DEF Sound
    <3> HIDE DEF t, c, m, rest, left, gone, taken
    <3>7. 2 * Drift(t) <= Slack(s) + m /\ -(2 * Drift(t)) <= Slack(s) + m
      BY <1>2, <3>6
    <3>8. QED
      BY <1>6, <2>1, <3>7, TracksMeans
  <2>4. QED
    BY <1>1, <1>4, <1>5, <2>2, <2>3
<1>9. QED
  BY <1>3, <1>6, <1>7, <1>8 DEF Sound

-----------------------------------------------------------------------------
(* The inductive invariant.                                                *)

AllSound(positions) ==
    /\ positions \in [Variants -> Positions]
    /\ \A v \in Variants : Sound(positions[v])

\* Both what is committed and what the transaction in progress sees is sound.
LedgerInv ==
    /\ TypeOK
    /\ AllSound(stock)
    /\ AllSound(draft.stock)
    /\ Len(receipts) <= Len(draft.receipts)

\* One position replaced by a sound one.
LEMMA PutSound ==
    ASSUME NEW positions, AllSound(positions), NEW v \in Variants, NEW s, Sound(s)
    PROVE  AllSound([positions EXCEPT ![v] = s])
  BY DEF AllSound, Sound

\* The draft of an idle system is the committed state.
LEMMA NoDraftSound ==
    ASSUME NEW positions, AllSound(positions), NEW r \in Seq(ReceiptLines)
    PROVE  /\ NoDraft(positions, r) \in Drafts
           /\ NoDraft(positions, r).stock = positions
           /\ NoDraft(positions, r).receipts = r
  BY DEF NoDraft, Drafts, Kinds, AllSound

\* An empty ledger is sound.
LEMMA InitLedgerInv == Init => LedgerInv
<1> SUFFICES ASSUME Init PROVE LedgerInv
  OBVIOUS
<1>1. NoStock \in Positions /\ Explained(NoStock)
  BY DEF NoStock, Positions, Explained, ZeroRule
<1>2. Tracks(NoStock)
  BY <1>1, TracksNothing DEF NoStock
<1>3. AllSound(stock)
  BY <1>1, <1>2 DEF Init, AllSound, Sound
<1>4. receipts \in Seq(ReceiptLines)
  BY DEF Init
<1>5. draft \in Drafts /\ draft.stock = stock /\ draft.receipts = receipts
  BY <1>3, <1>4, NoDraftSound DEF Init
<1>6. TypeOK
  BY <1>3, <1>4, <1>5 DEF Init, TypeOK, AllSound
<1>7. QED
  BY <1>3, <1>5, <1>6 DEF LedgerInv, Init

\* No line, posting or rollback breaks the ledger.
LEMMA NextLedgerInv == LedgerInv /\ [Next]_vars => LedgerInv'
<1> SUFFICES ASSUME LedgerInv, [Next]_vars PROVE LedgerInv'
  OBVIOUS
<1> USE DEF LedgerInv
<1>a. /\ stock \in [Variants -> Positions] /\ receipts \in Seq(ReceiptLines)
      /\ account \in Int /\ posted \in Nat /\ draft \in Drafts /\ refused \in Int
      /\ draft.stock \in [Variants -> Positions] /\ draft.receipts \in Seq(ReceiptLines)
      /\ draft.total \in Nat /\ draft.credit \in Nat /\ draft.lines \in Nat
      /\ Len(receipts) \in Nat /\ Len(draft.receipts) \in Nat
  BY DEF TypeOK, Drafts
<1>l. /\ \A i \in 1..Len(receipts) : receipts[i] \in ReceiptLines
      /\ \A i \in 1..Len(draft.receipts) : draft.receipts[i] \in ReceiptLines
  BY <1>a, ElementOfSeq
<1>q. /\ \A q \in Quantities : q \in Nat /\ q > 0
      /\ \A v \in Variants : Sound(stock[v]) /\ Sound(draft.stock[v])
      /\ \A s : Sound(s) => s \in Positions /\ s.qty \in Nat /\ s.value \in Nat /\ s.wac \in Nat
  BY DEF AllSound, Sound, Positions
\* Lines: only the draft changes, in one position.
<1>b. ASSUME UNCHANGED <<stock, receipts, account, posted, refused>>,
             draft' \in Drafts, AllSound(draft'.stock), Len(receipts) <= Len(draft'.receipts)
      PROVE  LedgerInv'
  BY <1>a, <1>b DEF TypeOK, AllSound, Sound
\* Postings and rollbacks: the draft is what is committed.
<1>c. ASSUME AllSound(stock'), receipts' \in Seq(ReceiptLines), account' \in Int,
             posted' \in Nat, refused' \in Int, draft' = NoDraft(stock', receipts')
      PROVE  LedgerInv'
  <2>1. draft' \in Drafts /\ draft'.stock = stock' /\ draft'.receipts = receipts'
    BY <1>c, NoDraftSound
  <2>2. TypeOK'
    BY <1>c, <2>1 DEF TypeOK, AllSound
  <2>3. Len(receipts') <= Len(draft'.receipts)
    BY <1>c, <2>1
  <2>4. AllSound(stock)' /\ AllSound(draft.stock)'
    BY <1>c, <2>1 DEF AllSound, Sound
  <2>5. QED
    BY <2>2, <2>3, <2>4
<1>1. ASSUME NEW v \in Variants, NEW q \in Quantities, SaleLine(v, q)
      PROVE  LedgerInv'
  <2> DEFINE s == draft.stock[v]
  <2>1. q \in Nat /\ Sound(s) /\ CanIssue(s, q)
    BY <1>1 DEF SaleLine, AllSound
  <2>2. Sound(Issued(s, q)) /\ Cost(q, s.wac) \in Nat
    BY <2>1, IssuedSound, CostBounds DEF Sound, Positions
  <2>3. AllSound([draft.stock EXCEPT ![v] = Issued(s, q)])
    BY <2>2, PutSound
  <2> DEFINE positions == [draft.stock EXCEPT ![v] = Issued(s, q)]
             total == draft.total + Cost(q, s.wac)
  <2>4. draft' = WithLine("sale", positions, draft.receipts, total, draft.credit)
    BY <1>1 DEF SaleLine
  <2>5. positions \in [Variants -> Positions] /\ total \in Nat /\ "sale" \in Kinds
    BY <1>a, <2>2, <2>3 DEF AllSound, Kinds
  <2> HIDE DEF positions, total
  <2>6. draft' \in Drafts /\ draft'.stock = positions /\ draft'.receipts = draft.receipts
    <3>1. draft.lines + 1 \in Nat
      BY <1>a
    <3>2. QED
      BY <1>a, <2>4, <2>5, <3>1 DEF WithLine, Drafts
  <2>7. QED
    BY <1>1, <1>b, <2>3, <2>6 DEF SaleLine, positions
<1>2. ASSUME NEW v \in Variants, NEW q \in Quantities, NEW f \in PackFactors, NEW c \in Costs,
             PurchaseLine(v, q, f, c)
      PROVE  LedgerInv'
  <2> DEFINE s == draft.stock[v]
             t == Received(s, q * f, c)
  <2>1. q * f \in Nat /\ c \in Nat /\ Sound(s) /\ s.qty \in Nat /\ s.qty + q * f > 0
    <3>1. q \in Nat \ {0} /\ f \in Nat \ {0}
      OBVIOUS
    <3>2. q * f \in Nat /\ q * f > 0
      BY <3>1
    <3>3. Sound(s) /\ s.qty \in Nat /\ c \in Nat
      BY <1>q
    <3> HIDE DEF s
    <3>4. QED
      BY <3>2, <3>3
  <2>2. AllSound([draft.stock EXCEPT ![v] = t])
    BY <2>1, ReceivedSound, PutSound
  <2>3. NewLine(v, q, f, c) \in ReceiptLines
    BY DEF NewLine, ReceiptLines
  <2>4. /\ Append(draft.receipts, NewLine(v, q, f, c)) \in Seq(ReceiptLines)
        /\ Len(Append(draft.receipts, NewLine(v, q, f, c))) = Len(draft.receipts) + 1
        /\ Len(draft.receipts) \in Nat
    BY <1>a, <2>3
  <2> DEFINE positions == [draft.stock EXCEPT ![v] = t]
             lines == Append(draft.receipts, NewLine(v, q, f, c))
  <2>5. draft' = WithLine("purchase", positions, lines, draft.total + c, draft.credit)
    BY <1>2 DEF PurchaseLine
  <2>6. positions \in [Variants -> Positions] /\ lines \in Seq(ReceiptLines)
        /\ draft.total + c \in Nat /\ "purchase" \in Kinds
    BY <1>a, <2>1, <2>2, <2>4 DEF AllSound, Kinds
  <2> HIDE DEF positions, lines
  <2>7. draft' \in Drafts /\ draft'.stock = positions /\ draft'.receipts = lines
    <3>1. draft.lines + 1 \in Nat
      BY <1>a
    <3>2. QED
      BY <1>a, <2>5, <2>6, <3>1 DEF WithLine, Drafts
  <2>8. QED
    BY <1>2, <1>a, <1>b, <2>2, <2>4, <2>7 DEF PurchaseLine, positions, lines
<1>3. ASSUME NEW r \in 1..Len(receipts), NEW q \in Quantities, ReturnLine(r, q)
      PROVE  LedgerInv'
  <2> DEFINE line == draft.receipts[r]
             n == q * line.factor
             s == draft.stock[line.variant]
             t == Returned(s, n)
  <2>1. r \in 1..Len(draft.receipts)
    BY <1>a
  <2>a. line \in ReceiptLines
    BY <2>1, <1>l
  <2>b. line.cost \in Nat /\ line.variant \in Variants /\ line.factor \in Nat
        /\ line.returned \in Nat /\ q \in Nat
    BY <2>a, <1>q DEF ReceiptLines
  <2>2. line.variant \in Variants /\ n \in Nat /\ line.returned + q \in Nat
    BY <2>b
  <2>c. CreditCents(line, q) \in Nat
    <3>1. line.cost * q \in Nat /\ line.units \in Nat \ {0}
      BY <2>a, <2>b DEF ReceiptLines
    <3> QED
      BY <3>1, RoundDivNat DEF CreditCents
  <2>3. Sound(s) /\ s.qty >= n /\ ZeroRule(t)
    BY <1>3, <2>2 DEF ReturnLine, AllSound
  <2>4. Sound(t) /\ ReturnCents(s, n) \in Nat
    BY <2>2, <2>3, ReturnedSound
  <2>5. AllSound([draft.stock EXCEPT ![line.variant] = t])
    BY <2>2, <2>4, PutSound
  <2>6. [line EXCEPT !.returned = @ + q] \in ReceiptLines
    BY <2>a, <2>2 DEF ReceiptLines
  <2>7. /\ [draft.receipts EXCEPT ![r] = [line EXCEPT !.returned = @ + q]] \in Seq(ReceiptLines)
        /\ Len([draft.receipts EXCEPT ![r] = [line EXCEPT !.returned = @ + q]])
             = Len(draft.receipts)
    BY <1>a, <2>1, <2>6, ExceptSeq
  <2> DEFINE positions == [draft.stock EXCEPT ![line.variant] = t]
             lines == [draft.receipts EXCEPT ![r] = [line EXCEPT !.returned = @ + q]]
             total == draft.total + ReturnCents(s, n)
             credit == draft.credit + CreditCents(line, q)
  <2>8. draft' = WithLine("return", positions, lines, total, credit)
    BY <1>3 DEF ReturnLine
  <2>9. positions \in [Variants -> Positions] /\ lines \in Seq(ReceiptLines)
        /\ total \in Nat /\ credit \in Nat /\ "return" \in Kinds
    <3>1. positions \in [Variants -> Positions] /\ "return" \in Kinds
      BY <2>5 DEF AllSound, Kinds
    <3> HIDE DEF n, s
    <3>2. total \in Nat
      BY <1>a, <2>4
    <3> HIDE DEF line
    <3>3. credit \in Nat
      BY <1>a, <2>c
    <3>4. QED
      BY <2>7, <3>1, <3>2, <3>3
  <2> HIDE DEF t, s, n, line, lines, positions, total, credit
  <2>10. /\ draft' \in Drafts /\ draft'.stock = positions /\ draft'.receipts = lines
    <3>1. draft.lines + 1 \in Nat
      BY <1>a
    <3>2. QED
      BY <2>8, <2>9, <3>1 DEF WithLine, Drafts
  <2>11. Len(receipts) <= Len(draft'.receipts)
    BY <1>a, <2>7, <2>10 DEF lines
  <2>12. QED
    BY <1>3, <1>b, <2>5, <2>10, <2>11 DEF ReturnLine, positions
<1>4. CASE PostSale \/ PostPurchase \/ PostReturn
  <2>1. PICK change \in Int : Commit(change)
    <3>1. Cents(draft.total) \in Nat
      BY <1>a, RoundDivNat DEF Cents
    <3>2. QED
      BY <1>4, <1>a, <3>1 DEF PostSale, PostPurchase, PostReturn
  <2>2. QED
    BY <1>a, <1>c, <2>1 DEF Commit
<1>5. CASE Rollback
  BY <1>5, <1>a, <1>c DEF Rollback
<1>6. ASSUME NEW v \in Variants, NEW q \in Quantities, RefuseResidual(v, q)
      PROVE  LedgerInv'
  <2>a. draft.stock[v].value \in Nat /\ draft.stock[v].wac \in Nat /\ q \in Nat
    BY <1>q
  <2>1. Rest(draft.stock[v], q) \in Int
    <3>1. Cost(q, draft.stock[v].wac) \in Nat
      BY <2>a, CostBounds
    <3>2. QED
      BY <2>a, <3>1 DEF Rest
  <2>2. QED
    BY <1>6, <1>a, <1>c, <2>1 DEF RefuseResidual
<1>7. ASSUME NEW v \in Variants, NEW q \in Quantities, WriteOff(v, q)
      PROVE  LedgerInv'
  <2>1. Sound(Issued(stock[v], q))
    BY <1>7, IssuedSound DEF WriteOff, AllSound
  <2>2. Cents(Cost(q, stock[v].wac)) \in Nat
    BY <1>a, CostBounds, RoundDivNat DEF Cents, Positions
  <2>3. AllSound(stock')
    BY <1>7, <2>1, PutSound DEF WriteOff, PostAlone
  <2>4. QED
    BY <1>7, <1>a, <1>c, <2>2, <2>3 DEF WriteOff, PostAlone
<1>8. ASSUME NEW v \in Variants, NEW q \in Quantities, FoundStock(v, q)
      PROVE  LedgerInv'
  <2>1. Sound(Found(stock[v], q))
    BY <1>8, FoundSound DEF FoundStock, AllSound
  <2>2. Cents(Cost(q, stock[v].wac)) \in Nat
    BY <1>a, CostBounds, RoundDivNat DEF Cents, Positions
  <2>3. AllSound(stock')
    BY <1>8, <2>1, PutSound DEF FoundStock, PostAlone
  <2>4. QED
    BY <1>8, <1>a, <1>c, <2>2, <2>3 DEF FoundStock, PostAlone
<1>9. ASSUME NEW r \in 1..Len(receipts), NEW cost \in Costs, LandCost(r, cost)
      PROVE  LedgerInv'
  <2> DEFINE line == receipts[r]
             s == stock[line.variant]
             share == IF s.qty > 0 THEN RemainingShare(line, s.qty, cost) ELSE 0
             t == IF s.qty > 0 THEN Received(s, 0, share) ELSE s
             landed == [line EXCEPT !.landed = cost, !.share = share, !.onHand = s.qty]
  <2>1. line \in ReceiptLines /\ line.variant \in Variants /\ line.units \in Nat \ {0}
        /\ cost \in Nat
    BY <1>l DEF ReceiptLines
  <2>2. Sound(s) /\ s.qty \in Nat
    BY <1>q, <2>1
  <2>3. share \in Nat
    <3>1. cost * Lesser(s.qty, line.units) \in Nat
      BY <2>1, <2>2 DEF Lesser
    <3>2. QED
      BY <2>1, <3>1, RoundDivNat DEF RemainingShare
  <2>4. Sound(t)
    BY <2>2, <2>3, ReceivedSound
  <2>5. landed \in ReceiptLines
    BY <2>1, <2>2, <2>3 DEF ReceiptLines
  <2>6. stock' = [stock EXCEPT ![line.variant] = t]
    BY <1>9 DEF LandCost, PostAlone
  <2>7. receipts' = [receipts EXCEPT ![r] = landed]
    BY <1>9 DEF LandCost
  <2>8. account' = account + share /\ posted' = posted + 1 /\ refused' = 0
        /\ draft' = NoDraft(stock', receipts')
    BY <1>9 DEF LandCost, PostAlone
  <2> HIDE DEF share, t, landed, s, line
  <2>9. AllSound(stock')
    BY <2>1, <2>4, <2>6, PutSound
  <2>10. receipts' \in Seq(ReceiptLines)
    BY <1>a, <2>5, <2>7, ExceptSeq
  <2>11. QED
    BY <1>a, <1>c, <2>3, <2>8, <2>9, <2>10
<1>10. CASE UNCHANGED vars
  BY <1>10, <1>a, <1>b DEF vars
<1>11. QED
  BY <1>1, <1>2, <1>3, <1>4, <1>5, <1>6, <1>7, <1>8, <1>9, <1>10 DEF Next

\* LedgerInv holds of every state the postings reach.
THEOREM LedgerInvariant == Spec => []LedgerInv
<1>1. QED
  BY InitLedgerInv, NextLedgerInv, PTL DEF Spec

-----------------------------------------------------------------------------
(* The INVENTORY account.                                                  *)

Between(x, n) == -n <= x /\ x <= n

\* The value the transaction in progress takes out of the stock and will
\* take off the account.
Owed(d) ==
    IF d.kind = "sale" THEN d.total
    ELSE IF d.kind = "purchase" THEN -(d.total * ValuePerCent)
    ELSE IF d.kind = "return" THEN d.total * ValuePerCent
    ELSE 0

\* What a draft did to the value of the stock, but for residuals and clamps,
\* is what it will post.
DraftTracks ==
    /\ draft.kind = "none" => draft.total = 0
    /\ Between(StockValue(draft.stock) - StockValue(stock) + Owed(draft),
               Unposted(draft.stock) - Unposted(stock))

AccountInv == DraftTracks /\ AccountTracksStock

\* Both sums are integers.
LEMMA StockSums ==
    ASSUME NEW positions \in [Variants -> Positions]
    PROVE  StockValue(positions) \in Int /\ Unposted(positions) \in Int
<1> DEFINE f == [v \in Variants |-> positions[v].value]
           g == [v \in Variants |-> positions[v].cleared + positions[v].conjured]
<1>1. \A v \in Variants : f[v] \in Int /\ g[v] \in Int
  BY DEF Positions
<1>2. SumFunctionOnSet(f, Variants) \in Int /\ SumFunctionOnSet(g, Variants) \in Int
  <2> HIDE DEF f, g
  <2> QED
    BY <1>1, VariantsAssumption, SumType
<1>3. DOMAIN f = Variants /\ DOMAIN g = Variants
  OBVIOUS
<1> QED
  BY <1>2, <1>3 DEF StockValue, Unposted, SumFunction

\* One position replaced changes the sums by what it changes itself.
LEMMA StockSumsChange ==
    ASSUME NEW positions \in [Variants -> Positions], NEW z \in Variants,
           NEW t \in Positions
    PROVE  LET s == positions[z]
               after == [positions EXCEPT ![z] = t]
           IN  /\ StockValue(after) = StockValue(positions) + t.value - s.value
               /\ Unposted(after) = Unposted(positions) + (t.cleared + t.conjured)
                                                        - (s.cleared + s.conjured)
<1> DEFINE after == [positions EXCEPT ![z] = t]
           Value(p) == [v \in Variants |-> p[v].value]
           Rounded(p) == [v \in Variants |-> p[v].cleared + p[v].conjured]
<1>1. /\ \A v \in Variants : Value(positions)[v] \in Int /\ Rounded(positions)[v] \in Int
      /\ Value(after)[z] = t.value /\ Rounded(after)[z] = t.cleared + t.conjured
      /\ t.value \in Int /\ t.cleared + t.conjured \in Int
      /\ \A v \in Variants \ {z} : /\ Value(after)[v] = Value(positions)[v]
                                   /\ Rounded(after)[v] = Rounded(positions)[v]
  BY DEF Positions
<1>2. /\ Value(positions)[z] = positions[z].value
      /\ Rounded(positions)[z] = positions[z].cleared + positions[z].conjured
  OBVIOUS
<1>3. \A p : /\ StockValue(p) = SumFunctionOnSet(Value(p), Variants)
             /\ Unposted(p) = SumFunctionOnSet(Rounded(p), Variants)
  BY DEF StockValue, Unposted, SumFunction
<1> HIDE DEF Value, Rounded, after
<1>4. SumFunctionOnSet(Value(after), Variants)
        = SumFunctionOnSet(Value(positions), Variants) + t.value - positions[z].value
  BY <1>1, <1>2, VariantsAssumption, SumChanges
<1>5. SumFunctionOnSet(Rounded(after), Variants)
        = SumFunctionOnSet(Rounded(positions), Variants) + (t.cleared + t.conjured)
             - (positions[z].cleared + positions[z].conjured)
  BY <1>1, <1>2, VariantsAssumption, SumChanges
<1> QED
  BY <1>3, <1>4, <1>5 DEF after

\* How far a change of a position's value is from what it gives up, and how
\* much of that is recorded as cleared or clamped.
Books(s, t, owed) ==
    Between(t.value - s.value + owed,
            (t.cleared + t.conjured) - (s.cleared + s.conjured))

\* A sale line or a write-off gives up the cost at the average.
LEMMA IssuedBooks ==
    ASSUME NEW s \in Positions, NEW q \in Nat, CanIssue(s, q)
    PROVE  Books(s, Issued(s, q), Cost(q, s.wac))
<1> DEFINE t == Issued(s, q)
           r == Residual(s, q)
           c == Cost(q, s.wac)
<1>1. /\ s.value \in Nat /\ s.cleared \in Nat /\ s.conjured \in Nat /\ s.qty \in Nat
      /\ c \in Nat
  BY CostBounds DEF Positions
<1>2. r \in Int
  BY <1>1 DEF Residual, Rest
<1>3. /\ t.value = s.value - c - r
      /\ t.cleared = s.cleared + Abs(r)
      /\ t.conjured = s.conjured
  BY DEF Issued, Rest, Positions
<1> HIDE DEF t, r, c
<1>4. Abs(r) \in Int /\ r <= Abs(r) /\ -r <= Abs(r)
  BY <1>2 DEF Abs
<1>5. Books(s, t, c)
  BY <1>1, <1>2, <1>3, <1>4 DEF Books, Between
<1> QED
  BY <1>5 DEF t, c

\* A count that finds stock takes in the cost at the average.
LEMMA FoundBooks ==
    ASSUME NEW s \in Positions, NEW q \in Nat
    PROVE  Books(s, Found(s, q), -Cost(q, s.wac))
<1> DEFINE t == Found(s, q)
           c == Cost(q, s.wac)
<1>1. s.value \in Nat /\ s.cleared \in Nat /\ s.conjured \in Nat /\ c \in Nat
  BY CostBounds DEF Positions
<1>2. t.value = s.value + c /\ t.cleared = s.cleared /\ t.conjured = s.conjured
  BY DEF Found, Positions
<1> HIDE DEF t, c
<1>3. Books(s, t, -c)
  BY <1>1, <1>2 DEF Books, Between
<1> QED
  BY <1>3 DEF t, c

\* A purchase line or a late cost takes in its centimes.
LEMMA ReceivedBooks ==
    ASSUME NEW s \in Positions, NEW q \in Nat, NEW cents \in Nat
    PROVE  Books(s, Received(s, q, cents), -(cents * ValuePerCent))
<1> DEFINE t == Received(s, q, cents)
           c == cents * ValuePerCent
<1>1. s.value \in Nat /\ s.cleared \in Nat /\ s.conjured \in Nat /\ c \in Nat
  BY DEF Positions
<1>2. t.value = s.value + c /\ t.cleared = s.cleared /\ t.conjured = s.conjured
  BY DEF Received, Positions
<1> HIDE DEF t, c
<1>3. Books(s, t, -c)
  BY <1>1, <1>2 DEF Books, Between
<1> QED
  BY <1>3 DEF t, c

\* A supplier return gives up its centimes, but for the clamp.
LEMMA ReturnedBooks ==
    ASSUME NEW s \in Positions, NEW q \in Nat, ReturnCents(s, q) \in Nat
    PROVE  Books(s, Returned(s, q), ReturnCents(s, q) * ValuePerCent)
<1> DEFINE t == Returned(s, q)
           c == ReturnCents(s, q) * ValuePerCent
           w == Shortfall(s, q)
<1>1. s.value \in Nat /\ s.cleared \in Nat /\ s.conjured \in Nat /\ c \in Nat
  BY DEF Positions
<1>2. w \in Nat
  <2> HIDE DEF c
  <2>1. w = IF s.value - c < 0 THEN -(s.value - c) ELSE 0
    BY DEF Shortfall, c
  <2> QED
    BY <1>1, <2>1
<1>3. t.value = s.value - c + w /\ t.cleared = s.cleared /\ t.conjured = s.conjured + w
  BY DEF Returned, Positions
<1> HIDE DEF t, c, w
<1>4. Books(s, t, c)
  BY <1>1, <1>2, <1>3 DEF Books, Between
<1> QED
  BY <1>4 DEF t, c

\* What a draft owes is an integer.
LEMMA OwedType ==
    ASSUME NEW d, d.total \in Nat
    PROVE  Owed(d) \in Int
  BY d.total * ValuePerCent \in Int DEF Owed

\* A line that owes what it does to its position keeps the draft in step.
LEMMA LineTracks ==
    ASSUME LedgerInv, DraftTracks, NEW v \in Variants, NEW t \in Positions,
           draft' \in Drafts,
           draft'.kind # "none",
           draft'.stock = [draft.stock EXCEPT ![v] = t],
           Books(draft.stock[v], t, Owed(draft') - Owed(draft)),
           UNCHANGED <<stock, account, posted>>
    PROVE  AccountTracksStock => AccountInv'
<1> DEFINE s == draft.stock[v]
           O == Owed(draft)
           P == Owed(draft')
<1>1. /\ stock \in [Variants -> Positions] /\ draft.stock \in [Variants -> Positions]
      /\ draft.total \in Nat /\ draft'.total \in Nat
  BY DEF LedgerInv, TypeOK, Drafts
<1>2. /\ StockValue(stock) \in Int /\ Unposted(stock) \in Int
      /\ StockValue(draft.stock) \in Int /\ Unposted(draft.stock) \in Int
      /\ O \in Int /\ P \in Int
  BY <1>1, StockSums, OwedType
<1>3. /\ s.value \in Int /\ s.cleared \in Int /\ s.conjured \in Int
      /\ t.value \in Int /\ t.cleared \in Int /\ t.conjured \in Int
  BY <1>1 DEF Positions
<1>4. /\ StockValue(draft'.stock) = StockValue(draft.stock) + t.value - s.value
      /\ Unposted(draft'.stock) = Unposted(draft.stock) + (t.cleared + t.conjured)
                                                        - (s.cleared + s.conjured)
  BY <1>1, StockSumsChange
<1>5. Between(StockValue(draft.stock) - StockValue(stock) + O,
              Unposted(draft.stock) - Unposted(stock))
  BY DEF DraftTracks
<1>6. Books(s, t, P - O)
  OBVIOUS
<1> HIDE DEF s, O, P
<1>7. Between(StockValue(draft'.stock) - StockValue(stock) + P,
              Unposted(draft'.stock) - Unposted(stock))
  BY <1>2, <1>3, <1>4, <1>5, <1>6 DEF Between, Books
<1>8. DraftTracks'
  BY <1>7 DEF DraftTracks, P
<1> QED
  BY <1>8 DEF AccountInv, AccountTracksStock

\* A draft that is what is committed owes nothing.
LEMMA IdleTracks ==
    ASSUME NEW positions \in [Variants -> Positions], NEW r,
           draft' = NoDraft(positions, r), stock' = positions
    PROVE  DraftTracks'
<1>1. draft'.kind = "none" /\ draft'.total = 0 /\ draft'.stock = positions
  BY DEF NoDraft
<1>2. Owed(draft') = 0
  BY <1>1 DEF Owed
<1>3. StockValue(positions) \in Int /\ Unposted(positions) \in Int
  BY StockSums
<1>4. Between(StockValue(draft'.stock) - StockValue(stock') + Owed(draft'),
              Unposted(draft'.stock) - Unposted(stock'))
  BY <1>1, <1>2, <1>3 DEF Between
<1> QED
  BY <1>1, <1>4 DEF DraftTracks

\* A change of the account, in centimes, is what is owed to half a centime.
Rounds(change, owed) == Between(2 * (change * ValuePerCent + owed), ValuePerCent)

\* A document that changes the account by what it takes from the stock, to
\* half a centime, keeps the two in step.
LEMMA PostingTracks ==
    ASSUME LedgerInv, AccountTracksStock, NEW change \in Int, NEW owed \in Int,
           NEW positions \in [Variants -> Positions],
           stock' = positions, account' = account + change, posted' = posted + 1,
           Rounds(change, owed),
           Between(StockValue(positions) - StockValue(stock) + owed,
                   Unposted(positions) - Unposted(stock))
    PROVE  AccountTracksStock'
<1> DEFINE A == account * ValuePerCent
           C == change * ValuePerCent
           N == ValuePerCent * posted
           V == StockValue(stock)
           W == StockValue(positions)
           U == Unposted(stock)
           X == Unposted(positions)
<1>1. /\ stock \in [Variants -> Positions] /\ account \in Int /\ posted \in Nat
      /\ ValuePerCent \in Nat
  BY DEF LedgerInv, TypeOK
<1>2. V \in Int /\ U \in Int /\ W \in Int /\ X \in Int
  BY <1>1, StockSums
<1>3. A \in Int /\ C \in Int /\ N \in Int
  BY <1>1
<1>4. account' * ValuePerCent = A + C
  BY <1>1
<1>5. ValuePerCent * posted' = N + ValuePerCent
  BY <1>1
<1>6. 2 * Abs(A - V) <= N + 2 * U
  BY DEF AccountTracksStock
<1>7. Between(2 * (C + owed), ValuePerCent) /\ Between(W - V + owed, X - U)
  BY DEF Rounds
<1> HIDE DEF A, C, N, V, W, U, X
<1>8. 2 * (A - V) <= N + 2 * U /\ -(2 * (A - V)) <= N + 2 * U
  BY <1>2, <1>3, <1>6 DEF Abs
<1>9. 2 * (A + C - W) <= N + ValuePerCent + 2 * X
      /\ -(2 * (A + C - W)) <= N + ValuePerCent + 2 * X
  BY <1>1, <1>2, <1>3, <1>7, <1>8 DEF Between
<1>10. 2 * Abs(A + C - W) <= N + ValuePerCent + 2 * X
  BY <1>1, <1>2, <1>3, <1>9 DEF Abs
<1>11. W = StockValue(stock') /\ X = Unposted(stock')
  BY DEF W, X
<1> QED
  BY <1>1, <1>2, <1>3, <1>4, <1>5, <1>10, <1>11 DEF AccountTracksStock

\* A document of one line.
LEMMA AloneTracks ==
    ASSUME LedgerInv, AccountTracksStock, NEW change \in Int, NEW owed \in Int,
           NEW v \in Variants, NEW t \in Positions, NEW r,
           stock' = [stock EXCEPT ![v] = t], account' = account + change,
           posted' = posted + 1, draft' = NoDraft(stock', r),
           Rounds(change, owed),
           Books(stock[v], t, owed)
    PROVE  AccountInv'
<1> DEFINE positions == [stock EXCEPT ![v] = t]
           s == stock[v]
<1>1. stock \in [Variants -> Positions] /\ positions \in [Variants -> Positions]
  BY DEF LedgerInv, TypeOK
<1>2. /\ StockValue(positions) = StockValue(stock) + t.value - s.value
      /\ Unposted(positions) = Unposted(stock) + (t.cleared + t.conjured)
                                               - (s.cleared + s.conjured)
  BY <1>1, StockSumsChange
<1>3. /\ s.value \in Int /\ s.cleared \in Int /\ s.conjured \in Int
      /\ t.value \in Int /\ t.cleared \in Int /\ t.conjured \in Int
      /\ StockValue(stock) \in Int /\ Unposted(stock) \in Int
  BY <1>1, StockSums DEF Positions
<1>4. Books(s, t, owed) /\ stock' = positions
  OBVIOUS
<1> HIDE DEF s, positions
<1>5. Between(StockValue(positions) - StockValue(stock) + owed,
              Unposted(positions) - Unposted(stock))
  BY <1>2, <1>3, <1>4 DEF Between, Books
<1>6. AccountTracksStock'
  BY <1>1, <1>4, <1>5, PostingTracks
<1>7. DraftTracks'
  BY <1>1, <1>4, IdleTracks
<1> QED
  BY <1>6, <1>7 DEF AccountInv

\* The centimes of a value are within half a centime of it.
LEMMA CentsBounds ==
    ASSUME NEW n \in Nat
    PROVE  /\ Cents(n) \in Nat
           /\ Rounds(-Cents(n), n)
           /\ Rounds(Cents(n), -n)
<1> DEFINE c == Cents(n)
           p == c * ValuePerCent
<1>1. /\ c \in Nat
      /\ 2 * (c * ValuePerCent - n) <= ValuePerCent
      /\ 2 * (n - c * ValuePerCent) <= ValuePerCent
  BY RoundDivNat DEF Cents
<1>2. p \in Nat /\ -c * ValuePerCent = -p
  BY <1>1
<1>3. 2 * (p - n) <= ValuePerCent /\ 2 * (n - p) <= ValuePerCent
  BY <1>1
<1> HIDE DEF p
<1>4. Between(2 * (-p + n), ValuePerCent) /\ Between(2 * (p + -n), ValuePerCent)
  BY <1>2, <1>3 DEF Between
<1> QED
  BY <1>1, <1>2, <1>4 DEF p, Rounds

\* Whole centimes round to themselves.
LEMMA ExactlyRounds ==
    ASSUME NEW n \in Nat
    PROVE  Rounds(n, -(n * ValuePerCent)) /\ Rounds(-n, n * ValuePerCent)
<1> DEFINE p == n * ValuePerCent
<1>1. p \in Int /\ -n * ValuePerCent = -p
  OBVIOUS
<1> HIDE DEF p
<1>2. Between(2 * (p + -p), ValuePerCent) /\ Between(2 * (-p + p), ValuePerCent)
  BY <1>1 DEF Between
<1> QED
  BY <1>1, <1>2 DEF p, Rounds

\* Nothing is posted and nothing is in stock.
LEMMA InitAccountInv == Init => AccountInv
<1> SUFFICES ASSUME Init PROVE AccountInv
  OBVIOUS
<1>1. stock \in [Variants -> Positions]
  BY InitLedgerInv DEF LedgerInv, TypeOK
<1>2. draft.stock = stock /\ draft.total = 0 /\ draft.kind = "none"
  BY DEF Init, NoDraft
<1>3. Owed(draft) = 0
  BY <1>2 DEF Owed
<1>4. StockValue(stock) \in Int /\ Unposted(stock) \in Int
  BY <1>1, StockSums
<1>5. DraftTracks
  BY <1>2, <1>3, <1>4 DEF DraftTracks, Between
<1> DEFINE f == [v \in Variants |-> stock[v].value]
           g == [v \in Variants |-> stock[v].cleared + stock[v].conjured]
<1>6. \A v \in Variants : f[v] = 0 /\ g[v] = 0
  BY DEF Init, NoStock
<1>7. SumFunction(f) = 0 /\ SumFunction(g) = 0
  <2>1. DOMAIN f = Variants /\ DOMAIN g = Variants
    OBVIOUS
  <2> HIDE DEF f, g
  <2>2. SumFunctionOnSet(f, Variants) = 0 /\ SumFunctionOnSet(g, Variants) = 0
    BY <1>6, VariantsAssumption, SumOfZeros
  <2> QED
    BY <2>1, <2>2 DEF SumFunction
<1>8. StockValue(stock) = 0 /\ Unposted(stock) = 0
  BY <1>7 DEF StockValue, Unposted
<1>9. AccountTracksStock
  BY <1>8 DEF AccountTracksStock, Init, Abs
<1> QED
  BY <1>5, <1>9 DEF AccountInv

\* No line, posting or rollback takes the account away from the stock.
LEMMA NextAccountInv == LedgerInv /\ LedgerInv' /\ AccountInv /\ [Next]_vars => AccountInv'
<1> SUFFICES ASSUME LedgerInv, LedgerInv', AccountInv, [Next]_vars PROVE AccountInv'
  OBVIOUS
<1>a. /\ stock \in [Variants -> Positions] /\ receipts \in Seq(ReceiptLines)
      /\ account \in Int /\ posted \in Nat /\ draft \in Drafts
      /\ draft.stock \in [Variants -> Positions] /\ draft.receipts \in Seq(ReceiptLines)
      /\ draft.total \in Nat /\ draft.credit \in Nat /\ draft.lines \in Nat
      /\ Len(receipts) \in Nat /\ Len(receipts) <= Len(draft.receipts)
      /\ DraftTracks /\ AccountTracksStock
      /\ stock' \in [Variants -> Positions] /\ draft' \in Drafts
  BY DEF LedgerInv, TypeOK, Drafts, AccountInv
<1>q. /\ \A q \in Quantities : q \in Nat /\ q > 0
      /\ \A v \in Variants : /\ stock[v] \in Positions /\ Sound(stock[v])
                             /\ draft.stock[v] \in Positions /\ Sound(draft.stock[v])
      /\ \A s \in Positions : s.qty \in Nat /\ s.value \in Nat /\ s.wac \in Nat
  BY DEF LedgerInv, AllSound, Sound, Positions
<1>1. ASSUME NEW v \in Variants, NEW q \in Quantities, SaleLine(v, q)
      PROVE  AccountInv'
  <2> DEFINE s == draft.stock[v]
             c == Cost(q, s.wac)
             t == Issued(s, q)
  <2>1. s \in Positions /\ CanIssue(s, q) /\ Sound(s) /\ q \in Nat
    BY <1>1, <1>q DEF SaleLine
  <2>2. Books(s, t, c) /\ t \in Positions /\ c \in Nat
    BY <1>q, <2>1, IssuedBooks, IssuedSound, CostBounds DEF Sound
  <2>3. /\ draft'.kind = "sale" /\ draft'.total = draft.total + c
        /\ draft'.stock = [draft.stock EXCEPT ![v] = t]
        /\ draft.kind \in {"none", "sale"}
        /\ UNCHANGED <<stock, account, posted>>
    BY <1>1 DEF SaleLine, WithLine, Continues
  <2> HIDE DEF s, c, t
  <2>4. Owed(draft') - Owed(draft) = c
    <3>1. Owed(draft') = draft.total + c
      BY <2>3 DEF Owed
    <3>2. Owed(draft) = draft.total
      BY <1>a, <2>3 DEF Owed, DraftTracks
    <3> QED
      BY <1>a, <2>2, <3>1, <3>2
  <2> QED
    BY <1>a, <2>2, <2>3, <2>4, LineTracks DEF s
<1>2. ASSUME NEW v \in Variants, NEW q \in Quantities, NEW f \in PackFactors, NEW c \in Costs,
             PurchaseLine(v, q, f, c)
      PROVE  AccountInv'
  <2> DEFINE s == draft.stock[v]
             t == Received(s, q * f, c)
  <2>1. q * f \in Nat /\ q * f > 0 /\ c \in Nat
    <3>1. q \in Nat \ {0} /\ f \in Nat \ {0}
      OBVIOUS
    <3> QED
      BY <3>1
  <2>2. s \in Positions /\ Sound(s) /\ s.qty \in Nat /\ s.qty + q * f > 0
    <3>1. s \in Positions /\ Sound(s) /\ s.qty \in Nat
      BY <1>q
    <3> HIDE DEF s
    <3> QED
      BY <2>1, <3>1
  <2>3. Books(s, t, -(c * ValuePerCent)) /\ t \in Positions
    BY <2>1, <2>2, ReceivedBooks, ReceivedSound DEF Sound
  <2>4. /\ draft'.kind = "purchase" /\ draft'.total = draft.total + c
        /\ draft'.stock = [draft.stock EXCEPT ![v] = t]
        /\ draft.kind \in {"none", "purchase"}
        /\ UNCHANGED <<stock, account, posted>>
    BY <1>2 DEF PurchaseLine, WithLine, Continues
  <2> HIDE DEF s, t
  <2>5. Owed(draft') - Owed(draft) = -(c * ValuePerCent)
    <3>1. Owed(draft') = -((draft.total + c) * ValuePerCent)
      BY <2>4 DEF Owed
    <3>2. Owed(draft) = -(draft.total * ValuePerCent)
      <4>1. draft.kind = "none" => draft.total = 0 /\ draft.total * ValuePerCent = 0
        BY <1>a DEF DraftTracks
      <4> QED
        BY <2>4, <4>1 DEF Owed
    <3>3. (draft.total + c) * ValuePerCent = draft.total * ValuePerCent + c * ValuePerCent
      BY <1>a, <2>1
    <3>4. draft.total * ValuePerCent \in Int /\ c * ValuePerCent \in Int
      BY <1>a, <2>1
    <3> QED
      BY <3>1, <3>2, <3>3, <3>4
  <2> QED
    BY <1>a, <2>3, <2>4, <2>5, LineTracks DEF s
<1>3. ASSUME NEW r \in 1..Len(receipts), NEW q \in Quantities, ReturnLine(r, q)
      PROVE  AccountInv'
  <2> DEFINE line == draft.receipts[r]
             n == q * line.factor
             s == draft.stock[line.variant]
             t == Returned(s, n)
             c == ReturnCents(s, n)
  <2>1. line \in ReceiptLines
    BY <1>a, ElementOfSeq
  <2>2. line.variant \in Variants /\ n \in Nat
    BY <2>1, <1>q DEF ReceiptLines
  <2>3. s \in Positions /\ Sound(s) /\ s.qty >= n /\ ZeroRule(t)
    BY <1>3, <1>q, <2>2 DEF ReturnLine
  <2>4. Sound(t) /\ c \in Nat
    BY <2>2, <2>3, ReturnedSound
  <2>5. Books(s, t, c * ValuePerCent) /\ t \in Positions
    BY <2>2, <2>3, <2>4, ReturnedBooks DEF Sound
  <2>6. /\ draft'.kind = "return" /\ draft'.total = draft.total + c
        /\ draft'.stock = [draft.stock EXCEPT ![line.variant] = t]
        /\ draft.kind \in {"none", "return"}
        /\ UNCHANGED <<stock, account, posted>>
    BY <1>3 DEF ReturnLine, WithLine, Continues
  <2> HIDE DEF line, n, s, t, c
  <2>7. Owed(draft') - Owed(draft) = c * ValuePerCent
    <3>1. Owed(draft') = (draft.total + c) * ValuePerCent
      BY <2>6 DEF Owed
    <3>2. Owed(draft) = draft.total * ValuePerCent
      BY <1>a, <2>6 DEF Owed, DraftTracks
    <3>3. (draft.total + c) * ValuePerCent = draft.total * ValuePerCent + c * ValuePerCent
      BY <1>a, <2>4
    <3>4. draft.total * ValuePerCent \in Int /\ c * ValuePerCent \in Int
      BY <1>a, <2>4
    <3> QED
      BY <3>1, <3>2, <3>3, <3>4
  <2> QED
    BY <1>a, <2>2, <2>5, <2>6, <2>7, LineTracks DEF s
<1>4. ASSUME NEW change \in Int, Commit(change), Rounds(change, Owed(draft))
      PROVE  AccountInv'
  <2>1. /\ stock' = draft.stock /\ account' = account + change /\ posted' = posted + 1
        /\ draft' = NoDraft(draft.stock, draft.receipts)
    BY <1>4 DEF Commit
  <2>2. AccountTracksStock'
    BY <1>4, <1>a, <2>1, OwedType, PostingTracks DEF DraftTracks
  <2>3. DraftTracks'
    BY <1>a, <2>1, IdleTracks
  <2> QED
    BY <2>2, <2>3 DEF AccountInv
<1>5. CASE PostSale
  <2>1. Owed(draft) = draft.total
    BY <1>5 DEF PostSale, Owed
  <2>2. Cents(draft.total) \in Nat
        /\ Rounds(-Cents(draft.total), draft.total)
    BY <1>a, CentsBounds
  <2> QED
    BY <1>4, <1>5, <2>1, <2>2 DEF PostSale
<1>6. CASE PostPurchase
  <2>1. Owed(draft) = -(draft.total * ValuePerCent)
    BY <1>6 DEF PostPurchase, Owed
  <2>2. Rounds(draft.total, -(draft.total * ValuePerCent))
    BY <1>a, ExactlyRounds
  <2> QED
    BY <1>4, <1>6, <1>a, <2>1, <2>2 DEF PostPurchase
<1>7. CASE PostReturn
  <2>1. Owed(draft) = draft.total * ValuePerCent
    BY <1>7 DEF PostReturn, Owed
  <2>2. Rounds(-draft.total, draft.total * ValuePerCent)
    BY <1>a, ExactlyRounds
  <2> QED
    BY <1>4, <1>7, <1>a, <2>1, <2>2 DEF PostReturn
<1>8. ASSUME UNCHANGED <<stock, account, posted>>, NEW r, draft' = NoDraft(stock, r)
      PROVE  AccountInv'
  <2>1. DraftTracks'
    BY <1>8, <1>a, IdleTracks
  <2> QED
    BY <1>8, <1>a, <2>1 DEF AccountInv, AccountTracksStock
<1>9. ASSUME NEW v \in Variants, NEW q \in Quantities, WriteOff(v, q)
      PROVE  AccountInv'
  <2> DEFINE s == stock[v]
             c == Cost(q, s.wac)
             t == Issued(s, q)
  <2>1. s \in Positions /\ CanIssue(s, q) /\ Sound(s) /\ q \in Nat
    BY <1>9, <1>q DEF WriteOff
  <2>2. Books(s, t, c) /\ t \in Positions /\ c \in Nat
    BY <1>q, <2>1, IssuedBooks, IssuedSound, CostBounds DEF Sound
  <2>3. /\ stock' = [stock EXCEPT ![v] = t] /\ account' = account + (-Cents(c))
        /\ posted' = posted + 1 /\ draft' = NoDraft(stock', receipts)
    BY <1>9 DEF WriteOff, PostAlone
  <2> HIDE DEF s, c, t
  <2> DEFINE change == -Cents(c)
  <2>4. change \in Int /\ c \in Int /\ Rounds(change, c) /\ account' = account + change
    BY <2>2, <2>3, CentsBounds
  <2> HIDE DEF change
  <2> QED
    BY <1>a, <2>2, <2>3, <2>4, AloneTracks DEF s
<1>10. ASSUME NEW v \in Variants, NEW q \in Quantities, FoundStock(v, q)
       PROVE  AccountInv'
  <2> DEFINE s == stock[v]
             c == Cost(q, s.wac)
             t == Found(s, q)
  <2>1. s \in Positions /\ CanFind(s) /\ Sound(s) /\ q \in Nat /\ q > 0
    BY <1>10, <1>q DEF FoundStock
  <2>2. Books(s, t, -c) /\ t \in Positions /\ c \in Nat
    BY <1>q, <2>1, FoundBooks, FoundSound, CostBounds DEF Sound
  <2>3. /\ stock' = [stock EXCEPT ![v] = t] /\ account' = account + Cents(c)
        /\ posted' = posted + 1 /\ draft' = NoDraft(stock', receipts)
    BY <1>10 DEF FoundStock, PostAlone
  <2> HIDE DEF s, c, t
  <2>4. Cents(c) \in Int /\ -c \in Int /\ Rounds(Cents(c), -c)
    BY <2>2, CentsBounds
  <2> QED
    BY <1>a, <2>2, <2>3, <2>4, AloneTracks DEF s
<1>11. ASSUME NEW r \in 1..Len(receipts), NEW cost \in Costs, LandCost(r, cost)
       PROVE  AccountInv'
  <2> DEFINE line == receipts[r]
             s == stock[line.variant]
             share == IF s.qty > 0 THEN RemainingShare(line, s.qty, cost) ELSE 0
             t == IF s.qty > 0 THEN Received(s, 0, share) ELSE s
  <2>1. line \in ReceiptLines /\ line.variant \in Variants /\ line.units \in Nat \ {0}
        /\ cost \in Nat
    <3>1. line \in ReceiptLines
      BY <1>a, ElementOfSeq
    <3> QED
      BY <3>1 DEF ReceiptLines
  <2>2. s \in Positions /\ Sound(s) /\ s.qty \in Nat
    BY <1>q, <2>1
  <2>3. share \in Nat
    <3>1. cost * Lesser(s.qty, line.units) \in Nat
      BY <2>1, <2>2 DEF Lesser
    <3>2. QED
      BY <2>1, <3>1, RoundDivNat DEF RemainingShare
  <2>4. Books(s, t, -(share * ValuePerCent)) /\ t \in Positions
    <3>1. CASE s.qty > 0
      <4> HIDE DEF share, s
      <4>1. t = Received(s, 0, share)
        BY <3>1
      <4>2. Sound(t)
        BY <2>2, <2>3, <3>1, <4>1, ReceivedSound
      <4> QED
        BY <2>2, <2>3, <4>1, <4>2, ReceivedBooks DEF Sound
    <3>2. CASE ~(s.qty > 0)
      <4>1. share = 0 /\ t = s
        BY <3>2
      <4> HIDE DEF share, t, s
      <4>2. share * ValuePerCent = 0
        BY <4>1
      <4>3. s.value \in Int /\ s.cleared \in Int /\ s.conjured \in Int
        BY <2>2 DEF Positions
      <4> QED
        BY <2>2, <4>1, <4>2, <4>3 DEF Books, Between
    <3> QED
      BY <3>1, <3>2
  <2>5. /\ stock' = [stock EXCEPT ![line.variant] = t] /\ account' = account + share
        /\ posted' = posted + 1 /\ draft' = NoDraft(stock', receipts')
    BY <1>11 DEF LandCost, PostAlone
  <2> HIDE DEF share, t, s, line
  <2> DEFINE owed == -(share * ValuePerCent)
             v == line.variant
  <2>6. owed \in Int /\ share \in Int /\ Rounds(share, owed)
    BY <2>3, ExactlyRounds
  <2>7. Books(stock[v], t, owed) /\ t \in Positions /\ v \in Variants
        /\ stock' = [stock EXCEPT ![v] = t]
    BY <2>1, <2>4, <2>5 DEF s
  <2> HIDE DEF owed, v
  <2> QED
    BY <1>a, <2>5, <2>6, <2>7, AloneTracks
<1>12. CASE UNCHANGED vars
  BY <1>12, <1>a DEF vars, AccountInv, AccountTracksStock, DraftTracks
<1>13. ASSUME NEW v \in Variants, NEW q \in Quantities, RefuseResidual(v, q)
       PROVE  AccountInv'
  BY <1>8, <1>13 DEF RefuseResidual
<1>14. CASE Rollback
  BY <1>8, <1>14 DEF Rollback
<1> QED
  BY <1>1, <1>2, <1>3, <1>5, <1>6, <1>7, <1>9, <1>10, <1>11, <1>12, <1>13, <1>14 DEF Next

\* AccountInv holds of every state the postings reach.
THEOREM AccountInvariant == Spec => []AccountInv
<1>1. QED
  BY InitAccountInv, NextAccountInv, LedgerInvariant, PTL DEF Spec

-----------------------------------------------------------------------------
(* The promises of the ledger.                                             *)

\* No posting makes a quantity, a value or an average cost negative.
THEOREM TypeCorrect == Spec => []TypeOK
<1>1. LedgerInv => TypeOK
  BY DEF LedgerInv
<1>2. QED
  BY <1>1, LedgerInvariant, PTL

\* inventory.positions is the sum of inventory.movements, but for the clamp
\* of confirm_purchase_return; no value stands against zero units.
THEOREM PositionsExplained == Spec => []PositionsAreMovements
<1>1. LedgerInv => PositionsAreMovements
  BY DEF LedgerInv, AllSound, Sound, PositionsAreMovements
<1>2. QED
  BY <1>1, LedgerInvariant, PTL

\* total_value strays from quantity_on_hand times last_known_wac by the
\* roundings of the postings since the last average, and by no more.
THEOREM ValueStaysNearAverage == Spec => []ValueTracksAverage
<1>1. LedgerInv => ValueTracksAverage
  BY DEF LedgerInv, AllSound, Sound, ValueTracksAverage
<1>2. QED
  BY <1>1, LedgerInvariant, PTL

\* INVENTORY_MERCHANDISE stays within half a centime per posted document,
\* the cleared residuals and the clamps of the value of the stock.
THEOREM AccountStaysNearStock == Spec => []AccountTracksStock
<1>1. AccountInv => AccountTracksStock
  BY DEF AccountInv
<1>2. QED
  BY <1>1, AccountInvariant, PTL
=============================================================================
