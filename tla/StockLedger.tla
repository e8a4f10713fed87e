----------------------------- MODULE StockLedger -----------------------------
(***************************************************************************)
(* Perpetual inventory at weighted average cost: the stock position of a   *)
(* variant, the append-only movements behind it, and the INVENTORY account *)
(* in the general ledger, through sales, direct purchases, supplier        *)
(* returns, landed costs and stock adjustments.  A posting is one database *)
(* transaction: its lines work on a draft that is committed or rolled back *)
(* as a whole.  The row locks that make postings on one position follow    *)
(* one another are the subject of module TillPosting.                      *)
(*                                                                         *)
(* Amounts are integers: a cost rate (numeric(18,6)) counts 1/RateScale of *)
(* a value unit per unit of stock, a value (numeric(18,4)) counts          *)
(* 1/ValuePerCent of a centime, a journal amount counts centimes.          *)
(***************************************************************************)
EXTENDS Integers, Sequences, FiniteSetsExt

CONSTANTS
    Variants,
    RateScale,      \* rate units in a value unit; 100 in the code
    ValuePerCent,   \* value units in a centime; 100 in the code
    Quantities,     \* quantities a line or an adjustment may carry
    PackFactors,    \* base units in the unit a purchase line counts
    Costs,          \* line totals and landed costs, in centimes
    MaxLines,       \* bound: lines of one document
    MaxDocuments    \* bound: posted documents

ASSUME VariantsAssumption == IsFiniteSet(Variants)
ASSUME ScaleAssumption == RateScale \in Nat \ {0} /\ ValuePerCent \in Nat \ {0}
ASSUME InputAssumption ==
    /\ Quantities \subseteq Nat \ {0}
    /\ PackFactors \subseteq Nat \ {0}
    /\ Costs \subseteq Nat
ASSUME BoundAssumption == MaxLines \in Nat /\ MaxDocuments \in Nat

VARIABLES
    stock,      \* inventory.positions and, per variant, the sums of its movements
    receipts,   \* posted purchase receipt lines
    account,    \* balance of INVENTORY_MERCHANDISE, in centimes
    posted,     \* number of posted documents
    draft,      \* what the transaction in progress sees
    refused     \* history: the residual over which the last posting was refused

vars == <<stock, receipts, account, posted, draft, refused>>

-----------------------------------------------------------------------------
(* Rounding.                                                               *)

Abs(n) == IF n < 0 THEN -n ELSE n

\* round() of PostgreSQL numeric: to the nearest, ties away from zero.
RoundDiv(n, d) == IF n < 0 THEN -((2 * (-n) + d) \div (2 * d)) ELSE (2 * n + d) \div (2 * d)

Cost(quantity, wac) == RoundDiv(quantity * wac, RateScale)

Cents(value) == RoundDiv(value, ValuePerCent)

Average(value, quantity) == RoundDiv(value * RateScale, quantity)

-----------------------------------------------------------------------------
(* One position.                                                           *)

Positions ==
    [qty: Nat, value: Nat, wac: Nat,
     movedQty: Int, moved: Int,     \* sums of the movements' deltas
     cleared: Nat,                  \* history: residuals cleared, in absolute value
     conjured: Nat,                 \* history: value the clamp at zero put back
     basis: Nat, issues: Nat, returns: Nat]  \* history: see ValueTracksAverage

NoStock == [qty |-> 0, value |-> 0, wac |-> 0, movedQty |-> 0, moved |-> 0, cleared |-> 0,
            conjured |-> 0, basis |-> 0, issues |-> 0, returns |-> 0]

\* A quantity leaving at average cost: what is left of the value.
Rest(s, q) == s.value - Cost(q, s.wac)

\* _handle_residual_at_zero_quantity completes: below a centime, and not
\* rounding up to one, for then its UPDATE of the audit row is rejected.
Clearable(residual) == Abs(residual) < ValuePerCent /\ Cents(residual) <= 0

\* Mutant of CanIssue: the value of the rest is not checked.
CanIssueByQuantity(s, q) ==
    /\ s.qty >= q
    /\ s.qty = q => Clearable(Rest(s, q))

CanIssue(s, q) ==
    /\ s.qty >= q
    /\ IF s.qty = q THEN Clearable(Rest(s, q)) ELSE Rest(s, q) >= 0

\* The last unit takes the residual along, in a movement of its own.
Residual(s, q) == IF s.qty = q THEN Rest(s, q) ELSE 0

\* Mutant of Issued: the residual is cleared without its movement.
IssuedSilently(s, q) ==
    [s EXCEPT !.qty = @ - q,
              !.value = Rest(s, q) - Residual(s, q),
              !.movedQty = @ - q,
              !.moved = @ - Cost(q, s.wac),
              !.cleared = @ + Abs(Residual(s, q)),
              !.issues = @ + 1]

Issued(s, q) ==
    [s EXCEPT !.qty = @ - q,
              !.value = Rest(s, q) - Residual(s, q),
              !.movedQty = @ - q,
              !.moved = @ - Cost(q, s.wac) - Residual(s, q),
              !.cleared = @ + Abs(Residual(s, q)),
              !.issues = @ + 1]

\* Stock found by a count comes in at the last known cost.
CanFind(s) == s.qty > 0 \/ s.wac > 0

Found(s, q) ==
    [s EXCEPT !.qty = @ + q,
              !.value = @ + Cost(q, s.wac),
              !.movedQty = @ + q,
              !.moved = @ + Cost(q, s.wac),
              !.issues = @ + 1]

\* Mutant of Received: the average is only set on an empty position.
ReceivedAtOldAverage(s, q, cents) ==
    [s EXCEPT !.qty = @ + q,
              !.value = @ + cents * ValuePerCent,
              !.wac = IF s.qty > 0 THEN @ ELSE Average(cents * ValuePerCent, q),
              !.movedQty = @ + q,
              !.moved = @ + cents * ValuePerCent,
              !.basis = s.qty + q,
              !.issues = 0,
              !.returns = 0]

\* Quantity q (0 for a landed cost) and cents come in, the average is new.
Received(s, q, cents) ==
    [s EXCEPT !.qty = @ + q,
              !.value = @ + cents * ValuePerCent,
              !.wac = Average(s.value + cents * ValuePerCent, s.qty + q),
              !.movedQty = @ + q,
              !.moved = @ + cents * ValuePerCent,
              !.basis = s.qty + q,
              !.issues = 0,
              !.returns = 0]

\* A supplier return takes whole centimes and clamps the value at zero.
ReturnCents(s, q) == RoundDiv(q * s.wac, RateScale * ValuePerCent)

Shortfall(s, q) ==
    LET rest == s.value - ReturnCents(s, q) * ValuePerCent
    IN  IF rest < 0 THEN -rest ELSE 0

Returned(s, q) ==
    [s EXCEPT !.qty = @ - q,
              !.value = @ - ReturnCents(s, q) * ValuePerCent + Shortfall(s, q),
              !.movedQty = @ - q,
              !.moved = @ - ReturnCents(s, q) * ValuePerCent,
              !.conjured = @ + Shortfall(s, q),
              !.returns = @ + 1]

\* positions_zero_quantity_zero_value, which a return may meet.
ZeroRule(s) == s.qty > 0 \/ s.value = 0

-----------------------------------------------------------------------------
(* The transaction in progress.                                            *)

ReceiptLines ==
    [variant: Variants, units: Nat \ {0}, factor: Nat \ {0}, cost: Nat, returned: Nat,
     landed: Nat,               \* the late cost put on it, 0 before
     share: Nat, onHand: Nat]   \* history: the part the stock took, and that stock

NewLine(v, units, factor, cost) ==
    [variant |-> v, units |-> units, factor |-> factor, cost |-> cost, returned |-> 0,
     landed |-> 0, share |-> 0, onHand |-> 0]

Kinds == {"none", "sale", "purchase", "return"}

\* total: of a sale its COGS (value units), else centimes for the INVENTORY
\* line; credit: the purchase cost of what a return takes back.
NoDraft(s, r) == [kind |-> "none", stock |-> s, receipts |-> r, total |-> 0,
                  credit |-> 0, lines |-> 0]

Init ==
    /\ stock = [v \in Variants |-> NoStock]
    /\ receipts = <<>>
    /\ account = 0
    /\ posted = 0
    /\ draft = NoDraft(stock, receipts)
    /\ refused = 0

\* One more line of a document of the given kind.
Continues(kind) ==
    /\ draft.kind \in {"none", kind}
    /\ draft.lines < MaxLines
    /\ posted < MaxDocuments

WithLine(kind, positions, lines, total, credit) ==
    [kind |-> kind, stock |-> positions, receipts |-> lines, total |-> total,
     credit |-> credit, lines |-> draft.lines + 1]

SaleLine(v, q) ==
    LET s == draft.stock[v]
    IN  /\ Continues("sale")
        /\ CanIssue(s, q)
        /\ draft' = WithLine("sale", [draft.stock EXCEPT ![v] = Issued(s, q)],
                             draft.receipts, draft.total + Cost(q, s.wac), draft.credit)
        /\ UNCHANGED <<stock, receipts, account, posted, refused>>

PurchaseLine(v, units, factor, cost) ==
    /\ Continues("purchase")
    /\ draft' = WithLine("purchase",
                         [draft.stock EXCEPT ![v] = Received(@, units * factor, cost)],
                         Append(draft.receipts, NewLine(v, units, factor, cost)),
                         draft.total + cost, draft.credit)
    /\ UNCHANGED <<stock, receipts, account, posted, refused>>

\* What the supplier owes for units that go back, at their purchase cost.
CreditCents(line, units) == RoundDiv(line.cost * units, line.units)

\* A receipt line appears once on a return, so what it already returned is
\* what committed returns took.
ReturnLine(r, units) ==
    LET line == draft.receipts[r]
        quantity == units * line.factor
        s == draft.stock[line.variant]
    IN  /\ Continues("return")
        /\ line.returned = receipts[r].returned
        /\ units <= line.units - line.returned
        /\ s.qty >= quantity
        /\ ZeroRule(Returned(s, quantity))
        /\ draft' = WithLine("return",
                             [draft.stock EXCEPT ![line.variant] = Returned(s, quantity)],
                             [draft.receipts EXCEPT ![r].returned = @ + units],
                             draft.total + ReturnCents(s, quantity),
                             draft.credit + CreditCents(line, units))
        /\ UNCHANGED <<stock, receipts, account, posted, refused>>

\* A posting ends: its draft becomes the committed state.
Commit(change) ==
    /\ stock' = draft.stock
    /\ receipts' = draft.receipts
    /\ account' = account + change
    /\ posted' = posted + 1
    /\ draft' = NoDraft(draft.stock, draft.receipts)
    /\ refused' = 0

\* A journal line with neither a debit nor a credit is rejected: COGS that
\* rounds to nothing fails the sale, a free receipt or return fails too.
PostSale ==
    /\ draft.kind = "sale"
    /\ draft.total > 0 => Cents(draft.total) > 0
    /\ Commit(-Cents(draft.total))

PostPurchase ==
    /\ draft.kind = "purchase"
    /\ draft.total > 0
    /\ Commit(draft.total)

\* Mutant of PostReturn: INVENTORY is credited with the supplier's credit.
PostReturnAtPurchaseCost ==
    /\ draft.kind = "return"
    /\ draft.credit > 0
    /\ draft.total > 0
    /\ Commit(-draft.credit)

PostReturn ==
    /\ draft.kind = "return"
    /\ draft.credit > 0
    /\ draft.total > 0
    /\ Commit(-draft.total)

\* An error before, in or after any line, a lost connection, a killed process.
Rollback ==
    /\ draft' = NoDraft(stock, receipts)
    /\ refused' = 0
    /\ UNCHANGED <<stock, receipts, account, posted>>

\* The line that would sell out, refused over the residual it leaves.
RefuseResidual(v, q) ==
    /\ draft.kind \in {"none", "sale"}
    /\ draft.stock[v].qty = q
    /\ ~Clearable(Rest(draft.stock[v], q))
    /\ refused' = Rest(draft.stock[v], q)
    /\ draft' = NoDraft(stock, receipts)
    /\ UNCHANGED <<stock, receipts, account, posted>>

-----------------------------------------------------------------------------
(* Postings of one line.                                                   *)

PostAlone(v, position, change) ==
    /\ draft.kind = "none"
    /\ posted < MaxDocuments
    /\ stock' = [stock EXCEPT ![v] = position]
    /\ account' = account + change
    /\ posted' = posted + 1
    /\ refused' = 0

WriteOff(v, q) ==
    /\ CanIssue(stock[v], q)
    /\ PostAlone(v, Issued(stock[v], q), -Cents(Cost(q, stock[v].wac)))
    /\ draft' = NoDraft(stock', receipts)
    /\ UNCHANGED receipts

FoundStock(v, q) ==
    /\ CanFind(stock[v])
    /\ PostAlone(v, Found(stock[v], q), Cents(Cost(q, stock[v].wac)))
    /\ draft' = NoDraft(stock', receipts)
    /\ UNCHANGED receipts

Lesser(a, b) == IF a < b THEN a ELSE b

\* The part of a late cost put on the stock left of a receipt line; the rest
\* goes to PROCUREMENT_VARIANCE.
RemainingShare(line, onHand, cost) == RoundDiv(cost * Lesser(onHand, line.units), line.units)

\* allocate_landed_cost as one receipt line sees it: cost is what the
\* allocation puts on that line, and a receipt gets one posting.
LandCost(r, cost) ==
    LET line  == receipts[r]
        s     == stock[line.variant]
        share == IF s.qty > 0 THEN RemainingShare(line, s.qty, cost) ELSE 0
    IN  /\ line.landed = 0
        /\ cost > 0
        /\ PostAlone(line.variant, IF s.qty > 0 THEN Received(s, 0, share) ELSE s, share)
        /\ receipts' = [receipts EXCEPT ![r].landed = cost, ![r].share = share,
                                        ![r].onHand = s.qty]
        /\ draft' = NoDraft(stock', receipts')

Next ==
    \/ \E v \in Variants, q \in Quantities :
         \/ SaleLine(v, q)
         \/ RefuseResidual(v, q)
         \/ WriteOff(v, q)
         \/ FoundStock(v, q)
         \/ \E f \in PackFactors, c \in Costs : PurchaseLine(v, q, f, c)
    \/ \E r \in 1..Len(receipts) :
         \/ \E q \in Quantities : ReturnLine(r, q)
         \/ \E c \in Costs : LandCost(r, c)
    \/ PostSale \/ PostPurchase \/ PostReturn
    \/ Rollback

Spec == Init /\ [][Next]_vars

-----------------------------------------------------------------------------
(* Correctness.                                                            *)

Drafts ==
    [kind: Kinds, stock: [Variants -> Positions], receipts: Seq(ReceiptLines),
     total: Nat, credit: Nat, lines: Nat]

\* Quantities, values and average costs never go negative, in the committed
\* state or inside a transaction.
TypeOK ==
    /\ stock \in [Variants -> Positions]
    /\ receipts \in Seq(ReceiptLines)
    /\ account \in Int
    /\ posted \in Nat
    /\ draft \in Drafts
    /\ refused \in Int

\* A position is the sum of its movements, but for the value a supplier
\* return's clamp put back; and no value stands against zero units.
Explained(s) ==
    /\ s.qty = s.movedQty
    /\ s.value = s.moved + s.conjured
    /\ ZeroRule(s)

PositionsAreMovements ==
    \A v \in Variants : Explained(stock[v]) /\ Explained(draft.stock[v])

\* How far the value is from quantity times average cost, and how far it may
\* be: half a rate unit per unit averaged, half a value unit per issue or
\* adjustment line since, half a centime per supplier return since.
Drift(s) == s.value * RateScale - s.qty * s.wac

Slack(s) == s.basis + RateScale * s.issues + RateScale * ValuePerCent * s.returns

Tracks(s) == 2 * Abs(Drift(s)) <= Slack(s)

\* The stock value stays within its roundings of quantity times average cost,
\* so that selling out leaves a residual only the roundings explain.
ValueTracksAverage == \A v \in Variants : Tracks(stock[v]) /\ Tracks(draft.stock[v])

StockValue(positions) == SumFunction([v \in Variants |-> positions[v].value])

\* What roundings took out of the value, and what the clamp put in.
Unposted(positions) ==
    SumFunction([v \in Variants |-> positions[v].cleared + positions[v].conjured])

\* The INVENTORY account and the stock it stands for differ by at most half
\* a centime per posted document, the cleared residuals and the value the
\* clamp put back.
AccountTracksStock ==
    2 * Abs(account * ValuePerCent - StockValue(stock))
        <= ValuePerCent * posted + 2 * Unposted(stock)

\* A sale that empties a position is refused only over a residual of a
\* centime or more: anything below is cleared. The code does not keep it: from
\* half a centime on the clearing itself is rejected.
OnlyMaterialResidualsRefuse == refused # 0 => Abs(refused) >= ValuePerCent

\* A late cost goes to the stock in the proportion of the receipt that can
\* still be there, counted in the unit the stock is kept in. The code does not
\* keep it: it counts the receipt in purchase units.
LateCostFollowsStock ==
    \A r \in 1..Len(receipts) :
        LET line == receipts[r]
            base == line.units * line.factor
        IN  line.share <= RoundDiv(line.landed * Lesser(line.onHand, base), base)
=============================================================================
