----------------------------- MODULE Receivables -----------------------------
(* Credit sales, customer payments, refunds of payments, cancelled sales and  *)
(* changes of a customer's policy as the concurrent transactions they are:    *)
(* the row locks each of them takes in its order, what it reads under them,   *)
(* and its last statements, which post and commit. A cycle of waits is broken *)
(* by PostgreSQL. The fiscal period, stock positions and number rows, locked  *)
(* in one order by everybody, are left to TillPosting and StockLedger.        *)
EXTENDS Integers, Sequences, FiniteSetsExt, Functions

CONSTANTS
    Customers, Invoices, Payments, None, Totals, Amounts, Limit, Mapped, Balance, Cutover,
    Authorizations,  \* identities of refund authorizations (a bound)
    Tokens,          \* identities of credit overrides (a bound)
    Calls,           \* connections of the running programs
    Policies,        \* policies a customer may be given
    MaxDay           \* bound on the business days

Days == 1..MaxDay
Allocations == [Invoices -> Amounts \union {0}]

InvoiceRows == [customer : Customers, amount : Totals, due : Days]
PaymentRows == [customer : Customers, of : Allocations]
AuthorizationRows == [payment : Payments, cash : BOOLEAN, status : {"open", "used"}]
TokenRows == [customer : Customers, amount : Totals, status : {"open", "used"}]

ASSUME AmountsArePositive == Totals \union Amounts \subseteq Nat \ {0}
ASSUME OpeningIsPositive ==
    /\ Limit \in Nat /\ MaxDay \in Nat \ {0}
    /\ Mapped \in Customers /\ Balance \in Nat \ {0} /\ Cutover \in Days
ASSUME DocumentsAreFinite == IsFiniteSet(Invoices) /\ IsFiniteSet(Payments)
ASSUME PoliciesAreKnown == "credit" \in Policies /\ Policies \subseteq {"credit", "cash", "inactive"}
ASSUME NoneIsNothing ==
    None \notin UNION {Customers, Invoices, Payments, Authorizations, Tokens,
                       InvoiceRows, PaymentRows, AuthorizationRows, TokenRows}

VARIABLES
    standing,        \* policy of a customer: "credit", "cash" or "inactive"
    invoice, over, voided, payment, exposure, oldest, opened,
    authorization,   \* refund authorizations: [payment, cash, status]
    token,           \* credit overrides: [customer, amount, status]
    today,           \* business day
    call             \* the transaction a connection runs

vars == <<standing, invoice, over, voided, payment, exposure, oldest, opened,
          authorization, token, today, call>>
books == <<invoice, over, voided, payment, exposure, oldest, opened>>
desk == <<standing, authorization, token, today>>

Used == {a \in Authorizations : authorization[a] # None /\ authorization[a].status = "used"}
Refunded == {authorization[a].payment : a \in Used}

Account == INSTANCE CustomerAccount WITH refunded <- Refunded

(* A transaction: its operation and arguments, the day and the validity of    *)
(* its approval when it began (now()), the rows it has locked so far, and the *)
(* exposure and the need of an override it read.                              *)
Idle == [op |-> "none", c |-> None, i |-> None, p |-> None, a |-> None, t |-> None,
         cash |-> FALSE, amount |-> 0, of |-> [i \in Invoices |-> 0], to |-> "credit",
         day |-> 1, live |-> FALSE, taken |-> 0, seen |-> 0, override |-> FALSE]

Init ==
    /\ standing = [c \in Customers |-> "credit"]
    /\ invoice = [i \in Invoices |-> None] /\ over = {} /\ voided = {}
    /\ payment = [p \in Payments |-> None]
    /\ exposure = [c \in Customers |-> 0] /\ oldest = [c \in Customers |-> 0]
    /\ opened = FALSE
    /\ authorization = [a \in Authorizations |-> None]
    /\ token = [t \in Tokens |-> None]
    /\ today = 1
    /\ call = [k \in Calls |-> Idle]

-----------------------------------------------------------------------------
(* Row locks: table, row and mode.                                            *)

Row(c) == <<"customers", c, "update">>
Key(c) == <<"customers", c, "key share">>
Credit(c) == <<"customer_credit_state", c, "update">>
Document(i) == <<"business_documents", i, "update">>
Approval(a) == <<"customer_refund_authorizations", a, "update">>
Package == <<"opening_state_packages", None, "update">>
Drawer == <<"cash_sessions", None, "update">>

DrawerIf(cash) == IF cash THEN <<Drawer>> ELSE <<>>

Conflict(r, s) ==
    /\ r[1] = s[1] /\ r[2] = s[2]
    /\ ~(r[3] = "key share" /\ s[3] = "key share")

(* Mutated form: a policy change locks the credit state before the profile.   *)
LocksSwapped(q) ==
    CASE q.op \in {"sell", "pay"} -> <<Row(q.c), Credit(q.c)>> \o DrawerIf(q.cash)
      [] q.op = "update" -> <<Credit(q.c), Row(q.c)>>
      [] q.op = "refund" -> <<Approval(q.a), Credit(q.c)>> \o DrawerIf(q.cash) \o <<Key(q.c)>>
      [] q.op = "void" -> <<Document(q.i), Drawer, Credit(q.c), Key(q.c)>>
      [] q.op = "open" -> <<Package, Key(q.c), Credit(q.c)>>
      [] q.op = "none" -> <<>>

(* The rows a transaction locks, in its order. A refund and a cancellation    *)
(* lock the customer last, and shared: by the foreign keys of what they post. *)
Locks(q) ==
    CASE q.op \in {"sell", "pay", "update"} -> <<Row(q.c), Credit(q.c)>> \o DrawerIf(q.cash)
      [] q.op = "refund" -> <<Approval(q.a), Credit(q.c)>> \o DrawerIf(q.cash) \o <<Key(q.c)>>
      [] q.op = "void" -> <<Document(q.i), Drawer, Credit(q.c), Key(q.c)>>
      [] q.op = "open" -> <<Package, Key(q.c), Credit(q.c)>>
      [] q.op = "none" -> <<>>

Locking(k) == call[k].taken < Len(Locks(call[k]))
Wanted(k) == Locks(call[k])[call[k].taken + 1]
Blocks(m, r) == \E n \in 1..call[m].taken : Conflict(Locks(call[m])[n], r)
WaitsFor(k, m) == m # k /\ Locking(k) /\ Blocks(m, Wanted(k))
Served(k) == Locking(k) /\ \A m \in Calls : ~WaitsFor(k, m)

(* Transactions that wait for each other.                                     *)
Deadlocked(S) ==
    /\ S # {}
    /\ \A k \in S : (\E m \in S : WaitsFor(k, m)) /\ (\E m \in S : WaitsFor(m, k))

End(k) == call' = [call EXCEPT ![k] = Idle]

-----------------------------------------------------------------------------
(* What the screens ask for.                                                  *)

Begin(k, q) ==
    /\ call[k].op = "none"
    /\ call' = [call EXCEPT ![k] = [q EXCEPT !.day = today]]
    /\ UNCHANGED <<books, desk>>

(* live: the override has not expired yet (an approval lasts for minutes).    *)
StartSale(k, c, i, amount, t, live) ==
    /\ invoice[i] = None /\ \A m \in Calls : call[m].i # i
    /\ IF t = None THEN ~live ELSE token[t] # None
    /\ Begin(k, [Idle EXCEPT !.op = "sell", !.c = c, !.i = i, !.amount = amount, !.t = t,
                             !.live = live])

(* The screen allocates over the invoices it shows, which a late answer may   *)
(* have replaced by those of another customer.                                *)
StartPayment(k, c, p, of, cash) ==
    /\ payment[p] = None /\ \A m \in Calls : call[m].p # p
    /\ \A i \in Invoices : of[i] > 0 => invoice[i] # None
    /\ \E i \in Invoices : of[i] > 0
    /\ Begin(k, [Idle EXCEPT !.op = "pay", !.c = c, !.p = p, !.of = of, !.cash = cash])

StartRefund(k, a, live) ==
    /\ authorization[a] # None
    /\ Begin(k, [Idle EXCEPT !.op = "refund", !.a = a, !.p = authorization[a].payment,
                             !.c = payment[authorization[a].payment].customer,
                             !.cash = authorization[a].cash,
                             !.live = live])

StartVoid(k, i) ==
    /\ invoice[i] # None
    /\ Begin(k, [Idle EXCEPT !.op = "void", !.i = i, !.c = invoice[i].customer])

StartUpdate(k, c, to) ==
    Begin(k, [Idle EXCEPT !.op = "update", !.c = c, !.to = to])

StartOpening(k) ==
    Begin(k, [Idle EXCEPT !.op = "open", !.c = Mapped])

-----------------------------------------------------------------------------
(* Locking, and what is checked under the lock that was just granted.         *)

OverdueBlocks(q) == oldest[q.c] # 0 /\ oldest[q.c] < q.day

(* Mutated form: a consumed override is taken again.                          *)
OverrideFitsAgain(q) ==
    q.t # None /\ q.live /\ token[q.t].customer = q.c /\ token[q.t].amount = q.amount

(* The override is live, not consumed and for this very sale.                 *)
OverrideFits(q) ==
    /\ q.t # None /\ q.live
    /\ token[q.t].status # "used"
    /\ token[q.t].customer = q.c /\ token[q.t].amount = q.amount

SaleAccepted(q) ==
    /\ standing[q.c] = "credit"
    /\ OverdueBlocks(q) => OverrideFits(q)

PaymentAccepted(q) ==
    /\ standing[q.c] # "inactive"
    /\ Account!Total(q.of) <= exposure[q.c]

ApprovalAccepted(q) ==
    /\ q.live /\ authorization[q.a].status # "used"
    /\ q.p \notin Refunded

Accepts(q, r) ==
    /\ q.op = "sell" /\ r = Credit(q.c) => SaleAccepted(q)
    /\ q.op = "pay" /\ r = Credit(q.c) => PaymentAccepted(q)
    /\ q.op = "refund" /\ r = Approval(q.a) => ApprovalAccepted(q)
    /\ q.op = "void" /\ r = Document(q.i) => q.i \notin voided
    /\ q.op = "void" /\ r = Credit(q.c) => ~Account!Allocated(q.i)
    /\ q.op = "open" /\ r = Package => ~opened

(* Mutated form: the exposure is read when the profile is locked.             *)
TakeEarly(k) ==
    LET q == call[k] IN
    /\ Served(k) /\ Accepts(q, Wanted(k))
    /\ call' = [call EXCEPT ![k] =
         [q EXCEPT !.taken = @ + 1,
                   !.live = IF q.op = "sell" /\ Wanted(k) = Row(q.c) THEN @ ELSE FALSE,
                   !.seen = IF q.c # None /\ q.taken = 0 THEN exposure[q.c] ELSE @,
                   !.override = IF Wanted(k) = Credit(q.c) THEN OverdueBlocks(q) ELSE @]]
    /\ UNCHANGED <<books, desk>>

Take(k) ==
    LET q == call[k] IN
    /\ Served(k) /\ Accepts(q, Wanted(k))
    /\ call' = [call EXCEPT ![k] =
         [q EXCEPT !.taken = @ + 1,
                   !.live = IF q.op = "sell" /\ Wanted(k) = Row(q.c) THEN @ ELSE FALSE,
                   !.seen = IF Wanted(k) = Credit(q.c) THEN exposure[q.c] ELSE @,
                   !.override = IF Wanted(k) = Credit(q.c) THEN OverdueBlocks(q) ELSE @]]
    /\ UNCHANGED <<books, desk>>

Refuse(k) ==
    /\ Served(k) /\ ~Accepts(call[k], Wanted(k))
    /\ End(k)
    /\ UNCHANGED <<books, desk>>

(* PostgreSQL aborts one transaction of a cycle of waits.                     *)
DeadlockDetected(k) ==
    /\ \E S \in SUBSET Calls : k \in S /\ Deadlocked(S)
    /\ End(k)
    /\ UNCHANGED <<books, desk>>

-----------------------------------------------------------------------------
(* The last statements of a transaction, with all its locks: post and commit. *)

Ready(k, op) == call[k].op = op /\ ~Locking(k)

(* Mutated form: the invoice is due the day after.                            *)
CommitSaleLate(k) ==
    LET q == call[k] IN
    /\ Ready(k, "sell")
    /\ invoice' = [invoice EXCEPT ![q.i] = [customer |-> q.c, amount |-> q.amount, due |-> q.day + 1]]
    /\ exposure' = [exposure EXCEPT ![q.c] = q.seen + q.amount]
    /\ over' = IF q.seen + q.amount > Limit THEN over \union {q.i} ELSE over
    /\ oldest' = [oldest EXCEPT ![q.c] = Account!LeastDue(@, q.day + 1)]
    /\ token' = IF q.override THEN [token EXCEPT ![q.t] = [@ EXCEPT !.status = "used"]] ELSE token
    /\ End(k)
    /\ UNCHANGED <<standing, voided, payment, opened, authorization, today>>

(* Payment terms are zero days: due on the day of the sale.                   *)
CommitSale(k) ==
    LET q == call[k] IN
    /\ Ready(k, "sell")
    /\ invoice' = [invoice EXCEPT ![q.i] = [customer |-> q.c, amount |-> q.amount, due |-> q.day]]
    /\ exposure' = [exposure EXCEPT ![q.c] = q.seen + q.amount]
    /\ over' = IF q.seen + q.amount > Limit THEN over \union {q.i} ELSE over
    /\ oldest' = [oldest EXCEPT ![q.c] = Account!LeastDue(@, q.day)]
    /\ token' = IF q.override THEN [token EXCEPT ![q.t] = [@ EXCEPT !.status = "used"]] ELSE token
    /\ End(k)
    /\ UNCHANGED <<standing, voided, payment, opened, authorization, today>>

(* Mutated form: the invoice is compared with this payment alone.             *)
PaymentFitsAlone(q) ==
    \A i \in Invoices : q.of[i] > 0 =>
        /\ invoice[i] # None /\ invoice[i].customer = q.c /\ i \notin voided
        /\ q.of[i] <= invoice[i].amount

PaymentFits(q) == Account!Fits(q.c, q.of)

CommitPayment(k) ==
    LET q == call[k] IN
    /\ Ready(k, "pay") /\ PaymentFits(q)
    /\ payment' = [payment EXCEPT ![q.p] = [customer |-> q.c, of |-> q.of]]
    /\ UNCHANGED <<standing, invoice, over, voided, opened, authorization, token, today>>
    /\ exposure' = [exposure EXCEPT ![q.c] = q.seen - Account!Total(q.of)]
    /\ oldest' = [c \in Customers |-> IF c = q.c THEN Account!OldestDue(c)' ELSE oldest[c]]
    /\ End(k)

(* Mutated form: the table accepts a second refund of a payment.              *)
AnyRefund(q) == q.p \in Payments

(* UNIQUE (source_payment_document_id) of customer_payment_refunds.           *)
FirstRefund(q) == q.p \notin Refunded

CommitRefund(k) ==
    LET q == call[k] IN
    /\ Ready(k, "refund") /\ FirstRefund(q)
    /\ authorization' = [authorization EXCEPT ![q.a] = [@ EXCEPT !.status = "used"]]
    /\ UNCHANGED <<standing, invoice, over, voided, payment, opened, token, today>>
    /\ exposure' = [exposure EXCEPT ![q.c] = q.seen + Account!Total(payment[q.p].of)]
    /\ oldest' = [c \in Customers |-> IF c = q.c THEN Account!OldestDue(c)' ELSE oldest[c]]
    /\ End(k)

CommitVoid(k) ==
    LET q == call[k] IN
    /\ Ready(k, "void")
    /\ voided' = voided \union {q.i}
    /\ UNCHANGED <<standing, invoice, over, payment, opened, authorization, token, today>>
    /\ exposure' = [exposure EXCEPT ![q.c] = @ - invoice[q.i].amount]
    /\ oldest' = [c \in Customers |-> IF c = q.c THEN Account!OldestDue(c)' ELSE oldest[c]]
    /\ End(k)

CommitUpdate(k) ==
    LET q == call[k] IN
    /\ Ready(k, "update")
    /\ standing' = [standing EXCEPT ![q.c] = q.to]
    /\ End(k)
    /\ UNCHANGED <<books, authorization, token, today>>

CommitOpening(k) ==
    LET q == call[k] IN
    /\ Ready(k, "open")
    /\ opened' = TRUE
    /\ exposure' = [exposure EXCEPT ![q.c] = @ + Balance]
    /\ oldest' = [oldest EXCEPT ![q.c] = Account!LeastDue(@, Cutover)]
    /\ End(k)
    /\ UNCHANGED <<standing, invoice, over, voided, payment, authorization, token, today>>

(* The constraint or the allocation check refuses what the locks let through. *)
RollBack(k) ==
    /\ \/ Ready(k, "pay") /\ ~PaymentFits(call[k])
       \/ Ready(k, "refund") /\ ~FirstRefund(call[k])
    /\ End(k)
    /\ UNCHANGED <<books, desk>>

-----------------------------------------------------------------------------
(* Approvals, each a transaction of one step, and the passing of time.        *)

Authorize(a, p, cash) ==
    /\ authorization[a] = None /\ payment[p] # None
    /\ p \notin Refunded
    /\ authorization' = [authorization EXCEPT ![a] = [payment |-> p, cash |-> cash, status |-> "open"]]
    /\ UNCHANGED <<books, standing, token, today, call>>

AuthorizeOverride(t, c, amount) ==
    /\ token[t] = None /\ standing[c] = "credit"
    /\ token' = [token EXCEPT ![t] = [customer |-> c, amount |-> amount, status |-> "open"]]
    /\ UNCHANGED <<books, standing, authorization, today, call>>

NextDay ==
    /\ today < MaxDay
    /\ today' = today + 1
    /\ UNCHANGED <<books, standing, authorization, token, call>>

Ask(k) ==
    \/ \E c \in Customers, i \in Invoices, amount \in Totals, t \in Tokens \union {None},
          live \in BOOLEAN : StartSale(k, c, i, amount, t, live)
    \/ \E c \in Customers, p \in Payments, of \in Allocations, cash \in BOOLEAN :
         StartPayment(k, c, p, of, cash)
    \/ \E a \in Authorizations, live \in BOOLEAN : StartRefund(k, a, live)
    \/ \E i \in Invoices : StartVoid(k, i)
    \/ \E c \in Customers, to \in Policies : StartUpdate(k, c, to)
    \/ StartOpening(k)

Work(k) ==
    \/ Take(k) \/ Refuse(k) \/ RollBack(k) \/ DeadlockDetected(k)
    \/ CommitSale(k) \/ CommitPayment(k) \/ CommitRefund(k) \/ CommitVoid(k)
    \/ CommitUpdate(k) \/ CommitOpening(k)

Approve ==
    \/ \E a \in Authorizations, p \in Payments, cash \in BOOLEAN : Authorize(a, p, cash)
    \/ \E t \in Tokens, c \in Customers, amount \in Totals : AuthorizeOverride(t, c, amount)

Next == (\E k \in Calls : Ask(k) \/ Work(k)) \/ Approve \/ NextDay

Spec == Init /\ [][Next]_vars

-----------------------------------------------------------------------------
(* Properties.                                                                *)

(* The books and the transactions hold values of their domains, and no two    *)
(* transactions hold locks that exclude each other.                           *)
TypeOK ==
    /\ standing \in [Customers -> Policies]
    /\ invoice \in [Invoices -> InvoiceRows \union {None}]
    /\ over \subseteq Invoices /\ voided \subseteq Invoices
    /\ payment \in [Payments -> PaymentRows \union {None}]
    /\ exposure \in [Customers -> Int]
    /\ oldest \in [Customers -> Days \union {0}]
    /\ opened \in BOOLEAN
    /\ authorization \in [Authorizations -> AuthorizationRows \union {None}]
    /\ token \in [Tokens -> TokenRows \union {None}]
    /\ today \in Days
    /\ \A k \in Calls : call[k].taken \in 0..Len(Locks(call[k]))
    /\ \A k, m \in Calls : \A n \in 1..call[k].taken :
         m # k => ~Blocks(m, Locks(call[k])[n])

(* customer_credit_state is a cache: the exposure is what the open invoices   *)
(* and the opening balance leave to pay, and the oldest due date is the one   *)
(* of the open invoices (an opening balance is no invoice and has its own).   *)
Owed(c) ==
    [i \in Invoices |-> IF i \in Account!InvoicesOf(c)
                        THEN invoice[i].amount - Account!NetAllocated(i) ELSE 0]

Debt(c) ==
    SumFunction(Owed(c)) + (IF opened /\ c = Mapped THEN Balance ELSE 0)

CacheReconciles ==
    \A c \in Customers :
        /\ exposure[c] = Debt(c)
        /\ ~(opened /\ c = Mapped) => oldest[c] = Account!OldestDue(c)

(* No invoice is paid beyond its amount, and none is both cancelled and paid: *)
(* neither two payments at once nor a payment beside a cancellation can do it.*)
InvoicesAreNotOverpaid ==
    \A i \in Invoices :
        /\ invoice[i] # None => Account!NetAllocated(i) \in 0..invoice[i].amount
        /\ i \in voided => ~Account!Allocated(i)

(* A payment is given back once, however many authorizations a manager issued *)
(* for it and however many of them were still open.                           *)
RefundedOnce ==
    \A a, b \in Used : authorization[a].payment = authorization[b].payment => a = b

(* Sales, payments, policy changes and the opening state lock a customer in   *)
(* one order: a cycle of waits has a refund or a cancellation in it, which    *)
(* reach the customer from the credit state.                                  *)
DeadlocksNeedACancellation ==
    \A S \in SUBSET Calls :
        Deadlocked(S) => \E k \in S : call[k].op \in {"refund", "void"}

(* While the customer has something overdue, a sale is posted only by spending *)
(* an override for this customer and this amount, and an override is spent on *)
(* one sale, even where the debt became overdue while the sale was under way. *)
OverdueSalesSpendAnOverride ==
    [][\A k \in Calls : CommitSale(k) /\ OverdueBlocks(call[k]) =>
         \E t \in Tokens :
            /\ token[t] # None /\ token[t].status = "open" /\ token'[t].status = "used"
            /\ token[t].customer = call[k].c /\ token[t].amount = call[k].amount]_vars

(* The transactions implement the one-at-a-time account.                      *)
ImplementsAccount == Account!Spec

(* "Ledger truth must be independently recomputable": the cached state is     *)
(* what reconcile_customer_credit_state computes, for every customer. It is   *)
(* not, once an opening balance gave the customer a due date of its own.      *)
CacheIsRecomputable ==
    \A c \in Customers : exposure[c] = Debt(c) /\ oldest[c] = Account!OldestDue(c)
=============================================================================
