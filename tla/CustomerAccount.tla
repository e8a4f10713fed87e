--------------------------- MODULE CustomerAccount ---------------------------
(* What the receivables promise about the account of a customer: invoices are *)
(* raised, paid, given back and cancelled one operation at a time, and the    *)
(* exposure and the oldest due date move with the operation. Receivables      *)
(* shows that the calls of the code, with their locks, implement it.          *)
EXTENDS Integers, FiniteSetsExt, Functions

CONSTANTS
    Customers,
    Invoices,   \* identities of the CREDIT_INVOICE entries (a bound)
    Payments,   \* identities of the customer payments (a bound)
    None,       \* no document yet
    Totals,     \* totals of sales
    Amounts,    \* amounts of allocations
    Days,       \* business days
    Limit,      \* credit limit of every customer
    Mapped,     \* customer the receivable of the opening state is mapped to
    Balance,    \* its amount
    Cutover     \* its day

VARIABLES
    invoice,    \* the invoice posted under an identity: [customer, amount, due]
    over,       \* invoices posted over the limit (over_limit_at_posting)
    voided,     \* invoices of cancelled sales (their CREDIT_NOTE)
    payment,    \* the payment posted under an identity: [customer, of]
    refunded,   \* payments given back
    exposure,   \* customer_credit_state.exposure_amount
    oldest,     \* customer_credit_state.oldest_open_due_date, 0 for none
    opened      \* the opening state has been applied

ledger == <<invoice, over, voided, payment, refunded, exposure, oldest, opened>>

(* net_invoice_allocated_amount: what payments put on the invoice, without    *)
(* those given back, and with its credit note.                                *)
NetAllocated(i) ==
    SumFunction([p \in Payments |-> IF payment[p] = None \/ p \in refunded THEN 0
                                    ELSE payment[p].of[i]])
    + (IF i \in voided THEN invoice[i].amount ELSE 0)

InvoicesOf(c) == {i \in Invoices : invoice[i] # None /\ invoice[i].customer = c}

OpenInvoices(c) == {i \in InvoicesOf(c) : invoice[i].amount > NetAllocated(i)}

(* min(due_date) over the open invoices; an opening balance is not one.       *)
OldestDue(c) ==
    IF OpenInvoices(c) = {} THEN 0 ELSE Min({invoice[i].due : i \in OpenInvoices(c)})

(* Mutated form: a customer without a due date is not told apart.             *)
LeastDueUnset(d, e) == IF e < d THEN e ELSE d

LeastDue(d, e) == IF d = 0 \/ e < d THEN e ELSE d

Total(of) == SumFunction(of)

(* Some payment that was not given back put money on the invoice.             *)
Allocated(i) ==
    \E p \in Payments : payment[p] # None /\ p \notin refunded /\ payment[p].of[i] > 0

(* Every allocation is to an invoice of the customer and fits what it leaves. *)
Fits(c, of) ==
    \A i \in Invoices : of[i] > 0 =>
        /\ invoice[i] # None /\ invoice[i].customer = c
        /\ NetAllocated(i) + of[i] <= invoice[i].amount

Init ==
    /\ invoice = [i \in Invoices |-> None] /\ over = {} /\ voided = {}
    /\ payment = [p \in Payments |-> None] /\ refunded = {}
    /\ exposure = [c \in Customers |-> 0] /\ oldest = [c \in Customers |-> 0]
    /\ opened = FALSE

Sell(c, i, amount, due) ==
    /\ invoice[i] = None
    /\ invoice' = [invoice EXCEPT ![i] = [customer |-> c, amount |-> amount, due |-> due]]
    /\ exposure' = [exposure EXCEPT ![c] = @ + amount]
    /\ over' = IF exposure[c] + amount > Limit THEN over \union {i} ELSE over
    /\ oldest' = [oldest EXCEPT ![c] = LeastDue(@, due)]
    /\ UNCHANGED <<voided, payment, refunded, opened>>

Pay(c, p, of) ==
    /\ payment[p] = None
    /\ Fits(c, of)
    /\ payment' = [payment EXCEPT ![p] = [customer |-> c, of |-> of]]
    /\ exposure' = [exposure EXCEPT ![c] = @ - Total(of)]
    /\ oldest' = [d \in Customers |-> IF d = c THEN OldestDue(d)' ELSE oldest[d]]
    /\ UNCHANGED <<invoice, over, voided, refunded, opened>>

Refund(p) ==
    /\ payment[p] # None /\ p \notin refunded
    /\ refunded' = refunded \union {p}
    /\ LET c == payment[p].customer IN
       /\ exposure' = [exposure EXCEPT ![c] = @ + Total(payment[p].of)]
       /\ oldest' = [d \in Customers |-> IF d = c THEN OldestDue(d)' ELSE oldest[d]]
    /\ UNCHANGED <<invoice, over, voided, payment, opened>>

(* A sale is cancelled while nothing is allocated to its invoice.             *)
Void(i) ==
    /\ invoice[i] # None /\ i \notin voided /\ ~Allocated(i)
    /\ voided' = voided \union {i}
    /\ LET c == invoice[i].customer IN
       /\ exposure' = [exposure EXCEPT ![c] = @ - invoice[i].amount]
       /\ oldest' = [d \in Customers |-> IF d = c THEN OldestDue(d)' ELSE oldest[d]]
    /\ UNCHANGED <<invoice, over, payment, refunded, opened>>

(* The opening receivable: an ADJUSTMENT entry, due since the cutover.        *)
ApplyOpening ==
    /\ ~opened /\ opened' = TRUE
    /\ exposure' = [exposure EXCEPT ![Mapped] = @ + Balance]
    /\ oldest' = [oldest EXCEPT ![Mapped] = LeastDue(@, Cutover)]
    /\ UNCHANGED <<invoice, over, voided, payment, refunded>>

Next ==
    \/ ApplyOpening
    \/ \E c \in Customers, i \in Invoices, amount \in Totals, due \in Days : Sell(c, i, amount, due)
    \/ \E c \in Customers, p \in Payments, of \in [Invoices -> Amounts \union {0}] : Pay(c, p, of)
    \/ \E p \in Payments : Refund(p)
    \/ \E i \in Invoices : Void(i)

Spec == Init /\ [][Next]_ledger
=============================================================================
