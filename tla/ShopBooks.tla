----------------------------- MODULE ShopBooks -----------------------------
(* What the posting functions and the cash functions promise about the books *)
(* of the shop, one operation at a time: a request is posted once, over a    *)
(* session that is open and units that are there, under the next numbers of  *)
(* its series, and a session is counted against all that went through its    *)
(* drawer. TillPosting shows that the calls of the code, with their locks,   *)
(* their failures and their retries, implement it.                           *)
EXTENDS Integers, FiniteSets, SequencesExt

CONSTANTS
    Tills,
    Sessions,       \* bound: ids of cash sessions
    Requests,       \* bound: request ids
    Forms,          \* bound: forms filled in
    Content,        \* of each form, its kind and its lines
    Variants,       \* variant ids
    OpeningStock,   \* units on hand at first
    UnitsReceived,  \* of each variant on the returned receipt
    None

VARIABLES
    session,    \* sales.cash_sessions
    documents,  \* documents, each with its journal and cash movement
    stock,      \* inventory.positions
    numbers,    \* core.document_sequences
    drawer      \* the cash that went into the drawer of each session

books == <<session, documents, stock, numbers, drawer>>

Series == {"sale", "return", "journal"}

Lines(f) == ToSet(Content[f].lines)

Init ==
    /\ session = [s \in Sessions |-> [status |-> "none", till |-> None, expected |-> 0]]
    /\ documents = {}
    /\ stock = OpeningStock
    /\ numbers = [n \in Series |-> 0]
    /\ drawer = [s \in Sessions |-> 0]

-----------------------------------------------------------------------------
(* Documents.                                                                *)

\* A document with its number, its journal and what it puts in the drawer.
Book(kind, f, r, s, cash) ==
    /\ documents' = documents \cup
         {[kind |-> kind, form |-> f, request |-> r, session |-> s,
           number |-> IF f = None THEN 0 ELSE numbers[kind] + 1,
           journal |-> numbers["journal"] + 1, cash |-> cash]}
    /\ numbers' = [n \in Series |-> IF n \in {kind, "journal"} THEN numbers[n] + 1 ELSE numbers[n]]
    /\ drawer' = [u \in Sessions |-> IF u = s THEN drawer[u] + cash ELSE drawer[u]]

\* A form is posted under a new request, with units that are there.
Post(f, r, s, cash) ==
    /\ \A d \in documents : d.request # r
    /\ \A v \in Lines(f) : stock[v] >= 1
    /\ stock' = [v \in Variants |-> IF v \in Lines(f) THEN stock[v] - 1 ELSE stock[v]]
    /\ Book(Content[f].kind, f, r, s, cash)
    /\ UNCHANGED session

Sell(f, r, s) ==
    /\ Content[f].kind = "sale"
    /\ session[s].status = "OPEN"
    /\ Post(f, r, s, Len(Content[f].lines))

Returned(v) == Cardinality({d \in documents : d.kind = "return" /\ v \in Lines(d.form)})

\* No unit goes back to the supplier that was not received from him.
GiveBack(f, r) ==
    /\ Content[f].kind = "return"
    /\ \A v \in Lines(f) : Returned(v) < UnitsReceived
    /\ Post(f, r, None, 0)

-----------------------------------------------------------------------------
(* The cash session.                                                         *)

CashJournal(kind, s, cash) == Book(kind, None, None, s, cash) /\ UNCHANGED stock

NoJournal == UNCHANGED <<documents, stock, numbers, drawer>>

Become(s, from, to) ==
    /\ session[s].status = from
    /\ session' = [session EXCEPT ![s].status = to]

Open(t, s) ==
    /\ session[s].status = "none"
    /\ \A u \in Sessions : session[u].till = t => session[u].status = "CLOSED"
    /\ session' = [session EXCEPT ![s].status = "OPEN", ![s].till = t]
    /\ NoJournal

BeginClose(s) == Become(s, "OPEN", "CLOSING") /\ NoJournal

CancelClose(s) == Become(s, "CLOSING", "OPEN") /\ NoJournal

\* A small difference is posted at once, a material one waits for a manager.
Count(s, difference) ==
    /\ session[s].status = "CLOSING"
    /\ session' = [session EXCEPT
                     ![s].status = IF difference = "material" THEN "PENDING_APPROVAL" ELSE "CLOSED",
                     ![s].expected = drawer[s]]
    /\ IF difference = "small" THEN CashJournal("variance", s, 0) ELSE NoJournal

Approve(s) == Become(s, "PENDING_APPROVAL", "CLOSED") /\ CashJournal("variance", s, 0)

MoveCash(s, amount) == Become(s, "OPEN", "OPEN") /\ CashJournal("movement", s, amount)

-----------------------------------------------------------------------------
Next ==
    \/ \E f \in Forms, r \in Requests : GiveBack(f, r) \/ \E s \in Sessions : Sell(f, r, s)
    \/ \E t \in Tills, s \in Sessions : Open(t, s)
    \/ \E s \in Sessions :
         \/ BeginClose(s)
         \/ CancelClose(s)
         \/ \E difference \in {"none", "small", "material"} : Count(s, difference)
         \/ Approve(s)
         \/ \E amount \in {-1, 1} : MoveCash(s, amount)

Spec == Init /\ [][Next]_books
=============================================================================
