----------------------------- MODULE TillPosting -----------------------------
(***************************************************************************)
(* Postings that run at the same time.  A form filled in on a till (a cash *)
(* sale, a supplier return) is posted by one call of a posting function:   *)
(* one database transaction that reserves the request id, takes row locks  *)
(* in the order of the function's statements and commits.  Calls are       *)
(* aborted, answers are lost, forms are retried and edited while they are  *)
(* in flight; and the cash session a sale belongs to is closed and counted *)
(* meanwhile.                                                              *)
(*                                                                         *)
(* Every line of a form is one unit of a variant of its own at a price of  *)
(* one.                                                                    *)
(***************************************************************************)
EXTENDS Integers, FiniteSets, FiniteSetsExt, SequencesExt, Functions

CONSTANTS
    Tills,
    Backends,       \* database connections of the pool
    Sessions,       \* bound: ids of cash sessions
    Requests,       \* bound: request ids in use at one time
    Forms,          \* bound: forms filled in, each once
    Content,        \* of each form, its kind and its lines
    Variants,       \* variant ids
    ReceiptLine,    \* of each variant, its line id on the returned receipt
    OpeningStock,   \* units on hand at first
    UnitsReceived,  \* of each variant on the returned receipt
    MaxJournals,    \* bound: journals posted by the cash functions
    None

Kinds == {"sale", "return"}
Series == {"sale", "return", "journal"}

ASSUME VariantAssumption == Variants \subseteq Nat /\ IsFiniteSet(Variants)
ASSUME ContentAssumption ==
    /\ Content \in [Forms -> [kind: Kinds, lines: Seq(Variants)]]
    /\ \A f \in Forms : IsInjective(Content[f].lines)
ASSUME StockAssumption ==
    /\ OpeningStock \in [Variants -> Nat]
    /\ ReceiptLine \in Injection(Variants, Nat)
    /\ UnitsReceived \in Nat
ASSUME NoneAssumption == None \notin Tills \cup Backends \cup Sessions \cup Requests \cup Forms

VARIABLES
    till,       \* what each till shows: form, retained request id, call waited for
    backend,    \* the transaction each connection runs
    session,    \* sales.cash_sessions
    documents,  \* committed documents, with their journal and cash movement
    stock,      \* committed inventory.positions
    numbers     \* committed core.document_sequences

vars == <<till, backend, session, documents, stock, numbers>>

-----------------------------------------------------------------------------
(* Calls and the rows they lock.                                           *)

NoLocks == [v \in Variants |-> 0]
NoNumbers == [s \in Series |-> 0]

Idle == [phase |-> "idle", form |-> None, request |-> None, session |-> None,
         at |-> 0, left |-> NoLocks, claimed |-> NoNumbers]

Call(f, r, s) == [Idle EXCEPT !.phase = "reserving", !.form = f, !.request = r, !.session = s]

Row(table, id) == <<table, id>>

\* Mutant of ByVariant: positions are locked in the order of the lines.
AsRungUp(lines) == lines

\* SELECT DISTINCT ... ORDER BY key
OrderedBy(key, S) ==
    CHOOSE s \in [1..Cardinality(S) -> S] :
        \A i, j \in DOMAIN s : i < j => key[s[i]] < key[s[j]]

\* ORDER BY variant_id
ByVariant(lines) == OrderedBy([v \in Variants |-> v], ToSet(lines))

\* ORDER BY receipt_line_id
ByReceiptLine(lines) == OrderedBy(ReceiptLine, ToSet(lines))

PositionRows(variants) == [i \in DOMAIN variants |-> Row("position", variants[i])]

\* What a call goes through, in order, once it has reserved its request id: the
\* rows it locks and, of a sale, the check of its lines.
Steps(c) ==
    LET lines == Content[c.form].lines
    IN  IF Content[c.form].kind = "sale"
        THEN <<Row("session", c.session)>>
             \o PositionRows(ByVariant(lines))
             \o <<Row("lines", c.form), Row("number", "sale"), Row("number", "journal")>>
        ELSE <<Row("receipt", None), Row("number", "return")>>
             \o PositionRows(ByReceiptLine(lines))
             \o <<Row("number", "journal")>>

Lines(f) == ToSet(Content[f].lines)

\* The request id is reserved: the call holds its row.
Running(b) == backend[b].phase = "running"

Holds(b, row) ==
    Running(b) /\ \E i \in 1..backend[b].at : Steps(backend[b])[i] = row

NextRow(b) == Steps(backend[b])[backend[b].at + 1]

Unfinished(b) == Running(b) /\ backend[b].at < Len(Steps(backend[b]))

\* The next thing b does concerns that table.
Reaches(b, table) == Unfinished(b) /\ NextRow(b)[1] = table

\* Mutant of Shared: positions are read with FOR SHARE.
SharedPositions(row) == row[1] \in {"session", "lines", "position"}

\* FOR SHARE admits other FOR SHARE; "lines" locks nothing.
Shared(row) == row[1] \in {"session", "lines"}

Blocks(c, b) ==
    /\ c # b
    /\ Running(c)
    /\ \/ backend[b].phase = "reserving" /\ backend[b].request = backend[c].request
       \/ Unfinished(b) /\ ~Shared(NextRow(b)) /\ Holds(c, NextRow(b))

Free(b) == \A c \in Backends : ~Blocks(c, b)

\* Transactions that wait for one another.
Deadlocked(group) ==
    /\ group # {}
    /\ \A b \in group : (\E c \in group : Blocks(c, b)) /\ (\E c \in group : Blocks(b, c))

-----------------------------------------------------------------------------
(* The transaction of a call.                                              *)

\* The call ends with that answer; nobody may be waiting for it any more.
Answered(b, answer) ==
    IF \E t \in Tills : till[t].call = b THEN [backend[b] EXCEPT !.phase = answer] ELSE Idle

End(b, answer) ==
    /\ backend' = [backend EXCEPT ![b] = Answered(b, answer)]
    /\ UNCHANGED <<till, session, documents, stock, numbers>>

Proceed(b) ==
    /\ backend' = [backend EXCEPT ![b].at = @ + 1]
    /\ UNCHANGED <<till, session, documents, stock, numbers>>

Posted(r) == {d \in documents : d.request = r}

SamePayload(d, c) == d.form = c.form /\ d.session = c.session

\* Mutant of Reserve: a known request is looked for, but not reserved.
ReserveUnlocked(b) ==
    /\ backend[b].phase = "reserving"
    /\ \/ /\ Posted(backend[b].request) = {}
          /\ backend' = [backend EXCEPT ![b].phase = "running"]
          /\ UNCHANGED <<till, session, documents, stock, numbers>>
       \/ \E d \in Posted(backend[b].request) :
            End(b, IF SamePayload(d, backend[b]) THEN "posted" ELSE "refused")

\* Mutant of Reserve: the payload of a known request is not compared.
ReserveAnyPayload(b) ==
    /\ backend[b].phase = "reserving"
    /\ Free(b)
    /\ \/ /\ Posted(backend[b].request) = {}
          /\ backend' = [backend EXCEPT ![b].phase = "running"]
          /\ UNCHANGED <<till, session, documents, stock, numbers>>
       \/ \E d \in Posted(backend[b].request) : End(b, "posted")

\* A known request is answered from its document, or refused if it is not the
\* same payload.
Reserve(b) ==
    /\ backend[b].phase = "reserving"
    /\ Free(b)
    /\ \/ /\ Posted(backend[b].request) = {}
          /\ backend' = [backend EXCEPT ![b].phase = "running"]
          /\ UNCHANGED <<till, session, documents, stock, numbers>>
       \/ \E d \in Posted(backend[b].request) :
            End(b, IF SamePayload(d, backend[b]) THEN "posted" ELSE "refused")

\* Mutant of LockSession: the status the till saw last is relied on.
LockAnySession(b) == Reaches(b, "session") /\ Proceed(b)

LockSession(b) ==
    /\ Reaches(b, "session")
    /\ IF session[backend[b].session].status = "OPEN" THEN Proceed(b) ELSE End(b, "refused")

LockReceipt(b) ==
    /\ Reaches(b, "receipt")
    /\ Free(b)
    /\ Proceed(b)

Returned(v) ==
    Cardinality({d \in documents : /\ d.kind = "return"
                                   /\ v \in Lines(d.form)})

\* A return checks a line as soon as its position is locked.
LineRefused(b, v) ==
    /\ Content[backend[b].form].kind = "return"
    /\ Returned(v) >= UnitsReceived \/ stock[v] < 1

LockPosition(b) ==
    /\ Reaches(b, "position")
    /\ Free(b)
    /\ LET v == NextRow(b)[2]
       IN  IF LineRefused(b, v)
           THEN End(b, "refused")
           ELSE /\ backend' = [backend EXCEPT ![b].at = @ + 1, ![b].left[v] = stock[v] - 1]
                /\ UNCHANGED <<till, session, documents, stock, numbers>>

\* Mutant of CheckLines: the quantity on hand is not checked again.
CheckNoLines(b) == Reaches(b, "lines") /\ Proceed(b)

\* A sale checks its lines when all their positions are locked.
CheckLines(b) ==
    /\ Reaches(b, "lines")
    /\ IF \A v \in Lines(backend[b].form) : backend[b].left[v] >= 0
       THEN Proceed(b)
       ELSE End(b, "refused")

\* Mutant of ClaimNumber: a sequence that does not roll back.
ClaimNumberForGood(b) ==
    /\ Reaches(b, "number")
    /\ Free(b)
    /\ LET s == NextRow(b)[2]
       IN  /\ backend' = [backend EXCEPT ![b].at = @ + 1, ![b].claimed[s] = numbers[s] + 1]
           /\ numbers' = [numbers EXCEPT ![s] = @ + 1]
    /\ UNCHANGED <<till, session, documents, stock>>

ClaimNumber(b) ==
    /\ Reaches(b, "number")
    /\ Free(b)
    /\ LET s == NextRow(b)[2]
       IN  backend' = [backend EXCEPT ![b].at = @ + 1, ![b].claimed[s] = numbers[s] + 1]
    /\ UNCHANGED <<till, session, documents, stock, numbers>>

Document(c) ==
    LET kind == Content[c.form].kind
    IN  [kind |-> kind, form |-> c.form, request |-> c.request, session |-> c.session,
         number |-> c.claimed[kind], journal |-> c.claimed["journal"],
         cash |-> IF kind = "sale" THEN Len(Content[c.form].lines) ELSE 0]

Commit(b) ==
    LET c == backend[b]
    IN  /\ Running(b)
        /\ c.at = Len(Steps(c))
        /\ documents' = documents \cup {Document(c)}
        /\ stock' = [v \in Variants |->
                        IF v \in Lines(c.form) THEN c.left[v] ELSE stock[v]]
        /\ numbers' = [s \in Series |->
                        IF c.claimed[s] > 0 THEN c.claimed[s] ELSE numbers[s]]
        /\ backend' = [backend EXCEPT ![b] = Answered(b, "posted")]
        /\ UNCHANGED <<till, session>>

\* Any error, a lost connection, a killed backend, a power cut: rolled back.
Abort(b) == backend[b].phase \in {"reserving", "running"} /\ End(b, "refused")

\* PostgreSQL aborts one of the transactions that wait for one another.
AbortDeadlock(b) ==
    /\ \E group \in SUBSET Backends : b \in group /\ Deadlocked(group)
    /\ End(b, "refused")

-----------------------------------------------------------------------------
(* The till.                                                               *)

\* A changed form is another form, and forgets the request id; the screen
\* allows it while a call is in flight.
Edit(t, f) ==
    /\ \A u \in Tills : till[u].form # f
    /\ \A b \in Backends : backend[b].form # f
    /\ \A d \in documents : d.form # f
    /\ till' = [till EXCEPT ![t].form = f, ![t].request = None]
    /\ UNCHANGED <<backend, session, documents, stock, numbers>>

InUse == {till[t].request : t \in Tills} \cup {backend[b].request : b \in Backends}
         \cup {d.request : d \in documents}

\* A sale keeps its request id for the next attempt; a return takes a new id
\* each time it is submitted.
Retained(t) == IF Content[till[t].form].kind = "sale" THEN till[t].request ELSE None

RequestIds(t) == IF Retained(t) # None THEN {Retained(t)} ELSE Requests \ InUse

\* The session a sale names is one of this till's, perhaps no longer open.
SessionsOf(t) ==
    IF Content[till[t].form].kind = "sale"
    THEN {s \in Sessions : session[s].till = t}
    ELSE {None}

Submit(t) ==
    /\ till[t].call = None
    /\ till[t].form # None
    /\ \E b \in Backends, r \in RequestIds(t), s \in SessionsOf(t) :
         /\ backend[b].phase = "idle"
         /\ backend' = [backend EXCEPT ![b] = Call(till[t].form, r, s)]
         /\ till' = [till EXCEPT ![t].request = r, ![t].call = b]
    /\ UNCHANGED <<session, documents, stock, numbers>>

\* Mutant of Deliver: an error leaves the screen submitting.
DeliverSuccess(t) ==
    LET b == till[t].call
    IN  /\ b # None
        /\ backend[b].phase = "posted"
        /\ till' = [till EXCEPT ![t] = [form |-> None, request |-> None, call |-> None]]
        /\ backend' = [backend EXCEPT ![b] = Idle]
        /\ UNCHANGED <<session, documents, stock, numbers>>

\* Success empties the form, whatever it has become; a failure keeps it.
Deliver(t) ==
    LET b == till[t].call
    IN  /\ b # None
        /\ backend[b].phase \in {"posted", "refused"}
        /\ till' = [till EXCEPT ![t] = IF backend[b].phase = "posted"
                                       THEN [form |-> None, request |-> None, call |-> None]
                                       ELSE [@ EXCEPT !.call = None]]
        /\ backend' = [backend EXCEPT ![b] = Idle]
        /\ UNCHANGED <<session, documents, stock, numbers>>

\* The till gets an error and knows nothing; the transaction may go on.
LoseAnswer(t) ==
    LET b == till[t].call
    IN  /\ b # None
        /\ till' = [till EXCEPT ![t].call = None]
        /\ backend' = [backend EXCEPT ![b] = IF @.phase \in {"reserving", "running"} THEN @ ELSE Idle]
        /\ UNCHANGED <<session, documents, stock, numbers>>

-----------------------------------------------------------------------------
(* The cash session: each function locks the session row FOR UPDATE, so it *)
(* waits for the sales that hold it FOR SHARE, and is over at once.        *)

NoSession == [status |-> "none", till |-> None, expected |-> 0]

Unlocked(row) == \A b \in Backends : ~Holds(b, row)

SetSession(s, status) ==
    /\ Unlocked(Row("session", s))
    /\ session' = [session EXCEPT ![s].status = status]
    /\ UNCHANGED <<till, backend, stock>>

\* cash_sessions_one_live_per_workstation
OpenSession(t, s) ==
    /\ session[s].status = "none"
    /\ \A u \in Sessions : session[u].till = t => session[u].status = "CLOSED"
    /\ session' = [session EXCEPT ![s].status = "OPEN", ![s].till = t]
    /\ UNCHANGED <<till, backend, documents, stock, numbers>>

BeginClose(s) ==
    /\ session[s].status = "OPEN"
    /\ SetSession(s, "CLOSING")
    /\ UNCHANGED <<documents, numbers>>

CancelClose(s) ==
    /\ session[s].status = "CLOSING"
    /\ SetSession(s, "OPEN")
    /\ UNCHANGED <<documents, numbers>>

\* cash.movements of the session; a variance journal moves no cash.
CashMovements(s) == {d \in documents : d.session = s /\ d.cash # 0}

CashOf(S) == SumFunction([d \in S |-> d.cash])

Drawer(s) == CashOf(CashMovements(s))

CashJournals == {d \in documents : d.form = None}

\* _post_cash_journal
PostCashJournal(kind, s, cash) ==
    /\ Unlocked(Row("number", "journal"))
    /\ Cardinality(CashJournals) < MaxJournals
    /\ numbers' = [numbers EXCEPT !["journal"] = @ + 1]
    /\ documents' = documents \cup
         {[kind |-> kind, form |-> None, request |-> None, session |-> s,
           number |-> 0, journal |-> numbers["journal"] + 1, cash |-> cash]}

\* The count fixes what was expected; a difference goes to the ledger at once
\* or, when it is material, after a manager's approval.
SubmitCount(s, difference) ==
    /\ session[s].status = "CLOSING"
    /\ Unlocked(Row("session", s))
    /\ session' = [session EXCEPT
                     ![s].status = IF difference = "material" THEN "PENDING_APPROVAL" ELSE "CLOSED",
                     ![s].expected = Drawer(s)]
    /\ IF difference = "small"
       THEN PostCashJournal("variance", s, 0)
       ELSE UNCHANGED <<documents, numbers>>
    /\ UNCHANGED <<till, backend, stock>>

ApproveVariance(s) ==
    /\ session[s].status = "PENDING_APPROVAL"
    /\ SetSession(s, "CLOSED")
    /\ PostCashJournal("variance", s, 0)

\* record_cash_movement, into the drawer or out of it.
MoveCash(s, amount) ==
    /\ session[s].status = "OPEN"
    /\ SetSession(s, "OPEN")
    /\ PostCashJournal("movement", s, amount)

-----------------------------------------------------------------------------
Init ==
    /\ till = [t \in Tills |-> [form |-> None, request |-> None, call |-> None]]
    /\ backend = [b \in Backends |-> Idle]
    /\ session = [s \in Sessions |-> NoSession]
    /\ documents = {}
    /\ stock = OpeningStock
    /\ numbers = NoNumbers

Advance(b) ==
    \/ Reserve(b) \/ LockSession(b) \/ LockReceipt(b) \/ LockPosition(b)
    \/ CheckLines(b) \/ ClaimNumber(b) \/ Commit(b)

Next ==
    \/ \E b \in Backends : Advance(b) \/ Abort(b) \/ AbortDeadlock(b)
    \/ \E t \in Tills : Submit(t) \/ Deliver(t) \/ LoseAnswer(t)
    \/ \E t \in Tills, f \in Forms : Edit(t, f)
    \/ \E t \in Tills, s \in Sessions : OpenSession(t, s)
    \/ \E s \in Sessions :
         \/ BeginClose(s)
         \/ CancelClose(s)
         \/ \E difference \in {"none", "small", "material"} : SubmitCount(s, difference)
         \/ ApproveVariance(s)
         \/ \E amount \in {-1, 1} : MoveCash(s, amount)

Spec == Init /\ [][Next]_vars

\* A backend works on, and gets a row it keeps asking for: PostgreSQL queues
\* the waiters of a row and looks for deadlocks.  Answers that are not lost
\* arrive.  Nothing is assumed of cashiers.
Fairness ==
    /\ \A b \in Backends : SF_vars(Advance(b)) /\ WF_vars(AbortDeadlock(b))
    /\ \A t \in Tills : WF_vars(Deliver(t))

FairSpec == Spec /\ Fairness

-----------------------------------------------------------------------------
(* Correctness.                                                            *)

OrNone(S) == S \cup {None}

Statuses == {"none", "OPEN", "CLOSING", "PENDING_APPROVAL", "CLOSED"}

Documents ==
    [kind: Kinds \cup {"variance", "movement"}, form: OrNone(Forms),
     request: OrNone(Requests), session: OrNone(Sessions), number: Nat, journal: Nat,
     cash: Int]

\* Nothing goes below zero in the committed state.
TypeOK ==
    /\ till \in [Tills -> [form: OrNone(Forms), request: OrNone(Requests),
                           call: OrNone(Backends)]]
    /\ backend \in [Backends ->
         [phase: {"idle", "reserving", "running", "posted", "refused"}, form: OrNone(Forms),
          request: OrNone(Requests), session: OrNone(Sessions), at: Nat,
          left: [Variants -> Int], claimed: [Series -> Nat]]]
    /\ session \in [Sessions ->
         [status: Statuses, till: OrNone(Tills), expected: Int]]
    /\ documents \subseteq Documents
    /\ stock \in [Variants -> Nat]
    /\ numbers \in [Series -> Nat]

\* A request is posted at most once, whatever is retried, lost or running
\* twice at the same time.
OncePerRequest ==
    \A d, e \in documents : d.request # None /\ d.request = e.request => d = e

\* A call that answers with a document answers with the document of its own
\* form and session.
AnswersAreTrue ==
    \A b \in Backends : backend[b].phase = "posted" =>
        \E d \in Posted(backend[b].request) : SamePayload(d, backend[b])

\* No two postings sell the same unit: stock is what it was less what the
\* committed documents moved.
StockIsWhatWasMoved ==
    \A v \in Variants :
        stock[v] = OpeningStock[v]
                   - Cardinality({d \in documents : d.form # None /\ v \in Lines(d.form)})

\* What a count compared the drawer with stays what the session's movements
\* add up to: no sale slips in behind it.
CountsAreComplete ==
    \A s \in Sessions :
        session[s].status \in {"PENDING_APPROVAL", "CLOSED"} => session[s].expected = Drawer(s)

\* Official numbers are given out without gaps or repetitions, although
\* postings fail after they claimed theirs.
NumbersHaveNoGaps ==
    /\ \A kind \in Kinds :
         LET posted == {d \in documents : d.kind = kind}
         IN  {d.number : d \in posted} = 1..Cardinality(posted)
    /\ {d.journal : d \in documents} = 1..Cardinality(documents)

\* Sales never deadlock among themselves: a supplier return is part of every
\* deadlock.
DeadlocksNeedAReturn ==
    \A group \in SUBSET Backends : Deadlocked(group) =>
        \E b \in group : Content[backend[b].form].kind = "return"

\* However calls interleave, fail and are tried again, the books change as if
\* one posting at a time were made, each at its commit, from what the books say
\* at that moment; and a drawer holds what its documents put in.
Books == INSTANCE ShopBooks WITH drawer <- [s \in Sessions |-> Drawer(s)]

ImplementsBooks == Books!Spec

\* Every call gets an answer, or an error in place of it.
CallsAreAnswered == \A t \in Tills : till[t].call # None ~> till[t].call = None

\* A form that is submitted again after an uncertain answer keeps its request
\* identity, so that no form is posted twice. The code does not keep it for
\* returns, which take a new id for every attempt.
FormsPostOnce ==
    \A d, e \in documents : d.form # None /\ d.form = e.form => d = e
=============================================================================
