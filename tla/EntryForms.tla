------------------------------ MODULE EntryForms ------------------------------
(* The entry forms of the desk and what they do about an answer that never    *)
(* comes: stock receipts and adjustments (one line with a kept request id, or *)
(* several, posted one by one), the cart of the till, direct purchases, the   *)
(* delivery of an order, purchase returns and cash movements. One operator,   *)
(* one form; a screen that is left behind keeps its calls running.            *)
EXTENDS Naturals, FiniteSets

CONSTANTS
    Kinds,      \* the forms considered
    Lines,      \* what the operator means to record, each of them once (a bound)
    Contents,   \* what is sent for a line: article, quantity, price
    ContentOf,  \* content of a line: two lines may look the same
    Calls,      \* calls, each the name of the request id that it mints (a bound)
    None        \* no request id

Listed == {"receipt", "adjustment"}
Renewing == Listed \cup {"sale"}
Keeping == Renewing \cup {"purchase", "delivery"}

ASSUME KindsAreForms == Kinds \subseteq Keeping \cup {"return", "movement"}
ASSUME ContentsAreSent == ContentOf \in [Lines -> Contents]
ASSUME NoneIsNothingElse ==
    None \notin Calls /\ \A payload \in SUBSET (Contents \cup Lines) : payload # None

VARIABLES
    kind,       \* which form it is
    entered,    \* lines the operator has entered so far
    lines,      \* lines in the form
    filled,     \* lines of the table that have their quantity
    typed,      \* the quantity field of a form with one line is filled in
    request,    \* the request id that the form keeps
    call,       \* the calls
    posted,     \* what the database recorded under a request id
    recorded,   \* how many times a line was recorded
    settled,    \* history: lines of the adjustment table seen recorded
    doubt,      \* history: lines that may be recorded, and whose id was let go
    late,       \* history: lines entered while a call was running
    replaced    \* history: a purchase was changed or closed over a kept id

vars == <<kind, entered, lines, filled, typed, request, call, posted, recorded,
          settled, doubt, late, replaced>>
form == <<entered, lines, filled, typed, request>>
history == <<settled, doubt, late, replaced>>
database == <<posted, recorded>>

(* waits: who gets the answer, the form, the loop of a form that was left, or *)
(* nobody any more. all, rest: the lines of the submission, and those of them *)
(* that its loop posts afterwards.                                            *)
NoCall == [pc |-> "none", waits |-> "nobody", id |-> None, lines |-> {}, all |-> {}, rest |-> {}]

CallType ==
    [pc : {"none", "sent", "recorded", "refused", "over"}, waits : {"form", "left", "nobody"},
     id : Calls \cup {None}, lines : SUBSET Lines, all : SUBSET Lines, rest : SUBSET Lines]

(* What is sent: a delivery and a return name the lines of their document.    *)
Payload(ls) == IF kind \in {"delivery", "return"} THEN ls ELSE {ContentOf[l] : l \in ls}

(* Mutated form: a form whose id was let go may be submitted again at once.   *)
BusyWhileKept == \E k \in Calls : call[k].waits = "form" /\ call[k].id = request

(* submitting                                                                 *)
Busy == \E k \in Calls : call[k].waits = "form"

(* Calls of which the form does not know how they ended.                      *)
Unanswered(k) == call[k].pc \in {"sent", "recorded", "refused"}
Uncertain(r) == UNION {call[k].lines : k \in {j \in Calls : Unanswered(j) /\ call[j].id = r}}

Init ==
    /\ kind \in Kinds
    /\ entered = {} /\ lines = {} /\ filled = {} /\ typed = FALSE
    /\ request = None
    /\ call = [k \in Calls |-> NoCall]
    /\ posted = [k \in Calls |-> None]
    /\ recorded = [l \in Lines |-> 0]
    /\ settled = {} /\ doubt = {} /\ late = {} /\ replaced = FALSE

-----------------------------------------------------------------------------
(* What the operator does to the form. Nothing is locked while a call runs.   *)

(* invalidateRequest, invalidateSaleIntent, and what the other forms lack.    *)
Renew ==
    IF kind \in Renewing
    THEN request' = None /\ doubt' = doubt \cup Uncertain(request)
    ELSE UNCHANGED <<request, doubt>>

NoteEntry(l) ==
    /\ l \notin entered /\ entered' = entered \cup {l}
    /\ late' = IF Busy THEN late \cup {l} ELSE late

(* One more line; a form has one line for an article.                         *)
Enter(l) ==
    /\ NoteEntry(l)
    /\ ContentOf[l] \notin Payload(lines)
    /\ kind = "movement" => lines = {}
    /\ lines' = lines \cup {l}
    /\ Renew
    /\ UNCHANGED <<kind, filled, typed, call, database, settled, replaced>>

(* handleSelectItem: the article scanned or picked replaces what was there.   *)
Pick(l) ==
    /\ kind \in Listed
    /\ NoteEntry(l)
    /\ lines' = {l} /\ filled' = {}
    /\ Renew
    /\ UNCHANGED <<kind, typed, call, database, settled, replaced>>

(* The quantity of a row of the table; for a recorded row it would be another *)
(* line.                                                                      *)
Fill(l) ==
    /\ kind \in Listed /\ l \in lines \ settled /\ Cardinality(lines) > 1
    /\ filled' = filled \cup {l}
    /\ Renew
    /\ UNCHANGED <<kind, entered, lines, typed, call, database, settled, late, replaced>>

(* The quantity of the only line. Of the two screens only the receipt copies  *)
(* it into the table.                                                         *)
Type ==
    /\ kind \in Listed /\ Cardinality(lines) = 1 /\ lines \cap settled = {}
    /\ typed' = TRUE
    /\ filled' = IF kind = "receipt" THEN lines ELSE filled
    /\ Renew
    /\ UNCHANGED <<kind, entered, lines, call, database, settled, late, replaced>>

(* removeLine: the last line that is left moves into the single fields.       *)
Remove(l) ==
    /\ l \in lines
    /\ lines' = lines \ {l} /\ filled' = filled \ {l}
    /\ typed' = CASE Cardinality(lines') = 0 -> FALSE
                  [] Cardinality(lines') = 1 -> lines' \subseteq filled
                  [] Cardinality(lines') > 1 -> typed
    /\ Renew
    /\ replaced' = (replaced \/ (kind = "purchase" /\ request # None))
    /\ UNCHANGED <<kind, entered, call, database, settled, late>>

(* Any other field: date, cost, unit, customer, discount.                     *)
Edit ==
    /\ lines # {}
    /\ Renew
    /\ UNCHANGED <<kind, entered, lines, filled, typed, call, database, settled, late, replaced>>

Blank == lines' = {} /\ filled' = {} /\ typed' = FALSE

(* resetForm: the purchase form is closed, its ref keeps the request id.      *)
Close ==
    /\ kind = "purchase" /\ lines # {}
    /\ Blank
    /\ replaced' = (replaced \/ request # None)
    /\ UNCHANGED <<kind, entered, request, call, database, settled, doubt, late>>

(* The calls, when the screen or the modal goes away: what awaits goes on.    *)
Left ==
    [k \in Calls |-> IF call[k].waits = "form" THEN [call[k] EXCEPT !.waits = "left"] ELSE call[k]]

Leave ==
    /\ lines # {} \/ request # None
    /\ Blank /\ request' = None /\ replaced' = FALSE
    /\ call' = Left
    /\ UNCHANGED <<kind, entered, database, settled, doubt, late>>

-----------------------------------------------------------------------------
(* Submitting.                                                                *)

Batch == kind \in Listed /\ Cardinality(lines) > 1

Send(k, id, ls, all, rest, waits) ==
    /\ call[k].pc = "none"
    /\ call' = [call EXCEPT ![k] = [pc |-> "sent", waits |-> waits, id |-> id,
                                    lines |-> ls, all |-> all, rest |-> rest]]

(* Mutated form: every submission is a new request.                           *)
RequestIdFresh(k) == k

(* requestId ?? newRequestId(): the id of an earlier attempt is used again.   *)
RequestId(k) == IF kind \in Keeping /\ request # None THEN request ELSE k

Submit(k) ==
    /\ ~Busy /\ ~Batch /\ lines # {}
    /\ kind \in Listed => typed
    /\ Send(k, RequestId(k), lines, lines, {}, "form")
    /\ request' = IF kind \in Keeping THEN RequestId(k) ELSE request
    /\ late' = {}
    /\ UNCHANGED <<kind, entered, lines, filled, typed, database, settled, doubt, replaced>>

(* Each line of a batch is a request of its own, also when it is submitted    *)
(* again.                                                                     *)
SubmitBatch(k, l) ==
    /\ ~Busy /\ Batch /\ filled = lines /\ l \in lines
    /\ Send(k, k, {l}, lines, lines \ {l}, "form")
    /\ late' = {}
    /\ UNCHANGED <<kind, form, database, settled, doubt, replaced>>

-----------------------------------------------------------------------------
(* The database.                                                              *)

(* Mutated form: a known request id is answered whatever came with it.        *)
RecordAnyPayload(k) ==
    LET q == call[k] IN
    /\ q.pc = "sent"
    /\ IF posted[q.id] = None
       THEN /\ posted' = [posted EXCEPT ![q.id] = Payload(q.lines)]
            /\ recorded' = [l \in Lines |-> recorded[l] + IF l \in q.lines THEN 1 ELSE 0]
       ELSE UNCHANGED <<posted, recorded>>
    /\ call' = [call EXCEPT ![k].pc = "recorded"]
    /\ UNCHANGED <<kind, form, history>>

(* reserve_idempotent_request in the transaction that posts: a new request is *)
(* recorded, a known one is answered again if it says the same. A cash        *)
(* movement has no request id, which the model takes for one that is new.     *)
Record(k) ==
    LET q == call[k] IN
    /\ q.pc = "sent"
    /\ posted[q.id] \in {None, Payload(q.lines)}
    /\ IF posted[q.id] = None
       THEN /\ posted' = [posted EXCEPT ![q.id] = Payload(q.lines)]
            /\ recorded' = [l \in Lines |-> recorded[l] + IF l \in q.lines THEN 1 ELSE 0]
       ELSE UNCHANGED <<posted, recorded>>
    /\ call' = [call EXCEPT ![k].pc = "recorded"]
    /\ UNCHANGED <<kind, form, history>>

(* Another payload under a known id, a closed period, too little stock, no    *)
(* right to do it: nothing is written.                                        *)
Reject(k) ==
    /\ call[k].pc = "sent"
    /\ call' = [call EXCEPT ![k].pc = "refused"]
    /\ UNCHANGED <<kind, form, database, history>>

-----------------------------------------------------------------------------
(* The answer.                                                                *)

Awaited(k, pc) == call[k].pc = pc /\ call[k].waits # "nobody"
End(k) == [call EXCEPT ![k] = [NoCall EXCEPT !.pc = "over"]]

(* Lines of the batch that earlier calls of this submission have recorded.    *)
Before(q) == q.all \ (q.lines \cup q.rest)

(* The next line of the loop, also after the screen has been left.            *)
Continue(k, j, l) ==
    LET q == call[k] IN
    /\ Awaited(k, "recorded") /\ l \in q.rest
    /\ call[j].pc = "none"
    /\ call' = [End(k) EXCEPT
                 ![j] = [pc |-> "sent", waits |-> q.waits, id |-> j, lines |-> {l},
                         all |-> q.all, rest |-> q.rest \ {l}]]
    /\ UNCHANGED <<kind, form, database, history>>

(* The success of a whole submission, as the mounted form takes it: it clears *)
(* whatever is in it by now. The adjustment screen clears only the field.     *)
Succeed(k) ==
    LET q == call[k] IN
    /\ Awaited(k, "recorded") /\ q.rest = {} /\ q.waits = "form"
    /\ call' = End(k)
    /\ replaced' = FALSE
    /\ IF kind = "adjustment" /\ q.all = q.lines
       THEN /\ typed' = FALSE /\ UNCHANGED <<lines, filled>>
            /\ settled' = settled \cup q.lines
            /\ doubt' = doubt \cup (q.lines \cap filled)
       ELSE Blank /\ UNCHANGED <<settled, doubt>>
    /\ request' = IF q.all = q.lines THEN None ELSE request
    /\ UNCHANGED <<kind, entered, database, late>>

(* onPosted of a return whose modal was left: the screen closes the return    *)
(* modal that is open by now, whichever it is.                                *)
LateSuccess(k) ==
    /\ kind = "return" /\ call[k].pc = "recorded" /\ call[k].waits = "left"
    /\ Blank
    /\ call' = [Left EXCEPT ![k] = [NoCall EXCEPT !.pc = "over"]]
    /\ UNCHANGED <<kind, entered, request, database, history>>

(* Nobody listens any more: the form was left, the screen with it.            *)
Unheard(k) ==
    /\ call[k].waits = "left"
    /\ \/ call[k].pc = "recorded" /\ call[k].rest = {}
       \/ call[k].pc = "refused"
    /\ call' = End(k)
    /\ UNCHANGED <<kind, form, database, history>>

(* A refusal: everything stays in the form, and a batch ends where it is.     *)
Refused(k) ==
    /\ Awaited(k, "refused") /\ call[k].waits = "form"
    /\ call' = End(k)
    /\ doubt' = doubt \cup Before(call[k])
    /\ UNCHANGED <<kind, form, database, settled, late, replaced>>

(* UNKNOWN_ERROR: the answer is lost, and the call may still be running.      *)
Lose(k) ==
    /\ Unanswered(k) /\ call[k].waits # "nobody"
    /\ call' = [call EXCEPT ![k].waits = "nobody"]
    /\ doubt' = doubt \cup Before(call[k])
                \cup (IF kind \in Keeping /\ call[k].id = request THEN {} ELSE call[k].lines)
    /\ UNCHANGED <<kind, form, database, settled, late, replaced>>

Operate ==
    \/ \E l \in Lines : Enter(l) \/ Pick(l) \/ Fill(l) \/ Remove(l)
    \/ Type \/ Edit \/ Close \/ Leave
    \/ \E k \in Calls : Submit(k) \/ \E l \in Lines : SubmitBatch(k, l)

Serve(k) == Record(k) \/ Reject(k)

Answer(k) ==
    \/ \E j \in Calls, l \in Lines : Continue(k, j, l)
    \/ Succeed(k) \/ LateSuccess(k) \/ Unheard(k) \/ Refused(k) \/ Lose(k)

Next == Operate \/ \E k \in Calls : Serve(k) \/ Answer(k)

Spec == Init /\ [][Next]_vars

-----------------------------------------------------------------------------
(* Properties.                                                                *)

(* Every variable has its type, and a mounted form awaits one call at a time. *)
TypeOK ==
    /\ kind \in Kinds
    /\ lines \subseteq entered /\ entered \subseteq Lines /\ filled \subseteq lines
    /\ typed \in BOOLEAN /\ replaced \in BOOLEAN
    /\ request \in Calls \cup {None}
    /\ call \in [Calls -> CallType]
    /\ posted \in [Calls -> {None} \cup SUBSET (Contents \cup Lines)]
    /\ recorded \in [Lines -> Nat]
    /\ settled \subseteq Lines /\ doubt \subseteq Lines /\ late \subseteq Lines
    /\ \A j, k \in Calls : call[j].waits = "form" /\ call[k].waits = "form" => j = k

(* What the operator entered once is recorded once, whatever is lost, refused *)
(* or submitted again, unless an id was let go before the form knew how its   *)
(* call had ended: an edit after a lost answer, a batch that stopped half     *)
(* way, a form that keeps no id, or a recorded line left standing in the      *)
(* adjustment table. A purchase or a delivery is never among them.            *)
RecordedOnce ==
    \A l \in Lines : recorded[l] > 1 => l \in doubt /\ kind \notin {"purchase", "delivery"}

(* A success clears from the form what was recorded, and besides only what    *)
(* was entered while the call was running: no line disappears because an      *)
(* earlier request with the same content was answered again, except under the *)
(* id that a purchase form keeps when its lines are replaced, nor because the *)
(* success is that of a form that was left, except with the returns.          *)
NothingIsLost ==
    [][\A k \in Calls : call[k].pc = "recorded" /\ call'[k].pc = "over" =>
         \A l \in lines \ lines' :
            \/ recorded[l] > 0 \/ l \in late \/ replaced
            \/ kind = "return" /\ call[k].waits = "left"]_vars

(* The success of a form that was left leaves the next one alone. The code    *)
(* does not keep it: the screen closes whatever return modal is open.         *)
LateAnswersSpareTheForm ==
    [][\A k \in Calls :
         call[k].waits = "left" /\ call[k].pc = "recorded" /\ call'[k].pc = "over"
            => lines' = lines]_vars
=============================================================================
