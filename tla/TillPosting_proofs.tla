------------------------- MODULE TillPosting_proofs -------------------------
(***************************************************************************)
(* For any number of tills, connections, requests, forms and variants:     *)
(*   - a request is posted at most once and every answer is true.  Of the  *)
(*     calls that run with the same request id at most one has reserved    *)
(*     it, and nothing is posted under it until its holder commits         *)
(*     (RequestInv);                                                       *)
(*   - what a call read of a row stays so while it holds the row, and of   *)
(*     two calls only one holds a row that is not shared (WorkInv), so     *)
(*     that sales, which lock in one order, do not deadlock by themselves; *)
(*   - stock, numbers and counts say what the documents say (BooksInv).    *)
(***************************************************************************)
EXTENDS TillPosting, TLAPS, FiniteSetTheorems, SequenceTheorems, WellFoundedInduction

Phases == {"idle", "reserving", "running", "posted", "refused"}

Amounts == [Variants -> Int]

Claims == [Series -> Nat]

Calls ==
    [phase: Phases, form: OrNone(Forms),
     request: OrNone(Requests), session: OrNone(Sessions), at: Nat,
     left: Amounts, claimed: Claims]

Shown == [form: OrNone(Forms), request: OrNone(Requests), call: OrNone(Backends)]

\* The types the argument needs.
Typed ==
    /\ till \in [Tills -> Shown]
    /\ backend \in [Backends -> Calls]
    /\ stock \in [Variants -> Int]
    /\ numbers \in [Series -> Nat]
    /\ \A b \in Backends :
         backend[b].phase \in {"reserving", "running"} => backend[b].request # None

\* One holder of a reserved request id.
ReservationsExclude ==
    \A b, c \in Backends :
        Running(b) /\ Running(c) /\ backend[b].request = backend[c].request => b = c

\* Nothing is posted under a reserved request id.
ReservedIsUnposted == \A b \in Backends : Running(b) => Posted(backend[b].request) = {}

RequestInv ==
    /\ Typed
    /\ ReservationsExclude
    /\ ReservedIsUnposted
    /\ OncePerRequest
    /\ AnswersAreTrue

-----------------------------------------------------------------------------
(* Steps of one call.                                                      *)

\* A call as it is before it is made and after it is over.
LEMMA IdleCall == Idle \in Calls /\ Idle.phase = "idle"
<1>1. NoLocks \in Amounts /\ NoNumbers \in Claims
  BY DEF NoLocks, NoNumbers, Amounts, Claims
<1>2. QED
  BY <1>1 DEF Idle, Calls, OrNone, Phases

\* A function changed at one argument.
LEMMA ChangedFunction ==
    ASSUME NEW S, NEW T, NEW f \in [S -> T], NEW v, NEW x, v \in S => x \in T
    PROVE  [f EXCEPT ![v] = x] \in [S -> T]
<1>1. CASE v \in S
  BY <1>1
<1>2. CASE v \notin S
  <2>1. [f EXCEPT ![v] = x] = f
    BY <1>2
  <2>2. QED
    BY <2>1
<1>3. QED
  BY <1>1, <1>2

\* What a step may change of a call.
LEMMA ChangedPhase ==
    ASSUME NEW k \in Calls, NEW p \in Phases
    PROVE  LET c == [k EXCEPT !.phase = p]
           IN  /\ c \in Calls /\ c.phase = p /\ c.request = k.request
               /\ c.form = k.form /\ c.session = k.session
  BY DEF Calls

\* A call one step further.
LEMMA ChangedAt ==
    ASSUME NEW k \in Calls
    PROVE  LET c == [k EXCEPT !.at = @ + 1]
           IN  c \in Calls /\ c.phase = k.phase /\ c.request = k.request
  BY DEF Calls

\* A call one step further, with what it leaves of a position.
LEMMA ChangedLeft ==
    ASSUME NEW k \in Calls, NEW l \in Amounts
    PROVE  LET c == [k EXCEPT !.at = @ + 1, !.left = l]
           IN  c \in Calls /\ c.phase = k.phase /\ c.request = k.request
<1> DEFINE a == [k EXCEPT !.at = @ + 1]
           c == [k EXCEPT !.at = @ + 1, !.left = l]
<1>1. a \in Calls /\ a.phase = k.phase /\ a.request = k.request
  BY ChangedAt
<1>2. c = [a EXCEPT !.left = l]
  BY DEF Calls
<1> HIDE DEF a, c
<1>3. c \in Calls /\ c.phase = a.phase /\ c.request = a.request
  BY <1>1, <1>2 DEF Calls
<1>4. c \in Calls /\ c.phase = k.phase /\ c.request = k.request
  BY <1>1, <1>3
<1>5. QED
  BY <1>4 DEF c

\* A call one step further, with a number of its own.
LEMMA ChangedClaimed ==
    ASSUME NEW k \in Calls, NEW m \in Claims
    PROVE  LET c == [k EXCEPT !.at = @ + 1, !.claimed = m]
           IN  c \in Calls /\ c.phase = k.phase /\ c.request = k.request
<1> DEFINE a == [k EXCEPT !.at = @ + 1]
           c == [k EXCEPT !.at = @ + 1, !.claimed = m]
<1>1. a \in Calls /\ a.phase = k.phase /\ a.request = k.request
  BY ChangedAt
<1>2. c = [a EXCEPT !.claimed = m]
  BY DEF Calls
<1> HIDE DEF a, c
<1>3. c \in Calls /\ c.phase = a.phase /\ c.request = a.request
  BY <1>1, <1>2 DEF Calls
<1>4. c \in Calls /\ c.phase = k.phase /\ c.request = k.request
  BY <1>1, <1>3
<1>5. QED
  BY <1>4 DEF c

\* A call as a till makes it.
LEMMA MadeCall ==
    ASSUME NEW f \in OrNone(Forms), NEW r \in OrNone(Requests), NEW s \in OrNone(Sessions)
    PROVE  LET c == Call(f, r, s)
           IN  c \in Calls /\ c.phase = "reserving" /\ c.request = r
  BY IdleCall DEF Call, Calls, Phases

\* A step of one call that posts nothing keeps the invariant, if the call does
\* not come to hold another reservation and does not answer what is not so.
LEMMA CallStep ==
    ASSUME RequestInv, NEW b \in Backends, NEW c \in Calls,
           backend' = [backend EXCEPT ![b] = c],
           documents' = documents, stock' = stock, numbers' = numbers,
           till' \in [Tills -> Shown],
           c.phase \in {"reserving", "running"} => c.request # None,
           c.phase = "running" => Running(b) /\ c.request = backend[b].request,
           c.phase = "posted" => \E d \in Posted(c.request) : SamePayload(d, c)
    PROVE  RequestInv'
<1> USE DEF RequestInv
<1>1. \A e \in Backends : e # b => backend'[e] = backend[e]
  BY DEF Typed
<1>2. backend'[b] = c
  BY DEF Typed
<1>3. Typed'
  BY <1>1, <1>2 DEF Typed
<1>4. ReservationsExclude'
  BY <1>1, <1>2 DEF ReservationsExclude, Running
<1>5. ReservedIsUnposted'
  BY <1>1, <1>2 DEF ReservedIsUnposted, Running, Posted
<1>6. OncePerRequest'
  BY DEF OncePerRequest
<1>7. AnswersAreTrue'
  BY <1>1, <1>2 DEF AnswersAreTrue, Posted, SamePayload
<1>8. QED
  BY <1>3, <1>4, <1>5, <1>6, <1>7

\* A call that ends without a document of its own.
LEMMA EndStep ==
    ASSUME RequestInv, NEW b \in Backends, NEW answer \in {"posted", "refused"},
           End(b, answer),
           answer = "posted" =>
               \E d \in Posted(backend[b].request) : SamePayload(d, backend[b])
    PROVE  RequestInv'
<1> DEFINE c == Answered(b, answer)
<1>1. /\ backend' = [backend EXCEPT ![b] = c] /\ documents' = documents
      /\ stock' = stock /\ numbers' = numbers /\ till' \in [Tills -> Shown]
  BY DEF End, RequestInv, Typed
<1>2. CASE c = Idle
  BY <1>1, <1>2, CallStep, IdleCall
<1>3. CASE c = [backend[b] EXCEPT !.phase = answer]
  <2>0. backend[b] \in Calls /\ answer \in Phases
    BY DEF RequestInv, Typed, Phases
  <2>1. /\ c \in Calls /\ c.phase = answer /\ c.request = backend[b].request
        /\ c.form = backend[b].form /\ c.session = backend[b].session
    <3> HIDE DEF c
    <3>1. QED
      BY <1>3, <2>0, ChangedPhase
  <2> HIDE DEF c
  <2>2. QED
    BY <1>1, <2>1, CallStep DEF SamePayload
<1>4. QED
  BY <1>2, <1>3 DEF Answered

\* A call that goes on: its request and its phase stay.
LEMMA GoOn ==
    ASSUME RequestInv, NEW b \in Backends, Running(b), NEW c \in Calls,
           c.phase = backend[b].phase, c.request = backend[b].request,
           backend' = [backend EXCEPT ![b] = c],
           UNCHANGED <<till, documents, stock, numbers>>
    PROVE  RequestInv'
<1>1. c.phase = "running" /\ c.request # None /\ till' \in [Tills -> Shown]
  BY DEF RequestInv, Typed, Running
<1>2. QED
  BY <1>1, CallStep

\* The call has taken one step more.
LEMMA ProceedStep ==
    ASSUME RequestInv, NEW b \in Backends, Running(b), Proceed(b)
    PROVE  RequestInv'
<1> DEFINE c == [backend[b] EXCEPT !.at = @ + 1]
<1>0. backend[b] \in Calls
  BY DEF RequestInv, Typed
<1>1. c \in Calls /\ c.phase = backend[b].phase /\ c.request = backend[b].request
  BY <1>0, ChangedAt
<1>2. backend' = [backend EXCEPT ![b] = c] /\ UNCHANGED <<till, documents, stock, numbers>>
  BY DEF Proceed
<1> HIDE DEF c
<1>3. QED
  BY <1>1, <1>2, GoOn

\* A step outside the calls that posts nothing.
LEMMA QuietStep ==
    ASSUME RequestInv, backend' = backend, stock' = stock, documents' = documents,
           till' \in [Tills -> Shown], numbers' \in [Series -> Nat]
    PROVE  RequestInv'
<1> USE DEF RequestInv
<1>1. Typed'
  BY DEF Typed
<1>2. ReservationsExclude'
  BY DEF ReservationsExclude, Running
<1>3. ReservedIsUnposted'
  BY DEF ReservedIsUnposted, Running, Posted
<1>4. OncePerRequest'
  BY DEF OncePerRequest
<1>5. AnswersAreTrue'
  BY DEF AnswersAreTrue, Posted, SamePayload
<1>6. QED
  BY <1>1, <1>2, <1>3, <1>4, <1>5

\* A step outside the calls that posts a document without a request.
LEMMA OutsideStep ==
    ASSUME RequestInv, backend' = backend, stock' = stock,
           till' \in [Tills -> Shown], numbers' \in [Series -> Nat],
           NEW d, d.request = None, documents' = documents \cup {d}
    PROVE  RequestInv'
<1> USE DEF RequestInv
<1>1. Typed'
  BY DEF Typed
<1>2. ReservationsExclude'
  BY DEF ReservationsExclude, Running
<1>3. ReservedIsUnposted'
  BY DEF ReservedIsUnposted, Running, Posted, Typed
<1>4. OncePerRequest'
  BY DEF OncePerRequest
<1>5. AnswersAreTrue'
  BY DEF AnswersAreTrue, Posted, SamePayload
<1>6. QED
  BY <1>1, <1>2, <1>3, <1>4, <1>5

-----------------------------------------------------------------------------
(* The inductive invariant.                                                *)

\* Connections are idle at first, and nothing is posted.
LEMMA InitRequestInv == Init => RequestInv
<1> SUFFICES ASSUME Init PROVE RequestInv
  OBVIOUS
<1>1. Typed
  <2>1. till \in [Tills -> Shown]
    BY DEF Init, Shown, OrNone
  <2>2. backend \in [Backends -> Calls] /\ \A b \in Backends : backend[b].phase = "idle"
    BY IdleCall DEF Init
  <2>3. stock \in [Variants -> Int] /\ numbers \in [Series -> Nat]
    BY StockAssumption DEF Init, NoNumbers
  <2>4. QED
    BY <2>1, <2>2, <2>3 DEF Typed
<1>2. \A b \in Backends : backend[b].phase = "idle"
  BY IdleCall DEF Init
<1>3. QED
  BY <1>1, <1>2 DEF Init, RequestInv, ReservationsExclude, ReservedIsUnposted, Running,
                    OncePerRequest, AnswersAreTrue

\* A request is reserved when nobody holds it and nothing is posted under it.
LEMMA ReserveStep ==
    ASSUME RequestInv, NEW b \in Backends, Reserve(b)
    PROVE  RequestInv'
<1>1. CASE \E d \in Posted(backend[b].request) :
             End(b, IF SamePayload(d, backend[b]) THEN "posted" ELSE "refused")
  <2>1. PICK d \in Posted(backend[b].request) :
             End(b, IF SamePayload(d, backend[b]) THEN "posted" ELSE "refused")
    BY <1>1
  <2>2. CASE SamePayload(d, backend[b])
    BY <2>1, <2>2, EndStep
  <2>3. CASE ~SamePayload(d, backend[b])
    BY <2>1, <2>3, EndStep
  <2>4. QED
    BY <2>2, <2>3
<1>2. CASE /\ Posted(backend[b].request) = {}
           /\ backend' = [backend EXCEPT ![b].phase = "running"]
           /\ UNCHANGED <<till, session, documents, stock, numbers>>
  <2> USE DEF RequestInv
  <2>1. /\ backend[b].phase = "reserving" /\ backend[b].request # None
        /\ \A c \in Backends :
             c # b /\ Running(c) => backend[b].request # backend[c].request
    BY DEF Reserve, Free, Blocks, Typed
  <2>2. /\ \A e \in Backends : e # b => backend'[e] = backend[e]
        /\ backend'[b] = [backend[b] EXCEPT !.phase = "running"]
    BY <1>2 DEF Typed
  <2>3. /\ backend'[b] \in Calls /\ backend'[b].phase = "running"
        /\ backend'[b].request = backend[b].request
    <3>1. backend[b] \in Calls /\ "running" \in Phases
      BY DEF Typed, Phases
    <3>2. QED
      BY <2>2, <3>1, ChangedPhase
  <2>4. Typed'
    BY <1>2, <2>1, <2>2, <2>3 DEF Typed
  <2>5. ReservationsExclude'
    <3> SUFFICES ASSUME NEW e \in Backends, NEW f \in Backends,
                        backend'[e].phase = "running", backend'[f].phase = "running",
                        backend'[e].request = backend'[f].request
                 PROVE  e = f
      BY DEF ReservationsExclude, Running
    <3>1. CASE e # b /\ f # b
      BY <2>2, <3>1 DEF ReservationsExclude, Running
    <3>2. CASE e = b /\ f # b
      BY <2>1, <2>2, <2>3, <3>2 DEF Running
    <3>3. CASE f = b /\ e # b
      BY <2>1, <2>2, <2>3, <3>3 DEF Running
    <3>4. QED
      BY <3>1, <3>2, <3>3
  <2>6. ReservedIsUnposted'
    BY <1>2, <2>2, <2>3 DEF ReservedIsUnposted, Running, Posted
  <2>7. OncePerRequest'
    BY <1>2 DEF OncePerRequest
  <2>8. AnswersAreTrue'
    BY <1>2, <2>2, <2>3 DEF AnswersAreTrue, Posted, SamePayload
  <2>9. QED
    BY <2>4, <2>5, <2>6, <2>7, <2>8
<1>3. QED
  BY <1>1, <1>2 DEF Reserve

\* A commit posts under an id that is reserved, hence not posted under yet.
LEMMA CommitStep ==
    ASSUME RequestInv, NEW b \in Backends, Commit(b)
    PROVE  RequestInv'
<1> USE DEF RequestInv
<1> DEFINE c == backend[b]
           a == Answered(b, "posted")
           d == Document(c)
<1>1. /\ Running(b) /\ documents' = documents \cup {d} /\ till' = till
      /\ backend' = [backend EXCEPT ![b] = a]
  BY DEF Commit
<1>2. c \in Calls /\ c.phase = "running" /\ c.request # None
  BY <1>1 DEF Typed, Running
<1>3. d.request = c.request /\ d.form = c.form /\ d.session = c.session
  BY DEF Document
<1>4. a \in Calls /\ a.phase \in {"idle", "posted"}
      /\ (a.phase = "posted" =>
            a.request = c.request /\ a.form = c.form /\ a.session = c.session)
  <2>1. a = Idle \/ a = [c EXCEPT !.phase = "posted"]
    BY DEF Answered
  <2>2. CASE a = Idle
    BY <2>2, IdleCall
  <2>3. CASE a = [c EXCEPT !.phase = "posted"]
    <3>1. "posted" \in Phases
      BY DEF Phases
    <3> HIDE DEF a, c
    <3>2. QED
      BY <1>2, <2>3, <3>1, ChangedPhase
  <2>4. QED
    BY <2>1, <2>2, <2>3
<1>5. /\ stock' \in [Variants -> Int] /\ numbers' \in [Series -> Nat]
  <2>1. /\ stock' = [v \in Variants |->
                        IF v \in Lines(c.form) THEN c.left[v] ELSE stock[v]]
        /\ numbers' = [s \in Series |->
                        IF c.claimed[s] > 0 THEN c.claimed[s] ELSE numbers[s]]
    BY DEF Commit
  <2>2. c.left \in [Variants -> Int] /\ c.claimed \in [Series -> Nat]
    BY <1>2 DEF Calls, Amounts, Claims
  <2> HIDE DEF c
  <2>3. QED
    BY <2>1, <2>2 DEF Typed
<1>6. /\ \A e \in Backends : e # b => backend'[e] = backend[e]
      /\ backend'[b] = a
  BY <1>1 DEF Typed
<1>7. \A e \in documents : e.request # d.request
  BY <1>1, <1>3 DEF ReservedIsUnposted, Posted
<1>8. \A e \in Backends : e # b /\ Running(e) => backend[e].request # d.request
  BY <1>1, <1>3 DEF ReservationsExclude
<1> HIDE DEF a, d
<1>9. Typed'
  BY <1>1, <1>4, <1>5, <1>6 DEF Typed
<1>10. ReservationsExclude'
  BY <1>4, <1>6 DEF ReservationsExclude, Running
<1>11. ReservedIsUnposted'
  BY <1>1, <1>4, <1>6, <1>8 DEF ReservedIsUnposted, Running, Posted
<1>12. OncePerRequest'
  BY <1>1, <1>7 DEF OncePerRequest
<1>13. AnswersAreTrue'
  BY <1>1, <1>3, <1>4, <1>6 DEF AnswersAreTrue, Posted, SamePayload
<1>14. QED
  BY <1>9, <1>10, <1>11, <1>12, <1>13

\* No step of a transaction breaks the invariant.
LEMMA BackendStep ==
    ASSUME RequestInv, NEW b \in Backends, Advance(b) \/ Abort(b) \/ AbortDeadlock(b)
    PROVE  RequestInv'
<1>1. CASE Reserve(b)
  BY <1>1, ReserveStep
<1>2. CASE LockSession(b)
  <2>1. Running(b) /\ (Proceed(b) \/ End(b, "refused"))
    BY <1>2 DEF LockSession, Reaches, Unfinished
  <2>2. QED
    BY <2>1, ProceedStep, EndStep
<1>3. CASE LockReceipt(b)
  BY <1>3, ProceedStep DEF LockReceipt, Reaches, Unfinished
<1>4. CASE LockPosition(b)
  <2> DEFINE v == NextRow(b)[2]
             c == [backend[b] EXCEPT !.at = @ + 1, !.left = [@ EXCEPT ![v] = stock[v] - 1]]
  <2>1. CASE End(b, "refused")
    BY <2>1, EndStep
  <2>2. CASE /\ backend' = [backend EXCEPT ![b].at = @ + 1, ![b].left[v] = stock[v] - 1]
             /\ UNCHANGED <<till, session, documents, stock, numbers>>
    <3>1. Running(b)
      BY <1>4 DEF LockPosition, Reaches, Unfinished
    <3>2. /\ backend[b] \in Calls /\ backend[b].left \in Amounts
          /\ stock \in [Variants -> Int]
      BY DEF RequestInv, Typed, Calls
    <3> HIDE DEF v
    <3>3. [backend[b].left EXCEPT ![v] = stock[v] - 1] \in Amounts
      BY <3>2, ChangedFunction DEF Amounts
    <3>4. backend' = [backend EXCEPT ![b] = c]
      BY <2>2 DEF RequestInv, Typed, Calls
    <3>5. c \in Calls /\ c.phase = backend[b].phase /\ c.request = backend[b].request
      BY <3>2, <3>3, ChangedLeft
    <3> HIDE DEF c
    <3>6. QED
      BY <2>2, <3>1, <3>4, <3>5, GoOn
  <2>3. QED
    BY <1>4, <2>1, <2>2 DEF LockPosition
<1>5. CASE CheckLines(b)
  <2>1. Running(b) /\ (Proceed(b) \/ End(b, "refused"))
    BY <1>5 DEF CheckLines, Reaches, Unfinished
  <2>2. QED
    BY <2>1, ProceedStep, EndStep
<1>6. CASE ClaimNumber(b)
  <2> DEFINE s == NextRow(b)[2]
             claimed == [backend[b].claimed EXCEPT ![s] = numbers[s] + 1]
             c == [backend[b] EXCEPT !.at = @ + 1, !.claimed = claimed]
  <2>1. /\ Running(b)
        /\ backend' = [backend EXCEPT ![b].at = @ + 1, ![b].claimed[s] = numbers[s] + 1]
        /\ UNCHANGED <<till, session, documents, stock, numbers>>
    BY <1>6 DEF ClaimNumber, Reaches, Unfinished
  <2>2. /\ backend[b] \in Calls /\ backend[b].claimed \in Claims
        /\ numbers \in [Series -> Nat]
    BY DEF RequestInv, Typed, Calls
  <2> HIDE DEF s
  <2>3. claimed \in Claims
    BY <2>2, ChangedFunction DEF Claims
  <2>4. backend' = [backend EXCEPT ![b] = c]
    BY <2>1 DEF RequestInv, Typed, Calls
  <2> HIDE DEF claimed
  <2>5. c \in Calls /\ c.phase = backend[b].phase /\ c.request = backend[b].request
    BY <2>2, <2>3, ChangedClaimed
  <2> HIDE DEF c
  <2>6. QED
    BY <2>1, <2>4, <2>5, GoOn
<1>7. CASE Commit(b)
  BY <1>7, CommitStep
<1>8. CASE Abort(b)
  BY <1>8, EndStep DEF Abort
<1>9. CASE AbortDeadlock(b)
  BY <1>9, EndStep DEF AbortDeadlock
<1>10. QED
  BY <1>1, <1>2, <1>3, <1>4, <1>5, <1>6, <1>7, <1>8, <1>9 DEF Advance

\* No step of a till breaks the invariant.
LEMMA TillStep ==
    ASSUME RequestInv, NEW t \in Tills,
           Submit(t) \/ Deliver(t) \/ LoseAnswer(t) \/ \E f \in Forms : Edit(t, f)
    PROVE  RequestInv'
<1>1. till \in [Tills -> Shown] /\ till[t] \in Shown
  BY DEF RequestInv, Typed
<1>2. ASSUME NEW f \in Forms, Edit(t, f)
      PROVE  RequestInv'
  <2>1. till' \in [Tills -> Shown]
    BY <1>1, <1>2 DEF Edit, Shown, OrNone
  <2>2. backend' = backend /\ stock' = stock /\ numbers' \in [Series -> Nat]
        /\ documents' = documents
    BY <1>2 DEF Edit, RequestInv, Typed
  <2>3. QED
    BY <2>1, <2>2, QuietStep
<1>3. CASE Submit(t)
  <2>1. PICK b \in Backends, r \in RequestIds(t), s \in SessionsOf(t) :
             /\ backend' = [backend EXCEPT ![b] = Call(till[t].form, r, s)]
             /\ till' = [till EXCEPT ![t].request = r, ![t].call = b]
             /\ UNCHANGED <<documents, stock, numbers>>
    BY <1>3 DEF Submit
  <2>2. r \in Requests /\ r # None
    BY <1>1, NoneAssumption DEF RequestIds, Retained, Shown, OrNone
  <2>3. s \in OrNone(Sessions) /\ till[t].form \in OrNone(Forms)
    BY <1>1 DEF SessionsOf, OrNone, Shown
  <2> DEFINE c == Call(till[t].form, r, s)
  <2>4. c \in Calls /\ c.phase = "reserving" /\ c.request = r
    <3>1. r \in OrNone(Requests)
      BY <2>2 DEF OrNone
    <3>2. QED
      BY <2>3, <3>1, MadeCall
  <2>5. till' \in [Tills -> Shown]
    BY <1>1, <2>1, <2>2 DEF Shown, OrNone
  <2> HIDE DEF c
  <2>6. QED
    BY <2>1, <2>2, <2>4, <2>5, CallStep DEF c
<1>4. CASE Deliver(t)
  <2> DEFINE b == till[t].call
  <2>1. /\ b # None /\ backend' = [backend EXCEPT ![b] = Idle]
        /\ UNCHANGED <<documents, stock, numbers>>
    BY <1>4 DEF Deliver
  <2>2. b \in Backends
    BY <1>1, <2>1 DEF Shown, OrNone
  <2>3. till' \in [Tills -> Shown]
    BY <1>1, <1>4 DEF Deliver, Shown, OrNone
  <2>4. QED
    BY <2>1, <2>2, <2>3, CallStep, IdleCall
<1>5. CASE LoseAnswer(t)
  <2> DEFINE b == till[t].call
             c == IF backend[b].phase \in {"reserving", "running"} THEN backend[b] ELSE Idle
  <2>1. /\ b # None /\ backend' = [backend EXCEPT ![b] = c]
        /\ till' = [till EXCEPT ![t].call = None]
        /\ UNCHANGED <<documents, stock, numbers>>
    BY <1>5 DEF LoseAnswer
  <2>2. b \in Backends
    BY <1>1, <2>1 DEF Shown, OrNone
  <2>3. till' \in [Tills -> Shown]
    BY <1>1, <2>1 DEF Shown, OrNone
  <2>4. /\ c \in Calls /\ c.phase # "posted"
        /\ c.phase \in {"reserving", "running"} => c.request # None
        /\ c.phase = "running" => Running(b) /\ c.request = backend[b].request
    BY <2>2, IdleCall DEF RequestInv, Typed, Running
  <2> HIDE DEF c, b
  <2>5. QED
    BY <2>1, <2>2, <2>3, <2>4, CallStep
<1>6. QED
  BY <1>2, <1>3, <1>4, <1>5

\* No step of a cash session breaks the invariant.
LEMMA SessionStep ==
    ASSUME RequestInv, NEW s \in Sessions,
           \/ \E t \in Tills : OpenSession(t, s)
           \/ BeginClose(s) \/ CancelClose(s) \/ ApproveVariance(s)
           \/ \E difference \in {"none", "small", "material"} : SubmitCount(s, difference)
           \/ \E amount \in {-1, 1} : MoveCash(s, amount)
    PROVE  RequestInv'
<1> DEFINE Journal(kind, cash) ==
             [kind |-> kind, form |-> None, request |-> None, session |-> s,
              number |-> 0, journal |-> numbers["journal"] + 1, cash |-> cash]
<1>1. backend' = backend /\ stock' = stock /\ till' = till
  BY DEF OpenSession, BeginClose, CancelClose, ApproveVariance, SubmitCount, MoveCash, SetSession
<1>2. till' \in [Tills -> Shown]
  BY <1>1 DEF RequestInv, Typed
<1>3. CASE UNCHANGED <<documents, numbers>>
  <2>1. numbers' \in [Series -> Nat]
    BY <1>3 DEF RequestInv, Typed
  <2>2. QED
    BY <1>1, <1>2, <1>3, <2>1, QuietStep
<1>4. ASSUME NEW kind, NEW cash, PostCashJournal(kind, s, cash)
      PROVE  RequestInv'
  <2>1. documents' = documents \cup {Journal(kind, cash)}
    BY <1>4 DEF PostCashJournal
  <2>2. Journal(kind, cash).request = None
    OBVIOUS
  <2>3. numbers' \in [Series -> Nat]
    BY <1>4 DEF PostCashJournal, RequestInv, Typed, Series
  <2> HIDE DEF Journal
  <2>4. QED
    BY <1>1, <1>2, <2>1, <2>2, <2>3, OutsideStep
<1>5. QED
  BY <1>3, <1>4 DEF OpenSession, BeginClose, CancelClose, ApproveVariance, SubmitCount, MoveCash

\* Every step keeps the invariant.
LEMMA NextRequestInv == RequestInv /\ [Next]_vars => RequestInv'
<1> SUFFICES ASSUME RequestInv, [Next]_vars PROVE RequestInv'
  OBVIOUS
<1>1. CASE UNCHANGED vars
  BY <1>1 DEF vars, RequestInv, Typed, ReservationsExclude, ReservedIsUnposted, Running,
              Posted, OncePerRequest, AnswersAreTrue, SamePayload
<1>2. CASE Next
  BY <1>2, BackendStep, TillStep, SessionStep DEF Next
<1>3. QED
  BY <1>1, <1>2

\* RequestInv holds of every reachable state.
THEOREM RequestInvariant == Spec => []RequestInv
<1>1. QED
  BY InitRequestInv, NextRequestInv, PTL DEF Spec

\* core.request_idempotency: a request id is posted at most once, whatever is
\* retried, aborted, lost or running twice.
THEOREM RequestsPostOnce == Spec => []OncePerRequest
<1>1. RequestInv => OncePerRequest
  BY DEF RequestInv
<1>2. QED
  BY <1>1, RequestInvariant, PTL

\* A posting function that returns a document returns the one of the form and
\* the session it was called with.
THEOREM AnswersHold == Spec => []AnswersAreTrue
<1>1. RequestInv => AnswersAreTrue
  BY DEF RequestInv
<1>2. QED
  BY <1>1, RequestInvariant, PTL

-----------------------------------------------------------------------------
(* The order in which a posting function locks.                            *)

\* s lists S in the order of its keys.
InOrder(s, key, S) ==
    /\ s \in [1..Cardinality(S) -> S]
    /\ \A i, j \in 1..Cardinality(S) : i < j => key[s[i]] < key[s[j]]

\* The members of a finite set can be put in the order of their keys: the
\* place of each is the number of those up to it.
LEMMA AnOrderExists ==
    ASSUME NEW D, NEW S, S \subseteq D, IsFiniteSet(S), NEW key \in Injection(D, Nat)
    PROVE  \E s : InOrder(s, key, S)
<1> DEFINE n == Cardinality(S)
           UpTo(v) == {w \in S : key[w] <= key[v]}
           rank == [v \in S |-> Cardinality(UpTo(v))]
           s == [i \in 1..n |-> CHOOSE v \in S : rank[v] = i]
<1>1. n \in Nat
  BY FS_CardinalityType
<1>2. /\ \A v \in S : key[v] \in Nat
      /\ \A v, w \in S : key[v] = key[w] => v = w
  BY DEF Injection, IsInjective
<1>3. ASSUME NEW v \in S
      PROVE  IsFiniteSet(UpTo(v)) /\ rank[v] \in 1..n
  <2>1. UpTo(v) \subseteq S /\ v \in UpTo(v)
    BY <1>2
  <2>2. IsFiniteSet(UpTo(v)) /\ Cardinality(UpTo(v)) <= n
    BY <2>1, FS_Subset
  <2>3. Cardinality(UpTo(v)) \in Nat /\ Cardinality(UpTo(v)) # 0
    BY <2>1, <2>2, FS_CardinalityType, FS_EmptySet
  <2> QED
    BY <1>1, <2>2, <2>3
<1>4. ASSUME NEW v \in S, NEW w \in S, key[v] < key[w]
      PROVE  rank[v] < rank[w]
  <2>1. UpTo(v) \subseteq UpTo(w) /\ w \in UpTo(w) /\ w \notin UpTo(v)
    BY <1>2, <1>4
  <2>2. Cardinality(UpTo(v)) <= Cardinality(UpTo(w))
        /\ Cardinality(UpTo(v)) # Cardinality(UpTo(w))
    BY <1>3, <2>1, FS_Subset
  <2>3. rank[v] \in 1..n /\ rank[w] \in 1..n
    BY <1>3
  <2> QED
    BY <1>1, <2>2, <2>3
<1>5. rank \in Injection(S, 1..n)
  <2>1. rank \in [S -> 1..n]
    BY <1>3
  <2>2. ASSUME NEW v \in S, NEW w \in S, rank[v] = rank[w] PROVE v = w
    <3>1. rank[v] \in 1..n /\ ~(rank[v] < rank[w]) /\ ~(rank[w] < rank[v])
      BY <1>3, <2>2
    <3>2. ~(key[v] < key[w]) /\ ~(key[w] < key[v])
      BY <1>4, <3>1
    <3> QED
      BY <1>2, <3>2
  <2> HIDE DEF rank
  <2> QED
    BY <2>1, <2>2 DEF Injection, IsInjective
<1>6. rank \in Surjection(S, 1..n)
  <2>1. IsFiniteSet(1..n) /\ Cardinality(1..n) = n
    BY <1>1, FS_Interval
  <2> HIDE DEF rank
  <2> QED
    BY <1>5, <2>1, FS_Injection
<1>7. \A i \in 1..n : s[i] \in S /\ rank[s[i]] = i
  <2>1. \A i \in 1..n : \E v \in S : rank[v] = i
    BY <1>6 DEF Surjection
  <2> HIDE DEF rank
  <2> QED
    BY <2>1
<1>8. s \in [1..n -> S]
  BY <1>7
<1> HIDE DEF s, rank
<1>9. ASSUME NEW i \in 1..n, NEW j \in 1..n, i < j PROVE key[s[i]] < key[s[j]]
  <2>1. s[i] \in S /\ s[j] \in S /\ rank[s[i]] < rank[s[j]] /\ rank[s[i]] \in Nat
    BY <1>1, <1>7, <1>9
  <2>2. ~(key[s[j]] < key[s[i]]) /\ s[i] # s[j]
    BY <1>1, <1>4, <1>7, <1>9, <2>1
  <2> QED
    BY <1>2, <2>1, <2>2
<1> HIDE DEF n
<1>10. \A i, j \in 1..n : i < j => key[s[i]] < key[s[j]]
  BY <1>9
<1>11. InOrder(s, key, S)
  BY <1>8, <1>10 DEF InOrder, n
<1> QED
  BY <1>11

\* OrderedBy puts them in that order, each once.
LEMMA OrderedByOrders ==
    ASSUME NEW D, NEW S, S \subseteq D, IsFiniteSet(S), NEW key \in Injection(D, Nat)
    PROVE  /\ Cardinality(S) \in Nat
           /\ InOrder(OrderedBy(key, S), key, S)
           /\ ToSet(OrderedBy(key, S)) = S
<1> DEFINE n == Cardinality(S)
           s == OrderedBy(key, S)
<1>1. n \in Nat
  BY FS_CardinalityType
<1>2. \E t \in [1..n -> S] :
        \A i, j \in DOMAIN t : i < j => key[t[i]] < key[t[j]]
  <2>1. PICK t : InOrder(t, key, S)
    BY AnOrderExists
  <2>2. t \in [1..n -> S] /\ DOMAIN t = 1..n
    BY <2>1 DEF InOrder
  <2> QED
    BY <2>1, <2>2 DEF InOrder
<1>3. s \in [1..n -> S] /\ \A i, j \in DOMAIN s : i < j => key[s[i]] < key[s[j]]
  BY <1>2 DEF OrderedBy
<1> HIDE DEF s
<1>4. InOrder(s, key, S)
  BY <1>3 DEF InOrder
<1>5. s \in Injection(1..n, S)
  <2>1. \A v \in S : key[v] \in Nat
    BY DEF Injection
  <2>2. ASSUME NEW i \in 1..n, NEW j \in 1..n, s[i] = s[j] PROVE i = j
    <3>1. ~(i < j) /\ ~(j < i)
      BY <1>3, <2>1, <2>2
    <3> QED
      BY <1>1, <3>1
  <2> QED
    BY <1>3, <2>2 DEF Injection, IsInjective
<1>6. IsFiniteSet(1..n) /\ Cardinality(1..n) = n
  BY <1>1, FS_Interval
<1>7. s \in Surjection(1..n, S)
  BY <1>5, <1>6, FS_Injection
<1>8. ToSet(s) = S
  BY <1>3, <1>7 DEF ToSet, Surjection
<1> QED
  BY <1>1, <1>4, <1>8 DEF s

\* The greatest of finitely many variants.
LEMMA GreatestVariant ==
    ASSUME NEW S, S \subseteq Variants, S # {}
    PROVE  \E m \in S : \A v \in S : v <= m
<1> DEFINE n == Cardinality(S)
           key == [v \in Variants |-> v]
           s == OrderedBy(key, S)
<1>1. key \in Injection(Variants, Nat)
  BY VariantAssumption DEF Injection, IsInjective
<1>2. IsFiniteSet(S)
  BY VariantAssumption, FS_Subset
<1> HIDE DEF key
<1>3. n \in Nat /\ InOrder(s, key, S) /\ ToSet(s) = S
  BY <1>1, <1>2, OrderedByOrders
<1>4. n # 0
  BY <1>2, FS_EmptySet
<1> HIDE DEF s, n
<1>5. s \in [1..n -> S] /\ \A i, j \in 1..n : i < j => key[s[i]] < key[s[j]]
  BY <1>3 DEF InOrder, n
<1>6. ASSUME NEW i \in 1..n PROVE s[i] <= s[n]
  <2>0. n \in 1..n
    BY <1>3, <1>4
  <2>1. s[i] \in S /\ s[n] \in S /\ \A v \in S : v \in Nat /\ key[v] = v
    BY <1>5, <2>0, VariantAssumption DEF key
  <2>2. i < n => s[i] < s[n]
    BY <1>5, <2>0, <2>1
  <2> QED
    BY <1>3, <2>1, <2>2
<1>7. \A v \in S : \E i \in 1..n : v = s[i]
  BY <1>3, <1>5 DEF ToSet
<1> QED
  BY <1>3, <1>4, <1>5, <1>6, <1>7

-----------------------------------------------------------------------------
(* What a call locks, step by step.                                        *)

\* The lines of a form are finitely many variants.
LEMMA LinesAreVariants ==
    ASSUME NEW f \in Forms
    PROVE  /\ Lines(f) \subseteq Variants /\ IsFiniteSet(Lines(f))
           /\ Cardinality(Lines(f)) \in Nat
           /\ Content[f].kind \in Kinds
<1>1. Content[f].lines \in Seq(Variants) /\ Content[f].kind \in Kinds
  BY ContentAssumption
<1>2. Lines(f) \subseteq Variants
  BY <1>1 DEF Lines, ToSet
<1> QED
  BY <1>1, <1>2, VariantAssumption, FS_Subset, FS_CardinalityType

\* The lines of a form in the order in which it locks their positions.
PlaceOf(f) == IF Content[f].kind = "sale" THEN ByVariant(Content[f].lines)
              ELSE ByReceiptLine(Content[f].lines)

\* A posting takes the lines of its form one by one, a sale in the order
\* of their variants.
LEMMA PlacesAreLines ==
    ASSUME NEW f \in Forms
    PROVE  /\ PlaceOf(f) \in [1..Cardinality(Lines(f)) -> Lines(f)]
           /\ ToSet(PlaceOf(f)) = Lines(f)
           /\ Content[f].kind = "sale" =>
                \A i, j \in 1..Cardinality(Lines(f)) : i < j => PlaceOf(f)[i] < PlaceOf(f)[j]
<1> DEFINE S == Lines(f)
           key == [v \in Variants |-> v]
<1>1. S \subseteq Variants /\ IsFiniteSet(S) /\ S = ToSet(Content[f].lines)
  BY LinesAreVariants DEF Lines
<1>2. key \in Injection(Variants, Nat) /\ ReceiptLine \in Injection(Variants, Nat)
  BY VariantAssumption, StockAssumption DEF Injection, IsInjective
<1>3. \A v \in Variants : key[v] = v
  OBVIOUS
<1>4. PlaceOf(f) = IF Content[f].kind = "sale" THEN OrderedBy(key, S)
                   ELSE OrderedBy(ReceiptLine, S)
  BY <1>1 DEF PlaceOf, ByVariant, ByReceiptLine
<1> HIDE DEF key, S
<1>5. CASE Content[f].kind = "sale"
  <2>1. InOrder(PlaceOf(f), key, S) /\ ToSet(PlaceOf(f)) = S
    BY <1>1, <1>2, <1>4, <1>5, OrderedByOrders
  <2>2. PlaceOf(f) \in [1..Cardinality(S) -> S]
    BY <2>1 DEF InOrder
  <2>3. \A i, j \in 1..Cardinality(S) : i < j => PlaceOf(f)[i] < PlaceOf(f)[j]
    BY <1>1, <1>3, <2>1, <2>2 DEF InOrder
  <2> QED
    BY <2>1, <2>2, <2>3 DEF S
<1>6. CASE Content[f].kind # "sale"
  <2>1. InOrder(PlaceOf(f), ReceiptLine, S) /\ ToSet(PlaceOf(f)) = S
    BY <1>1, <1>2, <1>4, <1>6, OrderedByOrders
  <2> QED
    BY <1>6, <2>1 DEF InOrder, S
<1> QED
  BY <1>5, <1>6

\* The rows of the positions, in that order.
LEMMA PositionRowsAre ==
    ASSUME NEW n \in Nat, NEW T, NEW p \in [1..n -> T]
    PROVE  /\ PositionRows(p) \in Seq({Row("position", v) : v \in T})
           /\ Len(PositionRows(p)) = n
           /\ \A i \in 1..n : PositionRows(p)[i] = Row("position", p[i])
BY DEF PositionRows

\* Two sequences in a row.
LEMMA TwoInARow ==
    ASSUME NEW U, NEW a \in Seq(U), NEW z \in Seq(U), NEW s, s = a \o z
    PROVE  /\ s \in Seq(U) /\ Len(s) = Len(a) + Len(z)
           /\ \A i \in 1..Len(a) : s[i] = a[i]
           /\ \A i \in 1..Len(z) : s[Len(a) + i] = z[i]
<1>1. /\ s \in Seq(U) /\ Len(s) = Len(a) + Len(z)
      /\ \A i \in 1..Len(a) + Len(z) : s[i] = IF i <= Len(a) THEN a[i] ELSE z[i - Len(a)]
  BY ConcatProperties
<1>2. Len(a) \in Nat /\ Len(z) \in Nat
  BY LenProperties
<1>3. \A i \in 1..Len(a) : s[i] = a[i]
  BY <1>1, <1>2
<1>4. ASSUME NEW i \in 1..Len(z) PROVE s[Len(a) + i] = z[i]
  <2> DEFINE j == Len(a) + i
  <2>1. j \in 1..Len(a) + Len(z) /\ ~(j <= Len(a)) /\ j - Len(a) = i
    BY <1>2
  <2> HIDE DEF j
  <2>2. s[j] = z[j - Len(a)]
    BY <1>1, <2>1
  <2> QED
    BY <2>1, <2>2 DEF j
<1> QED
  BY <1>1, <1>3, <1>4

\* Likewise for three.
LEMMA ThreeInARow ==
    ASSUME NEW U, NEW a \in Seq(U), NEW p \in Seq(U), NEW z \in Seq(U),
           NEW s, s = a \o p \o z
    PROVE  /\ Len(s) = Len(a) + Len(p) + Len(z)
           /\ \A i \in 1..Len(a) : s[i] = a[i]
           /\ \A i \in 1..Len(p) : s[Len(a) + i] = p[i]
           /\ \A i \in 1..Len(z) : s[Len(a) + Len(p) + i] = z[i]
<1>1. PICK q : q = a \o p
  OBVIOUS
<1>2. /\ q \in Seq(U) /\ Len(q) = Len(a) + Len(p)
      /\ \A i \in 1..Len(a) : q[i] = a[i]
      /\ \A i \in 1..Len(p) : q[Len(a) + i] = p[i]
  BY <1>1, TwoInARow
<1>3. s = q \o z
  BY <1>1
<1>4. /\ Len(s) = Len(q) + Len(z)
      /\ \A i \in 1..Len(q) : s[i] = q[i]
      /\ \A i \in 1..Len(z) : s[Len(q) + i] = z[i]
  <2>1. q \in Seq(U)
    BY <1>2
  <2> QED
    BY <1>3, <2>1, TwoInARow
<1>5. Len(a) \in Nat /\ Len(p) \in Nat /\ Len(z) \in Nat
  BY LenProperties
<1>6. /\ \A i \in 1..Len(a) : i \in 1..Len(q)
      /\ \A i \in 1..Len(p) : Len(a) + i \in 1..Len(q)
  BY <1>2, <1>5
<1> QED
  BY <1>2, <1>4, <1>6

\* The steps of a sale.
LEMMA SaleSteps ==
    ASSUME NEW c, c.form \in Forms, Content[c.form].kind = "sale"
    PROVE  LET n == Cardinality(Lines(c.form))
               s == Steps(c)
           IN  /\ n \in Nat /\ Len(s) = n + 4
               /\ s[1] = Row("session", c.session)
               /\ \A i \in 1..n : s[i + 1] = Row("position", PlaceOf(c.form)[i])
               /\ s[n + 2] = Row("lines", c.form)
               /\ s[n + 3] = Row("number", "sale") /\ s[n + 4] = Row("number", "journal")
<1> DEFINE n == Cardinality(Lines(c.form))
           p == PositionRows(PlaceOf(c.form))
           a == <<Row("session", c.session)>>
           z == <<Row("lines", c.form), Row("number", "sale"), Row("number", "journal")>>
           U == UNION {{a[1]}, {z[1], z[2], z[3]},
                       {Row("position", v) : v \in Lines(c.form)}}
<1>1. n \in Nat /\ PlaceOf(c.form) \in [1..n -> Lines(c.form)]
  BY LinesAreVariants, PlacesAreLines
<1>2. /\ p \in Seq({Row("position", v) : v \in Lines(c.form)}) /\ Len(p) = n
      /\ \A i \in 1..n : p[i] = Row("position", PlaceOf(c.form)[i])
  BY <1>1, PositionRowsAre
<1>3. Steps(c) = a \o p \o z
  BY DEF Steps, PlaceOf
<1>4. /\ a \in Seq(U) /\ Len(a) = 1 /\ a[1] = Row("session", c.session)
      /\ z \in Seq(U) /\ Len(z) = 3 /\ z[1] = Row("lines", c.form)
      /\ z[2] = Row("number", "sale") /\ z[3] = Row("number", "journal")
  OBVIOUS
<1>5. p \in Seq(U)
  BY <1>2
<1> HIDE DEF a, p, z, U, n
<1>6. /\ Len(Steps(c)) = Len(a) + Len(p) + Len(z)
      /\ \A i \in 1..Len(a) : Steps(c)[i] = a[i]
      /\ \A i \in 1..Len(p) : Steps(c)[Len(a) + i] = p[i]
      /\ \A i \in 1..Len(z) : Steps(c)[Len(a) + Len(p) + i] = z[i]
  <2>1. a \in Seq(U) /\ p \in Seq(U) /\ z \in Seq(U)
    BY <1>4, <1>5
  <2> QED
    BY <1>3, <2>1, ThreeInARow
<1>7. Len(Steps(c)) = n + 4 /\ Steps(c)[1] = a[1]
  BY <1>1, <1>2, <1>4, <1>6
<1>8. \A i \in 1..n : Steps(c)[i + 1] = p[i]
  BY <1>1, <1>2, <1>4, <1>6
<1>9. Steps(c)[n + 2] = z[1] /\ Steps(c)[n + 3] = z[2] /\ Steps(c)[n + 4] = z[3]
  <2>1. 1 + n + 1 = n + 2 /\ 1 + n + 2 = n + 3 /\ 1 + n + 3 = n + 4
    BY <1>1
  <2>2. /\ Steps(c)[1 + n + 1] = z[1] /\ Steps(c)[1 + n + 2] = z[2]
        /\ Steps(c)[1 + n + 3] = z[3]
    BY <1>2, <1>4, <1>6
  <2> QED
    BY <2>1, <2>2
<1> QED
  BY <1>1, <1>2, <1>4, <1>7, <1>8, <1>9 DEF n

\* Likewise for a return.
LEMMA ReturnSteps ==
    ASSUME NEW c, c.form \in Forms, Content[c.form].kind = "return"
    PROVE  LET n == Cardinality(Lines(c.form))
               s == Steps(c)
           IN  /\ n \in Nat /\ Len(s) = n + 3
               /\ s[1] = Row("receipt", None) /\ s[2] = Row("number", "return")
               /\ \A i \in 1..n : s[i + 2] = Row("position", PlaceOf(c.form)[i])
               /\ s[n + 3] = Row("number", "journal")
<1> DEFINE n == Cardinality(Lines(c.form))
           p == PositionRows(PlaceOf(c.form))
           a == <<Row("receipt", None), Row("number", "return")>>
           z == <<Row("number", "journal")>>
           U == UNION {{a[1], a[2]}, {z[1]}, {Row("position", v) : v \in Lines(c.form)}}
<1>1. n \in Nat /\ PlaceOf(c.form) \in [1..n -> Lines(c.form)]
  BY LinesAreVariants, PlacesAreLines
<1>2. /\ p \in Seq({Row("position", v) : v \in Lines(c.form)}) /\ Len(p) = n
      /\ \A i \in 1..n : p[i] = Row("position", PlaceOf(c.form)[i])
  BY <1>1, PositionRowsAre
<1>3. Steps(c) = a \o p \o z
  BY DEF Steps, PlaceOf
<1>4. /\ a \in Seq(U) /\ Len(a) = 2 /\ a[1] = Row("receipt", None)
      /\ a[2] = Row("number", "return")
      /\ z \in Seq(U) /\ Len(z) = 1 /\ z[1] = Row("number", "journal")
  OBVIOUS
<1>5. p \in Seq(U)
  BY <1>2
<1> HIDE DEF a, p, z, U, n
<1>6. /\ Len(Steps(c)) = Len(a) + Len(p) + Len(z)
      /\ \A i \in 1..Len(a) : Steps(c)[i] = a[i]
      /\ \A i \in 1..Len(p) : Steps(c)[Len(a) + i] = p[i]
      /\ \A i \in 1..Len(z) : Steps(c)[Len(a) + Len(p) + i] = z[i]
  <2>1. a \in Seq(U) /\ p \in Seq(U) /\ z \in Seq(U)
    BY <1>4, <1>5
  <2> QED
    BY <1>3, <2>1, ThreeInARow
<1>7. Len(Steps(c)) = n + 3 /\ Steps(c)[1] = a[1] /\ Steps(c)[2] = a[2]
  BY <1>1, <1>2, <1>4, <1>6
<1>8. \A i \in 1..n : Steps(c)[i + 2] = p[i]
  BY <1>1, <1>2, <1>4, <1>6
<1>9. Steps(c)[n + 3] = z[1]
  <2>1. 2 + n + 1 = n + 3
    BY <1>1
  <2>2. Steps(c)[2 + n + 1] = z[1]
    BY <1>2, <1>4, <1>6
  <2> QED
    BY <2>1, <2>2
<1> QED
  BY <1>1, <1>2, <1>4, <1>7, <1>8, <1>9 DEF n

\* The rows that a call goes through, whichever posting it is.
LEMMA StepsOfACall ==
    ASSUME NEW c, c.form \in Forms
    PROVE  LET s == Steps(c)
               kind == Content[c.form].kind
           IN  /\ kind \in Kinds /\ Len(s) \in Nat
               /\ \A i \in 1..Len(s) :
                    \/ s[i] = Row("session", c.session) /\ kind = "sale"
                    \/ s[i] = Row("receipt", None)
                    \/ \E v \in Lines(c.form) : s[i] = Row("position", v)
                    \/ s[i] = Row("lines", c.form)
                    \/ s[i] = Row("number", kind) \/ s[i] = Row("number", "journal")
               /\ \A v \in Lines(c.form) : \E i \in 1..Len(s) : s[i] = Row("position", v)
               /\ \E i \in 1..Len(s) : s[i] = Row("number", kind)
               /\ \E i \in 1..Len(s) : s[i] = Row("number", "journal")
               /\ kind = "sale" => /\ \E i \in 1..Len(s) : s[i] = Row("lines", c.form)
                                   /\ \E i \in 1..Len(s) : s[i] = Row("session", c.session)
               /\ \A i, j \in 1..Len(s), v \in Lines(c.form) :
                    s[i] = Row("lines", c.form) /\ s[j] = Row("position", v) => j < i
<1> DEFINE f == c.form
           n == Cardinality(Lines(f))
           s == Steps(c)
<1>1. n \in Nat /\ Content[f].kind \in Kinds
  BY LinesAreVariants
<1>2. PlaceOf(f) \in [1..n -> Lines(f)]
  BY PlacesAreLines
<1>3. ASSUME NEW v \in Lines(f) PROVE \E i \in 1..n : PlaceOf(f)[i] = v
  <2>1. v \in ToSet(PlaceOf(f))
    BY PlacesAreLines
  <2> QED
    BY <1>2, <2>1 DEF ToSet
<1>4. CASE Content[f].kind = "sale"
  <2>1. /\ Len(s) = n + 4 /\ s[1] = Row("session", c.session)
        /\ \A i \in 1..n : s[i + 1] = Row("position", PlaceOf(f)[i])
        /\ s[n + 2] = Row("lines", f)
        /\ s[n + 3] = Row("number", "sale") /\ s[n + 4] = Row("number", "journal")
    BY <1>4, SaleSteps
  <2> HIDE DEF n, s, f
  <2>2. ASSUME NEW i \in 1..Len(s)
        PROVE  \/ i = 1 /\ s[i] = Row("session", c.session)
               \/ i <= n + 1 /\ \E v \in Lines(f) : s[i] = Row("position", v)
               \/ i = n + 2 /\ s[i] = Row("lines", f)
               \/ s[i] = Row("number", "sale") \/ s[i] = Row("number", "journal")
    <3>1. i = 1 \/ i - 1 \in 1..n \/ i = n + 2 \/ i = n + 3 \/ i = n + 4
      BY <1>1, <2>1
    <3>2. CASE i - 1 \in 1..n
      <4>1. s[(i - 1) + 1] = Row("position", PlaceOf(f)[i - 1]) /\ PlaceOf(f)[i - 1] \in Lines(f)
        BY <1>2, <2>1, <3>2
      <4>2. (i - 1) + 1 = i /\ i <= n + 1
        BY <1>1, <3>2
      <4> QED
        BY <4>1, <4>2
    <3> QED
      BY <2>1, <3>1, <3>2
  <2>3. ASSUME NEW v \in Lines(f) PROVE \E i \in 1..Len(s) : s[i] = Row("position", v)
    <3>1. PICK j \in 1..n : PlaceOf(f)[j] = v
      BY <1>3
    <3>2. j + 1 \in 1..Len(s)
      BY <1>1, <2>1
    <3> QED
      BY <2>1, <3>1, <3>2
  <2>4. /\ 1 \in 1..Len(s) /\ n + 2 \in 1..Len(s) /\ n + 3 \in 1..Len(s)
        /\ n + 4 \in 1..Len(s) /\ Len(s) \in Nat
    BY <1>1, <2>1
  <2>5. ASSUME NEW i \in 1..Len(s), NEW j \in 1..Len(s), NEW v \in Lines(f),
               s[i] = Row("lines", f), s[j] = Row("position", v)
        PROVE  j < i
    <3>1. i = n + 2
      BY <2>2, <2>5 DEF Row
    <3>2. j <= n + 1
      BY <1>1, <2>2, <2>5 DEF Row
    <3> QED
      BY <1>1, <3>1, <3>2
  <2> QED
    BY <1>1, <1>4, <2>1, <2>2, <2>3, <2>4, <2>5 DEF f, s
<1>5. CASE Content[f].kind = "return"
  <2>1. /\ Len(s) = n + 3 /\ s[1] = Row("receipt", None) /\ s[2] = Row("number", "return")
        /\ \A i \in 1..n : s[i + 2] = Row("position", PlaceOf(f)[i])
        /\ s[n + 3] = Row("number", "journal")
    BY <1>5, ReturnSteps
  <2> HIDE DEF n, s, f
  <2>2. ASSUME NEW i \in 1..Len(s)
        PROVE  \/ s[i] = Row("receipt", None) \/ s[i] = Row("number", "return")
               \/ \E v \in Lines(f) : s[i] = Row("position", v)
               \/ s[i] = Row("number", "journal")
    <3>1. i = 1 \/ i = 2 \/ i - 2 \in 1..n \/ i = n + 3
      BY <1>1, <2>1
    <3>2. CASE i - 2 \in 1..n
      <4>1. s[(i - 2) + 2] = Row("position", PlaceOf(f)[i - 2]) /\ PlaceOf(f)[i - 2] \in Lines(f)
        BY <1>2, <2>1, <3>2
      <4>2. (i - 2) + 2 = i
        BY <1>1, <3>2
      <4> QED
        BY <4>1, <4>2
    <3> QED
      BY <2>1, <3>1, <3>2
  <2>3. ASSUME NEW v \in Lines(f) PROVE \E i \in 1..Len(s) : s[i] = Row("position", v)
    <3>1. PICK j \in 1..n : PlaceOf(f)[j] = v
      BY <1>3
    <3>2. j + 2 \in 1..Len(s)
      BY <1>1, <2>1
    <3> QED
      BY <2>1, <3>1, <3>2
  <2>4. 2 \in 1..Len(s) /\ n + 3 \in 1..Len(s) /\ Len(s) \in Nat
    BY <1>1, <2>1
  <2>5. \A i \in 1..Len(s) : s[i] # Row("lines", f)
    BY <2>2 DEF Row
  <2> QED
    BY <1>1, <1>5, <2>1, <2>2, <2>3, <2>4, <2>5 DEF f, s
<1> QED
  BY <1>1, <1>4, <1>5 DEF Kinds

-----------------------------------------------------------------------------
(* What a call holds, and what it knows by it.                             *)

\* The call has not ended.
Active(c) == c.phase \in {"reserving", "running"}

Kind(c) == Content[c.form].kind

\* The rows that a call has locked.
HeldRows(c) == IF c.phase = "running" THEN {Steps(c)[i] : i \in 1..c.at} ELSE {}

\* A call as a till can make it, somewhere in its steps.
WellMade(c) ==
    /\ c.form \in Forms
    /\ Kind(c) = "sale" => c.session \in Sessions
    /\ c.at \in Nat /\ c.at <= Len(Steps(c))
    /\ c.phase = "reserving" => c.at = 0

\* What was read of a row, while the row is held: n, q and x are the numbers,
\* the stock and the sessions.
Knows(c, n, q, x) ==
    /\ \A s \in Series :
         c.claimed[s] = IF Row("number", s) \in HeldRows(c) THEN n[s] + 1 ELSE 0
    /\ \A v \in Variants : Row("position", v) \in HeldRows(c) =>
         c.left[v] = q[v] - 1 /\ (Kind(c) = "return" => c.left[v] >= 0)
    /\ Row("lines", c.form) \in HeldRows(c) => \A v \in Lines(c.form) : c.left[v] >= 0
    /\ \A s \in Sessions : Row("session", s) \in HeldRows(c) => x[s].status = "OPEN"

Sound(c) == Active(c) => WellMade(c) /\ Knows(c, numbers, stock, session)

CallsAreSound == \A b \in Backends : Sound(backend[b])

\* Two calls hold a row together only if it is locked FOR SHARE.
RowsExclude ==
    \A b, c \in Backends : \A row \in HeldRows(backend[b]) \cap HeldRows(backend[c]) :
        b = c \/ Shared(row)

\* Both ways to say that a call holds a row.
LEMMA HoldsIsHeld ==
    ASSUME NEW b, NEW row
    PROVE  Holds(b, row) <=> row \in HeldRows(backend[b])
BY DEF Holds, Running, HeldRows

\* In a cycle of sales each transaction holds a row that comes before the row
\* it waits for: nobody waits for the last one, and of the positions somebody
\* waits for there is a greatest.
LEMMA SalesInOrder ==
    ASSUME CallsAreSound
    PROVE  DeadlocksNeedAReturn
<1> SUFFICES ASSUME NEW group \in SUBSET Backends, Deadlocked(group),
                    \A b \in group : Content[backend[b].form].kind # "return"
             PROVE  FALSE
  BY DEF DeadlocksNeedAReturn
<1> DEFINE n(b) == Cardinality(Lines(backend[b].form))
           place(b) == PlaceOf(backend[b].form)
           steps(b) == Steps(backend[b])
           at(b) == backend[b].at
<1>1. ASSUME NEW b \in group
      PROVE  /\ Running(b) /\ backend[b].form \in Forms /\ Kind(backend[b]) = "sale"
             /\ at(b) \in Nat
  <2>1. Running(b)
    BY DEF Deadlocked, Blocks
  <2>2. WellMade(backend[b])
    BY <2>1 DEF CallsAreSound, Sound, Active, Running
  <2>3. Kind(backend[b]) \in Kinds
    BY <2>2, LinesAreVariants DEF WellMade, Kind
  <2> QED
    BY <2>1, <2>2, <2>3 DEF WellMade, Kinds, Kind
<1>2. ASSUME NEW b \in group
      PROVE  /\ n(b) \in Nat /\ Len(steps(b)) = n(b) + 4
             /\ steps(b)[1] = Row("session", backend[b].session)
             /\ \A i \in 1..n(b) : steps(b)[i + 1] = Row("position", place(b)[i])
             /\ steps(b)[n(b) + 2] = Row("lines", backend[b].form)
             /\ steps(b)[n(b) + 3] = Row("number", "sale")
             /\ steps(b)[n(b) + 4] = Row("number", "journal")
  <2>1. backend[b].form \in Forms /\ Content[backend[b].form].kind = "sale"
    BY <1>1 DEF Kind
  <2> QED
    BY <2>1, SaleSteps
<1>3. ASSUME NEW b \in group
      PROVE  /\ place(b) \in [1..n(b) -> Variants]
             /\ \A i, j \in 1..n(b) : i < j => place(b)[i] < place(b)[j]
  <2>1. backend[b].form \in Forms /\ Content[backend[b].form].kind = "sale"
    BY <1>1 DEF Kind
  <2>2. Lines(backend[b].form) \subseteq Variants
    BY <2>1, LinesAreVariants
  <2> QED
    BY <2>1, <2>2, PlacesAreLines
<1>4. ASSUME NEW b \in group
      PROVE  /\ at(b) < n(b) + 4
             /\ ~Shared(steps(b)[at(b) + 1])
             /\ \E c \in group : \E i \in 1..at(c) : steps(c)[i] = steps(b)[at(b) + 1]
  <2>1. PICK c \in group : Blocks(c, b)
    BY DEF Deadlocked
  <2>2. backend[b].phase = "running"
    BY <1>1 DEF Running
  <2>3. Unfinished(b) /\ ~Shared(NextRow(b)) /\ Holds(c, NextRow(b))
    BY <2>1, <2>2 DEF Blocks
  <2>4. at(b) < n(b) + 4
    BY <1>2, <2>3 DEF Unfinished
  <2> QED
    BY <2>3, <2>4 DEF NextRow, Holds
<1> HIDE DEF n, place, steps, at
<1>5. ASSUME NEW b \in group
      PROVE  \/ \E i \in 1..n(b) : at(b) = i /\ steps(b)[at(b) + 1] = Row("position", place(b)[i])
             \/ at(b) = n(b) + 2 /\ steps(b)[at(b) + 1] = Row("number", "sale")
             \/ at(b) = n(b) + 3 /\ steps(b)[at(b) + 1] = Row("number", "journal")
  <2>1. at(b) \in Nat /\ n(b) \in Nat /\ at(b) < n(b) + 4
    BY <1>1, <1>2, <1>4
  <2>2. at(b) # 0
    <3> SUFFICES ASSUME at(b) = 0 PROVE FALSE
      OBVIOUS
    <3>1. steps(b)[at(b) + 1] = Row("session", backend[b].session)
      BY <1>2
    <3>2. Shared(Row("session", backend[b].session))
      BY DEF Shared, Row
    <3> QED
      BY <1>4, <3>1, <3>2
  <2>3. at(b) # n(b) + 1
    <3> SUFFICES ASSUME at(b) = n(b) + 1 PROVE FALSE
      OBVIOUS
    <3>1. at(b) + 1 = n(b) + 2
      BY <2>1
    <3>2. steps(b)[at(b) + 1] = Row("lines", backend[b].form)
      BY <1>2, <3>1
    <3>3. Shared(Row("lines", backend[b].form))
      BY DEF Shared, Row
    <3> QED
      BY <1>4, <3>2, <3>3
  <2>4. at(b) \in 1..n(b) \/ at(b) = n(b) + 2 \/ at(b) = n(b) + 3
    BY <2>1, <2>2, <2>3
  <2>5. (n(b) + 2) + 1 = n(b) + 3 /\ (n(b) + 3) + 1 = n(b) + 4
    BY <2>1
  <2> QED
    BY <1>2, <2>4, <2>5
<1>6. ASSUME NEW b \in group, NEW i \in 1..at(b)
      PROVE  \/ i = 1 /\ steps(b)[i] = Row("session", backend[b].session)
             \/ \E j \in 1..n(b) : i = j + 1 /\ steps(b)[i] = Row("position", place(b)[j])
             \/ i = n(b) + 2 /\ steps(b)[i] = Row("lines", backend[b].form)
             \/ i = n(b) + 3 /\ steps(b)[i] = Row("number", "sale")
  <2>1. at(b) \in Nat /\ n(b) \in Nat /\ at(b) < n(b) + 4
    BY <1>1, <1>2, <1>4
  <2>2. i = 1 \/ i - 1 \in 1..n(b) \/ i = n(b) + 2 \/ i = n(b) + 3
    BY <2>1
  <2>3. i = (i - 1) + 1
    BY <2>1
  <2> QED
    BY <1>2, <2>2, <2>3
<1>7. \A b \in group : steps(b)[at(b) + 1] # Row("number", "journal")
  <2> SUFFICES ASSUME NEW b \in group, steps(b)[at(b) + 1] = Row("number", "journal")
               PROVE  FALSE
    OBVIOUS
  <2>1. PICK c \in group : \E i \in 1..at(c) : steps(c)[i] = Row("number", "journal")
    BY <1>4
  <2> QED
    BY <1>6, <2>1 DEF Row
<1>8. \A b \in group : steps(b)[at(b) + 1] # Row("number", "sale")
  <2> SUFFICES ASSUME NEW b \in group, steps(b)[at(b) + 1] = Row("number", "sale")
               PROVE  FALSE
    OBVIOUS
  <2>1. PICK c \in group : \E i \in 1..at(c) : steps(c)[i] = Row("number", "sale")
    BY <1>4
  <2>2. PICK i \in 1..at(c) : i = n(c) + 3
    BY <1>6, <2>1 DEF Row
  <2>3. at(c) = n(c) + 3
    <3>1. at(c) \in Nat /\ n(c) \in Nat /\ at(c) < n(c) + 4
      BY <1>1, <1>2, <1>4
    <3> QED
      BY <2>2, <3>1
  <2>4. steps(c)[at(c) + 1] = Row("number", "journal")
    BY <1>2, <1>5, <2>3
  <2> QED
    BY <1>7, <2>4
<1>9. ASSUME NEW b \in group
      PROVE  at(b) \in 1..n(b) /\ steps(b)[at(b) + 1] = Row("position", place(b)[at(b)])
  BY <1>5, <1>7, <1>8
<1> DEFINE S == {place(b)[at(b)] : b \in group}
<1>10. PICK m \in S : \A v \in S : v <= m
  <2>1. group # {}
    BY DEF Deadlocked
  <2>2. \A b \in group : place(b)[at(b)] \in Variants
    BY <1>3, <1>9
  <2>3. S # {} /\ S \subseteq Variants
    BY <2>1, <2>2
  <2> QED
    BY <2>3, GreatestVariant
<1>11. PICK b \in group : m = place(b)[at(b)]
  OBVIOUS
<1>12. PICK c \in group : \E i \in 1..at(c) : steps(c)[i] = Row("position", m)
  BY <1>4, <1>9, <1>11
<1>13. PICK i \in 1..at(c) : \E j \in 1..n(c) : i = j + 1 /\ place(c)[j] = m
  BY <1>6, <1>12 DEF Row
<1>16. PICK j \in 1..n(c) : i = j + 1 /\ place(c)[j] = m
  BY <1>13
<1>17. place(c)[j] < place(c)[at(c)]
  <2>1. at(c) \in 1..n(c) /\ j < at(c)
    BY <1>1, <1>9, <1>16
  <2> QED
    BY <1>3, <2>1
<1>18. place(c)[at(c)] <= m /\ m \in Nat /\ place(c)[at(c)] \in Nat
  BY <1>3, <1>9, <1>10, <1>16, VariantAssumption
<1> QED
  BY <1>16, <1>17, <1>18

\* What the sessions expect is whatever their movements sum up to.
SessionsTyped ==
    \E V : session \in [Sessions -> [status: Statuses, till: OrNone(Tills), expected: V]]

\* The inductive invariant of the locks.
WorkInv == SessionsTyped /\ CallsAreSound /\ RowsExclude

-----------------------------------------------------------------------------
(* What a step of a call does to its rows.                                 *)

\* A call that holds another row.
LEMMA Grown ==
    ASSUME NEW c, NEW d, c.phase = "running", d.phase = "running",
           d.form = c.form, d.session = c.session, c.at \in Nat, d.at = c.at + 1
    PROVE  /\ Steps(d) = Steps(c)
           /\ HeldRows(d) = HeldRows(c) \cup {Steps(c)[c.at + 1]}
<1>1. Steps(d) = Steps(c)
  BY DEF Steps
<1>2. 1..d.at = 1..c.at \cup {c.at + 1}
  BY SMT
<1> QED
  BY <1>1, <1>2 DEF HeldRows

\* What is known of rows that did not change stays known.
LEMMA StillKnows ==
    ASSUME NEW c, NEW n, NEW q, NEW x, NEW n1, NEW q1, NEW x1, Knows(c, n, q, x),
           \A s \in Series : Row("number", s) \in HeldRows(c) => n1[s] = n[s],
           \A v \in Variants : Row("position", v) \in HeldRows(c) => q1[v] = q[v],
           \A s \in Sessions : Row("session", s) \in HeldRows(c) => x1[s].status = x[s].status
    PROVE  Knows(c, n1, q1, x1)
BY DEF Knows

\* A call that reserved its request id holds no row yet.
LEMMA NothingHeld ==
    ASSUME NEW c, c.phase = "running" => c.at = 0
    PROVE  HeldRows(c) = {}
<1>1. 1..0 = {}
  OBVIOUS
<1> QED
  BY <1>1 DEF HeldRows

\* A step of one call that commits nothing.
LEMMA OneCallWorks ==
    ASSUME WorkInv, NEW b \in Backends, NEW c,
           backend' = [backend EXCEPT ![b] = c], backend = [e \in Backends |-> backend[e]],
           UNCHANGED <<session, stock, numbers>>, Sound(c),
           \A e \in Backends : e # b =>
             \A row \in HeldRows(c) \cap HeldRows(backend[e]) : Shared(row)
    PROVE  WorkInv'
<1>1. backend'[b] = c /\ \A e \in Backends : e # b => backend'[e] = backend[e]
  OBVIOUS
<1>2. SessionsTyped'
  BY DEF WorkInv, SessionsTyped
<1>3. CallsAreSound'
  BY <1>1 DEF WorkInv, CallsAreSound, Sound
<1>4. RowsExclude'
  <2> SUFFICES ASSUME NEW e \in Backends, NEW f \in Backends, e # f,
                      NEW row \in HeldRows(backend'[e]) \cap HeldRows(backend'[f])
               PROVE  Shared(row)
    BY DEF RowsExclude
  <2>1. CASE e = b
    BY <1>1, <2>1
  <2>2. CASE f = b
    BY <1>1, <2>2
  <2>3. CASE e # b /\ f # b
    BY <1>1, <2>3 DEF WorkInv, RowsExclude
  <2> QED
    BY <2>1, <2>2, <2>3
<1> QED
  BY <1>2, <1>3, <1>4 DEF WorkInv

\* A call that has no row: it begins, reserves its request id or is over.
LEMMA CallWithoutRows ==
    ASSUME WorkInv, RequestInv, NEW b \in Backends, NEW c,
           backend' = [backend EXCEPT ![b] = c], UNCHANGED <<session, stock, numbers>>,
           Sound(c), c.phase = "running" => c.at = 0
    PROVE  WorkInv'
<1>1. HeldRows(c) = {}
  BY NothingHeld
<1>2. backend = [e \in Backends |-> backend[e]]
  BY DEF RequestInv, Typed
<1> QED
  BY <1>1, <1>2, OneCallWorks

\* The next row of a call, and what it did with it.
LEMMA CallWithAnotherRow ==
    ASSUME WorkInv, RequestInv, NEW b \in Backends, NEW c, c \in Calls,
           backend' = [backend EXCEPT ![b] = c], UNCHANGED <<session, stock, numbers>>,
           Unfinished(b), c.phase = "running", c.at = backend[b].at + 1,
           c.form = backend[b].form, c.session = backend[b].session,
           Shared(NextRow(b)) \/ Free(b),
           Knows(c, numbers, stock, session)
    PROVE  WorkInv'
<1> DEFINE k == backend[b]
           row == NextRow(b)
<1>1. /\ k.phase = "running" /\ WellMade(k) /\ k.at < Len(Steps(k))
      /\ row = Steps(k)[k.at + 1]
  BY DEF WorkInv, CallsAreSound, Sound, Active, Unfinished, Running, NextRow
<1>2. Steps(c) = Steps(k) /\ HeldRows(c) = HeldRows(k) \cup {row}
  BY <1>1, Grown DEF WellMade
<1>3. WellMade(c)
  <2>1. Len(Steps(k)) \in Nat
    BY <1>1, StepsOfACall DEF WellMade
  <2> QED
    BY <1>1, <1>2, <2>1 DEF WellMade, Kind
<1>4. ASSUME NEW e \in Backends, e # b, NEW r \in HeldRows(c) \cap HeldRows(backend[e])
      PROVE  Shared(r)
  <2>1. CASE r \in HeldRows(k)
    BY <1>4, <2>1 DEF WorkInv, RowsExclude
  <2>2. CASE r = row /\ Free(b)
    <3>1. Holds(e, row) /\ Running(e)
      BY <1>4, <2>2, HoldsIsHeld DEF HeldRows, Running
    <3> QED
      BY <1>4, <2>2, <3>1 DEF Free, Blocks
  <2>3. CASE r = row /\ Shared(row)
    BY <2>3
  <2> QED
    BY <1>2, <1>4, <2>1, <2>2, <2>3
<1>5. Sound(c)
  BY <1>3 DEF Sound
<1>6. backend = [e \in Backends |-> backend[e]]
  BY DEF RequestInv, Typed
<1> HIDE DEF k, row
<1> QED
  BY <1>4, <1>5, <1>6, OneCallWorks

\* A step that leaves the calls alone, and the rows that they hold.
LEMMA BesideCallsWorks ==
    ASSUME WorkInv, backend' = backend, SessionsTyped',
           \A b \in Backends :
             /\ \A s \in Series : Holds(b, Row("number", s)) => numbers'[s] = numbers[s]
             /\ \A v \in Variants : Holds(b, Row("position", v)) => stock'[v] = stock[v]
             /\ \A s \in Sessions :
                  Holds(b, Row("session", s)) => session'[s].status = session[s].status
    PROVE  WorkInv'
<1>1. ASSUME NEW b \in Backends
      PROVE  Sound(backend[b])'
  <2>1. CASE Active(backend[b])
    <3>1. Knows(backend[b], numbers', stock', session')
      BY <2>1, HoldsIsHeld, StillKnows DEF WorkInv, CallsAreSound, Sound
    <3> QED
      BY <2>1, <3>1 DEF WorkInv, CallsAreSound, Sound
  <2> QED
    BY <2>1 DEF Sound
<1>2. CallsAreSound'
  BY <1>1 DEF CallsAreSound
<1>3. RowsExclude'
  BY DEF WorkInv, RowsExclude
<1> QED
  BY <1>2, <1>3 DEF WorkInv

\* There are no calls and no sessions at first.
LEMMA InitWorkInv == Init => WorkInv
<1> SUFFICES ASSUME Init PROVE WorkInv
  OBVIOUS
<1>1. SessionsTyped
  <2>1. NoSession \in [status: Statuses, till: OrNone(Tills), expected: {0}]
    BY DEF NoSession, Statuses, OrNone
  <2>2. session \in [Sessions -> [status: Statuses, till: OrNone(Tills), expected: {0}]]
    BY <2>1 DEF Init
  <2> QED
    BY <2>2 DEF SessionsTyped
<1>2. \A b \in Backends : backend[b].phase = "idle"
  BY IdleCall DEF Init
<1>3. QED
  BY <1>1, <1>2 DEF WorkInv, CallsAreSound, Sound, Active, RowsExclude, HeldRows

\* A call that ends, whatever it answers, gives its rows back.
LEMMA EndWorks ==
    ASSUME WorkInv, RequestInv, NEW b \in Backends, NEW answer \in {"posted", "refused"},
           End(b, answer)
    PROVE  WorkInv'
<1> DEFINE c == Answered(b, answer)
<1>1. backend' = [backend EXCEPT ![b] = c] /\ UNCHANGED <<session, stock, numbers>>
  BY DEF End
<1>2. c.phase \notin {"reserving", "running"}
  <2>1. backend[b] \in Calls
    BY DEF RequestInv, Typed
  <2> QED
    BY <2>1, IdleCall DEF Answered, Calls
<1> HIDE DEF c
<1> QED
  BY <1>1, <1>2, CallWithoutRows DEF Sound, Active

\* A reserved request id comes with no row yet.
LEMMA ReserveWorks ==
    ASSUME WorkInv, RequestInv, NEW b \in Backends, Reserve(b)
    PROVE  WorkInv'
<1>1. CASE \E d \in Posted(backend[b].request) :
             End(b, IF SamePayload(d, backend[b]) THEN "posted" ELSE "refused")
  <2>1. End(b, "posted") \/ End(b, "refused")
    BY <1>1
  <2> QED
    BY <2>1, EndWorks
<1>2. CASE /\ backend' = [backend EXCEPT ![b].phase = "running"]
           /\ UNCHANGED <<till, session, documents, stock, numbers>>
  <2> DEFINE k == backend[b]
             c == [k EXCEPT !.phase = "running"]
  <2>1. k \in Calls /\ backend' = [backend EXCEPT ![b] = c]
    BY <1>2 DEF RequestInv, Typed
  <2>2. /\ c.phase = "running" /\ c.at = k.at /\ c.form = k.form /\ c.session = k.session
        /\ c.claimed = k.claimed
    BY <2>1 DEF Calls
  <2>3. k.phase = "reserving" /\ WellMade(k) /\ Knows(k, numbers, stock, session)
    BY DEF Reserve, WorkInv, CallsAreSound, Sound, Active
  <2> HIDE DEF c, k
  <2>4. c.at = 0 /\ HeldRows(k) = {} /\ HeldRows(c) = {}
    BY <2>2, <2>3, NothingHeld DEF WellMade, HeldRows
  <2>5. Steps(c) = Steps(k)
    BY <2>2 DEF Steps
  <2>6. WellMade(c) /\ Knows(c, numbers, stock, session)
    BY <2>2, <2>3, <2>4, <2>5 DEF WellMade, Knows, Kind
  <2> QED
    BY <1>2, <2>1, <2>4, <2>6, CallWithoutRows DEF Sound
<1> QED
  BY <1>1, <1>2 DEF Reserve

\* A row that needs no more than its lock.
LEMMA ProceedWorks ==
    ASSUME WorkInv, RequestInv, NEW b \in Backends, Proceed(b), Unfinished(b),
           Shared(NextRow(b)) \/ Free(b), NextRow(b)[1] \notin {"number", "position"},
           NextRow(b)[1] = "session" => session[backend[b].session].status = "OPEN",
           NextRow(b)[1] = "lines" =>
             \A v \in Lines(backend[b].form) : backend[b].left[v] >= 0
    PROVE  WorkInv'
<1> DEFINE k == backend[b]
           c == [k EXCEPT !.at = @ + 1]
           row == NextRow(b)
<1>1. k \in Calls /\ backend' = [backend EXCEPT ![b] = c]
      /\ UNCHANGED <<session, stock, numbers>>
  BY DEF Proceed, RequestInv, Typed
<1>2. /\ c \in Calls /\ c.phase = k.phase /\ c.at = k.at + 1 /\ c.form = k.form
      /\ c.session = k.session /\ c.left = k.left /\ c.claimed = k.claimed
  BY <1>1 DEF Calls
<1>3. /\ k.phase = "running" /\ WellMade(k) /\ Knows(k, numbers, stock, session)
      /\ k.at < Len(Steps(k)) /\ row = Steps(k)[k.at + 1]
  BY DEF WorkInv, CallsAreSound, Sound, Active, Unfinished, Running, NextRow
<1> HIDE DEF c
<1>4. HeldRows(c) = HeldRows(k) \cup {row}
  BY <1>2, <1>3, Grown DEF WellMade
<1>5. \A s : row = Row("session", s) => s = k.session
  <2>1. k.at + 1 \in 1..Len(Steps(k))
    BY <1>3, StepsOfACall DEF WellMade
  <2>2. k.form \in Forms
    BY <1>3 DEF WellMade
  <2> HIDE DEF k, row
  <2>3. \/ row = Row("session", k.session) \/ row = Row("receipt", None)
        \/ \E v \in Lines(k.form) : row = Row("position", v)
        \/ row = Row("lines", k.form)
        \/ row = Row("number", Content[k.form].kind) \/ row = Row("number", "journal")
    BY <1>3, <2>1, <2>2, StepsOfACall
  <2> QED
    BY <2>3 DEF Row
<1>6. Knows(c, numbers, stock, session)
  <2> HIDE DEF k, row
  <2>1. \A s \in Series : Row("number", s) \in HeldRows(c) => Row("number", s) \in HeldRows(k)
    BY <1>4 DEF Row, row
  <2>2. \A v : Row("position", v) \in HeldRows(c) => Row("position", v) \in HeldRows(k)
    BY <1>4 DEF Row, row
  <2>3. HeldRows(k) \subseteq HeldRows(c)
    BY <1>4
  <2>4. Row("lines", c.form) \in HeldRows(c) => \A v \in Lines(c.form) : c.left[v] >= 0
    BY <1>2, <1>3, <1>4 DEF Knows, Row, row, k
  <2>5. \A s \in Sessions : Row("session", s) \in HeldRows(c) => session[s].status = "OPEN"
    BY <1>3, <1>4, <1>5 DEF Knows, Row, row, k
  <2> QED
    BY <1>2, <1>3, <2>1, <2>2, <2>3, <2>4, <2>5 DEF Knows, Kind
<1> HIDE DEF k
<1> QED
  BY <1>1, <1>2, <1>3, <1>6, CallWithAnotherRow DEF k

\* A position: what it leaves is written down, and a return stops below zero.
LEMMA LockPositionWorks ==
    ASSUME WorkInv, RequestInv, NEW b \in Backends, LockPosition(b)
    PROVE  WorkInv'
<1> DEFINE k == backend[b]
           row == NextRow(b)
           u == row[2]
<1>1. CASE End(b, "refused")
  BY <1>1, EndWorks
<1>2. CASE /\ ~LineRefused(b, u)
           /\ backend' = [backend EXCEPT ![b].at = @ + 1, ![b].left[u] = stock[u] - 1]
           /\ UNCHANGED <<till, session, documents, stock, numbers>>
  <2> DEFINE c == [k EXCEPT !.at = @ + 1, !.left = [@ EXCEPT ![u] = stock[u] - 1]]
  <2>1. Unfinished(b) /\ row[1] = "position" /\ Free(b)
    BY DEF LockPosition, Reaches
  <2>2. /\ k.phase = "running" /\ WellMade(k) /\ Knows(k, numbers, stock, session)
        /\ k.at < Len(Steps(k)) /\ row = Steps(k)[k.at + 1] /\ k \in Calls
    BY <2>1 DEF WorkInv, CallsAreSound, Sound, Active, Unfinished, Running, NextRow,
                RequestInv, Typed
  <2>3. k.at + 1 \in 1..Len(Steps(k)) /\ Len(Steps(k)) \in Nat
    BY <2>2, StepsOfACall DEF WellMade
  <2>4. row = Row("position", u) /\ u \in Lines(k.form) /\ u \in Variants
    <3>1. k.form \in Forms
      BY <2>2 DEF WellMade
    <3>2. \E v \in Lines(k.form) : row = Row("position", v)
      BY <2>1, <2>2, <2>3, <3>1, StepsOfACall DEF Row
    <3> QED
      BY <3>1, <3>2, LinesAreVariants DEF Row
  <2>5. backend' = [backend EXCEPT ![b] = c]
    BY <1>2 DEF RequestInv, Typed, Calls
  <2>6. stock[u] \in Int /\ k.left \in Amounts /\ k.at \in Nat
    BY <2>2, <2>4 DEF RequestInv, Typed, Calls
  <2>7. [k.left EXCEPT ![u] = stock[u] - 1] \in Amounts
    BY <2>6, ChangedFunction DEF Amounts
  <2>8. c \in Calls
    BY <2>2, <2>7, ChangedLeft
  <2>9. /\ c.phase = k.phase /\ c.at = k.at + 1 /\ c.form = k.form
        /\ c.session = k.session /\ c.claimed = k.claimed
        /\ c.left = [k.left EXCEPT ![u] = stock[u] - 1]
    BY <2>2 DEF Calls
  <2> HIDE DEF c, u
  <2>10. HeldRows(c) = HeldRows(k) \cup {row} /\ Steps(c) = Steps(k)
    BY <2>2, <2>9, Grown DEF WellMade
  <2> HIDE DEF k, row
  <2>11. c.left[u] = stock[u] - 1 /\ \A v \in Variants : v # u => c.left[v] = k.left[v]
    BY <2>4, <2>6, <2>9 DEF Amounts
  <2>12. Kind(c) = "return" => stock[u] - 1 >= 0
    BY <1>2, <2>6, <2>9 DEF LineRefused, Kind, k
  <2>13. Row("lines", c.form) \notin HeldRows(c)
    <3> SUFFICES ASSUME Row("lines", c.form) \in HeldRows(c) PROVE FALSE
      OBVIOUS
    <3>1. Row("lines", k.form) \in HeldRows(k)
      BY <2>4, <2>9, <2>10 DEF Row
    <3>2. PICK i \in 1..k.at : Steps(k)[i] = Row("lines", k.form)
      BY <2>2, <3>1 DEF HeldRows
    <3>3. i \in 1..Len(Steps(k)) /\ ~(k.at + 1 < i)
      BY <2>3, <2>6
    <3> QED
      BY <2>2, <2>3, <2>4, <3>2, <3>3, StepsOfACall DEF WellMade
  <2>14. Knows(c, numbers, stock, session)
    <3>1. \A s \in Series :
            c.claimed[s] = IF Row("number", s) \in HeldRows(c) THEN numbers[s] + 1 ELSE 0
      <4>1. \A s \in Series : Row("number", s) \in HeldRows(c) <=> Row("number", s) \in HeldRows(k)
        BY <2>4, <2>10 DEF Row
      <4> QED
        BY <2>2, <2>9, <4>1 DEF Knows
    <3>2. ASSUME NEW v \in Variants, Row("position", v) \in HeldRows(c)
          PROVE  c.left[v] = stock[v] - 1 /\ (Kind(c) = "return" => c.left[v] >= 0)
      <4>1. CASE v = u
        BY <2>11, <2>12, <4>1
      <4>2. CASE v # u
        <5>1. Row("position", v) \in HeldRows(k)
          BY <2>4, <2>10, <3>2, <4>2 DEF Row
        <5> QED
          BY <2>2, <2>9, <2>11, <4>2, <5>1 DEF Knows, Kind
      <4> QED
        BY <4>1, <4>2
    <3>3. \A s \in Sessions : Row("session", s) \in HeldRows(c) => session[s].status = "OPEN"
      BY <2>2, <2>4, <2>10 DEF Knows, Row
    <3> QED
      BY <2>13, <3>1, <3>2, <3>3 DEF Knows
  <2> QED
    BY <1>2, <2>1, <2>2, <2>5, <2>8, <2>9, <2>14, CallWithAnotherRow DEF k
<1> QED
  BY <1>1, <1>2 DEF LockPosition

\* A number: the next one is claimed under the lock of its series.
LEMMA ClaimNumberWorks ==
    ASSUME WorkInv, RequestInv, NEW b \in Backends, ClaimNumber(b)
    PROVE  WorkInv'
<1> DEFINE k == backend[b]
           row == NextRow(b)
           u == row[2]
           c == [k EXCEPT !.at = @ + 1, !.claimed = [@ EXCEPT ![u] = numbers[u] + 1]]
<1>1. /\ Unfinished(b) /\ row[1] = "number" /\ Free(b)
      /\ UNCHANGED <<session, stock, numbers>>
      /\ backend' = [backend EXCEPT ![b].at = @ + 1, ![b].claimed[u] = numbers[u] + 1]
  BY DEF ClaimNumber, Reaches
<1>2. /\ k.phase = "running" /\ WellMade(k) /\ Knows(k, numbers, stock, session)
      /\ k.at < Len(Steps(k)) /\ row = Steps(k)[k.at + 1] /\ k \in Calls
  BY <1>1 DEF WorkInv, CallsAreSound, Sound, Active, Unfinished, Running, NextRow,
              RequestInv, Typed
<1>3. row = Row("number", u) /\ u \in Series
  <2>1. k.at + 1 \in 1..Len(Steps(k)) /\ k.form \in Forms
    BY <1>2, StepsOfACall DEF WellMade
  <2> HIDE DEF k
  <2>2. /\ Content[k.form].kind \in Kinds
        /\ \/ row = Row("session", k.session) \/ row = Row("receipt", None)
           \/ \E v \in Lines(k.form) : row = Row("position", v)
           \/ row = Row("lines", k.form)
           \/ row = Row("number", Content[k.form].kind) \/ row = Row("number", "journal")
    BY <1>2, <2>1, StepsOfACall
  <2> QED
    BY <1>1, <2>2 DEF Row, Kinds, Series
<1>4. backend' = [backend EXCEPT ![b] = c]
  BY <1>1 DEF RequestInv, Typed, Calls
<1>5. numbers[u] \in Nat /\ k.claimed \in Claims
  BY <1>2, <1>3 DEF RequestInv, Typed, Calls
<1>6. [k.claimed EXCEPT ![u] = numbers[u] + 1] \in Claims
  BY <1>5, ChangedFunction DEF Claims
<1>7. c \in Calls
  BY <1>2, <1>6, ChangedClaimed
<1>8. /\ c.phase = k.phase /\ c.at = k.at + 1 /\ c.form = k.form
      /\ c.session = k.session /\ c.left = k.left
      /\ c.claimed = [k.claimed EXCEPT ![u] = numbers[u] + 1]
  BY <1>2 DEF Calls
<1> HIDE DEF c, u
<1>9. HeldRows(c) = HeldRows(k) \cup {row}
  BY <1>2, <1>8, Grown DEF WellMade
<1> HIDE DEF k, row
<1>10. c.claimed[u] = numbers[u] + 1 /\ \A s \in Series : s # u => c.claimed[s] = k.claimed[s]
  BY <1>3, <1>5, <1>8 DEF Claims
<1>11. Knows(c, numbers, stock, session)
  <2>1. \A s \in Series : s # u =>
          (Row("number", s) \in HeldRows(c) <=> Row("number", s) \in HeldRows(k))
    BY <1>3, <1>9 DEF Row
  <2>2. Row("number", u) \in HeldRows(c)
    BY <1>3, <1>9
  <2>3. \A s \in Series :
          c.claimed[s] = IF Row("number", s) \in HeldRows(c) THEN numbers[s] + 1 ELSE 0
    BY <1>2, <1>10, <2>1, <2>2 DEF Knows
  <2>4. /\ \A v : Row("position", v) \in HeldRows(c) => Row("position", v) \in HeldRows(k)
        /\ \A f : Row("lines", f) \in HeldRows(c) => Row("lines", f) \in HeldRows(k)
        /\ \A s : Row("session", s) \in HeldRows(c) => Row("session", s) \in HeldRows(k)
    BY <1>3, <1>9 DEF Row
  <2> QED
    BY <1>2, <1>8, <2>3, <2>4 DEF Knows, Kind
<1> QED
  BY <1>1, <1>2, <1>4, <1>7, <1>8, <1>11, CallWithAnotherRow DEF k

-----------------------------------------------------------------------------
(* A commit.                                                               *)

\* At the commit every row is held, and the checks have been made.
LEMMA CommitKnows ==
    ASSUME WorkInv, RequestInv, NEW b \in Backends, Commit(b),
           NEW k, k = backend[b]
    PROVE  /\ k.form \in Forms /\ Kind(k) \in Kinds
           /\ \A s \in Series : k.claimed[s] = IF s \in {Kind(k), "journal"} THEN numbers[s] + 1 ELSE 0
           /\ \A s \in {Kind(k), "journal"} : Holds(b, Row("number", s))
           /\ \A v \in Lines(k.form) :
                v \in Variants /\ Holds(b, Row("position", v))
                /\ k.left[v] = stock[v] - 1 /\ k.left[v] >= 0
           /\ Kind(k) = "sale" => k.session \in Sessions /\ session[k.session].status = "OPEN"
<1>1. /\ k.phase = "running" /\ WellMade(k) /\ Knows(k, numbers, stock, session)
      /\ k.at = Len(Steps(k))
  BY DEF WorkInv, CallsAreSound, Sound, Active, Commit, Running
<1>2. k.form \in Forms
  BY <1>1 DEF WellMade
<1>3. HeldRows(k) = {Steps(k)[i] : i \in 1..Len(Steps(k))}
  BY <1>1 DEF HeldRows
<1>4. Kind(k) \in Kinds
  BY <1>2, StepsOfACall DEF Kind
<1>5. Row("number", Kind(k)) \in HeldRows(k) /\ Row("number", "journal") \in HeldRows(k)
  BY <1>2, <1>3, StepsOfACall DEF Kind
<1>6. \A v \in Lines(k.form) : Row("position", v) \in HeldRows(k)
  BY <1>2, <1>3, StepsOfACall
<1>7. Kind(k) = "sale" =>
        Row("lines", k.form) \in HeldRows(k) /\ Row("session", k.session) \in HeldRows(k)
  BY <1>2, <1>3, StepsOfACall DEF Kind
<1>8. \A s \in Series : Row("number", s) \in HeldRows(k) => s \in {Kind(k), "journal"}
  <2> SUFFICES ASSUME NEW s \in Series, NEW i \in 1..Len(Steps(k)),
                      Steps(k)[i] = Row("number", s)
               PROVE  s \in {Kind(k), "journal"}
    BY <1>3
  <2> DEFINE row == Steps(k)[i]
  <2>1. \/ row = Row("session", k.session) \/ row = Row("receipt", None)
        \/ \E v \in Lines(k.form) : row = Row("position", v)
        \/ row = Row("lines", k.form)
        \/ row = Row("number", Kind(k)) \/ row = Row("number", "journal")
    BY <1>2, StepsOfACall DEF Kind
  <2> HIDE DEF row
  <2>2. row = Row("number", s)
    BY DEF row
  <2> QED
    BY <2>1, <2>2 DEF Row
<1>9. \A s \in Series :
        k.claimed[s] = IF s \in {Kind(k), "journal"} THEN numbers[s] + 1 ELSE 0
  BY <1>1, <1>5, <1>8 DEF Knows
<1>10. \A s \in {Kind(k), "journal"} : Holds(b, Row("number", s))
  BY <1>5, HoldsIsHeld
<1>11. ASSUME NEW v \in Lines(k.form)
       PROVE  /\ v \in Variants /\ Holds(b, Row("position", v))
              /\ k.left[v] = stock[v] - 1 /\ k.left[v] >= 0
  <2>1. v \in Variants
    BY <1>2, LinesAreVariants
  <2>2. k.left[v] = stock[v] - 1 /\ (Kind(k) = "return" => k.left[v] >= 0)
    BY <1>1, <1>6, <2>1 DEF Knows
  <2>3. Kind(k) = "sale" => k.left[v] >= 0
    BY <1>1, <1>7 DEF Knows
  <2> QED
    BY <1>4, <1>6, <2>1, <2>2, <2>3, HoldsIsHeld DEF Kinds
<1>12. Kind(k) = "sale" => k.session \in Sessions /\ session[k.session].status = "OPEN"
  BY <1>1, <1>7 DEF WellMade, Knows
<1> QED
  BY <1>2, <1>4, <1>9, <1>10, <1>11, <1>12

\* What it does to stock and numbers.
LEMMA CommitEffect ==
    ASSUME WorkInv, RequestInv, NEW b \in Backends, Commit(b),
           NEW k, k = backend[b]
    PROVE  /\ \A s \in Series :
                numbers'[s] = IF s \in {Kind(k), "journal"} THEN numbers[s] + 1 ELSE numbers[s]
           /\ \A v \in Variants :
                stock'[v] = IF v \in Lines(k.form) THEN stock[v] - 1 ELSE stock[v]
<1>1. /\ \A s \in Series : numbers'[s] = IF k.claimed[s] > 0 THEN k.claimed[s] ELSE numbers[s]
      /\ \A v \in Variants : stock'[v] = IF v \in Lines(k.form) THEN k.left[v] ELSE stock[v]
  BY DEF Commit
<1>2. \A s \in Series : numbers[s] \in Nat
  BY DEF RequestInv, Typed
<1>3. /\ \A s \in Series :
           k.claimed[s] = IF s \in {Kind(k), "journal"} THEN numbers[s] + 1 ELSE 0
      /\ \A v \in Lines(k.form) : k.left[v] = stock[v] - 1
  BY CommitKnows
<1> QED
  BY <1>1, <1>2, <1>3

\* A commit changes what no other call has read under its locks.
LEMMA CommitWorks ==
    ASSUME WorkInv, RequestInv, NEW b \in Backends, Commit(b)
    PROVE  WorkInv'
<1> DEFINE k == backend[b]
           c == Answered(b, "posted")
<1>1. backend' = [backend EXCEPT ![b] = c] /\ session' = session
  BY DEF Commit
<1>2. ~Active(c)
  <2>1. backend[b] \in Calls
    BY DEF RequestInv, Typed
  <2> QED
    BY <2>1, IdleCall DEF Answered, Calls, Active
<1> HIDE DEF c
<1>3. /\ backend'[b] = c
      /\ \A e \in Backends : e # b => backend'[e] = backend[e]
  BY <1>1 DEF RequestInv, Typed
<1>4. ASSUME NEW e \in Backends, e # b
      PROVE  Sound(backend[e])'
  <2>1. CASE Active(backend[e])
    <3>1. WellMade(backend[e]) /\ Knows(backend[e], numbers, stock, session)
      BY <2>1 DEF WorkInv, CallsAreSound, Sound
    <3>2. ASSUME NEW row, row \in HeldRows(backend[e]), ~Shared(row)
          PROVE  ~Holds(b, row)
      BY <1>4, <3>2, HoldsIsHeld DEF WorkInv, RowsExclude
    <3>3. \A s \in Series : Row("number", s) \in HeldRows(backend[e]) => numbers'[s] = numbers[s]
      <4> SUFFICES ASSUME NEW s \in Series, Row("number", s) \in HeldRows(backend[e])
                   PROVE  numbers'[s] = numbers[s]
        OBVIOUS
      <4>1. ~Shared(Row("number", s))
        BY DEF Shared, Row
      <4>2. s \notin {Kind(k), "journal"}
        BY <3>2, <4>1, CommitKnows
      <4> QED
        BY <4>2, CommitEffect
    <3>4. \A v \in Variants : Row("position", v) \in HeldRows(backend[e]) => stock'[v] = stock[v]
      <4> SUFFICES ASSUME NEW v \in Variants, Row("position", v) \in HeldRows(backend[e])
                   PROVE  stock'[v] = stock[v]
        OBVIOUS
      <4>1. ~Shared(Row("position", v))
        BY DEF Shared, Row
      <4>2. v \notin Lines(k.form)
        BY <3>2, <4>1, CommitKnows
      <4> QED
        BY <4>2, CommitEffect
    <3>5. Knows(backend[e], numbers', stock', session')
      BY <1>1, <3>1, <3>3, <3>4, StillKnows
    <3> QED
      BY <1>3, <1>4, <3>1, <3>5 DEF Sound
  <2> QED
    BY <1>3, <1>4, <2>1 DEF Sound
<1>5. CallsAreSound'
  BY <1>2, <1>3, <1>4 DEF CallsAreSound, Sound
<1>6. RowsExclude'
  <2>1. HeldRows(c) = {}
    BY <1>2 DEF Active, HeldRows
  <2> QED
    BY <1>3, <2>1 DEF WorkInv, RowsExclude
<1>7. SessionsTyped'
  BY <1>1 DEF WorkInv, SessionsTyped
<1> QED
  BY <1>5, <1>6, <1>7 DEF WorkInv

\* No step of a transaction breaks WorkInv.
LEMMA BackendWorks ==
    ASSUME WorkInv, RequestInv, NEW b \in Backends,
           Advance(b) \/ Abort(b) \/ AbortDeadlock(b)
    PROVE  WorkInv'
<1>1. CASE Reserve(b)
  BY <1>1, ReserveWorks
<1>2. CASE LockSession(b)
  <2>1. Unfinished(b) /\ NextRow(b)[1] = "session"
    BY <1>2 DEF LockSession, Reaches
  <2>2. CASE session[backend[b].session].status = "OPEN" /\ Proceed(b)
    BY <2>1, <2>2, ProceedWorks DEF Shared
  <2>3. CASE End(b, "refused")
    BY <2>3, EndWorks
  <2> QED
    BY <1>2, <2>2, <2>3 DEF LockSession
<1>3. CASE LockReceipt(b)
  BY <1>3, ProceedWorks DEF LockReceipt, Reaches
<1>4. CASE LockPosition(b)
  BY <1>4, LockPositionWorks
<1>5. CASE CheckLines(b)
  <2>1. Unfinished(b) /\ NextRow(b)[1] = "lines"
    BY <1>5 DEF CheckLines, Reaches
  <2>2. CASE Proceed(b) /\ \A v \in Lines(backend[b].form) : backend[b].left[v] >= 0
    BY <2>1, <2>2, ProceedWorks DEF Shared
  <2>3. CASE End(b, "refused")
    BY <2>3, EndWorks
  <2> QED
    BY <1>5, <2>2, <2>3 DEF CheckLines
<1>6. CASE ClaimNumber(b)
  BY <1>6, ClaimNumberWorks
<1>7. CASE Commit(b)
  BY <1>7, CommitWorks
<1>8. CASE Abort(b)
  BY <1>8, EndWorks DEF Abort
<1>9. CASE AbortDeadlock(b)
  BY <1>9, EndWorks DEF AbortDeadlock
<1> QED
  BY <1>1, <1>2, <1>3, <1>4, <1>5, <1>6, <1>7, <1>8, <1>9 DEF Advance

\* No step of a till breaks WorkInv.
LEMMA TillWorks ==
    ASSUME WorkInv, RequestInv, NEW t \in Tills,
           Submit(t) \/ Deliver(t) \/ LoseAnswer(t) \/ \E f \in Forms : Edit(t, f)
    PROVE  WorkInv'
<1>1. till[t] \in Shown /\ backend \in [Backends -> Calls]
  BY DEF RequestInv, Typed
<1>2. CASE backend' = backend /\ UNCHANGED <<session, stock, numbers>>
  <2>1. SessionsTyped'
    BY <1>2 DEF WorkInv, SessionsTyped
  <2> QED
    BY <1>2, <2>1, BesideCallsWorks
<1>3. CASE Submit(t)
  <2>1. PICK b \in Backends, r \in RequestIds(t), s \in SessionsOf(t) :
             backend' = [backend EXCEPT ![b] = Call(till[t].form, r, s)]
    BY <1>3 DEF Submit
  <2> DEFINE c == Call(till[t].form, r, s)
  <2>2. till[t].form \in Forms /\ UNCHANGED <<session, stock, numbers>>
    BY <1>1, <1>3 DEF Submit, Shown, OrNone
  <2>3. Content[till[t].form].kind = "sale" => s \in Sessions
    BY DEF SessionsOf
  <2>4. /\ c.phase = "reserving" /\ c.form = till[t].form /\ c.session = s /\ c.at = 0
        /\ c.claimed = NoNumbers
    BY DEF Call, Idle
  <2> HIDE DEF c
  <2>5. HeldRows(c) = {}
    BY <2>4, NothingHeld
  <2>6. WellMade(c)
    <3>1. 0 <= Len(Steps(c))
      BY <2>2, <2>4, StepsOfACall
    <3> QED
      BY <2>2, <2>3, <2>4, <3>1 DEF WellMade, Kind
  <2>7. Knows(c, numbers, stock, session)
    BY <2>4, <2>5 DEF Knows, NoNumbers
  <2> QED
    BY <2>1, <2>2, <2>4, <2>6, <2>7, CallWithoutRows DEF Sound, c
<1>4. ASSUME NEW b \in Backends, backend' = [backend EXCEPT ![b] = Idle],
             UNCHANGED <<session, stock, numbers>>
      PROVE  WorkInv'
  <2>1. ~Active(Idle) /\ Idle.phase # "running"
    BY IdleCall DEF Active
  <2> QED
    BY <1>4, <2>1, CallWithoutRows DEF Sound
<1>5. CASE Deliver(t)
  BY <1>1, <1>4, <1>5 DEF Deliver, Shown, OrNone
<1>6. CASE LoseAnswer(t)
  <2> DEFINE b == till[t].call
  <2>1. b \in Backends /\ UNCHANGED <<session, stock, numbers>>
        /\ backend' = [backend EXCEPT ![b] = IF @.phase \in {"reserving", "running"} THEN @ ELSE Idle]
    BY <1>1, <1>6 DEF LoseAnswer, Shown, OrNone
  <2> HIDE DEF b
  <2>2. backend' = backend \/ backend' = [backend EXCEPT ![b] = Idle]
    BY <1>1, <2>1
  <2> QED
    BY <1>2, <1>4, <2>1, <2>2
<1>7. ASSUME NEW f \in Forms, Edit(t, f)
      PROVE  WorkInv'
  BY <1>2, <1>7 DEF Edit
<1> QED
  BY <1>3, <1>5, <1>6, <1>7

-----------------------------------------------------------------------------
(* The cash session.                                                       *)

\* A session whose status and expected drawer change.
LEMMA SessionChanges ==
    ASSUME SessionsTyped, NEW s \in Sessions, NEW st \in Statuses, NEW e,
           \/ session' = [session EXCEPT ![s].status = st, ![s].expected = e]
           \/ session' = [session EXCEPT ![s].status = st] /\ e = session[s].expected
    PROVE  /\ SessionsTyped'
           /\ session'[s].status = st /\ session'[s].expected = e
           /\ \A u \in Sessions : u # s => session'[u] = session[u]
<1>1. PICK V : session \in [Sessions -> [status: Statuses, till: OrNone(Tills), expected: V]]
  BY DEF SessionsTyped
<1> DEFINE R(W) == [status: Statuses, till: OrNone(Tills), expected: W]
           y == session[s]
           z == [y EXCEPT !.status = st, !.expected = e]
<1>2. /\ session \in [Sessions -> R(V)] /\ y \in R(V)
  BY <1>1
<1>3. z \in R(V \cup {e}) /\ z.status = st /\ z.expected = e
  BY <1>2
<1>4. \A u \in Sessions : session[u] \in R(V \cup {e})
  BY <1>2
<1>5. session' = [session EXCEPT ![s] = z]
  BY <1>2
<1> HIDE DEF z, R
<1>6. session' \in [Sessions -> R(V \cup {e})]
  BY <1>2, <1>3, <1>4, <1>5
<1>7. SessionsTyped'
  BY <1>6 DEF SessionsTyped, R
<1> QED
  BY <1>2, <1>3, <1>5, <1>7

\* What any step of a session leaves alone: it needs the row of the session
\* and, for a journal, of its number.
SessionMoves(s) ==
    /\ UNCHANGED <<till, backend, stock>>
    /\ SessionsTyped'
    /\ \A u \in Sessions : u # s => session'[u] = session[u]
    /\ session'[s].status # session[s].status =>
         \/ Unlocked(Row("session", s))
         \/ session[s].status # "OPEN" /\ session'[s].status = "OPEN"
    /\ \/ UNCHANGED numbers
       \/ /\ Unlocked(Row("number", "journal"))
          /\ numbers' = [numbers EXCEPT !["journal"] = @ + 1]

\* Such a step breaks nothing that a call relies on.
LEMMA SessionMovesWork ==
    ASSUME WorkInv, RequestInv, NEW s \in Sessions, SessionMoves(s)
    PROVE  WorkInv'
<1>1. ASSUME NEW b \in Backends, NEW u \in Series, Holds(b, Row("number", u))
      PROVE  numbers'[u] = numbers[u]
  BY <1>1 DEF SessionMoves, Unlocked, RequestInv, Typed
<1>2. ASSUME NEW b \in Backends, NEW u \in Sessions, Holds(b, Row("session", u))
      PROVE  session'[u].status = session[u].status
  <2>1. session[u].status = "OPEN"
    <3>1. Active(backend[b]) /\ Row("session", u) \in HeldRows(backend[b])
      BY <1>2, HoldsIsHeld DEF Holds, Running, Active
    <3> QED
      BY <3>1 DEF WorkInv, CallsAreSound, Sound, Knows
  <2> QED
    BY <1>2, <2>1 DEF SessionMoves, Unlocked
<1> QED
  BY <1>1, <1>2, BesideCallsWorks DEF SessionMoves

\* Every step of a cash session is such a step.
LEMMA SessionStepMoves ==
    ASSUME WorkInv, NEW s \in Sessions,
           \/ \E t \in Tills : OpenSession(t, s)
           \/ BeginClose(s) \/ CancelClose(s) \/ ApproveVariance(s)
           \/ \E difference \in {"none", "small", "material"} : SubmitCount(s, difference)
           \/ \E amount \in {-1, 1} : MoveCash(s, amount)
    PROVE  SessionMoves(s)
<1>0. SessionsTyped
  BY DEF WorkInv
<1>1. ASSUME NEW t \in Tills, OpenSession(t, s)
      PROVE  SessionMoves(s)
  <2>1. PICK V : session \in [Sessions -> [status: Statuses, till: OrNone(Tills), expected: V]]
    BY <1>0 DEF SessionsTyped
  <2>2. session' = [session EXCEPT ![s].status = "OPEN", ![s].till = t]
        /\ session[s].status = "none" /\ UNCHANGED <<till, backend, stock, numbers>>
    BY <1>1 DEF OpenSession
  <2>3. session' \in [Sessions -> [status: Statuses, till: OrNone(Tills), expected: V]]
        /\ session'[s].status = "OPEN" /\ \A u \in Sessions : u # s => session'[u] = session[u]
    BY <2>1, <2>2 DEF Statuses, OrNone
  <2> QED
    BY <2>2, <2>3 DEF SessionMoves, SessionsTyped
<1>2. ASSUME NEW st \in Statuses, SetSession(s, st)
      PROVE  /\ UNCHANGED <<till, backend, stock>> /\ SessionsTyped'
             /\ Unlocked(Row("session", s))
             /\ \A u \in Sessions : u # s => session'[u] = session[u]
  BY <1>0, <1>2, SessionChanges DEF SetSession
<1>3. ASSUME NEW kind, NEW cash, PostCashJournal(kind, s, cash)
      PROVE  /\ Unlocked(Row("number", "journal"))
             /\ numbers' = [numbers EXCEPT !["journal"] = @ + 1]
  BY <1>3 DEF PostCashJournal
<1>4. CASE BeginClose(s) \/ CancelClose(s)
  <2>1. UNCHANGED numbers /\ \E st \in Statuses : SetSession(s, st)
    BY <1>4 DEF BeginClose, CancelClose, Statuses
  <2> QED
    BY <1>2, <2>1 DEF SessionMoves
<1>5. CASE ApproveVariance(s)
  <2>1. SetSession(s, "CLOSED") /\ "CLOSED" \in Statuses /\ PostCashJournal("variance", s, 0)
    BY <1>5 DEF ApproveVariance, Statuses
  <2> QED
    BY <1>2, <1>3, <2>1 DEF SessionMoves
<1>6. ASSUME NEW amount \in {-1, 1}, MoveCash(s, amount)
      PROVE  SessionMoves(s)
  <2>1. SetSession(s, "OPEN") /\ "OPEN" \in Statuses /\ PostCashJournal("movement", s, amount)
    BY <1>6 DEF MoveCash, Statuses
  <2> QED
    BY <1>2, <1>3, <2>1 DEF SessionMoves
<1>7. ASSUME NEW difference \in {"none", "small", "material"}, SubmitCount(s, difference)
      PROVE  SessionMoves(s)
  <2> DEFINE st == IF difference = "material" THEN "PENDING_APPROVAL" ELSE "CLOSED"
             e == Drawer(s)
  <2>1. /\ session' = [session EXCEPT ![s].status = st, ![s].expected = e]
        /\ Unlocked(Row("session", s)) /\ UNCHANGED <<till, backend, stock>>
        /\ UNCHANGED <<documents, numbers>> \/ PostCashJournal("variance", s, 0)
    BY <1>7 DEF SubmitCount
  <2>2. st \in Statuses
    BY DEF Statuses
  <2> HIDE DEF st, e
  <2>3. SessionsTyped' /\ \A u \in Sessions : u # s => session'[u] = session[u]
    <3>1. session' = [session EXCEPT ![s].status = st, ![s].expected = e]
      BY <2>1
    <3> QED
      BY <1>0, <2>2, <3>1, SessionChanges
  <2> QED
    BY <1>3, <2>1, <2>3 DEF SessionMoves
<1> QED
  BY <1>1, <1>4, <1>5, <1>6, <1>7

\* Every step keeps WorkInv.
LEMMA NextWorkInv == WorkInv /\ RequestInv /\ [Next]_vars => WorkInv'
<1> SUFFICES ASSUME WorkInv, RequestInv, [Next]_vars PROVE WorkInv'
  OBVIOUS
<1>1. CASE UNCHANGED vars
  <2>1. SessionsTyped'
    BY <1>1 DEF vars, WorkInv, SessionsTyped
  <2> QED
    BY <1>1, <2>1, BesideCallsWorks DEF vars
<1>2. ASSUME NEW s \in Sessions,
             \/ \E t \in Tills : OpenSession(t, s)
             \/ BeginClose(s) \/ CancelClose(s) \/ ApproveVariance(s)
             \/ \E difference \in {"none", "small", "material"} : SubmitCount(s, difference)
             \/ \E amount \in {-1, 1} : MoveCash(s, amount)
      PROVE  WorkInv'
  BY <1>2, SessionStepMoves, SessionMovesWork
<1>3. CASE Next
  BY <1>2, <1>3, BackendWorks, TillWorks DEF Next
<1> QED
  BY <1>1, <1>3

-----------------------------------------------------------------------------
(* The books.                                                                *)

OfKind(kind) == {d \in documents : d.kind = kind}

\* The last number of a series is how many of its documents there are.
Numbered ==
    /\ IsFiniteSet(documents)
    /\ \A d \in documents : d.form # None <=> d.kind \in Kinds
    /\ \A kind \in Kinds : numbers[kind] = Cardinality(OfKind(kind))
    /\ numbers["journal"] = Cardinality(documents)

\* The inductive invariant of what is committed.
BooksInv ==
    /\ Numbered
    /\ NumbersHaveNoGaps
    /\ StockIsWhatWasMoved
    /\ \A v \in Variants : stock[v] >= 0
    /\ CountsAreComplete

\* A set numbered without gaps, and the next number.
LEMMA NextNumber ==
    ASSUME NEW S, IsFiniteSet(S), NEW f, {f[e] : e \in S} = 1..Cardinality(S),
           NEW d, f[d] = Cardinality(S) + 1
    PROVE  /\ d \notin S /\ IsFiniteSet(S \cup {d})
           /\ Cardinality(S \cup {d}) = Cardinality(S) + 1
           /\ {f[e] : e \in S \cup {d}} = 1..Cardinality(S \cup {d})
<1>1. Cardinality(S) \in Nat
  BY FS_CardinalityType
<1>2. d \notin S
  <2> SUFFICES ASSUME d \in S PROVE FALSE
    OBVIOUS
  <2>1. f[d] \in 1..Cardinality(S)
    OBVIOUS
  <2> QED
    BY <1>1, <2>1
<1>3. IsFiniteSet(S \cup {d}) /\ Cardinality(S \cup {d}) = Cardinality(S) + 1
  BY <1>2, FS_AddElement
<1>4. 1..(Cardinality(S) + 1) = 1..Cardinality(S) \cup {Cardinality(S) + 1}
  BY <1>1
<1>5. {f[e] : e \in S \cup {d}} = {f[e] : e \in S} \cup {f[d]}
  OBVIOUS
<1> QED
  BY <1>2, <1>3, <1>4, <1>5

\* What a session's movements add up to depends on them alone.
LEMMA DrawerStays ==
    ASSUME NEW s \in Sessions, CashMovements(s)' = CashMovements(s)
    PROVE  Drawer(s)' = Drawer(s)
BY DEF Drawer

\* The books are empty at first.
LEMMA InitBooksInv == Init => BooksInv
<1> SUFFICES ASSUME Init PROVE BooksInv
  OBVIOUS
<1>1. documents = {} /\ stock = OpeningStock /\ \A s \in Series : numbers[s] = 0
  BY DEF Init, NoNumbers
<1>2. IsFiniteSet({}) /\ Cardinality({}) = 0 /\ 1..0 = {}
  BY FS_EmptySet
<1>3. \A kind : OfKind(kind) = {}
  BY <1>1 DEF OfKind
<1>4. Numbered
  BY <1>1, <1>2, <1>3 DEF Numbered, Kinds, Series
<1>5. NumbersHaveNoGaps
  BY <1>1, <1>2 DEF NumbersHaveNoGaps
<1>6. \A v \in Variants : OpeningStock[v] \in Nat
  BY StockAssumption
<1>7. StockIsWhatWasMoved
  <2>1. \A v \in Variants : {d \in documents : d.form # None /\ v \in Lines(d.form)} = {}
    BY <1>1
  <2> QED
    BY <1>1, <1>2, <1>6, <2>1 DEF StockIsWhatWasMoved
<1>8. \A v \in Variants : stock[v] >= 0
  BY <1>1, <1>6
<1>9. CountsAreComplete
  BY DEF Init, NoSession, CountsAreComplete
<1> QED
  BY <1>4, <1>5, <1>7, <1>8, <1>9 DEF BooksInv

\* Nothing is posted and no session changes.
LEMMA BooksUntouched ==
    ASSUME BooksInv, UNCHANGED <<session, documents, stock, numbers>>
    PROVE  BooksInv'
<1>1. \A s \in Sessions : CashMovements(s)' = CashMovements(s)
  BY DEF CashMovements
<1>2. CountsAreComplete'
  BY <1>1, DrawerStays DEF BooksInv, CountsAreComplete
<1>3. NumbersHaveNoGaps' /\ StockIsWhatWasMoved'
  BY DEF BooksInv, NumbersHaveNoGaps, StockIsWhatWasMoved
<1>4. Numbered'
  BY DEF BooksInv, Numbered, OfKind
<1> QED
  BY <1>2, <1>3, <1>4 DEF BooksInv

\* A document takes the next numbers of its series.
LEMMA DocumentIsNumbered ==
    ASSUME BooksInv, NEW d, documents' = documents \cup {d},
           d.form # None <=> d.kind \in Kinds,
           d.journal = numbers["journal"] + 1,
           d.kind \in Kinds => d.number = numbers[d.kind] + 1,
           \A s \in Series :
             numbers'[s] = IF s \in {d.kind, "journal"} THEN numbers[s] + 1 ELSE numbers[s]
    PROVE  d \notin documents /\ Numbered' /\ NumbersHaveNoGaps'
<1>1. /\ IsFiniteSet(documents) /\ {e.journal : e \in documents} = 1..Cardinality(documents)
      /\ numbers["journal"] = Cardinality(documents)
  BY DEF BooksInv, Numbered, NumbersHaveNoGaps
<1>2. /\ d \notin documents /\ IsFiniteSet(documents')
      /\ Cardinality(documents') = Cardinality(documents) + 1
      /\ {e.journal : e \in documents'} = 1..Cardinality(documents')
  <2> DEFINE S == documents
             f == [e \in S \cup {d} |-> e.journal]
  <2>1. IsFiniteSet(S) /\ {e.journal : e \in S} = 1..Cardinality(S)
        /\ d.journal = Cardinality(S) + 1 /\ documents' = S \cup {d}
    BY <1>1
  <2> HIDE DEF S
  <2>2. {f[e] : e \in S} = {e.journal : e \in S} /\ f[d] = d.journal
        /\ {f[e] : e \in S \cup {d}} = {e.journal : e \in S \cup {d}}
    OBVIOUS
  <2> HIDE DEF f
  <2>3. {f[e] : e \in S} = 1..Cardinality(S) /\ f[d] = Cardinality(S) + 1
    BY <2>1, <2>2
  <2>4. IsFiniteSet(S)
    BY <2>1
  <2>5. d \notin S /\ IsFiniteSet(S \cup {d})
    BY <2>3, <2>4, NextNumber
  <2>6. Cardinality(S \cup {d}) = Cardinality(S) + 1
    BY <2>3, <2>4, NextNumber
  <2>7. {f[e] : e \in S \cup {d}} = 1..Cardinality(S \cup {d})
    BY <2>3, <2>4, NextNumber
  <2> QED
    BY <2>1, <2>2, <2>5, <2>6, <2>7 DEF S
<1>3. ASSUME NEW kind \in Kinds
      PROVE  /\ numbers'[kind] = Cardinality(OfKind(kind)')
             /\ {e.number : e \in OfKind(kind)'} = 1..Cardinality(OfKind(kind)')
  <2> DEFINE S == OfKind(kind)
  <2>1. /\ numbers[kind] = Cardinality(S) /\ {e.number : e \in S} = 1..Cardinality(S)
    BY DEF BooksInv, Numbered, NumbersHaveNoGaps, OfKind
  <2>2. IsFiniteSet(S)
    BY <1>1, FS_Subset DEF OfKind
  <2>3. kind \in Series /\ kind # "journal"
    BY DEF Kinds, Series
  <2>4. CASE d.kind = kind
    <3>1. OfKind(kind)' = S \cup {d}
      BY <2>4 DEF OfKind
    <3> DEFINE f == [e \in S \cup {d} |-> e.number]
    <3> HIDE DEF S
    <3>2. {f[e] : e \in S} = {e.number : e \in S} /\ f[d] = d.number
          /\ {f[e] : e \in S \cup {d}} = {e.number : e \in S \cup {d}}
      OBVIOUS
    <3> HIDE DEF f
    <3>3. {f[e] : e \in S} = 1..Cardinality(S) /\ f[d] = Cardinality(S) + 1
      BY <2>1, <2>4, <3>2
    <3>4. /\ Cardinality(S \cup {d}) = Cardinality(S) + 1
          /\ {f[e] : e \in S \cup {d}} = 1..Cardinality(S \cup {d})
      BY <2>2, <3>3, NextNumber
    <3> QED
      BY <2>1, <2>3, <2>4, <3>1, <3>2, <3>4
  <2>5. CASE d.kind # kind
    <3>1. OfKind(kind)' = S
      BY <2>5 DEF OfKind
    <3> QED
      BY <2>1, <2>3, <2>5, <3>1
  <2> QED
    BY <2>4, <2>5
<1>4. Numbered'
  <2>1. numbers'["journal"] = numbers["journal"] + 1
    BY DEF Series
  <2>2. \A e \in documents' : e.form # None <=> e.kind \in Kinds
    BY DEF BooksInv, Numbered
  <2> QED
    BY <1>1, <1>2, <1>3, <2>1, <2>2 DEF Numbered
<1>5. NumbersHaveNoGaps'
  BY <1>2, <1>3 DEF NumbersHaveNoGaps, OfKind
<1> QED
  BY <1>2, <1>4, <1>5

\* A commit adds its document, takes its units and its numbers.
LEMMA CommitBooks ==
    ASSUME BooksInv, WorkInv, RequestInv, NEW b \in Backends, Commit(b)
    PROVE  BooksInv'
<1> DEFINE k == backend[b]
           d == Document(k)
<1>1. documents' = documents \cup {d} /\ session' = session
  BY DEF Commit
<1>2. /\ k.form \in Forms /\ Kind(k) \in Kinds
      /\ \A s \in Series : k.claimed[s] = IF s \in {Kind(k), "journal"} THEN numbers[s] + 1 ELSE 0
      /\ \A v \in Lines(k.form) : k.left[v] = stock[v] - 1 /\ k.left[v] >= 0
      /\ Kind(k) = "sale" => k.session \in Sessions /\ session[k.session].status = "OPEN"
  BY CommitKnows
<1>3. /\ \A s \in Series :
           numbers'[s] = IF s \in {Kind(k), "journal"} THEN numbers[s] + 1 ELSE numbers[s]
      /\ \A v \in Variants :
           stock'[v] = IF v \in Lines(k.form) THEN stock[v] - 1 ELSE stock[v]
  BY CommitEffect
<1>4. /\ d.kind = Kind(k) /\ d.form = k.form /\ d.session = k.session
      /\ d.number = k.claimed[Kind(k)] /\ d.journal = k.claimed["journal"]
      /\ Kind(k) # "sale" => d.cash = 0
  BY DEF Document, Kind
<1>5. k.form # None
  BY <1>2, NoneAssumption
<1> HIDE DEF k, d
<1>6. d \notin documents /\ Numbered' /\ NumbersHaveNoGaps'
  <2>1. d.journal = numbers["journal"] + 1 /\ d.number = numbers[d.kind] + 1
    BY <1>2, <1>4 DEF Kinds, Series
  <2>2. d.form # None <=> d.kind \in Kinds
    BY <1>2, <1>4, <1>5
  <2>3. \A s \in Series :
          numbers'[s] = IF s \in {d.kind, "journal"} THEN numbers[s] + 1 ELSE numbers[s]
    BY <1>3, <1>4
  <2> QED
    BY <1>1, <2>1, <2>2, <2>3, DocumentIsNumbered
<1>7. \A v \in Variants : stock[v] \in Int
  BY DEF RequestInv, Typed
<1>8. StockIsWhatWasMoved'
  <2> DEFINE Moved(v) == {e \in documents : e.form # None /\ v \in Lines(e.form)}
  <2> SUFFICES ASSUME NEW v \in Variants
               PROVE  stock'[v] = OpeningStock[v] - Cardinality(Moved(v)')
    BY DEF StockIsWhatWasMoved
  <2>1. stock[v] = OpeningStock[v] - Cardinality(Moved(v)) /\ OpeningStock[v] \in Nat
    BY StockAssumption DEF BooksInv, StockIsWhatWasMoved
  <2>2. IsFiniteSet(Moved(v)) /\ d \notin Moved(v)
    BY <1>6, FS_Subset DEF BooksInv, Numbered
  <2>3. Moved(v)' = IF v \in Lines(k.form) THEN Moved(v) \cup {d} ELSE Moved(v)
    BY <1>1, <1>4, <1>5
  <2> HIDE DEF Moved
  <2>4. Cardinality(Moved(v)) \in Nat /\ Cardinality(Moved(v) \cup {d}) = Cardinality(Moved(v)) + 1
    BY <2>2, FS_CardinalityType, FS_AddElement
  <2> QED
    BY <1>3, <2>1, <2>3, <2>4
<1>9. (\A v \in Variants : stock[v] >= 0)'
  BY <1>2, <1>3 DEF BooksInv
<1>10. CountsAreComplete'
  <2> SUFFICES ASSUME NEW s \in Sessions,
                      session[s].status \in {"PENDING_APPROVAL", "CLOSED"}
               PROVE  session[s].expected = Drawer(s)'
    BY <1>1 DEF CountsAreComplete
  <2>1. Kind(k) = "sale" => d.session # s
    BY <1>2, <1>4
  <2>2. ~(d.session = s /\ d.cash # 0)
    BY <1>4, <2>1
  <2>3. CashMovements(s)' = CashMovements(s)
    BY <1>1, <2>2 DEF CashMovements
  <2> QED
    BY <2>3, DrawerStays DEF BooksInv, CountsAreComplete
<1> QED
  BY <1>6, <1>8, <1>9, <1>10 DEF BooksInv

-----------------------------------------------------------------------------
(* The cash session.                                                       *)

\* A journal of the cash functions takes a number and no stock.
LEMMA JournalBooks ==
    ASSUME BooksInv, NEW kind, kind \notin Kinds \cup Series, NEW s, NEW cash,
           numbers \in [Series -> Nat],
           PostCashJournal(kind, s, cash), stock' = stock
    PROVE  /\ Numbered' /\ NumbersHaveNoGaps' /\ StockIsWhatWasMoved'
           /\ (\A v \in Variants : stock[v] >= 0)'
           /\ \A u \in Sessions : u # s \/ cash = 0 => CashMovements(u)' = CashMovements(u)
<1> DEFINE d == [kind |-> kind, form |-> None, request |-> None, session |-> s,
                 number |-> 0, journal |-> numbers["journal"] + 1, cash |-> cash]
<1>1. documents' = documents \cup {d} /\ numbers' = [numbers EXCEPT !["journal"] = @ + 1]
  BY DEF PostCashJournal
<1>2. /\ d.kind = kind /\ d.form = None /\ d.session = s /\ d.cash = cash
      /\ d.journal = numbers["journal"] + 1
  OBVIOUS
<1> HIDE DEF d
<1>3. Numbered' /\ NumbersHaveNoGaps'
  <2>1. \A t \in Series :
          numbers'[t] = IF t \in {d.kind, "journal"} THEN numbers[t] + 1 ELSE numbers[t]
    BY <1>1, <1>2
  <2> QED
    BY <1>1, <1>2, <2>1, DocumentIsNumbered
<1>4. StockIsWhatWasMoved'
  <2>1. \A v \in Variants : {e \in documents' : e.form # None /\ v \in Lines(e.form)}
                            = {e \in documents : e.form # None /\ v \in Lines(e.form)}
    BY <1>1, <1>2
  <2> QED
    BY <2>1 DEF BooksInv, StockIsWhatWasMoved
<1>5. ASSUME NEW u \in Sessions, u # s \/ cash = 0
      PROVE  CashMovements(u)' = CashMovements(u)
  BY <1>1, <1>2, <1>5 DEF CashMovements
<1>6. (\A v \in Variants : stock[v] >= 0)'
  BY DEF BooksInv
<1> QED
  BY <1>3, <1>4, <1>5, <1>6

\* No step of a cash session breaks BooksInv.
LEMMA SessionBooks ==
    ASSUME BooksInv, WorkInv, RequestInv, NEW s \in Sessions,
           \/ \E t \in Tills : OpenSession(t, s)
           \/ BeginClose(s) \/ CancelClose(s) \/ ApproveVariance(s)
           \/ \E difference \in {"none", "small", "material"} : SubmitCount(s, difference)
           \/ \E amount \in {-1, 1} : MoveCash(s, amount)
    PROVE  BooksInv'
<1>1. SessionMoves(s) /\ stock' = stock /\ SessionsTyped /\ numbers \in [Series -> Nat]
  BY SessionStepMoves DEF SessionMoves, WorkInv, RequestInv, Typed
<1>2. \A u \in Sessions : u # s => session'[u] = session[u]
  BY <1>1 DEF SessionMoves
<1>3. UNCHANGED <<documents, numbers>> =>
        Numbered' /\ NumbersHaveNoGaps' /\ StockIsWhatWasMoved'
        /\ \A u \in Sessions : CashMovements(u)' = CashMovements(u)
  BY <1>1 DEF BooksInv, Numbered, NumbersHaveNoGaps, StockIsWhatWasMoved, OfKind, CashMovements
<1>4. ASSUME NEW kind \in {"variance", "movement"}, NEW cash, PostCashJournal(kind, s, cash)
      PROVE  /\ Numbered' /\ NumbersHaveNoGaps' /\ StockIsWhatWasMoved'
             /\ \A u \in Sessions : u # s \/ cash = 0 => CashMovements(u)' = CashMovements(u)
  <2>1. kind \notin Kinds \cup Series
    BY DEF Kinds, Series
  <2> QED
    BY <1>1, <1>4, <2>1, JournalBooks
<1>5. ASSUME Numbered', NumbersHaveNoGaps', StockIsWhatWasMoved',
             \A u \in Sessions : u # s => CashMovements(u)' = CashMovements(u),
             session'[s].status \in {"PENDING_APPROVAL", "CLOSED"} =>
               session'[s].expected = Drawer(s)'
      PROVE  BooksInv'
  <2>1. ASSUME NEW u \in Sessions, session'[u].status \in {"PENDING_APPROVAL", "CLOSED"}
        PROVE  session'[u].expected = Drawer(u)'
    <3>1. CASE u = s
      BY <1>5, <2>1, <3>1
    <3>2. CASE u # s
      <4>1. Drawer(u)' = Drawer(u)
        BY <1>5, <3>2, DrawerStays
      <4> QED
        BY <1>2, <2>1, <3>2, <4>1 DEF BooksInv, CountsAreComplete
    <3> QED
      BY <3>1, <3>2
  <2>2. CountsAreComplete'
    BY <2>1 DEF CountsAreComplete
  <2> QED
    BY <1>1, <1>5, <2>2 DEF BooksInv
<1>6. ASSUME NEW t \in Tills, OpenSession(t, s)
      PROVE  BooksInv'
  <2>1. UNCHANGED <<documents, numbers>>
        /\ session' = [session EXCEPT ![s].status = "OPEN", ![s].till = t]
    BY <1>6 DEF OpenSession
  <2>2. session'[s].status = "OPEN"
    BY <1>1, <2>1 DEF SessionsTyped
  <2> QED
    BY <1>3, <1>5, <2>1, <2>2
<1>7. ASSUME NEW st \in Statuses, SetSession(s, st)
      PROVE  session'[s].status = st /\ session'[s].expected = session[s].expected
  BY <1>1, <1>7, SessionChanges DEF SetSession
<1>8. CASE BeginClose(s) \/ CancelClose(s)
  <2>1. UNCHANGED <<documents, numbers>> /\ \E st \in {"CLOSING", "OPEN"} : SetSession(s, st)
    BY <1>8 DEF BeginClose, CancelClose
  <2>2. session'[s].status \in {"CLOSING", "OPEN"}
    BY <1>7, <2>1 DEF Statuses
  <2> QED
    BY <1>3, <1>5, <2>1, <2>2
<1>9. CASE ApproveVariance(s)
  <2>1. SetSession(s, "CLOSED") /\ "CLOSED" \in Statuses
        /\ PostCashJournal("variance", s, 0) /\ session[s].status = "PENDING_APPROVAL"
    BY <1>9 DEF ApproveVariance, Statuses
  <2>2. \A u \in Sessions : CashMovements(u)' = CashMovements(u)
    BY <1>4, <2>1
  <2>3. session'[s].expected = Drawer(s)'
    BY <1>7, <2>1, <2>2, DrawerStays DEF BooksInv, CountsAreComplete
  <2> QED
    BY <1>4, <1>5, <2>1, <2>2, <2>3
<1>10. ASSUME NEW amount \in {-1, 1}, MoveCash(s, amount)
       PROVE  BooksInv'
  <2>1. SetSession(s, "OPEN") /\ "OPEN" \in Statuses /\ PostCashJournal("movement", s, amount)
    BY <1>10 DEF MoveCash, Statuses
  <2>2. session'[s].status = "OPEN"
    BY <1>7, <2>1
  <2> QED
    BY <1>4, <1>5, <2>1, <2>2
<1>11. ASSUME NEW difference \in {"none", "small", "material"}, SubmitCount(s, difference)
       PROVE  BooksInv'
  <2> DEFINE st == IF difference = "material" THEN "PENDING_APPROVAL" ELSE "CLOSED"
             e == Drawer(s)
  <2>1. /\ session' = [session EXCEPT ![s].status = st, ![s].expected = e]
        /\ UNCHANGED <<documents, numbers>> \/ PostCashJournal("variance", s, 0)
    BY <1>11 DEF SubmitCount
  <2>2. st \in Statuses
    BY DEF Statuses
  <2> HIDE DEF st
  <2>3. session'[s].expected = e
    <3> HIDE DEF e
    <3>1. session' = [session EXCEPT ![s].status = st, ![s].expected = e]
      BY <2>1
    <3> QED
      BY <1>1, <3>1 DEF SessionsTyped
  <2>4. /\ Numbered' /\ NumbersHaveNoGaps' /\ StockIsWhatWasMoved'
        /\ \A u \in Sessions : CashMovements(u)' = CashMovements(u)
    BY <1>3, <1>4, <2>1
  <2>5. Drawer(s)' = Drawer(s)
    BY <2>4, DrawerStays
  <2> QED
    BY <1>5, <2>3, <2>4, <2>5
<1> QED
  BY <1>6, <1>8, <1>9, <1>10, <1>11

-----------------------------------------------------------------------------
\* Every step keeps BooksInv.
LEMMA NextBooksInv == BooksInv /\ WorkInv /\ RequestInv /\ [Next]_vars => BooksInv'
<1> SUFFICES ASSUME BooksInv, WorkInv, RequestInv, [Next]_vars PROVE BooksInv'
  OBVIOUS
<1>1. CASE UNCHANGED <<session, documents, stock, numbers>>
  BY <1>1, BooksUntouched
<1>2. ASSUME NEW b \in Backends, Advance(b) \/ Abort(b) \/ AbortDeadlock(b)
      PROVE  BooksInv'
  <2>1. CASE Commit(b)
    BY <2>1, CommitBooks
  <2>2. CASE ~Commit(b)
    <3>1. UNCHANGED <<session, documents, stock, numbers>>
      BY <1>2, <2>2 DEF Advance, Abort, AbortDeadlock, Reserve, LockSession, LockReceipt,
                        LockPosition, CheckLines, ClaimNumber, End, Proceed
    <3> QED
      BY <3>1, BooksUntouched
  <2> QED
    BY <2>1, <2>2
<1>3. ASSUME NEW t \in Tills,
             Submit(t) \/ Deliver(t) \/ LoseAnswer(t) \/ \E f \in Forms : Edit(t, f)
      PROVE  BooksInv'
  <2>1. UNCHANGED <<session, documents, stock, numbers>>
    BY <1>3 DEF Submit, Deliver, LoseAnswer, Edit
  <2> QED
    BY <2>1, BooksUntouched
<1>4. ASSUME NEW s \in Sessions,
             \/ \E t \in Tills : OpenSession(t, s)
             \/ BeginClose(s) \/ CancelClose(s) \/ ApproveVariance(s)
             \/ \E difference \in {"none", "small", "material"} : SubmitCount(s, difference)
             \/ \E amount \in {-1, 1} : MoveCash(s, amount)
      PROVE  BooksInv'
  BY <1>4, SessionBooks
<1>5. CASE UNCHANGED vars
  BY <1>1, <1>5 DEF vars
<1>6. CASE Next
  BY <1>2, <1>3, <1>4, <1>6 DEF Next
<1> QED
  BY <1>5, <1>6

\* WorkInv holds of every reachable state.
THEOREM WorkInvariant == Spec => []WorkInv
BY InitWorkInv, NextWorkInv, RequestInvariant, PTL DEF Spec

\* BooksInv holds of every reachable state.
THEOREM BooksInvariant == Spec => []BooksInv
BY InitBooksInv, NextBooksInv, RequestInvariant, WorkInvariant, PTL DEF Spec

-----------------------------------------------------------------------------
(* Sums over a finite set, by induction on its subsets.                    *)

\* The element a fold takes out of a set.
Some(s) == CHOOSE x \in s : TRUE

\* The equation of the recursion a sum over the finite set S unfolds to.
IsSum(g, f, S) ==
    g = [s \in SUBSET S |->
            IF s = {} THEN 0 ELSE f[Some(s)] + g[s \ {Some(s)}]]

\* A non-empty collection of finite sets has a member none of whose
\* strict subsets belongs to it: induction over finite sets.
LEMMA SmallestSet ==
  ASSUME NEW S, IsFiniteSet(S), NEW X, X \subseteq SUBSET S, X # {}
  PROVE  \E T \in X : \A U \in X : U \subseteq T => U = T
<1>1. IsWellFoundedOn(StrictSubsetOrdering(S), SUBSET S)
  BY FS_StrictSubsetOrderingWellFounded, FS_FiniteSubsetsOfFinite
<1>2. PICK T \in X : \A U \in X : ~ (<<U, T>> \in StrictSubsetOrdering(S))
  BY <1>1, WFMin
<1>3. \A U \in X : U \subseteq T => U = T
  BY <1>2 DEF StrictSubsetOrdering
<1> QED
  BY <1>3

\* A non-empty set holds the element a fold takes out of it.
LEMMA SomeIsIn ==
  ASSUME NEW s, s # {}
  PROVE  Some(s) \in s
BY DEF Some

\* Two solutions of the equation agree on the sets they share.
LEMMA SumsAgree ==
  ASSUME NEW f, NEW S, NEW T, NEW g, NEW h, IsSum(g, f, S), IsSum(h, f, T),
         NEW V, V \subseteq S, V \subseteq T, IsFiniteSet(V)
  PROVE  g[V] = h[V]
<1> DEFINE Bad == {U \in SUBSET V : g[U] # h[U]}
<1>1. SUFFICES ASSUME Bad # {} PROVE FALSE
  OBVIOUS
<1>2. PICK U \in Bad : \A W \in Bad : W \subseteq U => W = U
  <2>1. Bad \subseteq SUBSET V
    OBVIOUS
  <2> HIDE DEF Bad
  <2> QED
    BY <1>1, <2>1, SmallestSet
<1>3. U # {}
  BY U \in SUBSET S, U \in SUBSET T DEF IsSum
<1>4. g[U] = f[Some(U)] + g[U \ {Some(U)}]
  BY <1>3, U \in SUBSET S DEF IsSum
<1>5. h[U] = f[Some(U)] + h[U \ {Some(U)}]
  BY <1>3, U \in SUBSET T DEF IsSum
<1>6. U \ {Some(U)} \notin Bad
  BY <1>2, <1>3, SomeIsIn
<1> QED
  BY <1>4, <1>5, <1>6

\* The equation has a solution over every finite set.
LEMMA SumExists ==
  ASSUME NEW f, NEW S, IsFiniteSet(S)
  PROVE  \E g : IsSum(g, f, S)
<1> DEFINE Bad == {T \in SUBSET S : ~ \E g : IsSum(g, f, T)}
<1>1. SUFFICES ASSUME Bad # {} PROVE FALSE
  OBVIOUS
<1>2. PICK T \in Bad : \A U \in Bad : U \subseteq T => U = T
  <2>1. Bad \subseteq SUBSET S
    OBVIOUS
  <2> HIDE DEF Bad
  <2> QED
    BY <1>1, <2>1, SmallestSet
<1> DEFINE G(U) == CHOOSE g : IsSum(g, f, U)
           Left(s) == s \ {Some(s)}
           h == [s \in SUBSET T |->
                    IF s = {} THEN 0 ELSE f[Some(s)] + G(Left(s))[Left(s)]]
<1>3. \A U \in SUBSET T : U # T => IsSum(G(U), f, U)
  BY <1>2
<1>4. ASSUME NEW s \in SUBSET T, s # {}
      PROVE  h[Left(s)] = G(Left(s))[Left(s)]
  <2>1. IsSum(G(Left(s)), f, Left(s))
    BY <1>3, <1>4, SomeIsIn
  <2>2. CASE Left(s) = {}
    BY <2>1, <2>2 DEF IsSum
  <2>3. CASE Left(s) # {}
    <3>1. /\ Left(Left(s)) \subseteq Left(s)
          /\ Left(Left(s)) # T
      BY <1>4, SomeIsIn
    <3>2. IsSum(G(Left(Left(s))), f, Left(Left(s)))
      BY <1>3, <3>1
    <3>3. IsFiniteSet(Left(Left(s)))
      BY <3>1, FS_Subset
    <3>4. G(Left(s))[Left(Left(s))] = G(Left(Left(s)))[Left(Left(s))]
      BY <2>1, <3>1, <3>2, <3>3, SumsAgree
    <3>5. G(Left(s))[Left(s)] = f[Some(Left(s))] + G(Left(s))[Left(Left(s))]
      BY <2>1, <2>3 DEF IsSum
    <3>6. h[Left(s)] = f[Some(Left(s))] + G(Left(Left(s)))[Left(Left(s))]
      BY <2>3, Left(s) \in SUBSET T
    <3> QED
      BY <3>4, <3>5, <3>6
  <2> HIDE DEF h, G, Left
  <2> QED
    BY <2>2, <2>3
<1>5. IsSum(h, f, T)
  <2>1. \A s \in SUBSET T :
            h[s] = IF s = {} THEN 0 ELSE f[Some(s)] + G(Left(s))[Left(s)]
    OBVIOUS
  <2>2. \A s \in SUBSET T :
            h[s] = IF s = {} THEN 0 ELSE f[Some(s)] + h[s \ {Some(s)}]
    <3> HIDE DEF h, G
    <3> QED
      BY <1>4, <2>1
  <2>3. h = [s \in SUBSET T |-> h[s]]
    OBVIOUS
  <2> HIDE DEF h, G, Left
  <2> QED
    BY <2>2, <2>3 DEF IsSum
<1> QED
  BY <1>2, <1>5

\* A sum is the value of a solution at the whole set.
LEMMA SumIsASolution ==
  ASSUME NEW f, NEW S, IsFiniteSet(S)
  PROVE  \E g : IsSum(g, f, S) /\ SumFunctionOnSet(f, S) = g[S]
<1> DEFINE g == CHOOSE iter : IsSum(iter, f, S)
<1>1. IsSum(g, f, S)
  BY SumExists
<1>2. SumFunctionOnSet(f, S) = g[S]
  BY DEF SumFunctionOnSet, FoldFunctionOnSet, MapThenFoldSet, IsSum, Some
<1> HIDE DEF g
<1> QED
  BY <1>1, <1>2

\* The sum over no index is 0.
LEMMA SumOfNone ==
  ASSUME NEW f
  PROVE  SumFunctionOnSet(f, {}) = 0
<1>1. PICK g : IsSum(g, f, {}) /\ SumFunctionOnSet(f, {}) = g[{}]
  BY SumIsASolution, FS_EmptySet
<1> QED
  BY <1>1 DEF IsSum

\* A sum over some indices is one value and the sum over the others.
LEMMA SumUnfolds ==
  ASSUME NEW f, NEW S, IsFiniteSet(S), S # {}
  PROVE  SumFunctionOnSet(f, S) =
            f[Some(S)] + SumFunctionOnSet(f, S \ {Some(S)})
<1> DEFINE R == S \ {Some(S)}
<1>1. IsFiniteSet(R)
  BY FS_RemoveElement
<1>2. PICK g : IsSum(g, f, S) /\ SumFunctionOnSet(f, S) = g[S]
  BY SumIsASolution
<1>3. PICK h : IsSum(h, f, R) /\ SumFunctionOnSet(f, R) = h[R]
  BY <1>1, SumIsASolution
<1>4. g[R] = h[R]
  BY <1>1, <1>2, <1>3, SumsAgree
<1>5. g[S] = f[Some(S)] + g[R]
  BY <1>2, S \in SUBSET S DEF IsSum
<1> QED
  BY <1>2, <1>3, <1>4, <1>5

\* A sum of integers is an integer.
LEMMA SumType ==
  ASSUME NEW f, NEW S, IsFiniteSet(S), \A x \in S : f[x] \in Int
  PROVE  SumFunctionOnSet(f, S) \in Int
<1> DEFINE Bad == {T \in SUBSET S : SumFunctionOnSet(f, T) \notin Int}
<1>1. SUFFICES ASSUME Bad # {} PROVE FALSE
  OBVIOUS
<1>2. PICK T \in Bad : \A U \in Bad : U \subseteq T => U = T
  <2>1. Bad \subseteq SUBSET S
    OBVIOUS
  <2> HIDE DEF Bad
  <2> QED
    BY <1>1, <2>1, SmallestSet
<1>3. T # {}
  BY SumOfNone
<1>4. SumFunctionOnSet(f, T) = f[Some(T)] + SumFunctionOnSet(f, T \ {Some(T)})
  BY <1>3, SumUnfolds, FS_Subset
<1>5. Some(T) \in T
  BY <1>3, SomeIsIn
<1>6. SumFunctionOnSet(f, T \ {Some(T)}) \in Int
  BY <1>2, <1>5
<1> QED
  BY <1>4, <1>5, <1>6

\* Every index may be taken out first: the order of a sum does not matter.
LEMMA SumTakesOut ==
  ASSUME NEW f, NEW S, IsFiniteSet(S), \A x \in S : f[x] \in Int, NEW z \in S
  PROVE  SumFunctionOnSet(f, S) = f[z] + SumFunctionOnSet(f, S \ {z})
<1> DEFINE Sum(T) == SumFunctionOnSet(f, T)
           Bad == {T \in SUBSET S : \E x \in T : Sum(T) # f[x] + Sum(T \ {x})}
<1>1. SUFFICES ASSUME Bad # {} PROVE FALSE
  OBVIOUS
<1>2. PICK T \in Bad : \A U \in Bad : U \subseteq T => U = T
  <2>1. Bad \subseteq SUBSET S
    OBVIOUS
  <2> HIDE DEF Bad
  <2> QED
    BY <1>1, <2>1, SmallestSet
<1>3. PICK x \in T : Sum(T) # f[x] + Sum(T \ {x})
  OBVIOUS
<1> DEFINE c == Some(T)
           R == T \ {x, c}
<1>4. Sum(T) = f[c] + Sum(T \ {c})
  BY SumUnfolds, FS_Subset
<1>5. c \in T /\ c # x
  BY <1>3, <1>4, SomeIsIn
<1>6. /\ T \ {c} \notin Bad
      /\ T \ {x} \notin Bad
  BY <1>2, <1>5
<1>7. Sum(T \ {c}) = f[x] + Sum(R)
  BY <1>5, <1>6, (T \ {c}) \ {x} = R
<1>8. Sum(T \ {x}) = f[c] + Sum(R)
  BY <1>5, <1>6, (T \ {x}) \ {c} = R
<1>9. /\ Sum(R) \in Int
      /\ f[x] \in Int
      /\ f[c] \in Int
  BY <1>5, SumType, FS_Subset
<1> HIDE DEF Sum, R, c
<1> QED
  BY <1>3, <1>4, <1>7, <1>8, <1>9

\* Functions that agree on the indices have the same sum.
LEMMA SumsOfEquals ==
  ASSUME NEW f, NEW g, NEW S, IsFiniteSet(S), \A x \in S : f[x] = g[x]
  PROVE  SumFunctionOnSet(f, S) = SumFunctionOnSet(g, S)
<1> DEFINE Bad == {T \in SUBSET S :
                      SumFunctionOnSet(f, T) # SumFunctionOnSet(g, T)}
<1>1. SUFFICES ASSUME Bad # {} PROVE FALSE
  OBVIOUS
<1>2. PICK T \in Bad : \A U \in Bad : U \subseteq T => U = T
  <2>1. Bad \subseteq SUBSET S
    OBVIOUS
  <2> HIDE DEF Bad
  <2> QED
    BY <1>1, <2>1, SmallestSet
<1>3. T # {}
  BY SumOfNone
<1>4. /\ SumFunctionOnSet(f, T) = f[Some(T)] + SumFunctionOnSet(f, T \ {Some(T)})
      /\ SumFunctionOnSet(g, T) = g[Some(T)] + SumFunctionOnSet(g, T \ {Some(T)})
  BY <1>3, SumUnfolds, FS_Subset
<1>5. Some(T) \in T
  BY <1>3, SomeIsIn
<1>6. SumFunctionOnSet(f, T \ {Some(T)}) = SumFunctionOnSet(g, T \ {Some(T)})
  BY <1>2, <1>5
<1> QED
  BY <1>4, <1>5, <1>6

-----------------------------------------------------------------------------
(* Types.                                                                  *)

SessionRows == [status: Statuses, till: OrNone(Tills), expected: Int]

\* What the posting functions write is of its type.
PapersInv ==
    /\ documents \subseteq Documents
    /\ session \in [Sessions -> SessionRows]

\* What a drawer holds is a number.
LEMMA DrawerType ==
    ASSUME PapersInv, IsFiniteSet(documents), NEW s
    PROVE  Drawer(s) \in Int
<1> DEFINE S == CashMovements(s)
           f == [d \in S |-> d.cash]
<1>1. IsFiniteSet(S)
  BY FS_Subset DEF CashMovements
<1>2. \A d \in S : f[d] \in Int
  BY DEF PapersInv, Documents, CashMovements
<1>3. DOMAIN f = S
  OBVIOUS
<1>4. SumFunctionOnSet(f, S) \in Int
  <2> HIDE DEF f, S
  <2> QED
    BY <1>1, <1>2, SumType
<1> QED
  BY <1>3, <1>4 DEF Drawer, CashOf, SumFunction

\* The document of a finished call.
LEMMA CommitPapers ==
    ASSUME PapersInv, WorkInv, RequestInv, NEW b \in Backends, Commit(b)
    PROVE  PapersInv'
<1> DEFINE k == backend[b]
           lines == Content[k.form].lines
<1>1. documents' = documents \cup {Document(k)} /\ session' = session
  BY DEF Commit
<1>2. k \in Calls /\ k.form \in Forms /\ Kind(k) \in Kinds
  BY CommitKnows DEF RequestInv, Typed
<1>3. Len(lines) \in Int
  <2>1. lines \in Seq(Variants)
    BY <1>2, ContentAssumption
  <2> QED
    BY <2>1, LenProperties
<1>4. k.claimed[Kind(k)] \in Nat /\ k.claimed["journal"] \in Nat
  BY <1>2 DEF Calls, Claims, Kinds, Series
<1>5. /\ k.request \in OrNone(Requests) /\ k.session \in OrNone(Sessions)
      /\ k.form \in OrNone(Forms)
  BY <1>2 DEF Calls
<1>6. Document(k) =
        [kind |-> Kind(k), form |-> k.form, request |-> k.request, session |-> k.session,
         number |-> k.claimed[Kind(k)], journal |-> k.claimed["journal"],
         cash |-> IF Kind(k) = "sale" THEN Len(lines) ELSE 0]
  BY DEF Document, Kind
<1> HIDE DEF k, lines
<1>7. (IF Kind(k) = "sale" THEN Len(lines) ELSE 0) \in Int
  BY <1>3
<1>8. Document(k) \in Documents
  BY <1>2, <1>4, <1>5, <1>6, <1>7 DEF Documents
<1> QED
  BY <1>1, <1>8 DEF PapersInv

\* The journal of a cash function.
LEMMA JournalPapers ==
    ASSUME documents \subseteq Documents, numbers \in [Series -> Nat],
           NEW kind \in {"variance", "movement"}, NEW s \in Sessions, NEW cash \in Int,
           PostCashJournal(kind, s, cash)
    PROVE  documents' \subseteq Documents
<1>1. numbers["journal"] + 1 \in Nat
  BY DEF Series
<1>2. [kind |-> kind, form |-> None, request |-> None, session |-> s,
       number |-> 0, journal |-> numbers["journal"] + 1, cash |-> cash] \in Documents
  BY <1>1 DEF Documents, OrNone
<1> QED
  BY <1>2 DEF PostCashJournal

\* A session changes its status, and what it expects.
LEMMA SessionRow ==
    ASSUME session \in [Sessions -> SessionRows], NEW s \in Sessions,
           NEW st \in Statuses, NEW e \in Int, NEW t,
           \/ session' = [session EXCEPT ![s].status = st]
           \/ session' = [session EXCEPT ![s].status = st, ![s].expected = e]
           \/ t \in Tills /\ session' = [session EXCEPT ![s].status = st, ![s].till = t]
    PROVE  session' \in [Sessions -> SessionRows]
BY DEF SessionRows, OrNone

\* What a step of a cash session writes.
LEMMA SessionPapers ==
    ASSUME PapersInv, BooksInv, RequestInv, NEW s \in Sessions,
           \/ \E t \in Tills : OpenSession(t, s)
           \/ BeginClose(s) \/ CancelClose(s) \/ ApproveVariance(s)
           \/ \E difference \in {"none", "small", "material"} : SubmitCount(s, difference)
           \/ \E amount \in {-1, 1} : MoveCash(s, amount)
    PROVE  PapersInv'
<1>1. /\ documents \subseteq Documents /\ session \in [Sessions -> SessionRows]
      /\ numbers \in [Series -> Nat] /\ IsFiniteSet(documents)
  BY DEF PapersInv, RequestInv, Typed, BooksInv, Numbered
<1>2. ASSUME NEW st \in Statuses, SetSession(s, st)
      PROVE  session' \in [Sessions -> SessionRows]
  <2>1. session' = [session EXCEPT ![s].status = st]
    BY <1>2 DEF SetSession
  <2>2. 0 \in Int
    OBVIOUS
  <2> QED
    BY <1>1, <2>1, <2>2, SessionRow
<1>3. CASE \E t \in Tills : OpenSession(t, s)
  <2>1. PICK t \in Tills : OpenSession(t, s)
    BY <1>3
  <2>2. /\ session' = [session EXCEPT ![s].status = "OPEN", ![s].till = t]
        /\ UNCHANGED documents
    BY <2>1 DEF OpenSession
  <2>3. "OPEN" \in Statuses /\ 0 \in Int
    BY DEF Statuses
  <2>4. session' \in [Sessions -> SessionRows]
    BY <1>1, <2>2, <2>3, SessionRow
  <2> QED
    BY <1>1, <2>2, <2>4 DEF PapersInv
<1>4. CASE BeginClose(s) \/ CancelClose(s)
  <2>1. UNCHANGED documents /\ \E st \in Statuses : SetSession(s, st)
    BY <1>4 DEF BeginClose, CancelClose, Statuses
  <2> QED
    BY <1>1, <1>2, <2>1 DEF PapersInv
<1>5. CASE ApproveVariance(s)
  <2>1. SetSession(s, "CLOSED") /\ "CLOSED" \in Statuses /\ PostCashJournal("variance", s, 0)
    BY <1>5 DEF ApproveVariance, Statuses
  <2>2. documents' \subseteq Documents
    BY <1>1, <2>1, JournalPapers
  <2> QED
    BY <1>2, <2>1, <2>2 DEF PapersInv
<1>6. ASSUME NEW amount \in {-1, 1}, MoveCash(s, amount)
      PROVE  PapersInv'
  <2>1. SetSession(s, "OPEN") /\ "OPEN" \in Statuses /\ PostCashJournal("movement", s, amount)
        /\ amount \in Int
    BY <1>6 DEF MoveCash, Statuses
  <2>2. documents' \subseteq Documents
    BY <1>1, <2>1, JournalPapers
  <2> QED
    BY <1>2, <2>1, <2>2 DEF PapersInv
<1>7. ASSUME NEW difference \in {"none", "small", "material"}, SubmitCount(s, difference)
      PROVE  PapersInv'
  <2> DEFINE st == IF difference = "material" THEN "PENDING_APPROVAL" ELSE "CLOSED"
             e == Drawer(s)
  <2>1. /\ session' = [session EXCEPT ![s].status = st, ![s].expected = e]
        /\ UNCHANGED documents \/ PostCashJournal("variance", s, 0)
    BY <1>7 DEF SubmitCount
  <2>2. st \in Statuses /\ e \in Int
    BY <1>1, DrawerType DEF Statuses
  <2> HIDE DEF st, e
  <2>3. session' \in [Sessions -> SessionRows]
    BY <1>1, <2>1, <2>2, SessionRow
  <2>4. documents' \subseteq Documents
    BY <1>1, <2>1, JournalPapers
  <2> QED
    BY <2>3, <2>4 DEF PapersInv
<1> QED
  BY <1>3, <1>4, <1>5, <1>6, <1>7

\* Every step keeps PapersInv.
LEMMA NextPapersInv ==
    PapersInv /\ BooksInv /\ WorkInv /\ RequestInv /\ [Next]_vars => PapersInv'
<1> SUFFICES ASSUME PapersInv, BooksInv, WorkInv, RequestInv, [Next]_vars PROVE PapersInv'
  OBVIOUS
<1>1. CASE UNCHANGED <<session, documents>>
  BY <1>1 DEF PapersInv
<1>2. ASSUME NEW b \in Backends, Advance(b) \/ Abort(b) \/ AbortDeadlock(b)
      PROVE  PapersInv'
  <2>1. CASE Commit(b)
    BY <2>1, CommitPapers
  <2>2. CASE ~Commit(b)
    <3>1. UNCHANGED <<session, documents>>
      BY <1>2, <2>2 DEF Advance, Abort, AbortDeadlock, Reserve, LockSession, LockReceipt,
                        LockPosition, CheckLines, ClaimNumber, End, Proceed
    <3> QED
      BY <1>1, <3>1
  <2> QED
    BY <2>1, <2>2
<1>3. ASSUME NEW t \in Tills,
             Submit(t) \/ Deliver(t) \/ LoseAnswer(t) \/ \E f \in Forms : Edit(t, f)
      PROVE  PapersInv'
  <2>1. UNCHANGED <<session, documents>>
    BY <1>3 DEF Submit, Deliver, LoseAnswer, Edit
  <2> QED
    BY <1>1, <2>1
<1>4. CASE UNCHANGED vars
  BY <1>1, <1>4 DEF vars
<1>5. CASE Next
  BY <1>2, <1>3, <1>5, SessionPapers DEF Next
<1> QED
  BY <1>4, <1>5

\* Nothing is written at first.
LEMMA InitPapersInv == Init => PapersInv
  BY DEF Init, PapersInv, NoSession, SessionRows, Statuses, OrNone

\* PapersInv holds of every reachable state.
THEOREM PapersInvariant == Spec => []PapersInv
BY InitPapersInv, NextPapersInv, RequestInvariant, WorkInvariant, BooksInvariant, PTL DEF Spec

\* Every row the posting functions write is of its type, and no unit is on
\* hand below zero.
THEOREM TypeCorrect == Spec => []TypeOK
<1>1. RequestInv /\ BooksInv /\ PapersInv => TypeOK
  <2> SUFFICES ASSUME RequestInv, BooksInv, PapersInv PROVE TypeOK
    OBVIOUS
  <2>1. stock \in [Variants -> Nat]
    BY DEF RequestInv, Typed, BooksInv
  <2> QED
    BY <2>1 DEF TypeOK, RequestInv, Typed, PapersInv, Shown, Calls, Phases, Amounts, Claims,
                SessionRows
<1>2. QED
  BY <1>1, RequestInvariant, BooksInvariant, PapersInvariant, PTL

-----------------------------------------------------------------------------
(* The books, one posting at a time.                                       *)

\* A return names no cash session, and a line of it that was checked may still
\* be given back: who holds a position keeps others from returning it.
ReturnsAreDue ==
    \A b \in Backends : Active(backend[b]) /\ Kind(backend[b]) = "return" =>
        /\ backend[b].session = None
        /\ \A v \in Variants :
             Row("position", v) \in HeldRows(backend[b]) => Returned(v) < UnitsReceived

\* Nothing runs at first.
LEMMA InitReturnsAreDue == Init => ReturnsAreDue
BY IdleCall DEF Init, ReturnsAreDue, Active

\* A step after which every call is one that was there before, holding no
\* more, or does not run, and nothing more was returned of what is held.
LEMMA CallsStayDue ==
    ASSUME ReturnsAreDue,
           \A b \in Backends :
             \/ ~Active(backend'[b])
             \/ backend'[b] = backend[b],
           \A b \in Backends, v \in Variants :
             Holds(b, Row("position", v)) => Returned(v)' = Returned(v)
    PROVE  ReturnsAreDue'
<1> SUFFICES ASSUME NEW b \in Backends, Active(backend'[b]), Kind(backend'[b]) = "return"
             PROVE  /\ backend'[b].session = None
                    /\ \A v \in Variants :
                         Row("position", v) \in HeldRows(backend'[b]) => Returned(v)' < UnitsReceived
  BY DEF ReturnsAreDue, Active, Kind, HeldRows, Steps, PositionRows
<1>1. backend'[b] = backend[b]
  OBVIOUS
<1> QED
  BY <1>1, HoldsIsHeld DEF ReturnsAreDue

\* What is returned depends on the documents of returns.
LEMMA ReturnedStays ==
    ASSUME NEW v,
           \A d \in documents : d \in documents',
           \A d \in documents' \ documents : d.kind # "return" \/ v \notin Lines(d.form)
    PROVE  Returned(v)' = Returned(v)
<1>1. {d \in documents' : d.kind = "return" /\ v \in Lines(d.form)}
      = {d \in documents : d.kind = "return" /\ v \in Lines(d.form)}
  OBVIOUS
<1> QED
  BY <1>1 DEF Returned

\* A step of one call that posts nothing.
LEMMA OneCallDue ==
    ASSUME ReturnsAreDue, NEW b \in Backends, UNCHANGED documents,
           \A e \in Backends : e # b => backend'[e] = backend[e],
           Active(backend'[b]) /\ Kind(backend'[b]) = "return" =>
             /\ backend'[b].session = None
             /\ \A v \in Variants :
                  Row("position", v) \in HeldRows(backend'[b]) => Returned(v) < UnitsReceived
    PROVE  ReturnsAreDue'
<1>1. \A v : Returned(v)' = Returned(v)
  BY DEF Returned
<1>2. ASSUME NEW e \in Backends, Active(backend'[e]), Kind(backend'[e]) = "return"
      PROVE  /\ backend'[e].session = None
             /\ \A v \in Variants :
                  Row("position", v) \in HeldRows(backend'[e]) => Returned(v) < UnitsReceived
  <2>1. CASE e = b
    BY <1>2, <2>1
  <2>2. CASE e # b
    BY <1>2, <2>2 DEF ReturnsAreDue
  <2> QED
    BY <2>1, <2>2
<1> QED
  BY <1>1, <1>2 DEF ReturnsAreDue, Active, Kind, HeldRows, Steps, PositionRows

\* A call that ends.
LEMMA EndDue ==
    ASSUME ReturnsAreDue, RequestInv, NEW b \in Backends,
           NEW answer \in {"posted", "refused"}, End(b, answer)
    PROVE  ReturnsAreDue'
<1>1. ~Active(backend'[b]) /\ \A e \in Backends : e # b => backend'[e] = backend[e]
  BY IdleCall DEF End, Answered, Active, RequestInv, Typed, Calls
<1> QED
  BY <1>1, OneCallDue DEF End

\* A call that locks another row: of a position, a return has checked it.
LEMMA AnotherRowDue ==
    ASSUME ReturnsAreDue, WorkInv, NEW b \in Backends, Unfinished(b), UNCHANGED documents,
           \A e \in Backends : e # b => backend'[e] = backend[e],
           backend'[b].phase = "running", backend'[b].at = backend[b].at + 1,
           backend'[b].form = backend[b].form, backend'[b].session = backend[b].session,
           Kind(backend[b]) = "return" => \A v \in Variants :
             NextRow(b) = Row("position", v) => Returned(v) < UnitsReceived
    PROVE  ReturnsAreDue'
<1> DEFINE k == backend[b]
           c == backend'[b]
<1>1. k.phase = "running" /\ Active(k) /\ k.at \in Nat
  BY DEF WorkInv, CallsAreSound, Sound, Active, Unfinished, Running, WellMade
<1>2. Kind(c) = Kind(k)
  BY DEF Kind
<1>3. HeldRows(c) = HeldRows(k) \cup {NextRow(b)}
  BY <1>1, Grown DEF NextRow
<1>4. ASSUME Kind(c) = "return"
      PROVE  /\ c.session = None
             /\ \A v \in Variants :
                  Row("position", v) \in HeldRows(c) => Returned(v) < UnitsReceived
  BY <1>1, <1>2, <1>3, <1>4 DEF ReturnsAreDue
<1> QED
  BY <1>4, OneCallDue

\* A row that is not a position.
LEMMA ProceedDue ==
    ASSUME ReturnsAreDue, WorkInv, RequestInv, NEW b \in Backends, Proceed(b), Unfinished(b),
           NextRow(b)[1] # "position"
    PROVE  ReturnsAreDue'
<1>1. backend[b] \in Calls /\ backend[b].phase = "running"
  BY DEF RequestInv, Typed, Unfinished, Running
<1>2. /\ backend'[b] = [backend[b] EXCEPT !.at = @ + 1]
      /\ \A e \in Backends : e # b => backend'[e] = backend[e]
      /\ UNCHANGED documents
  BY DEF Proceed, RequestInv, Typed
<1>3. /\ backend'[b].phase = "running" /\ backend'[b].at = backend[b].at + 1
      /\ backend'[b].form = backend[b].form /\ backend'[b].session = backend[b].session
  BY <1>1, <1>2 DEF Calls
<1>4. \A v : NextRow(b) # Row("position", v)
  BY DEF Row
<1> QED
  BY <1>2, <1>3, <1>4, AnotherRowDue

\* The steps of a transaction that commit nothing.
LEMMA StepDue ==
    ASSUME ReturnsAreDue, BooksInv, WorkInv, RequestInv, NEW b \in Backends,
           \/ Reserve(b) \/ LockSession(b) \/ LockReceipt(b) \/ LockPosition(b)
           \/ CheckLines(b) \/ ClaimNumber(b) \/ Abort(b) \/ AbortDeadlock(b)
    PROVE  ReturnsAreDue'
<1> DEFINE k == backend[b]
<1>0. k \in Calls
  BY DEF RequestInv, Typed
<1>1. CASE \E answer \in {"posted", "refused"} : End(b, answer)
  BY <1>1, EndDue
<1>2. CASE Proceed(b) /\ \E table \in {"session", "receipt", "lines"} : Reaches(b, table)
  <2>1. Unfinished(b) /\ NextRow(b)[1] # "position"
    BY <1>2 DEF Reaches
  <2> QED
    BY <1>2, <2>1, ProceedDue
<1>3. CASE /\ k.phase = "reserving" /\ backend' = [backend EXCEPT ![b].phase = "running"]
           /\ UNCHANGED documents
  <2>1. /\ backend'[b] = [k EXCEPT !.phase = "running"]
        /\ \A e \in Backends : e # b => backend'[e] = backend[e]
    BY <1>3 DEF RequestInv, Typed
  <2>2. /\ backend'[b].phase = "running" /\ backend'[b].at = k.at
        /\ backend'[b].form = k.form /\ backend'[b].session = k.session
    BY <1>0, <2>1 DEF Calls
  <2>3. k.at = 0 /\ Active(k)
    BY <1>3 DEF WorkInv, CallsAreSound, Sound, Active, WellMade
  <2>4. HeldRows(backend'[b]) = {}
    BY <2>2, <2>3, NothingHeld
  <2>5. Kind(backend'[b]) = Kind(k)
    BY <2>2 DEF Kind
  <2>6. Kind(k) = "return" => k.session = None
    BY <2>3 DEF ReturnsAreDue
  <2> QED
    BY <1>3, <2>1, <2>2, <2>4, <2>5, <2>6, OneCallDue
<1>4. CASE ClaimNumber(b)
  <2>1. /\ Unfinished(b) /\ NextRow(b)[1] = "number" /\ UNCHANGED documents
        /\ backend' = [backend EXCEPT ![b].at = @ + 1,
                                      ![b].claimed[NextRow(b)[2]] = numbers[NextRow(b)[2]] + 1]
    BY <1>4 DEF ClaimNumber, Reaches
  <2>2. k.phase = "running"
    BY <2>1 DEF Unfinished, Running
  <2> HIDE DEF k
  <2>3. /\ backend'[b].phase = k.phase /\ backend'[b].at = k.at + 1
        /\ backend'[b].form = k.form /\ backend'[b].session = k.session
        /\ \A e \in Backends : e # b => backend'[e] = backend[e]
    BY <1>0, <2>1 DEF k, RequestInv, Typed, Calls
  <2>4. \A v : NextRow(b) # Row("position", v)
    BY <2>1 DEF Row
  <2> QED
    BY <2>1, <2>2, <2>3, <2>4, AnotherRowDue DEF k
<1>5. CASE LockPosition(b) /\ ~End(b, "refused")
  <2> DEFINE u == NextRow(b)[2]
  <2>1. /\ Unfinished(b) /\ NextRow(b)[1] = "position" /\ UNCHANGED documents
        /\ ~LineRefused(b, u)
        /\ backend' = [backend EXCEPT ![b].at = @ + 1, ![b].left[u] = stock[u] - 1]
    BY <1>5 DEF LockPosition, Reaches
  <2>2. k.phase = "running"
    BY <2>1 DEF Unfinished, Running
  <2> HIDE DEF k, u
  <2>3. /\ backend'[b].phase = k.phase /\ backend'[b].at = k.at + 1
        /\ backend'[b].form = k.form /\ backend'[b].session = k.session
        /\ \A e \in Backends : e # b => backend'[e] = backend[e]
    BY <1>0, <2>1 DEF k, RequestInv, Typed, Calls
  <2>4. ASSUME Kind(k) = "return", NEW v \in Variants, NextRow(b) = Row("position", v)
        PROVE  Returned(v) < UnitsReceived
    <3>1. v = u
      BY <2>4 DEF Row, u
    <3>2. ~(Returned(v) >= UnitsReceived)
      BY <2>1, <2>4, <3>1 DEF LineRefused, Kind, k
    <3>3. Returned(v) \in Nat
      <4>1. IsFiniteSet({d \in documents : d.kind = "return" /\ v \in Lines(d.form)})
        BY FS_Subset DEF BooksInv, Numbered
      <4> QED
        BY <4>1, FS_CardinalityType DEF Returned
    <3> QED
      BY <3>2, <3>3, StockAssumption
  <2> QED
    BY <2>1, <2>2, <2>3, <2>4, AnotherRowDue DEF k
<1>6. CASE Reserve(b)
  BY <1>1, <1>3, <1>6 DEF Reserve
<1>7. CASE LockSession(b) \/ LockReceipt(b) \/ CheckLines(b)
  BY <1>1, <1>2, <1>7 DEF LockSession, LockReceipt, CheckLines
<1>8. CASE LockPosition(b)
  BY <1>1, <1>5, <1>8
<1>9. CASE Abort(b) \/ AbortDeadlock(b)
  BY <1>1, <1>9 DEF Abort, AbortDeadlock
<1> QED
  BY <1>4, <1>6, <1>7, <1>8, <1>9

\* A commit: who returned something held its position, so nobody else does.
LEMMA CommitDue ==
    ASSUME ReturnsAreDue, WorkInv, RequestInv, NEW b \in Backends, Commit(b)
    PROVE  ReturnsAreDue'
<1> DEFINE k == backend[b]
           d == Document(k)
<1>1. documents' = documents \cup {d} /\ d.form = k.form
  BY DEF Commit, Document
<1>2. /\ ~Active(backend'[b])
      /\ \A e \in Backends : e # b => backend'[e] = backend[e]
  BY IdleCall DEF Commit, Answered, Active, RequestInv, Typed, Calls
<1> HIDE DEF d
<1>3. \A v \in Lines(k.form) : Holds(b, Row("position", v))
  BY CommitKnows
<1> HIDE DEF k
<1>4. ASSUME NEW e \in Backends, e # b, NEW v \in Variants, Holds(e, Row("position", v))
      PROVE  Returned(v)' = Returned(v)
  <2>1. ~Shared(Row("position", v))
    BY DEF Shared, Row
  <2>2. v \notin Lines(k.form)
    BY <1>3, <1>4, <2>1, HoldsIsHeld DEF WorkInv, RowsExclude
  <2> QED
    BY <1>1, <2>2, ReturnedStays
<1>5. ASSUME NEW e \in Backends, Active(backend'[e]), Kind(backend'[e]) = "return"
      PROVE  /\ backend'[e].session = None
             /\ \A v \in Variants :
                  Row("position", v) \in HeldRows(backend'[e]) => Returned(v)' < UnitsReceived
  <2>1. e # b /\ backend'[e] = backend[e]
    BY <1>2, <1>5
  <2> QED
    BY <1>4, <1>5, <2>1, HoldsIsHeld DEF ReturnsAreDue
<1> QED
  BY <1>5 DEF ReturnsAreDue, Active, Kind, HeldRows, Steps, PositionRows

\* A till: a call as it begins holds nothing, and a return names no session.
LEMMA TillDue ==
    ASSUME ReturnsAreDue, RequestInv, NEW t \in Tills,
           Submit(t) \/ Deliver(t) \/ LoseAnswer(t) \/ \E f \in Forms : Edit(t, f)
    PROVE  ReturnsAreDue'
<1>1. till[t] \in Shown /\ backend \in [Backends -> Calls]
  BY DEF RequestInv, Typed
<1>2. UNCHANGED documents
  BY DEF Submit, Deliver, LoseAnswer, Edit
<1>3. CASE backend' = backend
  BY <1>2, <1>3, CallsStayDue DEF Returned
<1>4. ASSUME NEW b \in Backends, backend' = [backend EXCEPT ![b] = Idle]
      PROVE  ReturnsAreDue'
  <2>1. ~Active(backend'[b]) /\ \A e \in Backends : e # b => backend'[e] = backend[e]
    BY <1>1, <1>4, IdleCall DEF Active
  <2> QED
    BY <1>2, <2>1, OneCallDue
<1>5. CASE Submit(t)
  <2>1. PICK b \in Backends, r \in RequestIds(t), s \in SessionsOf(t) :
             backend' = [backend EXCEPT ![b] = Call(till[t].form, r, s)]
    BY <1>5 DEF Submit
  <2> DEFINE c == Call(till[t].form, r, s)
  <2>2. /\ c.phase = "reserving" /\ c.form = till[t].form /\ c.session = s /\ c.at = 0
        /\ backend'[b] = c /\ \A e \in Backends : e # b => backend'[e] = backend[e]
    BY <1>1, <2>1 DEF Call, Idle
  <2> HIDE DEF c
  <2>3. HeldRows(c) = {}
    BY <2>2, NothingHeld
  <2>4. Kind(c) = "return" => c.session = None
    BY <2>2 DEF Kind, SessionsOf
  <2> QED
    BY <1>2, <2>2, <2>3, <2>4, OneCallDue
<1>6. CASE Deliver(t)
  BY <1>1, <1>4, <1>6 DEF Deliver, Shown, OrNone
<1>7. CASE LoseAnswer(t)
  <2> DEFINE b == till[t].call
  <2>1. /\ b \in Backends
        /\ backend' = [backend EXCEPT ![b] = IF @.phase \in {"reserving", "running"} THEN @ ELSE Idle]
    BY <1>1, <1>7 DEF LoseAnswer, Shown, OrNone
  <2> HIDE DEF b
  <2>2. backend' = backend \/ backend' = [backend EXCEPT ![b] = Idle]
    BY <1>1, <2>1
  <2> QED
    BY <1>3, <1>4, <2>1, <2>2
<1>8. CASE \E f \in Forms : Edit(t, f)
  BY <1>3, <1>8 DEF Edit
<1> QED
  BY <1>5, <1>6, <1>7, <1>8

\* The cash functions return nothing.
LEMMA SessionDue ==
    ASSUME ReturnsAreDue, WorkInv, NEW s \in Sessions,
           \/ \E t \in Tills : OpenSession(t, s)
           \/ BeginClose(s) \/ CancelClose(s) \/ ApproveVariance(s)
           \/ \E difference \in {"none", "small", "material"} : SubmitCount(s, difference)
           \/ \E amount \in {-1, 1} : MoveCash(s, amount)
    PROVE  ReturnsAreDue'
<1>1. backend' = backend
  BY SessionStepMoves DEF SessionMoves
<1>2. ASSUME NEW kind \in {"variance", "movement"}, NEW cash, PostCashJournal(kind, s, cash)
      PROVE  \A v : Returned(v)' = Returned(v)
  <2> DEFINE d == [kind |-> kind, form |-> None, request |-> None, session |-> s,
                   number |-> 0, journal |-> numbers["journal"] + 1, cash |-> cash]
  <2>1. documents' = documents \cup {d} /\ d.kind # "return"
    BY <1>2 DEF PostCashJournal
  <2> HIDE DEF d
  <2> QED
    BY <2>1, ReturnedStays
<1>3. UNCHANGED documents => \A v : Returned(v)' = Returned(v)
  BY DEF Returned
<1>4. \A v : Returned(v)' = Returned(v)
  BY <1>2, <1>3 DEF OpenSession, BeginClose, CancelClose, ApproveVariance, SubmitCount, MoveCash
<1> QED
  BY <1>1, <1>4, CallsStayDue

\* Every step keeps ReturnsAreDue.
LEMMA NextReturnsAreDue ==
    ReturnsAreDue /\ BooksInv /\ WorkInv /\ RequestInv /\ [Next]_vars => ReturnsAreDue'
<1> SUFFICES ASSUME ReturnsAreDue, BooksInv, WorkInv, RequestInv, [Next]_vars
             PROVE  ReturnsAreDue'
  OBVIOUS
<1>1. CASE UNCHANGED vars
  BY <1>1, CallsStayDue DEF vars, Returned
<1>2. CASE Next
  BY <1>2, StepDue, CommitDue, TillDue, SessionDue DEF Next, Advance
<1> QED
  BY <1>1, <1>2

\* A document that is not there yet puts its cash in the drawer of its session.
LEMMA DrawerGains ==
    ASSUME BooksInv, PapersInv, NEW d, d \notin documents, d.cash \in Int,
           documents' = documents \cup {d}, NEW u \in Sessions
    PROVE  Drawer(u)' = IF u = d.session THEN Drawer(u) + d.cash ELSE Drawer(u)
<1>0. IsFiniteSet(documents) /\ Drawer(u) \in Int
  BY DrawerType DEF BooksInv, Numbered
<1>1. CASE ~(d.session = u /\ d.cash # 0)
  <2>1. CashMovements(u)' = CashMovements(u)
    BY <1>1 DEF CashMovements
  <2> QED
    BY <1>0, <1>1, <2>1, DrawerStays
<1>2. CASE d.session = u /\ d.cash # 0
  <2> DEFINE M == CashMovements(u)
             N == M \cup {d}
             f == [e \in M |-> e.cash]
             g == [e \in N |-> e.cash]
  <2>1. CashMovements(u)' = N /\ d \notin M
    BY <1>2 DEF CashMovements
  <2>2. IsFiniteSet(M) /\ \A e \in M : e.cash \in Int
    BY <1>0, FS_Subset DEF CashMovements, PapersInv, Documents
  <2>3. IsFiniteSet(N) /\ N \ {d} = M
    BY <2>1, <2>2, FS_AddElement
  <2>4. /\ Drawer(u) = SumFunctionOnSet(f, M)
        /\ Drawer(u)' = SumFunctionOnSet(g, N)
    <3>1. DOMAIN f = M /\ DOMAIN g = N
      OBVIOUS
    <3> QED
      BY <2>1, <3>1 DEF Drawer, CashOf, SumFunction
  <2>5. (\A e \in N : g[e] \in Int) /\ g[d] = d.cash /\ \A e \in M : g[e] = f[e]
    BY <2>2
  <2> HIDE DEF M, N, f, g
  <2>6. SumFunctionOnSet(g, N) = g[d] + SumFunctionOnSet(g, M)
    <3>1. d \in N
      BY DEF N
    <3> QED
      BY <2>3, <2>5, <3>1, SumTakesOut
  <2>7. SumFunctionOnSet(g, M) = SumFunctionOnSet(f, M)
    BY <2>2, <2>5, SumsOfEquals
  <2> QED
    BY <1>0, <1>2, <2>4, <2>5, <2>6, <2>7
<1> QED
  BY <1>1, <1>2

\* A document with the next numbers is booked as ShopBooks books it.
LEMMA DocumentIsBooked ==
    ASSUME BooksInv, PapersInv, NEW kind, NEW f, NEW r, NEW s, NEW cash \in Int,
           documents' = documents \cup
             {[kind |-> kind, form |-> f, request |-> r, session |-> s,
               number |-> IF f = None THEN 0 ELSE numbers[kind] + 1,
               journal |-> numbers["journal"] + 1, cash |-> cash]},
           numbers' = [n \in Series |-> IF n \in {kind, "journal"} THEN numbers[n] + 1
                                        ELSE numbers[n]]
    PROVE  Books!Book(kind, f, r, s, cash)
<1> DEFINE d == [kind |-> kind, form |-> f, request |-> r, session |-> s,
                 number |-> IF f = None THEN 0 ELSE numbers[kind] + 1,
                 journal |-> numbers["journal"] + 1, cash |-> cash]
<1>1. d.journal = Cardinality(documents) + 1 /\ d.cash = cash /\ d.session = s
      /\ documents' = documents \cup {d}
  BY DEF BooksInv, Numbered
<1> HIDE DEF d
<1>2. d \notin documents
  <2> SUFFICES ASSUME d \in documents PROVE FALSE
    OBVIOUS
  <2>1. d.journal \in 1..Cardinality(documents)
    BY DEF BooksInv, NumbersHaveNoGaps
  <2>2. Cardinality(documents) \in Nat
    BY FS_CardinalityType DEF BooksInv, Numbered
  <2> QED
    BY <1>1, <2>1, <2>2
<1>3. \A u \in Sessions : Drawer(u)' = IF u = s THEN Drawer(u) + cash ELSE Drawer(u)
  BY <1>1, <1>2, DrawerGains
<1>4. [u \in Sessions |-> Drawer(u)]'
      = [u \in Sessions |-> IF u = s THEN [t \in Sessions |-> Drawer(t)][u] + cash
                            ELSE [t \in Sessions |-> Drawer(t)][u]]
  BY <1>3
<1> QED
  BY <1>4 DEF Books!Book, Books!Series, Series

\* Nothing is booked.
LEMMA NothingIsBooked ==
    ASSUME UNCHANGED <<documents, stock, numbers>>
    PROVE  Books!NoJournal /\ UNCHANGED [s \in Sessions |-> Drawer(s)]
<1>1. \A s \in Sessions : Drawer(s)' = Drawer(s)
  BY DEF Drawer, CashMovements
<1>2. [s \in Sessions |-> Drawer(s)]' = [s \in Sessions |-> Drawer(s)]
  BY <1>1
<1> QED
  BY <1>2 DEF Books!NoJournal

\* The books are empty at first.
LEMMA InitIsBooked == Init => Books!Init
<1> SUFFICES ASSUME Init PROVE Books!Init
  OBVIOUS
<1>1. ASSUME NEW s \in Sessions PROVE Drawer(s) = 0
  <2> DEFINE f == [d \in CashMovements(s) |-> d.cash]
  <2>1. CashMovements(s) = {}
    BY DEF Init, CashMovements
  <2>2. DOMAIN f = {}
    BY <2>1
  <2> HIDE DEF f
  <2>3. SumFunctionOnSet(f, DOMAIN f) = 0
    BY <2>2, SumOfNone
  <2> QED
    BY <2>3 DEF Drawer, CashOf, SumFunction, f
<1>2. [s \in Sessions |-> Drawer(s)] = [s \in Sessions |-> 0]
  BY <1>1
<1> QED
  BY <1>2 DEF Init, NoSession, NoNumbers, Series, Books!Init, Books!Series

\* ShopBooks counts lines and returns in the same way.
LEMMA SameLines ==
    /\ \A f : Books!Lines(f) = Lines(f)
    /\ \A v : Books!Returned(v) = Returned(v)
<1>1. \A f : Books!Lines(f) = Lines(f)
  BY DEF Books!Lines, Lines, Books!ToSet, ToSet
<1>2. \A S : Books!Cardinality(S) = Cardinality(S)
  BY DEF Books!Cardinality, Cardinality
<1> QED
  BY <1>1, <1>2 DEF Books!Returned, Returned

\* A commit is a posting from what the books say at that moment.
LEMMA CommitIsAPosting ==
    ASSUME ReturnsAreDue, BooksInv, PapersInv, WorkInv, RequestInv,
           NEW b \in Backends, Commit(b)
    PROVE  Books!Next
<1> DEFINE k == backend[b]
           cash == IF Kind(k) = "sale" THEN Len(Content[k.form].lines) ELSE 0
<1>1. /\ k.form \in Forms /\ Kind(k) \in Kinds
      /\ \A s \in Series : k.claimed[s] = IF s \in {Kind(k), "journal"} THEN numbers[s] + 1 ELSE 0
      /\ \A v \in Lines(k.form) :
           v \in Variants /\ Holds(b, Row("position", v))
           /\ k.left[v] = stock[v] - 1 /\ k.left[v] >= 0
      /\ Kind(k) = "sale" => k.session \in Sessions /\ session[k.session].status = "OPEN"
  BY CommitKnows
<1>2. /\ \A s \in Series :
           numbers'[s] = IF s \in {Kind(k), "journal"} THEN numbers[s] + 1 ELSE numbers[s]
      /\ \A v \in Variants :
           stock'[v] = IF v \in Lines(k.form) THEN stock[v] - 1 ELSE stock[v]
  BY CommitEffect
<1>3. /\ k \in Calls /\ k.request \in Requests /\ k.phase = "running"
      /\ \A e \in documents : e.request # k.request
  BY DEF RequestInv, Typed, Commit, Running, ReservedIsUnposted, Posted, Calls, OrNone
<1>4. Document(k) =
        [kind |-> Kind(k), form |-> k.form, request |-> k.request, session |-> k.session,
         number |-> k.claimed[Kind(k)], journal |-> k.claimed["journal"], cash |-> cash]
  BY DEF Document, Kind
<1>5. /\ documents' = documents \cup {Document(k)} /\ session' = session
      /\ numbers' = [s \in Series |-> IF k.claimed[s] > 0 THEN k.claimed[s] ELSE numbers[s]]
      /\ stock' = [v \in Variants |-> IF v \in Lines(k.form) THEN k.left[v] ELSE stock[v]]
  BY DEF Commit
<1>6. cash \in Int
  <2>1. Content[k.form].lines \in Seq(Variants)
    BY <1>1, ContentAssumption
  <2> QED
    BY <2>1, LenProperties
<1>7. Kind(k) = "return" => /\ k.session = None
                            /\ \A v \in Lines(k.form) : Returned(v) < UnitsReceived
  BY <1>1, <1>3, HoldsIsHeld DEF ReturnsAreDue, Active
<1>8. \A v \in Lines(k.form) : stock[v] >= 1
  BY <1>1 DEF RequestInv, Typed
<1> HIDE DEF cash
<1>9. Books!Book(Kind(k), k.form, k.request, k.session, cash)
  <2>1. k.form # None /\ Kind(k) \in Series /\ "journal" \in Series
    BY <1>1, NoneAssumption DEF Kinds, Series
  <2> HIDE DEF k
  <2>2. documents' = documents \cup
          {[kind |-> Kind(k), form |-> k.form, request |-> k.request, session |-> k.session,
            number |-> IF k.form = None THEN 0 ELSE numbers[Kind(k)] + 1,
            journal |-> numbers["journal"] + 1, cash |-> cash]}
    BY <1>1, <1>4, <1>5, <2>1
  <2>3. numbers' = [s \in Series |-> IF s \in {Kind(k), "journal"} THEN numbers[s] + 1
                                     ELSE numbers[s]]
    BY <1>2, <1>5
  <2> QED
    BY <1>6, <2>2, <2>3, DocumentIsBooked
<1>10. stock' = [v \in Variants |-> IF v \in Lines(k.form) THEN stock[v] - 1 ELSE stock[v]]
  BY <1>1, <1>5
<1>11. Books!Post(k.form, k.request, k.session, cash)
  <2> HIDE DEF k
  <2> QED
    BY <1>3, <1>5, <1>8, <1>9, <1>10, SameLines DEF Books!Post, Kind
<1> HIDE DEF k
<1>12. CASE Kind(k) = "sale"
  <2>1. Books!Sell(k.form, k.request, k.session)
    BY <1>1, <1>11, <1>12 DEF Books!Sell, Kind, cash
  <2> QED
    BY <1>1, <1>3, <1>12, <2>1 DEF Books!Next
<1>13. CASE Kind(k) = "return"
  <2>1. Books!GiveBack(k.form, k.request)
    BY <1>7, <1>11, <1>13, SameLines DEF Books!GiveBack, Kind, cash
  <2> QED
    BY <1>1, <1>3, <2>1 DEF Books!Next
<1> QED
  BY <1>1, <1>12, <1>13 DEF Kinds

\* A journal of the cash functions.
LEMMA JournalIsBooked ==
    ASSUME BooksInv, PapersInv, RequestInv, NEW kind, kind \notin Series, NEW s,
           NEW cash \in Int, PostCashJournal(kind, s, cash), UNCHANGED stock
    PROVE  Books!CashJournal(kind, s, cash)
<1>1. /\ numbers' = [numbers EXCEPT !["journal"] = @ + 1] /\ numbers \in [Series -> Nat]
      /\ documents' = documents \cup
           {[kind |-> kind, form |-> None, request |-> None, session |-> s,
             number |-> 0, journal |-> numbers["journal"] + 1, cash |-> cash]}
  BY DEF PostCashJournal, RequestInv, Typed
<1>2. numbers' = [n \in Series |-> IF n \in {kind, "journal"} THEN numbers[n] + 1 ELSE numbers[n]]
  BY <1>1
<1>3. Books!Book(kind, None, None, s, cash)
  BY <1>1, <1>2, DocumentIsBooked
<1> QED
  BY <1>3 DEF Books!CashJournal

\* A step of a cash session is that step of the books.
LEMMA SessionIsBooked ==
    ASSUME BooksInv, PapersInv, RequestInv, NEW s \in Sessions,
           \/ \E t \in Tills : OpenSession(t, s)
           \/ BeginClose(s) \/ CancelClose(s) \/ ApproveVariance(s)
           \/ \E difference \in {"none", "small", "material"} : SubmitCount(s, difference)
           \/ \E amount \in {-1, 1} : MoveCash(s, amount)
    PROVE  Books!Next
<1>1. "variance" \notin Series /\ "movement" \notin Series /\ 0 \in Int
  BY DEF Series
<1>2. ASSUME NEW t \in Tills, OpenSession(t, s)
      PROVE  Books!Next
  <2>1. Books!Open(t, s)
    BY <1>2, NothingIsBooked DEF OpenSession, Books!Open
  <2> QED
    BY <2>1 DEF Books!Next
<1>3. CASE BeginClose(s)
  <2>1. Books!BeginClose(s)
    BY <1>3, NothingIsBooked DEF BeginClose, SetSession, Books!BeginClose, Books!Become
  <2> QED
    BY <2>1 DEF Books!Next
<1>4. CASE CancelClose(s)
  <2>1. Books!CancelClose(s)
    BY <1>4, NothingIsBooked DEF CancelClose, SetSession, Books!CancelClose, Books!Become
  <2> QED
    BY <2>1 DEF Books!Next
<1>5. CASE ApproveVariance(s)
  <2>1. Books!Approve(s)
    BY <1>1, <1>5, JournalIsBooked DEF ApproveVariance, SetSession, Books!Approve, Books!Become
  <2> QED
    BY <2>1 DEF Books!Next
<1>6. ASSUME NEW amount \in {-1, 1}, MoveCash(s, amount)
      PROVE  Books!Next
  <2>1. amount \in Int
    OBVIOUS
  <2>2. Books!MoveCash(s, amount)
    BY <1>1, <1>6, <2>1, JournalIsBooked DEF MoveCash, SetSession, Books!MoveCash, Books!Become
  <2> QED
    BY <2>2 DEF Books!Next
<1>7. ASSUME NEW difference \in {"none", "small", "material"}, SubmitCount(s, difference)
      PROVE  Books!Next
  <2>1. UNCHANGED stock /\ session[s].status = "CLOSING"
        /\ session' = [session EXCEPT
                     ![s].status = IF difference = "material" THEN "PENDING_APPROVAL" ELSE "CLOSED",
                     ![s].expected = [u \in Sessions |-> Drawer(u)][s]]
    BY <1>7 DEF SubmitCount
  <2>2. difference = "small" => Books!CashJournal("variance", s, 0)
    BY <1>1, <1>7, JournalIsBooked DEF SubmitCount
  <2>3. difference # "small" => Books!NoJournal
    BY <1>7, <2>1, NothingIsBooked DEF SubmitCount
  <2>4. Books!Count(s, difference)
    BY <2>1, <2>2, <2>3 DEF Books!Count
  <2> QED
    BY <2>4 DEF Books!Next
<1> QED
  BY <1>2, <1>3, <1>4, <1>5, <1>6, <1>7

\* Every step is a step of the books, or leaves them alone.
LEMMA StepIsBooked ==
    ReturnsAreDue /\ BooksInv /\ PapersInv /\ WorkInv /\ RequestInv /\ [Next]_vars
      => [Books!Next]_(Books!books)
<1> SUFFICES ASSUME ReturnsAreDue, BooksInv, PapersInv, WorkInv, RequestInv, [Next]_vars
             PROVE  Books!Next \/ UNCHANGED Books!books
  OBVIOUS
<1>1. CASE UNCHANGED <<session, documents, stock, numbers>>
  BY <1>1, NothingIsBooked DEF Books!books
<1>2. ASSUME NEW b \in Backends, Advance(b) \/ Abort(b) \/ AbortDeadlock(b)
      PROVE  Books!Next \/ UNCHANGED Books!books
  <2>1. CASE Commit(b)
    BY <2>1, CommitIsAPosting
  <2>2. CASE ~Commit(b)
    <3>1. UNCHANGED <<session, documents, stock, numbers>>
      BY <1>2, <2>2 DEF Advance, Abort, AbortDeadlock, Reserve, LockSession, LockReceipt,
                        LockPosition, CheckLines, ClaimNumber, End, Proceed
    <3> QED
      BY <1>1, <3>1
  <2> QED
    BY <2>1, <2>2
<1>3. ASSUME NEW t \in Tills,
             Submit(t) \/ Deliver(t) \/ LoseAnswer(t) \/ \E f \in Forms : Edit(t, f)
      PROVE  Books!Next \/ UNCHANGED Books!books
  BY <1>1, <1>3 DEF Submit, Deliver, LoseAnswer, Edit
<1>4. CASE UNCHANGED vars
  BY <1>1, <1>4 DEF vars
<1>5. CASE Next
  BY <1>2, <1>3, <1>5, SessionIsBooked DEF Next
<1> QED
  BY <1>4, <1>5

\* A line that a return has checked may still be given back when it commits.
THEOREM DueInvariant == Spec => []ReturnsAreDue
BY InitReturnsAreDue, NextReturnsAreDue, RequestInvariant, WorkInvariant, BooksInvariant, PTL
   DEF Spec

\* confirm_cash_sale, create_purchase_return and the cash functions implement
\* ShopBooks: whatever runs at the same time, fails or is tried again, the
\* books change by one posting at a time, each made at its commit.
THEOREM PostingsImplementTheBooks == Spec => ImplementsBooks
<1>1. Init => Books!Init
  BY InitIsBooked
<1>2. ReturnsAreDue /\ BooksInv /\ PapersInv /\ WorkInv /\ RequestInv /\ [Next]_vars
        => [Books!Next]_(Books!books)
  BY StepIsBooked
<1> QED
  BY <1>1, <1>2, DueInvariant, BooksInvariant, PapersInvariant, WorkInvariant, RequestInvariant,
     PTL DEF Spec, ImplementsBooks, Books!Spec

-----------------------------------------------------------------------------
(* The promises of the postings.                                           *)

\* confirm_cash_sale locks its positions in the order of their variants, so
\* sales do not deadlock among themselves, however many run at once: a supplier
\* return, which locks in the order of the receipt, is part of every deadlock.
THEOREM OnlyReturnsDeadlock == Spec => []DeadlocksNeedAReturn
<1>1. WorkInv => DeadlocksNeedAReturn
  BY SalesInOrder DEF WorkInv
<1>2. QED
  BY <1>1, WorkInvariant, PTL

\* submit_cash_count locks the session FOR UPDATE and a sale FOR SHARE: no sale
\* is booked on a session behind its count.
THEOREM CountsStayComplete == Spec => []CountsAreComplete
<1>1. BooksInv => CountsAreComplete
  BY DEF BooksInv
<1>2. QED
  BY <1>1, BooksInvariant, PTL

\* core.document_sequences: numbers are given out without gaps or repetitions,
\* whatever is aborted after it claimed its number.
THEOREM NumbersWithoutGaps == Spec => []NumbersHaveNoGaps
<1>1. BooksInv => NumbersHaveNoGaps
  BY DEF BooksInv
<1>2. QED
  BY <1>1, BooksInvariant, PTL

\* inventory.positions: no unit is sold or returned twice, and none that is not
\* there.
THEOREM UnitsAreMovedOnce ==
    Spec => [](StockIsWhatWasMoved /\ \A v \in Variants : stock[v] >= 0)
<1>1. BooksInv => StockIsWhatWasMoved /\ \A v \in Variants : stock[v] >= 0
  BY DEF BooksInv
<1>2. QED
  BY <1>1, BooksInvariant, PTL
=============================================================================
