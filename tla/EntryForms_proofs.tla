-------------------------- MODULE EntryForms_proofs --------------------------
(***************************************************************************)
(* For any forms, lines, contents and calls: a line that was entered once  *)
(* is recorded once, unless the id of its request was let go in doubt, and *)
(* a success takes nothing out of a form that was not recorded.            *)
(***************************************************************************)
EXTENDS EntryForms, TLAPS, FiniteSetTheorems

\* The forms that hold on to their request id and never answer for a batch.
Firm == {"purchase", "delivery"}

\* The forms whose payload names the lines themselves.
Exact == {"delivery", "return"}

\* The lines the property speaks of.
Trusted(l) == kind \in Firm \/ l \notin doubt

Sent(k, l) == call[k].pc = "sent" /\ l \in call[k].lines

\* The types the argument needs.
Typed ==
    /\ kind \in Kinds
    /\ lines \subseteq entered /\ entered \subseteq Lines /\ filled \subseteq lines
    /\ typed \in BOOLEAN /\ replaced \in BOOLEAN
    /\ request \in Calls \cup {None}
    /\ call \in [Calls -> CallType]
    /\ posted \in [Calls -> {None} \cup SUBSET (Contents \cup Lines)]
    /\ recorded \in [Lines -> Nat]
    /\ settled \subseteq Lines /\ doubt \subseteq Lines /\ late \subseteq Lines

\* One call at a time is awaited by the form.
OneAwaited == \A j, k \in Calls : call[j].waits = "form" /\ call[k].waits = "form" => j = k

\* What a call carries, and how it stands to the form that sent it.
CallSound(k) ==
    LET q == call[k] IN
    /\ q.pc \in {"none", "over"} =>
         q.waits = "nobody" /\ q.id = None /\ q.lines = {} /\ q.rest = {} /\ q.all = {}
    /\ q.pc \in {"sent", "recorded", "refused"} => q.id \in Calls
    /\ q.lines \cup q.rest \subseteq q.all /\ q.all \subseteq entered
    /\ q.lines \cap q.rest = {}
    /\ q.rest # {} => kind \in Listed
    /\ kind \notin Listed => q.all = q.lines
    /\ q.id # None => call[q.id].pc # "none"
    /\ q.pc = "recorded" => posted[q.id] # None
    /\ q.waits = "left" => q.all \cap lines = {}
    /\ q.waits = "form" => q.id = request \/ (request = None /\ kind \notin Firm)
    /\ q.waits = "form" /\ q.all # q.lines => request = None
    /\ kind = "adjustment" /\ request # None /\ q.id = request => q.lines = lines
    /\ posted[k] # None => q.pc # "none"

\* What the form and its table may hold.
FormSound ==
    /\ IsFiniteSet(lines)
    /\ request # None =>
         /\ kind \in Keeping
         /\ call[request].pc # "none"
         /\ kind \in Listed => ~(Cardinality(lines) > 1)
    /\ settled # {} => kind = "adjustment"
    /\ settled \subseteq entered
    /\ settled \cap filled \subseteq doubt
    /\ typed => settled \cap lines \subseteq filled
    /\ \A l \in Lines \ entered : recorded[l] = 0

\* A line is under way with one request id, which is known to the database once
\* the line is recorded; what a loop has still to send is nowhere else.
OnItsWay(l) ==
    /\ recorded[l] <= 1
    /\ \A j, k \in Calls : Sent(j, l) /\ Sent(k, l) => call[j].id = call[k].id
    /\ \A k \in Calls : Sent(k, l) /\ recorded[l] > 0 => posted[call[k].id] # None
    /\ \A k \in Calls : l \in call[k].rest /\ call[k].waits # "nobody" =>
         /\ recorded[l] = 0
         /\ \A j \in Calls : ~Sent(j, l)
         /\ \A j \in Calls : l \in call[j].rest /\ call[j].waits # "nobody" => j = k

\* The form knows of it: it keeps the request id, or awaits the call.
KnownCall(k, l) ==
    \/ call[k].pc = "recorded" /\ l \in call[k].lines
       /\ (call[k].id = request \/ call[k].waits = "form")
    \/ call[k].waits = "form" /\ l \in Before(call[k])

InForm(l) ==
    /\ \A k \in Calls : Sent(k, l) =>
         call[k].id = request \/ (call[k].waits = "form" /\ kind \notin Firm)
    /\ recorded[l] > 0 => \E k \in Calls : KnownCall(k, l)

LinesSound ==
    \A l \in Lines : Trusted(l) =>
        OnItsWay(l) /\ (l \in lines \ settled => InForm(l))

OnceInv == Typed /\ OneAwaited /\ (\A k \in Calls : CallSound(k)) /\ FormSound /\ LinesSound

\* Of a set of lines, no two look the same to the database.
Distinct(ls) == kind \in Exact \/ \A l, m \in ls : ContentOf[l] = ContentOf[m] => l = m

\* What an awaited call answers for.
Covers(k) ==
    LET q == call[k] IN
    /\ lines \subseteq q.all \cup late
    /\ ~replaced => \A l \in Before(q) : recorded[l] > 0
    /\ posted[q.id] = Payload(q.lines) /\ ~replaced => \A l \in q.lines : recorded[l] > 0
    /\ q.pc = "recorded" => posted[q.id] = Payload(q.lines)
    /\ Distinct(q.lines)
    /\ kind \notin Exact /\ ~replaced =>
         \A j \in Calls : call[j].id = q.id => call[j].lines \subseteq q.lines

\* What the request id that the form keeps stands for.
KeptCovers ==
    kind \notin Exact /\ request # None /\ ~replaced =>
        /\ \A j \in Calls : call[j].id = request => call[j].lines \subseteq lines
        /\ posted[request] # None =>
             \E ls \in SUBSET lines :
                posted[request] = Payload(ls) /\ \A l \in ls : recorded[l] > 0

ExactRecorded ==
    kind \in Exact => \A k \in Calls : posted[k] # None =>
        posted[k] \subseteq Lines /\ \A l \in posted[k] : recorded[l] > 0

CoverInv ==
    /\ \A k \in Calls : call[k].waits = "form" => Covers(k)
    /\ KeptCovers
    /\ ExactRecorded
    /\ Distinct(lines)

-----------------------------------------------------------------------------
(* The operator at the form.                                               *)

USE NoneIsNothingElse, ContentsAreSent, KindsAreForms

\* What any change to the form has in common.
FormStep ==
    /\ UNCHANGED <<kind, call, database, settled>>
    /\ entered \subseteq entered' /\ entered' \subseteq Lines
    /\ lines' \subseteq lines \cup (entered' \ entered)
    /\ IsFiniteSet(lines')
    /\ filled' \subseteq lines' /\ filled' \cap settled \subseteq filled
    /\ typed' \in BOOLEAN /\ replaced' \in BOOLEAN
    /\ typed' => settled \cap lines' \subseteq filled'
    /\ late \subseteq late' /\ late' \subseteq Lines
    /\ \/ kind \in Renewing /\ request' = None /\ doubt' = doubt \cup Uncertain(request)
       \/ kind \notin Renewing /\ UNCHANGED <<request, doubt>>

\* What a changed form still shows of what was submitted.
FormKeeps ==
    /\ Busy => lines' \subseteq lines \cup late'
    /\ replaced => replaced'
    /\ kind \notin Exact /\ request' # None /\ ~replaced' => lines \subseteq lines'
    /\ Distinct(lines)'

\* The lines of calls the form has no answer of, under an id, are lines.
LEMMA UncertainAre ==
    ASSUME Typed, NEW r
    PROVE  /\ Uncertain(r) \subseteq Lines
           /\ \A k \in Calls : Unanswered(k) /\ call[k].id = r => call[k].lines \subseteq Uncertain(r)
  BY DEF Typed, CallType, Uncertain

\* addLine: one more line, and a new request id for the forms that renew it.
LEMMA EnterIsFormStep ==
    ASSUME OnceInv, CoverInv, NEW l \in Lines, Enter(l) PROVE FormStep /\ FormKeeps
<1> USE DEF OnceInv, CoverInv, Typed, FormSound, Enter, NoteEntry, history, database
<1>1. UNCHANGED <<kind, call, database, settled>>
  OBVIOUS
<1>2. IsFiniteSet(lines')
  BY FS_AddElement
<1>3. entered' \subseteq Lines /\ lines' \subseteq lines \cup (entered' \ entered)
  OBVIOUS
<1>4. late' \subseteq Lines /\ late \subseteq late'
  OBVIOUS
<1>5. \/ kind \in Renewing /\ request' = None /\ doubt' = doubt \cup Uncertain(request)
      \/ kind \notin Renewing /\ UNCHANGED <<request, doubt>>
  BY DEF Renew
<1>6. FormStep
  BY <1>1, <1>2, <1>3, <1>4, <1>5 DEF FormStep
<1>7. Distinct(lines)'
  BY DEF Distinct, Payload, Exact
<1>8. FormKeeps
  BY <1>7 DEF FormKeeps
<1> QED
  BY <1>6, <1>8

\* handleSelectItem: the form starts again with the article picked.
LEMMA PickIsFormStep ==
    ASSUME OnceInv, CoverInv, NEW l \in Lines, Pick(l) PROVE FormStep /\ FormKeeps
<1> USE DEF OnceInv, CoverInv, Typed, FormSound, Pick, NoteEntry, history, database
<1>1. UNCHANGED <<kind, call, database, settled>> /\ request' = None
  BY DEF Renew, Renewing
<1>2. IsFiniteSet(lines')
  BY FS_Singleton
<1>3. \/ kind \in Renewing /\ request' = None /\ doubt' = doubt \cup Uncertain(request)
      \/ kind \notin Renewing /\ UNCHANGED <<request, doubt>>
  BY DEF Renew
<1>4. FormStep
  BY <1>1, <1>2, <1>3 DEF FormStep
<1>5. FormKeeps
  BY <1>1 DEF FormKeeps, Distinct
<1> QED
  BY <1>4, <1>5

\* The quantity of a row that is not settled.
LEMMA FillIsFormStep ==
    ASSUME OnceInv, CoverInv, NEW l \in Lines, Fill(l) PROVE FormStep /\ FormKeeps
<1> USE DEF OnceInv, CoverInv, Typed, FormSound, Fill, history, database
<1>1. \/ kind \in Renewing /\ request' = None /\ doubt' = doubt \cup Uncertain(request)
      \/ kind \notin Renewing /\ UNCHANGED <<request, doubt>>
  BY DEF Renew
<1>2. FormStep
  BY <1>1 DEF FormStep
<1>3. FormKeeps
  BY DEF FormKeeps, Distinct
<1> QED
  BY <1>2, <1>3

\* The quantity of the only line, which is not settled.
LEMMA TypeIsFormStep ==
    ASSUME OnceInv, CoverInv, Type PROVE FormStep /\ FormKeeps
<1> USE DEF OnceInv, CoverInv, Typed, FormSound, Type, history, database
<1>1. \/ kind \in Renewing /\ request' = None /\ doubt' = doubt \cup Uncertain(request)
      \/ kind \notin Renewing /\ UNCHANGED <<request, doubt>>
  BY DEF Renew
<1>2. FormStep
  BY <1>1 DEF FormStep
<1>3. FormKeeps
  BY DEF FormKeeps, Distinct
<1> QED
  BY <1>2, <1>3

\* What a CASE on the number of lines left may say of the quantity field.
LEMMA OneLeft ==
    ASSUME NEW n \in Nat, NEW p \in BOOLEAN, NEW q \in BOOLEAN,
           NEW t, t = CASE n = 0 -> FALSE [] n = 1 -> p [] n > 1 -> q
    PROVE  t \in BOOLEAN /\ (t => p \/ q)
<1>1. n = 0 \/ n = 1 \/ n > 1
  OBVIOUS
<1>2. CASE n = 0
  BY <1>2
<1>3. CASE n = 1
  BY <1>3
<1>4. CASE n > 1
  BY <1>4
<1> QED
  BY <1>1, <1>2, <1>3, <1>4

\* removeLine: a line leaves, and a purchase notes it over a kept id.
LEMMA RemoveIsFormStep ==
    ASSUME OnceInv, CoverInv, NEW l \in Lines, Remove(l) PROVE FormStep /\ FormKeeps
<1> USE DEF OnceInv, CoverInv, Typed, FormSound, Remove, history, database
<1>1. \/ kind \in Renewing /\ request' = None /\ doubt' = doubt \cup Uncertain(request)
      \/ kind \notin Renewing /\ UNCHANGED <<request, doubt>>
  BY DEF Renew
<1>2. IsFiniteSet(lines')
  BY FS_RemoveElement
<1>3. typed' \in BOOLEAN /\ (typed' => settled \cap lines' \subseteq filled')
  <2> DEFINE moved == lines' \subseteq filled
  <2>1. Cardinality(lines') \in Nat
    BY <1>2, FS_CardinalityType
  <2>2. typed' = CASE Cardinality(lines') = 0 -> FALSE
                   [] Cardinality(lines') = 1 -> moved
                   [] Cardinality(lines') > 1 -> typed
    BY Zenon
  <2>3. moved \in BOOLEAN /\ (moved <=> lines' \subseteq filled)
    BY Zenon
  <2> HIDE DEF moved
  <2>4. typed' \in BOOLEAN /\ (typed' => moved \/ typed)
    BY <2>1, <2>2, <2>3, OneLeft
  <2> QED
    BY <2>3, <2>4
<1>4. FormStep
  BY <1>1, <1>2, <1>3 DEF FormStep
<1>5. kind \notin Exact /\ request' # None => replaced'
  BY DEF Renew, Exact, Renewing, Listed, Keeping
<1>6. Distinct(lines)'
  BY DEF Distinct
<1>7. FormKeeps
  BY <1>5, <1>6 DEF FormKeeps
<1> QED
  BY <1>4, <1>7

\* Any other field.
LEMMA EditIsFormStep ==
    ASSUME OnceInv, CoverInv, Edit PROVE FormStep /\ FormKeeps
<1> USE DEF OnceInv, CoverInv, Typed, FormSound, Edit, history, database
<1>1. \/ kind \in Renewing /\ request' = None /\ doubt' = doubt \cup Uncertain(request)
      \/ kind \notin Renewing /\ UNCHANGED <<request, doubt>>
  BY DEF Renew
<1>2. FormStep
  BY <1>1 DEF FormStep
<1>3. FormKeeps
  BY DEF FormKeeps, Distinct
<1> QED
  BY <1>2, <1>3

\* resetForm empties the purchase form and keeps its id.
LEMMA CloseIsFormStep ==
    ASSUME OnceInv, CoverInv, Close PROVE FormStep /\ FormKeeps
<1> USE DEF OnceInv, CoverInv, Typed, FormSound, Close, Blank, history, database
<1>1. kind \notin Renewing
  BY DEF Renewing, Listed
<1>2. IsFiniteSet(lines')
  BY FS_EmptySet
<1>3. FormStep
  BY <1>1, <1>2 DEF FormStep
<1>4. FormKeeps
  BY DEF FormKeeps, Distinct
<1> QED
  BY <1>3, <1>4

\* A change to the form leaves every line where the form knows of it, or in
\* doubt.
LEMMA FormStepOnce == ASSUME OnceInv, FormStep PROVE OnceInv'
<1> USE DEF OnceInv, FormStep, database
<1>1. Typed'
  BY UncertainAre DEF Typed
<1>2. OneAwaited'
  BY DEF OneAwaited
<1>3. ASSUME NEW k \in Calls PROVE CallSound(k)'
  <2>1. CallSound(k)
    OBVIOUS
  <2>2. request' # None => request' = request /\ kind \notin Renewing
    OBVIOUS
  <2>3. kind \in Renewing => kind \notin Firm
    BY DEF Renewing, Listed, Firm
  <2>4. kind = "adjustment" => kind \in Renewing
    BY DEF Renewing, Listed
  <2>5. call[k].all \cap lines = {} => call[k].all \cap lines' = {}
    BY <2>1 DEF CallSound
  <2> QED
    BY <2>1, <2>2, <2>3, <2>4, <2>5 DEF CallSound
<1>4. FormSound'
  <2>1. kind \in Listed => kind \in Renewing
    BY DEF Renewing
  <2> QED
    BY <2>1 DEF FormSound, Typed
<1>5. ASSUME NEW l \in Lines, Trusted(l)' PROVE OnItsWay(l)'
  BY <1>5 DEF LinesSound, Trusted, OnItsWay, Sent
<1>6. ASSUME NEW l \in lines' \ settled, Trusted(l)' PROVE InForm(l)'
  <2>1. CASE l \notin entered
    <3>1. recorded[l] = 0
      BY <2>1, <1>6 DEF FormSound, Typed
    <3>2. \A k \in Calls : l \notin call[k].lines
      BY <2>1 DEF CallSound
    <3> QED
      BY <3>1, <3>2 DEF InForm, Sent
  <2>2. CASE l \in entered
    <3>1. Trusted(l) /\ l \in lines \ settled
      BY <2>2, <1>6 DEF Trusted
    <3>2. InForm(l)
      BY <3>1 DEF LinesSound, Typed
    <3>3. CASE kind \notin Renewing
      <4>1. request' = request
        BY <3>3
      <4> QED
        BY <3>2, <4>1 DEF InForm, KnownCall, Sent, Before
    <3>4. CASE kind \in Renewing
      <4>1. kind \notin Firm /\ l \notin Uncertain(request)
        BY <1>6, <3>4 DEF Trusted, Renewing, Listed, Firm
      <4>2. ASSUME NEW k \in Calls, Unanswered(k), l \in call[k].lines PROVE call[k].id # request
        BY <4>1, <4>2, UncertainAre
      <4>3. \A k \in Calls : Sent(k, l) => call[k].waits = "form"
        BY <3>2, <4>2 DEF InForm, Sent, Unanswered
      <4>4. ASSUME NEW k \in Calls, KnownCall(k, l) PROVE KnownCall(k, l)'
        BY <4>2, <4>4 DEF KnownCall, Unanswered, Before
      <4> QED
        BY <3>2, <4>1, <4>3, <4>4 DEF InForm, Sent
    <3> QED
      BY <3>3, <3>4
  <2> QED
    BY <2>1, <2>2
<1> QED
  BY <1>1, <1>2, <1>3, <1>4, <1>5, <1>6 DEF LinesSound, Typed

\* A change to the form leaves what calls and kept ids answer for.
LEMMA FormStepCovers == ASSUME OnceInv, CoverInv, FormStep, FormKeeps PROVE CoverInv'
<1> USE DEF CoverInv, FormStep, FormKeeps, database
<1>1. ASSUME NEW k \in Calls, call[k].waits = "form" PROVE Covers(k)'
  <2>1. Covers(k) /\ Busy
    BY <1>1 DEF Busy
  <2> QED
    BY <2>1 DEF Covers, Before, Payload, Distinct
<1>2. KeptCovers'
  BY DEF KeptCovers, Payload
<1>3. ExactRecorded'
  BY DEF ExactRecorded
<1> QED
  BY <1>1, <1>2, <1>3

\* The form is let go of: a call that was awaited is left, and a call may end.
LetGo ==
    /\ Blank /\ request' = None /\ replaced' \in BOOLEAN
    /\ UNCHANGED <<kind, entered, posted, recorded, settled, doubt, late>>
    /\ call' \in [Calls -> CallType]
    /\ \A k \in Calls :
         \/ /\ call'[k].waits = IF call[k].waits = "form" THEN "left" ELSE call[k].waits
            /\ call'[k].pc = call[k].pc /\ call'[k].id = call[k].id
            /\ call'[k].lines = call[k].lines /\ call'[k].all = call[k].all
            /\ call'[k].rest = call[k].rest
         \/ /\ call[k].pc # "none" /\ call'[k].pc = "over" /\ call'[k].waits = "nobody"
            /\ call'[k].id = None
            /\ call'[k].lines = {} /\ call'[k].all = {} /\ call'[k].rest = {}

\* The calls of a form that goes away.
LEMMA LeftCalls ==
    ASSUME OnceInv
    PROVE  /\ Left \in [Calls -> CallType]
           /\ \A k \in Calls :
                /\ Left[k].waits = IF call[k].waits = "form" THEN "left" ELSE call[k].waits
                /\ Left[k].pc = call[k].pc /\ Left[k].id = call[k].id
                /\ Left[k].lines = call[k].lines /\ Left[k].all = call[k].all
                /\ Left[k].rest = call[k].rest
  BY DEF OnceInv, Typed, CallType, Left

\* The operator leaves it.
LEMMA LeaveLetsGo == ASSUME OnceInv, Leave PROVE LetGo
  BY LeftCalls DEF Leave, LetGo, database

\* The late success of another return closes it.
LEMMA LateSuccessLetsGo ==
    ASSUME OnceInv, NEW k \in Calls, LateSuccess(k)
    PROVE  LetGo /\ (\A j \in Calls : j # k => call'[j].pc = call[j].pc)
<1> DEFINE ended == [NoCall EXCEPT !.pc = "over"]
<1>1. ended = [pc |-> "over", waits |-> "nobody", id |-> None, lines |-> {}, all |-> {}, rest |-> {}]
  BY DEF NoCall
<1>2. ended \in CallType
  BY <1>1 DEF CallType
<1>3. call' = [Left EXCEPT ![k] = ended] /\ Left \in [Calls -> CallType]
  BY LeftCalls DEF LateSuccess
<1> HIDE DEF ended
<1>4. call' \in [Calls -> CallType] /\ call'[k] = ended
  BY <1>2, <1>3
<1>5. \A j \in Calls : j # k => call'[j] = Left[j]
  BY <1>3
<1>6. request = None
  BY DEF LateSuccess, OnceInv, FormSound, Keeping, Renewing, Listed
<1>7. /\ Blank /\ UNCHANGED <<kind, entered, request, posted, recorded, settled, doubt, late, replaced>>
      /\ call[k].pc # "none" /\ replaced \in BOOLEAN
  BY DEF LateSuccess, OnceInv, Typed, database, history
<1> QED
  BY <1>1, <1>4, <1>5, <1>6, <1>7, LeftCalls DEF LetGo

\* What the form sent goes on without it.
LEMMA LetGoOnce == ASSUME OnceInv, LetGo PROVE OnceInv'
<1> USE DEF OnceInv, LetGo, Blank
<1>1. Typed'
  BY DEF Typed
<1>2. OneAwaited' /\ \A k \in Calls : call'[k].waits # "form"
  BY DEF OneAwaited
<1>3. ASSUME NEW k \in Calls PROVE CallSound(k)'
  <2>1. CallSound(k) /\ call[k].id \in Calls \cup {None}
    BY DEF Typed, CallType
  <2>2. call[k].id # None => call'[call[k].id].pc # "none"
    BY <2>1 DEF CallSound
  <2>3. call'[k].all \cap lines' = {}
    OBVIOUS
  <2>4. CASE call'[k].pc = call[k].pc /\ call'[k].id = call[k].id
    BY <1>2, <2>1, <2>2, <2>3, <2>4 DEF CallSound
  <2>5. CASE ~(call'[k].pc = call[k].pc /\ call'[k].id = call[k].id)
    BY <2>1, <2>5 DEF CallSound
  <2> QED
    BY <2>4, <2>5
<1>4. FormSound'
  BY FS_EmptySet DEF FormSound
<1>5. ASSUME NEW l \in Lines, Trusted(l)' PROVE OnItsWay(l)'
  <2>1. OnItsWay(l)
    BY <1>5 DEF LinesSound, Trusted
  <2>2. \A k \in Calls : Sent(k, l)' => Sent(k, l) /\ call'[k].id = call[k].id
    BY DEF Sent
  <2>3. \A k \in Calls : l \in call'[k].rest /\ call'[k].waits # "nobody" =>
          l \in call[k].rest /\ call[k].waits # "nobody"
    OBVIOUS
  <2> QED
    BY <2>1, <2>2, <2>3 DEF OnItsWay
<1> QED
  BY <1>1, <1>2, <1>3, <1>4, <1>5 DEF LinesSound

\* A form that was let go of answers for nothing.
LEMMA LetGoCovers == ASSUME OnceInv, CoverInv, LetGo PROVE CoverInv'
<1> USE DEF CoverInv, LetGo, Blank
<1>1. \A k \in Calls : call'[k].waits # "form"
  OBVIOUS
<1>2. ExactRecorded' /\ KeptCovers' /\ Distinct(lines)'
  BY DEF ExactRecorded, KeptCovers, Distinct
<1> QED
  BY <1>1, <1>2

-----------------------------------------------------------------------------
(* Submitting.                                                             *)

\* When nothing is awaited, a line of the form is out, or recorded, only under
\* the request id that the form keeps.
LEMMA QuietLine ==
    ASSUME OnceInv, ~Busy, NEW l \in lines \ settled, Trusted(l)
    PROVE  /\ \A k \in Calls : Sent(k, l) => call[k].id = request
           /\ recorded[l] > 0 => \E k \in Calls :
                call[k].pc = "recorded" /\ l \in call[k].lines /\ call[k].id = request
           /\ \A k \in Calls : l \in call[k].rest => call[k].waits = "nobody"
           /\ recorded[l] > 0 => request # None /\ posted[request] # None
<1> USE DEF OnceInv
<1>1. InForm(l) /\ l \in Lines
  BY DEF LinesSound, Typed
<1>2. \A k \in Calls : call[k].waits # "form"
  BY DEF Busy
<1>3. recorded[l] > 0 => \E k \in Calls :
         call[k].pc = "recorded" /\ l \in call[k].lines /\ call[k].id = request
  BY <1>1, <1>2 DEF InForm, KnownCall
<1>4. ASSUME NEW k \in Calls, call[k].pc = "recorded" PROVE call[k].id # None /\ posted[call[k].id] # None
  BY <1>4 DEF CallSound
<1>5. ASSUME NEW k \in Calls, l \in call[k].rest PROVE call[k].waits = "nobody"
  <2>1. CallSound(k) /\ call[k].waits \in {"form", "left", "nobody"}
    BY DEF Typed, CallType
  <2>2. l \in call[k].all
    BY <2>1, <1>5 DEF CallSound
  <2> QED
    BY <2>1, <2>2, <1>2 DEF CallSound
<1> QED
  BY <1>1, <1>2, <1>3, <1>4, <1>5 DEF InForm

\* What is submitted is not yet settled.
LEMMA Unsettled ==
    ASSUME OnceInv, kind \in Listed => typed \/ filled = lines,
           NEW l \in lines, Trusted(l)
    PROVE  l \notin settled
<1> SUFFICES ASSUME l \in settled PROVE FALSE
  OBVIOUS
<1>1. kind = "adjustment" /\ kind \in Listed /\ kind \notin Firm
  BY DEF OnceInv, FormSound, Listed, Firm
<1>2. l \in filled
  BY <1>1 DEF OnceInv, FormSound
<1> QED
  BY <1>1, <1>2 DEF OnceInv, FormSound, Trusted

\* The call a submission makes.
LEMMA SubmittedCall ==
    ASSUME OnceInv, NEW k \in Calls, Submit(k)
    PROVE  /\ call' \in [Calls -> CallType]
           /\ \A j \in Calls : j # k => call'[j] = call[j]
           /\ call'[k].pc = "sent" /\ call'[k].waits = "form" /\ call'[k].id = RequestId(k)
           /\ call'[k].lines = lines /\ call'[k].all = lines /\ call'[k].rest = {}
           /\ call[k].pc = "none"
           /\ RequestId(k) \in Calls
           /\ request # None => RequestId(k) = request /\ request' = request
           /\ request = None => RequestId(k) = k
           /\ kind \in Keeping => request' = RequestId(k)
           /\ kind \notin Keeping => request' = None
<1> USE DEF OnceInv, Submit
<1>1. request # None => kind \in Keeping
  BY DEF FormSound
<1>2. RequestId(k) \in Calls
  BY DEF RequestId, Typed
<1>3. /\ call[k].pc = "none"
      /\ call' = [call EXCEPT ![k] = [pc |-> "sent", waits |-> "form", id |-> RequestId(k),
                                      lines |-> lines, all |-> lines, rest |-> {}]]
  BY DEF Send
<1>4. [pc |-> "sent", waits |-> "form", id |-> RequestId(k),
       lines |-> lines, all |-> lines, rest |-> {}] \in CallType
  BY <1>2 DEF Typed, CallType
<1>5. call \in [Calls -> CallType]
  BY DEF Typed
<1> QED
  BY <1>1, <1>2, <1>3, <1>4, <1>5 DEF RequestId

\* A submission under the kept id adds no second id to a line.
LEMMA SubmitOnce == ASSUME OnceInv, NEW k \in Calls, Submit(k) PROVE OnceInv'
<1> USE DEF OnceInv
<1>1. UNCHANGED <<kind, entered, lines, filled, typed, posted, recorded, settled, doubt>>
  BY DEF Submit, database
<1>2. ~Busy /\ ~Batch /\ (kind \in Listed => typed)
  BY DEF Submit
<1>3. \A j \in Calls : call[j].waits # "form"
  BY <1>2 DEF Busy
<1>4. Typed'
  BY <1>1, SubmittedCall DEF Typed, Submit
<1>5. OneAwaited'
  BY <1>3, SubmittedCall DEF OneAwaited
<1>6. Firm \subseteq Keeping
  BY DEF Firm, Keeping
<1>7. \A j \in Calls : call[j].id # None => call[j].id # k
  BY SubmittedCall DEF CallSound
<1>8. CallSound(k)'
  <2>1. call'[RequestId(k)].pc # "none"
    BY SubmittedCall DEF FormSound
  <2> QED
    BY <1>1, <1>6, <2>1, SubmittedCall DEF CallSound, Typed
<1>9. ASSUME NEW j \in Calls, j # k PROVE CallSound(j)'
  <2>1. CallSound(j) /\ call'[j] = call[j]
    BY <1>9, SubmittedCall
  <2>2. call[j].id # None => call'[call[j].id].pc # "none"
    BY <2>1, <1>7, SubmittedCall DEF CallSound, Typed, CallType
  <2>3. kind = "adjustment" /\ request' # None /\ call[j].id = request' => call[j].lines = lines
    BY <2>1, <1>7, SubmittedCall DEF CallSound
  <2> QED
    BY <1>1, <1>3, <2>1, <2>2, <2>3, SubmittedCall DEF CallSound
<1>10. FormSound'
  <2>1. request' # None => kind \in Keeping /\ call'[request'].pc # "none"
    BY SubmittedCall DEF FormSound
  <2> QED
    BY <1>1, <1>2, <2>1 DEF FormSound, Batch
<1>11. ASSUME NEW l \in lines, Trusted(l) PROVE l \notin settled
  BY <1>2, <1>11, Unsettled
<1>12. ASSUME NEW l \in lines, Trusted(l), NEW j \in Calls, Sent(j, l)'
       PROVE  call'[j].id = RequestId(k)
  <2>1. CASE j = k
    BY <2>1, SubmittedCall
  <2>2. CASE j # k
    <3>1. Sent(j, l) /\ call'[j] = call[j]
      BY <1>12, <2>2, SubmittedCall DEF Sent
    <3>2. call[j].id = request /\ request # None
      BY <1>2, <1>11, <1>12, <3>1, QuietLine DEF CallSound, Sent
    <3> QED
      BY <3>1, <3>2, SubmittedCall
  <2> QED
    BY <2>1, <2>2
<1>13. ASSUME NEW l \in Lines, Trusted(l)' PROVE OnItsWay(l)'
  <2>1. Trusted(l) /\ OnItsWay(l)
    BY <1>1, <1>13 DEF Trusted, LinesSound
  <2>2. CASE l \notin lines
    <3>1. \A j \in Calls : Sent(j, l)' <=> Sent(j, l)
      BY <2>2, SubmittedCall DEF Sent
    <3>2. \A j \in Calls : Sent(j, l) => call'[j] = call[j]
      BY SubmittedCall DEF Sent
    <3>3. \A j \in Calls : l \in call'[j].rest /\ call'[j].waits # "nobody"
             => l \in call[j].rest /\ call[j].waits # "nobody"
      BY SubmittedCall
    <3> QED
      BY <1>1, <2>1, <3>1, <3>2, <3>3 DEF OnItsWay
  <2>3. CASE l \in lines
    <3>1. recorded[l] <= 1 /\ (recorded[l] > 0 => posted[RequestId(k)] # None)
      BY <1>2, <1>11, <2>1, <2>3, QuietLine, SubmittedCall DEF OnItsWay
    <3>2. \A j \in Calls : l \in call'[j].rest => call'[j].waits = "nobody"
      BY <1>2, <1>11, <2>1, <2>3, QuietLine, SubmittedCall
    <3> QED
      BY <1>1, <1>12, <2>1, <2>3, <3>1, <3>2 DEF OnItsWay
  <2> QED
    BY <2>2, <2>3
<1>14. ASSUME NEW l \in lines \ settled, Trusted(l)' PROVE InForm(l)'
  <2>1. Trusted(l)
    BY <1>1, <1>14 DEF Trusted
  <2>2. ASSUME NEW j \in Calls, Sent(j, l)'
        PROVE  call'[j].id = request' \/ (call'[j].waits = "form" /\ kind \notin Firm)
    <3>1. CASE kind \in Keeping
      BY <1>12, <2>1, <2>2, <3>1, SubmittedCall
    <3>2. CASE kind \notin Keeping
      <4>1. request = None
        BY <3>2 DEF FormSound
      <4>2. j = k
        <5> SUFFICES ASSUME j # k PROVE FALSE
          OBVIOUS
        <5>1. Sent(j, l)
          BY <2>2, SubmittedCall DEF Sent
        <5> QED
          BY <1>2, <2>1, <4>1, <5>1, QuietLine DEF CallSound, Sent
      <4> QED
        BY <1>6, <3>2, <4>2, SubmittedCall
    <3> QED
      BY <3>1, <3>2
  <2>3. ASSUME recorded[l] > 0 PROVE \E j \in Calls : KnownCall(j, l)'
    <3>1. PICK j \in Calls : call[j].pc = "recorded" /\ l \in call[j].lines /\ call[j].id = request
      BY <1>2, <2>1, <2>3, QuietLine
    <3>2. request # None /\ j # k
      BY <1>2, <2>1, <2>3, <3>1, QuietLine, SubmittedCall
    <3> QED
      BY <3>1, <3>2, SubmittedCall DEF KnownCall
  <2> QED
    BY <1>1, <2>2, <2>3 DEF InForm
<1> QED
  BY <1>1, <1>4, <1>5, <1>8, <1>9, <1>10, <1>13, <1>14 DEF LinesSound

\* Of lines that look different, what is sent says which.
LEMMA SentIsKnown ==
    ASSUME Typed, NEW A, NEW B, A \subseteq B, B \subseteq Lines,
           Distinct(B), Payload(A) = Payload(B)
    PROVE  A = B
<1>1. CASE kind \in Exact
  BY <1>1 DEF Exact, Payload
<1>2. CASE kind \notin Exact
  <2>1. {ContentOf[l] : l \in A} = {ContentOf[l] : l \in B}
    BY <1>2 DEF Exact, Payload
  <2>2. \A l, m \in B : ContentOf[l] = ContentOf[m] => l = m
    BY <1>2 DEF Distinct
  <2> QED
    BY <2>1, <2>2
<1> QED
  BY <1>1, <1>2

\* What is sent is never taken for an id that is not recorded.
LEMMA PayloadIsSet ==
    ASSUME NEW A \in SUBSET Lines
    PROVE  Payload(A) \in SUBSET (Contents \cup Lines) /\ Payload(A) # None
  BY DEF Payload

\* A submission answers for all lines of the form.
LEMMA SubmitCovers ==
    ASSUME OnceInv, CoverInv, NEW k \in Calls, Submit(k) PROVE CoverInv'
<1> DEFINE r == RequestId(k)
<1>1. UNCHANGED <<kind, lines, posted, recorded, replaced>> /\ late' = {}
  BY DEF Submit, database
<1>2. \A j \in Calls : call[j].waits # "form"
  BY DEF Submit, Busy
<1>3. \A j \in Calls : call[j].id # None => call[j].id # k
  BY SubmittedCall DEF OnceInv, CallSound
<1>4. posted[k] = None
  BY SubmittedCall DEF OnceInv, CallSound
<1>5. lines \subseteq Lines /\ Distinct(lines) /\ Typed
  BY DEF OnceInv, Typed, CoverInv
<1>6. r \in Calls /\ r # None
  BY SubmittedCall
<1>7. ASSUME kind \notin Exact, ~replaced, NEW j \in Calls, call'[j].id = r
      PROVE  call'[j].lines \subseteq lines
  <2>1. CASE j = k
    BY <2>1, SubmittedCall
  <2>2. CASE j # k
    <3>1. call[j].id = r /\ call'[j] = call[j]
      BY <1>7, <2>2, SubmittedCall
    <3>2. request # None /\ r = request
      BY <1>3, <1>6, <3>1, SubmittedCall
    <3> QED
      BY <1>7, <3>1, <3>2 DEF CoverInv, KeptCovers
  <2> QED
    BY <2>1, <2>2
<1>8. ASSUME kind \notin Exact, ~replaced, posted[r] # None
      PROVE  \E ls \in SUBSET lines : posted[r] = Payload(ls) /\ \A l \in ls : recorded[l] > 0
  <2>1. request # None /\ r = request
    BY <1>4, <1>8, SubmittedCall
  <2> QED
    BY <1>8, <2>1 DEF CoverInv, KeptCovers
<1>9. ASSUME posted[r] = Payload(lines), ~replaced, NEW l \in lines PROVE recorded[l] > 0
  <2>1. posted[r] # None
    BY <1>5, <1>9, PayloadIsSet
  <2>2. CASE kind \in Exact
    <3>1. posted[r] = lines
      BY <1>9, <2>2 DEF Payload, Exact
    <3> QED
      BY <1>6, <2>1, <2>2, <3>1 DEF CoverInv, ExactRecorded
  <2>3. CASE kind \notin Exact
    <3>1. PICK ls \in SUBSET lines : posted[r] = Payload(ls) /\ \A m \in ls : recorded[m] > 0
      BY <1>8, <1>9, <2>1, <2>3
    <3>2. ls = lines
      BY <1>5, <1>9, <3>1, SentIsKnown
    <3> QED
      BY <3>1, <3>2
  <2> QED
    BY <2>2, <2>3
<1>10. Covers(k)'
  <2>1. /\ call'[k].pc = "sent" /\ call'[k].id = r /\ call'[k].rest = {}
        /\ call'[k].lines = lines /\ call'[k].all = lines
    BY SubmittedCall
  <2>2. Payload(lines)' = Payload(lines)
    BY <1>1 DEF Payload
  <2>3. posted'[call'[k].id] = Payload(call[k].lines)' /\ ~replaced'
           => \A l \in lines : recorded'[l] > 0
    BY <1>1, <1>9, <2>1, <2>2 DEF Payload
  <2>4. Before(call'[k]) = {}
    BY <2>1 DEF Before
  <2>5. Distinct(call[k].lines)'
    BY <1>1, <1>5, <2>1 DEF Distinct
  <2> QED
    BY <1>1, <1>7, <2>1, <2>3, <2>4, <2>5 DEF Covers, Before
<1>11. \A j \in Calls : call'[j].waits = "form" => j = k
  BY <1>2, SubmittedCall
<1>12. KeptCovers'
  <2>1. request' = r \/ request' = None
    BY SubmittedCall
  <2> QED
    BY <1>1, <1>7, <1>8, <2>1 DEF KeptCovers, Payload
<1>13. ExactRecorded' /\ Distinct(lines)'
  BY <1>1 DEF CoverInv, ExactRecorded, Distinct
<1> QED
  BY <1>10, <1>11, <1>12, <1>13 DEF CoverInv

\* The first call of a batch.
LEMMA BatchCall ==
    ASSUME OnceInv, NEW k \in Calls, NEW m \in Lines, SubmitBatch(k, m)
    PROVE  /\ call' \in [Calls -> CallType]
           /\ \A j \in Calls : j # k => call'[j] = call[j]
           /\ call'[k].pc = "sent" /\ call'[k].waits = "form" /\ call'[k].id = k
           /\ call'[k].lines = {m} /\ call'[k].all = lines /\ call'[k].rest = lines \ {m}
           /\ call[k].pc = "none" /\ m \in lines
           /\ request = None /\ kind \in Listed
           /\ \A j \in Calls : call[j].waits # "form"
<1> USE DEF OnceInv, SubmitBatch
<1>1. /\ call[k].pc = "none"
      /\ call' = [call EXCEPT ![k] = [pc |-> "sent", waits |-> "form", id |-> k,
                                      lines |-> {m}, all |-> lines, rest |-> lines \ {m}]]
  BY DEF Send
<1>2. [pc |-> "sent", waits |-> "form", id |-> k,
       lines |-> {m}, all |-> lines, rest |-> lines \ {m}] \in CallType
  BY DEF Typed, CallType
<1>3. call \in [Calls -> CallType]
  BY DEF Typed
<1>4. request = None /\ kind \in Listed
  BY DEF Batch, FormSound
<1>5. \A j \in Calls : call[j].waits # "form"
  BY DEF Busy
<1> QED
  BY <1>1, <1>2, <1>3, <1>4, <1>5

\* A batch starts only with lines that are nowhere under way or recorded.
LEMMA BatchOnce ==
    ASSUME OnceInv, NEW k \in Calls, NEW m \in Lines, SubmitBatch(k, m) PROVE OnceInv'
<1> USE DEF OnceInv
<1>1. UNCHANGED <<kind, entered, lines, filled, typed, request, posted, recorded, settled, doubt>>
  BY DEF SubmitBatch, database, form
<1>2. ~Busy /\ filled = lines
  BY DEF SubmitBatch
<1>3. kind \in Listed /\ kind \notin Firm
  BY BatchCall DEF Listed, Firm
<1>4. Typed'
  BY <1>1, BatchCall DEF Typed, SubmitBatch
<1>5. OneAwaited'
  BY BatchCall DEF OneAwaited
<1>6. CallSound(k)'
  BY <1>1, <1>3, BatchCall DEF CallSound, Typed
<1>7. ASSUME NEW j \in Calls, j # k PROVE CallSound(j)'
  <2>1. CallSound(j) /\ call'[j] = call[j] /\ call[j].id \in Calls \cup {None}
    BY <1>7, BatchCall DEF Typed, CallType
  <2>2. call[j].id # None => call'[call[j].id].pc # "none"
    BY <2>1, BatchCall DEF CallSound
  <2> QED
    BY <1>1, <2>1, <2>2, BatchCall DEF CallSound
<1>8. FormSound'
  BY <1>1, BatchCall DEF FormSound
<1>9. ASSUME NEW l \in lines, Trusted(l)
      PROVE  /\ recorded[l] = 0
             /\ \A j \in Calls : ~Sent(j, l)
             /\ \A j \in Calls : l \in call[j].rest => call[j].waits = "nobody"
  <2>1. l \in lines \ settled
    BY <1>2, <1>9, Unsettled
  <2>2. request = None /\ recorded[l] \in Nat
    BY BatchCall DEF Typed
  <2>3. ASSUME NEW j \in Calls, Sent(j, l) PROVE FALSE
    <3>1. call[j].id = None
      BY <1>2, <1>9, <2>1, <2>2, <2>3, QuietLine
    <3> QED
      BY <2>3, <3>1 DEF CallSound, Sent
  <2> QED
    BY <1>2, <1>9, <2>1, <2>2, <2>3, QuietLine
<1>10. ASSUME NEW l \in Lines, Trusted(l)' PROVE OnItsWay(l)'
  <2>1. Trusted(l) /\ OnItsWay(l)
    BY <1>1, <1>10 DEF Trusted, LinesSound
  <2>2. CASE l \notin lines
    <3>1. \A j \in Calls : Sent(j, l)' <=> Sent(j, l)
      BY <2>2, BatchCall DEF Sent
    <3>2. \A j \in Calls : Sent(j, l) => call'[j] = call[j]
      BY BatchCall DEF Sent
    <3>3. \A j \in Calls : l \in call'[j].rest /\ call'[j].waits # "nobody"
             => l \in call[j].rest /\ call[j].waits # "nobody"
      BY <2>2, BatchCall
    <3> QED
      BY <1>1, <2>1, <3>1, <3>2, <3>3 DEF OnItsWay
  <2>3. CASE l \in lines
    <3>1. \A j \in Calls : Sent(j, l)' => j = k /\ l = m
      BY <1>9, <2>1, <2>3, BatchCall DEF Sent
    <3>2. \A j \in Calls : l \in call'[j].rest /\ call'[j].waits # "nobody" => j = k /\ l # m
      BY <1>9, <2>1, <2>3, BatchCall
    <3>3. recorded'[l] = 0
      BY <1>1, <1>9, <2>1, <2>3
    <3> QED
      BY <3>1, <3>2, <3>3 DEF OnItsWay
  <2> QED
    BY <2>2, <2>3
<1>11. ASSUME NEW l \in lines \ settled, Trusted(l)' PROVE InForm(l)'
  <2>1. Trusted(l)
    BY <1>1, <1>11 DEF Trusted
  <2>2. \A j \in Calls : Sent(j, l)' => j = k
    BY <1>9, <2>1, BatchCall DEF Sent
  <2>3. recorded'[l] = 0
    BY <1>1, <1>9, <2>1
  <2> QED
    BY <1>1, <1>3, <2>2, <2>3, BatchCall DEF InForm
<1> QED
  BY <1>1, <1>4, <1>5, <1>6, <1>7, <1>8, <1>10, <1>11 DEF LinesSound

\* The first call of a batch answers for nothing yet.
LEMMA BatchCovers ==
    ASSUME OnceInv, CoverInv, NEW k \in Calls, NEW m \in Lines, SubmitBatch(k, m)
    PROVE  CoverInv'
<1>1. UNCHANGED <<kind, lines, request, posted, recorded, replaced>> /\ late' = {}
  BY DEF SubmitBatch, database, form
<1>2. posted[k] = None
  BY BatchCall DEF OnceInv, CallSound
<1>3. Payload({m}) # None
  BY PayloadIsSet
<1>4. \A j \in Calls : call'[j].id = k => j = k
  BY BatchCall DEF OnceInv, CallSound
<1>5. Covers(k)'
  <2>1. Before(call'[k]) = {}
    BY BatchCall DEF Before
  <2>2. posted'[call'[k].id] # Payload(call[k].lines)'
    BY <1>1, <1>2, <1>3, BatchCall DEF Payload
  <2>3. Distinct(call[k].lines)'
    BY BatchCall DEF Distinct
  <2> QED
    BY <1>1, <1>4, <2>1, <2>2, <2>3, BatchCall DEF Covers, Before
<1>6. \A j \in Calls : call'[j].waits = "form" => j = k
  BY BatchCall
<1>7. KeptCovers'
  BY <1>1, BatchCall DEF KeptCovers
<1>8. ExactRecorded' /\ Distinct(lines)'
  BY <1>1 DEF CoverInv, ExactRecorded, Distinct
<1> QED
  BY <1>5, <1>6, <1>7, <1>8 DEF CoverInv

-----------------------------------------------------------------------------
(* The database.                                                           *)

\* What is recorded is what the call says, and nothing else changes.
LEMMA RecordedCall ==
    ASSUME OnceInv, NEW k \in Calls, Record(k)
    PROVE  /\ call' \in [Calls -> CallType]
           /\ \A j \in Calls : j # k => call'[j] = call[j]
           /\ call'[k].pc = "recorded" /\ call'[k].waits = call[k].waits
           /\ call'[k].id = call[k].id /\ call'[k].lines = call[k].lines
           /\ call'[k].all = call[k].all /\ call'[k].rest = call[k].rest
           /\ call[k].pc = "sent" /\ call[k].id \in Calls
           /\ posted' \in [Calls -> {None} \cup SUBSET (Contents \cup Lines)]
           /\ recorded' \in [Lines -> Nat]
           /\ posted'[call[k].id] = Payload(call[k].lines) /\ posted'[call[k].id] # None
           /\ \A j \in Calls : j # call[k].id => posted'[j] = posted[j]
           /\ \A j \in Calls : posted[j] # None => posted'[j] = posted[j]
           /\ \A l \in Lines :
                \/ recorded'[l] = recorded[l]
                \/ /\ recorded'[l] = recorded[l] + 1 /\ l \in call[k].lines
                   /\ posted[call[k].id] = None
           /\ posted[call[k].id] = None => \A l \in call[k].lines : recorded'[l] > 0
<1> USE DEF OnceInv, Record
<1>1. call \in [Calls -> CallType] /\ call[k] \in CallType
  BY DEF Typed
<1>2. call' = [call EXCEPT ![k].pc = "recorded"] /\ call[k].pc = "sent"
  OBVIOUS
<1>3. call[k].id \in Calls
  BY <1>2 DEF CallSound
<1>4. call[k].lines \in SUBSET Lines
  BY <1>1 DEF CallType
<1>5. Payload(call[k].lines) \in SUBSET (Contents \cup Lines) /\ Payload(call[k].lines) # None
  BY <1>4, PayloadIsSet
<1>6. posted \in [Calls -> {None} \cup SUBSET (Contents \cup Lines)] /\ recorded \in [Lines -> Nat]
  BY DEF Typed
<1>7. /\ call' \in [Calls -> CallType]
      /\ \A j \in Calls : j # k => call'[j] = call[j]
      /\ call'[k].pc = "recorded" /\ call'[k].waits = call[k].waits
      /\ call'[k].id = call[k].id /\ call'[k].lines = call[k].lines
      /\ call'[k].all = call[k].all /\ call'[k].rest = call[k].rest
  BY <1>1, <1>2 DEF CallType
<1> HIDE DEF OnceInv
<1>8. CASE posted[call[k].id] = None
  <2>1. /\ posted' = [posted EXCEPT ![call[k].id] = Payload(call[k].lines)]
        /\ recorded' = [l \in Lines |-> recorded[l] + IF l \in call[k].lines THEN 1 ELSE 0]
    BY <1>8
  <2>2. ASSUME NEW l \in Lines
        PROVE  /\ recorded'[l] \in Nat
               /\ l \in call[k].lines => recorded'[l] = recorded[l] + 1 /\ recorded'[l] > 0
               /\ l \notin call[k].lines => recorded'[l] = recorded[l]
    BY <1>6, <2>1
  <2>3. recorded' \in [Lines -> Nat]
    BY <2>1, <2>2
  <2> QED
    BY <1>2, <1>3, <1>4, <1>5, <1>6, <1>7, <1>8, <2>1, <2>2, <2>3
<1>9. CASE posted[call[k].id] # None
  <2>1. posted' = posted /\ recorded' = recorded /\ posted[call[k].id] = Payload(call[k].lines)
    BY <1>9
  <2> QED
    BY <1>2, <1>3, <1>5, <1>6, <1>7, <1>9, <2>1
<1> QED
  BY <1>8, <1>9

\* reserve_idempotent_request: under an id that is known nothing is recorded again.
LEMMA RecordOnce == ASSUME OnceInv, NEW k \in Calls, Record(k) PROVE OnceInv'
<1> USE DEF OnceInv
<1>1. UNCHANGED <<kind, entered, lines, filled, typed, request, settled, doubt, late, replaced>>
  BY DEF Record, form, history
<1>2. Typed'
  BY <1>1, RecordedCall DEF Typed
<1>3. \A j \in Calls :
        /\ call'[j].waits = call[j].waits /\ call'[j].id = call[j].id
        /\ call'[j].lines = call[j].lines /\ call'[j].all = call[j].all
        /\ call'[j].rest = call[j].rest
        /\ call'[j].pc # call[j].pc => j = k /\ call[j].pc = "sent" /\ call'[j].pc = "recorded"
  BY RecordedCall
<1>4. OneAwaited'
  BY <1>3 DEF OneAwaited
<1>5. ASSUME NEW j \in Calls PROVE CallSound(j)'
  <2>1. CallSound(j) /\ CallSound(k) /\ call[j].id \in Calls \cup {None}
    BY DEF Typed, CallType
  <2>2. call[j].id # None => call'[call[j].id].pc # "none"
    BY <1>3, <2>1 DEF CallSound
  <2>3. call'[j].pc = "recorded" => posted'[call'[j].id] # None
    BY <1>3, <2>1, RecordedCall DEF CallSound
  <2>4. posted'[j] # None => call'[j].pc # "none"
    <3>1. CASE j = call[k].id
      BY <1>3, <2>1, <3>1, RecordedCall DEF CallSound
    <3>2. CASE j # call[k].id
      BY <1>3, <2>1, <3>2, RecordedCall DEF CallSound
    <3> QED
      BY <3>1, <3>2
  <2>5. /\ call'[j].pc \in {"none", "over"} => call[j].pc \in {"none", "over"}
        /\ call'[j].pc \in {"sent", "recorded", "refused"} => call[j].id \in Calls
    BY <1>3, <2>1 DEF CallSound
  <2> QED
    BY <1>1, <1>3, <2>1, <2>2, <2>3, <2>4, <2>5 DEF CallSound
<1>6. FormSound'
  <2>1. \A l \in Lines \ entered : recorded'[l] = 0
    BY RecordedCall DEF FormSound, CallSound
  <2>2. request # None => call'[request].pc # "none"
    BY <1>3 DEF FormSound, Typed
  <2> QED
    BY <1>1, <2>1, <2>2 DEF FormSound
<1>7. \A l \in Lines, j \in Calls : Sent(j, l)' => Sent(j, l) /\ j # k
  BY <1>3, RecordedCall DEF Sent
<1>8. ASSUME NEW l \in Lines, Trusted(l)' PROVE OnItsWay(l)'
  <2>1. OnItsWay(l)
    BY <1>1, <1>8 DEF Trusted, LinesSound
  <2>2. l \in call[k].lines => Sent(k, l)
    BY RecordedCall DEF Sent
  <2>3. recorded[l] \in Nat /\ recorded'[l] \in Nat
    BY RecordedCall DEF Typed
  <2>4. recorded'[l] <= 1
    BY <2>1, <2>2, <2>3, RecordedCall DEF OnItsWay
  <2>5. \A i, j \in Calls : Sent(i, l)' /\ Sent(j, l)' => call'[i].id = call'[j].id
    BY <1>3, <1>7, <2>1 DEF OnItsWay
  <2>6. ASSUME NEW j \in Calls, Sent(j, l)', recorded'[l] > 0 PROVE posted'[call'[j].id] # None
    <3>1. Sent(j, l) /\ call[j].id \in Calls /\ call'[j].id = call[j].id
      BY <1>3, <1>7, <2>6 DEF CallSound, Sent
    <3>2. CASE l \in call[k].lines
      BY <2>1, <2>2, <3>1, <3>2, RecordedCall DEF OnItsWay
    <3>3. CASE l \notin call[k].lines
      BY <2>1, <2>6, <3>1, <3>3, RecordedCall DEF OnItsWay
    <3> QED
      BY <3>2, <3>3
  <2>7. ASSUME NEW j \in Calls, l \in call[j].rest, call[j].waits # "nobody"
        PROVE  recorded'[l] = 0
    BY <2>1, <2>2, <2>7, RecordedCall DEF OnItsWay
  <2> QED
    BY <1>3, <1>7, <2>1, <2>4, <2>5, <2>6, <2>7 DEF OnItsWay
<1>9. ASSUME NEW l \in lines \ settled, Trusted(l)' PROVE InForm(l)'
  <2>1. InForm(l) /\ l \in Lines
    BY <1>1, <1>9 DEF Trusted, LinesSound, Typed
  <2>2. ASSUME recorded'[l] > 0 PROVE \E j \in Calls : KnownCall(j, l)'
    <3>1. CASE recorded[l] > 0
      <4>1. PICK j \in Calls : KnownCall(j, l)
        BY <2>1, <3>1 DEF InForm
      <4>2. KnownCall(j, l)'
        BY <1>1, <1>3, <4>1 DEF KnownCall, Before
      <4> QED
        BY <4>2
    <3>2. CASE ~(recorded[l] > 0)
      <4>1. l \in call[k].lines /\ call'[k].pc = "recorded" /\ Sent(k, l)
        BY <2>1, <2>2, <3>2, RecordedCall DEF Sent
      <4>2. KnownCall(k, l)'
        BY <1>1, <1>3, <2>1, <4>1 DEF InForm, KnownCall
      <4> QED
        BY <4>2
    <3> QED
      BY <3>1, <3>2
  <2> QED
    BY <1>1, <1>3, <1>7, <2>1, <2>2 DEF InForm
<1> QED
  BY <1>1, <1>2, <1>4, <1>5, <1>6, <1>8, <1>9 DEF LinesSound

\* The answer of a call says what is recorded under its id.
LEMMA RecordCovers ==
    ASSUME OnceInv, CoverInv, NEW k \in Calls, Record(k) PROVE CoverInv'
<1>1. UNCHANGED <<kind, lines, request, late, replaced>>
  BY DEF Record, form, history
<1>2. Typed /\ \A j \in Calls : call[j] \in CallType /\ call[j].lines \subseteq Lines
  BY DEF OnceInv, Typed, CallType
<1>3. \A j \in Calls :
        /\ call'[j].waits = call[j].waits /\ call'[j].id = call[j].id
        /\ call'[j].lines = call[j].lines /\ call'[j].all = call[j].all
        /\ call'[j].rest = call[j].rest
        /\ call'[j].pc # call[j].pc => j = k
  BY RecordedCall
<1>4. \A l \in Lines : recorded[l] > 0 => recorded'[l] > 0
  BY <1>2, RecordedCall DEF Typed
<1>5. ASSUME NEW j \in Calls, call[j].waits = "form" PROVE Covers(j)'
  <2>1. Covers(j) /\ call[j].id \in Calls
    BY <1>2, <1>5 DEF CoverInv, OnceInv, CallSound, CallType
  <2>2. ASSUME posted'[call[j].id] = Payload(call[j].lines), ~replaced, NEW l \in call[j].lines
        PROVE  recorded'[l] > 0
    <3>1. l \in Lines
      BY <1>2
    <3>2. CASE posted[call[j].id] # None
      BY <1>4, <2>1, <2>2, <3>1, <3>2, RecordedCall DEF Covers
    <3>3. CASE posted[call[j].id] = None
      <4>1. call[j].id = call[k].id
        BY <2>1, <2>2, <3>3, <1>2, PayloadIsSet, RecordedCall
      <4>2. call[k].lines = call[j].lines
        <5>1. Payload(call[k].lines) = Payload(call[j].lines)
          BY <2>2, <4>1, RecordedCall
        <5>2. CASE kind \in Exact
          BY <5>1, <5>2 DEF Exact, Payload
        <5>3. CASE kind \notin Exact
          <6>1. call[k].lines \subseteq call[j].lines
            BY <2>1, <2>2, <4>1, <5>3 DEF Covers
          <6> QED
            BY <1>2, <2>1, <5>1, <6>1, SentIsKnown DEF Covers
        <5> QED
          BY <5>2, <5>3
      <4> QED
        BY <2>2, <3>3, <4>1, <4>2, RecordedCall
    <3> QED
      BY <3>2, <3>3
  <2>3. ASSUME call'[j].pc = "recorded" PROVE posted'[call[j].id] = Payload(call[j].lines)
    <3>1. CASE j = k
      BY <3>1, RecordedCall
    <3>2. CASE j # k
      <4>1. posted[call[j].id] = Payload(call[j].lines) /\ posted[call[j].id] # None
        BY <1>2, <1>3, <2>1, <2>3, <3>2, PayloadIsSet DEF Covers
      <4> QED
        BY <2>1, <4>1, RecordedCall
    <3> QED
      BY <3>1, <3>2
  <2>4. \A ls \in SUBSET Lines : Payload(ls)' = Payload(ls)
    BY <1>1 DEF Payload
  <2>5. Payload(call[j].lines)' = Payload(call[j].lines)
    BY <1>1, <1>3 DEF Payload
  <2>6. \A l \in Before(call[j]) : l \in Lines
    BY <1>2 DEF Before, CallType
  <2>7. Before(call'[j]) = Before(call[j])
    BY <1>3 DEF Before
  <2>8. Distinct(call[j].lines)'
    BY <1>1, <1>3, <2>1 DEF Distinct, Covers
  <2>9. ~replaced => \A l \in Before(call[j]) : recorded'[l] > 0
    BY <1>4, <2>1, <2>6 DEF Covers
  <2> QED
    BY <1>1, <1>3, <2>1, <2>2, <2>3, <2>5, <2>7, <2>8, <2>9 DEF Covers, Before
<1>6. KeptCovers'
  <2> SUFFICES ASSUME kind \notin Exact, request # None, ~replaced PROVE KeptCovers'
    BY <1>1 DEF KeptCovers
  <2>1. /\ \A j \in Calls : call[j].id = request => call[j].lines \subseteq lines
        /\ posted[request] # None =>
             \E ls \in SUBSET lines : posted[request] = Payload(ls) /\ \A l \in ls : recorded[l] > 0
    BY DEF CoverInv, KeptCovers
  <2>2. request \in Calls /\ lines \subseteq Lines
    BY <1>2 DEF Typed
  <2>3. \A ls \in SUBSET lines : (posted[request] = Payload(ls) => posted[request] # None)
    BY <2>2, PayloadIsSet
  <2>4. ASSUME posted'[request] # None
        PROVE  \E ls \in SUBSET lines : posted'[request] = Payload(ls) /\ \A l \in ls : recorded'[l] > 0
    <3>1. CASE posted[request] # None
      <4>1. PICK ls \in SUBSET lines : posted[request] = Payload(ls) /\ \A l \in ls : recorded[l] > 0
        BY <2>1, <3>1
      <4>2. posted'[request] = Payload(ls) /\ \A l \in ls : recorded'[l] > 0
        BY <1>4, <2>2, <3>1, <4>1, RecordedCall
      <4> QED
        BY <4>2
    <3>2. CASE posted[request] = None
      <4>1. request = call[k].id
        BY <2>2, <2>4, <3>2, RecordedCall
      <4>2. /\ call[k].lines \in SUBSET lines /\ posted'[request] = Payload(call[k].lines)
            /\ \A l \in call[k].lines : recorded'[l] > 0
        BY <2>1, <3>2, <4>1, RecordedCall
      <4> QED
        BY <4>2
    <3> QED
      BY <3>1, <3>2
  <2> QED
    BY <1>1, <1>3, <2>1, <2>4 DEF KeptCovers, Payload
<1>7. ExactRecorded'
  <2> SUFFICES ASSUME kind \in Exact, NEW j \in Calls, posted'[j] # None
               PROVE  posted'[j] \subseteq Lines /\ \A l \in posted'[j] : recorded'[l] > 0
    BY <1>1 DEF ExactRecorded
  <2>1. posted[j] # None => posted[j] \subseteq Lines /\ \A l \in posted[j] : recorded[l] > 0
    BY DEF CoverInv, ExactRecorded
  <2>2. Payload(call[k].lines) = call[k].lines
    BY DEF Payload, Exact
  <2>3. CASE posted[j] # None
    BY <1>4, <2>1, <2>3, RecordedCall
  <2>4. CASE posted[j] = None
    BY <1>2, <2>2, <2>4, RecordedCall
  <2> QED
    BY <2>3, <2>4
<1>8. Distinct(lines)'
  BY <1>1 DEF CoverInv, Distinct
<1> QED
  BY <1>3, <1>5, <1>6, <1>7, <1>8 DEF CoverInv

\* A refusal records nothing.
LEMMA RejectOnce == ASSUME OnceInv, NEW k \in Calls, Reject(k) PROVE OnceInv'
<1> USE DEF OnceInv
<1>1. UNCHANGED <<kind, entered, lines, filled, typed, request, posted, recorded,
                  settled, doubt, late, replaced>>
  BY DEF Reject, form, database, history
<1>2. /\ call' \in [Calls -> CallType]
      /\ \A j \in Calls :
           /\ call'[j].waits = call[j].waits /\ call'[j].id = call[j].id
           /\ call'[j].lines = call[j].lines /\ call'[j].all = call[j].all
           /\ call'[j].rest = call[j].rest
           /\ call'[j].pc = call[j].pc \/ (call[j].pc = "sent" /\ call'[j].pc = "refused")
  BY DEF Reject, Typed, CallType
<1>3. Typed' /\ OneAwaited'
  BY <1>1, <1>2 DEF Typed, OneAwaited
<1>4. ASSUME NEW j \in Calls PROVE CallSound(j)'
  <2>1. CallSound(j) /\ call[j].id \in Calls \cup {None}
    BY DEF Typed, CallType
  <2>2. call[j].id # None => call'[call[j].id].pc # "none"
    BY <1>2, <2>1 DEF CallSound
  <2> QED
    BY <1>1, <1>2, <2>1, <2>2 DEF CallSound
<1>5. FormSound'
  <2>1. request # None => call'[request].pc # "none"
    BY <1>2 DEF FormSound, Typed
  <2> QED
    BY <1>1, <2>1 DEF FormSound
<1>6. \A l \in Lines, j \in Calls : Sent(j, l)' => Sent(j, l)
  BY <1>2 DEF Sent
<1>7. ASSUME NEW l \in Lines, Trusted(l)' PROVE OnItsWay(l)'
  <2>1. OnItsWay(l)
    BY <1>1, <1>7 DEF Trusted, LinesSound
  <2> QED
    BY <1>1, <1>2, <1>6, <2>1 DEF OnItsWay
<1>8. ASSUME NEW l \in lines \ settled, Trusted(l)' PROVE InForm(l)'
  <2>1. InForm(l) /\ l \in Lines
    BY <1>1, <1>8 DEF Trusted, LinesSound, Typed
  <2>2. \A j \in Calls : KnownCall(j, l) => KnownCall(j, l)'
    BY <1>1, <1>2 DEF KnownCall, Before
  <2> QED
    BY <1>1, <1>2, <1>6, <2>1, <2>2 DEF InForm
<1> QED
  BY <1>1, <1>3, <1>4, <1>5, <1>7, <1>8 DEF LinesSound

\* Calls that go on as they are, or drop what they carried, and nobody newly
\* awaited, cover what they covered.
LEMMA FewerCallsCover ==
    ASSUME OnceInv, CoverInv,
           UNCHANGED <<kind, lines, request, posted, recorded, late, replaced>>,
           \A j \in Calls :
             /\ call'[j].id \in {None, call[j].id} /\ call'[j].lines \subseteq call[j].lines
             /\ call'[j].waits = "form" =>
                  /\ call[j].waits = "form" /\ call'[j].id = call[j].id
                  /\ call'[j].lines = call[j].lines /\ call'[j].all = call[j].all
                  /\ call'[j].rest = call[j].rest
                  /\ call'[j].pc = "recorded" => call[j].pc = "recorded"
    PROVE  CoverInv'
<1> USE DEF CoverInv
<1>1. ASSUME NEW j \in Calls, call'[j].waits = "form" PROVE Covers(j)'
  <2>1. Covers(j) /\ call[j].id # None
    BY <1>1 DEF OnceInv, CallSound, Typed, CallType
  <2>2. Before(call'[j]) = Before(call[j]) /\ Payload(call[j].lines)' = Payload(call[j].lines)
    BY <1>1 DEF Before, Payload
  <2>3. Distinct(call[j].lines)'
    BY <1>1, <2>1 DEF Distinct, Covers
  <2> QED
    BY <1>1, <2>1, <2>2, <2>3 DEF Covers, Before
<1>2. KeptCovers'
  BY DEF KeptCovers, Payload
<1>3. ExactRecorded' /\ Distinct(lines)'
  BY DEF ExactRecorded, Distinct
<1> QED
  BY <1>1, <1>2, <1>3

\* A refused call answers for nothing more.
LEMMA RejectCovers ==
    ASSUME OnceInv, CoverInv, NEW k \in Calls, Reject(k) PROVE CoverInv'
<1>1. UNCHANGED <<kind, lines, request, posted, recorded, late, replaced>>
  BY DEF Reject, form, database, history
<1>2. \A j \in Calls :
        /\ call'[j].waits = call[j].waits /\ call'[j].id = call[j].id
        /\ call'[j].lines = call[j].lines /\ call'[j].all = call[j].all
        /\ call'[j].rest = call[j].rest
        /\ call'[j].pc = "recorded" => call[j].pc = "recorded"
  BY DEF Reject, OnceInv, Typed, CallType
<1> QED
  BY <1>1, <1>2, FewerCallsCover

-----------------------------------------------------------------------------
(* The answer.                                                             *)

\* A call that is over carries nothing.
LEMMA EndedCall ==
    ASSUME OnceInv, NEW k \in Calls, call' = End(k)
    PROVE  /\ call' \in [Calls -> CallType]
           /\ \A j \in Calls : j # k => call'[j] = call[j]
           /\ call'[k].pc = "over" /\ call'[k].waits = "nobody" /\ call'[k].id = None
           /\ call'[k].lines = {} /\ call'[k].all = {} /\ call'[k].rest = {}
<1>1. [NoCall EXCEPT !.pc = "over"] =
        [pc |-> "over", waits |-> "nobody", id |-> None, lines |-> {}, all |-> {}, rest |-> {}]
  BY DEF NoCall
<1>2. call \in [Calls -> CallType]
  BY DEF OnceInv, Typed
<1> QED
  BY <1>1, <1>2 DEF End, CallType

\* Nothing is under way that was not, when a call ends.
LEMMA EndedOnItsWay ==
    ASSUME OnceInv, NEW k \in Calls, call' = End(k), UNCHANGED <<posted, recorded>>,
           NEW l \in Lines, Trusted(l)
    PROVE  OnItsWay(l)'
<1>1. OnItsWay(l)
  BY DEF OnceInv, LinesSound
<1>2. \A j \in Calls : Sent(j, l)' => Sent(j, l) /\ call'[j] = call[j]
  BY EndedCall DEF Sent
<1>3. \A j \in Calls : l \in call'[j].rest => call'[j] = call[j]
  BY EndedCall
<1> QED
  BY <1>1, <1>2, <1>3 DEF OnItsWay

\* Calls stay sound when one of them ends and the form stays.
LEMMA EndedSound ==
    ASSUME OnceInv, NEW k \in Calls, call' = End(k), call[k].pc # "none",
           UNCHANGED <<kind, entered, lines, request, posted>>
    PROVE  OneAwaited' /\ \A j \in Calls : CallSound(j)'
<1> USE DEF OnceInv
<1>1. OneAwaited'
  BY EndedCall DEF OneAwaited
<1>2. CallSound(k)'
  BY EndedCall DEF CallSound, Typed
<1>3. ASSUME NEW j \in Calls, j # k PROVE CallSound(j)'
  <2>1. CallSound(j) /\ call'[j] = call[j] /\ call[j].id \in Calls \cup {None}
    BY <1>3, EndedCall DEF Typed, CallType
  <2>2. call[j].id # None => call'[call[j].id].pc # "none"
    BY <2>1, EndedCall DEF CallSound
  <2> QED
    BY <2>1, <2>2 DEF CallSound
<1> QED
  BY <1>1, <1>2, <1>3

\* The form is as sound after the end of a call as before.
LEMMA EndedForm ==
    ASSUME OnceInv, NEW k \in Calls, call' = End(k),
           UNCHANGED <<kind, entered, lines, filled, typed, request, recorded, settled>>,
           doubt \subseteq doubt'
    PROVE  FormSound'
<1>1. request # None => call'[request].pc # "none"
  BY EndedCall DEF OnceInv, FormSound, Typed
<1> QED
  BY <1>1 DEF OnceInv, FormSound

\* A call that nobody waits for ends without effect on the form.
LEMMA UnheardOnce == ASSUME OnceInv, NEW k \in Calls, Unheard(k) PROVE OnceInv'
<1> USE DEF OnceInv
<1>1. /\ UNCHANGED <<kind, entered, lines, filled, typed, request, posted, recorded,
                     settled, doubt, late, replaced>>
      /\ call' = End(k) /\ call[k].waits = "left" /\ call[k].pc # "none"
  BY DEF Unheard, form, database, history
<1>2. Typed'
  BY <1>1, EndedCall DEF Typed
<1>3. OneAwaited' /\ (\A j \in Calls : CallSound(j)') /\ FormSound'
  BY <1>1, EndedSound, EndedForm
<1>4. ASSUME NEW l \in Lines, Trusted(l)' PROVE OnItsWay(l)'
  BY <1>1, <1>4, EndedOnItsWay DEF Trusted
<1>5. ASSUME NEW l \in lines \ settled, Trusted(l)' PROVE InForm(l)'
  <2>1. InForm(l) /\ l \in Lines
    BY <1>1, <1>5 DEF Trusted, LinesSound, Typed
  <2>2. l \notin call[k].lines
    BY <1>1 DEF CallSound
  <2>3. \A j \in Calls : KnownCall(j, l) => KnownCall(j, l)'
    BY <1>1, <2>2, EndedCall DEF KnownCall, Before
  <2>4. \A j \in Calls : Sent(j, l)' => Sent(j, l) /\ call'[j] = call[j]
    BY EndedCall, <1>1 DEF Sent
  <2> QED
    BY <1>1, <2>1, <2>3, <2>4 DEF InForm
<1> QED
  BY <1>1, <1>2, <1>3, <1>4, <1>5 DEF LinesSound

\* What a refused batch has recorded before is in doubt from then on.
LEMMA RefusedOnce == ASSUME OnceInv, NEW k \in Calls, Refused(k) PROVE OnceInv'
<1> USE DEF OnceInv
<1>1. /\ UNCHANGED <<kind, entered, lines, filled, typed, request, posted, recorded,
                     settled, late, replaced>>
      /\ call' = End(k) /\ call[k].waits = "form" /\ call[k].pc = "refused"
      /\ doubt' = doubt \cup Before(call[k])
  BY DEF Refused, Awaited, form, database
<1>2. call[k] \in CallType /\ Before(call[k]) \subseteq Lines
  BY DEF Typed, CallType, Before
<1>3. Typed'
  BY <1>1, <1>2, EndedCall DEF Typed
<1>4. OneAwaited' /\ (\A j \in Calls : CallSound(j)') /\ FormSound'
  BY <1>1, EndedSound, EndedForm
<1>5. ASSUME NEW l \in Lines, Trusted(l)' PROVE OnItsWay(l)'
  BY <1>1, <1>5, EndedOnItsWay DEF Trusted
<1>6. ASSUME NEW l \in lines \ settled, Trusted(l)' PROVE InForm(l)'
  <2>1. InForm(l) /\ l \in Lines
    BY <1>1, <1>6 DEF Trusted, LinesSound, Typed
  <2>2. l \notin Before(call[k])
    <3>1. CASE kind \in Firm
      <4>1. kind \notin Listed
        BY <3>1 DEF Firm, Listed
      <4> QED
        BY <4>1 DEF CallSound, Before
    <3>2. CASE kind \notin Firm
      BY <1>1, <1>6, <3>2 DEF Trusted
    <3> QED
      BY <3>1, <3>2
  <2>3. \A j \in Calls : KnownCall(j, l) => KnownCall(j, l)'
    BY <1>1, <2>2, EndedCall DEF KnownCall, Before
  <2>4. \A j \in Calls : Sent(j, l)' => Sent(j, l) /\ call'[j] = call[j]
    BY EndedCall, <1>1 DEF Sent
  <2> QED
    BY <1>1, <2>1, <2>3, <2>4 DEF InForm
<1> QED
  BY <1>1, <1>3, <1>4, <1>5, <1>6 DEF LinesSound

\* A call that ended without success takes nothing with it.
LEMMA EndedCovers ==
    ASSUME OnceInv, CoverInv, NEW k \in Calls, Unheard(k) \/ Refused(k) PROVE CoverInv'
<1>1. /\ UNCHANGED <<kind, lines, request, posted, recorded, late, replaced>>
      /\ call' = End(k)
  BY DEF Unheard, Refused, form, database, history
<1> QED
  BY <1>1, EndedCall, FewerCallsCover

\* After a lost answer a line is under the id the form keeps, or in doubt.
LEMMA LoseOnce == ASSUME OnceInv, NEW k \in Calls, Lose(k) PROVE OnceInv'
<1> USE DEF OnceInv
<1>1. UNCHANGED <<kind, entered, lines, filled, typed, request, posted, recorded,
                  settled, late, replaced>>
  BY DEF Lose, form, database
<1>2. /\ call' \in [Calls -> CallType]
      /\ \A j \in Calls :
           /\ call'[j].pc = call[j].pc /\ call'[j].id = call[j].id
           /\ call'[j].lines = call[j].lines /\ call'[j].all = call[j].all
           /\ call'[j].rest = call[j].rest
           /\ call'[j].waits = IF j = k THEN "nobody" ELSE call[j].waits
  BY DEF Lose, Typed, CallType
<1>3. /\ call[k] \in CallType /\ call[k].pc \in {"sent", "recorded", "refused"}
      /\ doubt' = doubt \cup Before(call[k])
                  \cup (IF kind \in Keeping /\ call[k].id = request THEN {} ELSE call[k].lines)
  BY DEF Lose, Typed, Unanswered
<1>4. Typed'
  BY <1>1, <1>2, <1>3 DEF Typed, CallType, Before
<1>5. OneAwaited'
  BY <1>2 DEF OneAwaited
<1>6. ASSUME NEW j \in Calls PROVE CallSound(j)'
  <2>1. CallSound(j) /\ call[j].id \in Calls \cup {None}
    BY DEF Typed, CallType
  <2>2. call[j].id # None => call'[call[j].id].pc # "none"
    BY <1>2, <2>1 DEF CallSound
  <2> QED
    BY <1>1, <1>2, <1>3, <2>1, <2>2 DEF CallSound
<1>7. FormSound'
  <2>1. request # None => call'[request].pc # "none"
    BY <1>2 DEF FormSound, Typed
  <2> QED
    BY <1>1, <1>3, <2>1 DEF FormSound
<1>8. \A l \in Lines, j \in Calls : Sent(j, l)' <=> Sent(j, l)
  BY <1>2 DEF Sent
<1>9. ASSUME NEW l \in Lines, Trusted(l)' PROVE OnItsWay(l)'
  <2>1. OnItsWay(l)
    BY <1>1, <1>3, <1>9 DEF Trusted, LinesSound
  <2> QED
    BY <1>1, <1>2, <1>8, <2>1 DEF OnItsWay
<1>10. ASSUME NEW l \in lines \ settled, Trusted(l)' PROVE InForm(l)'
  <2>1. InForm(l) /\ l \in Lines /\ CallSound(k)
    BY <1>1, <1>3, <1>10 DEF Trusted, LinesSound, Typed
  <2>2. ASSUME call[k].waits = "form"
        PROVE  l \notin Before(call[k]) /\ (l \in call[k].lines => call[k].id = request)
    <3>1. CASE kind \in Firm
      <4>1. kind \notin Listed
        BY <3>1 DEF Firm, Listed
      <4> QED
        BY <2>1, <2>2, <3>1, <4>1 DEF CallSound, Before
    <3>2. CASE kind \notin Firm
      BY <1>1, <1>3, <1>10, <3>2 DEF Trusted
    <3> QED
      BY <3>1, <3>2
  <2>3. \A j \in Calls : KnownCall(j, l) => KnownCall(j, l)'
    BY <1>1, <1>2, <2>2 DEF KnownCall, Before
  <2> QED
    BY <1>1, <1>2, <1>8, <2>1, <2>2, <2>3 DEF InForm, Sent
<1> QED
  BY <1>1, <1>4, <1>5, <1>6, <1>7, <1>9, <1>10 DEF LinesSound

\* A lost call answers for nothing more.
LEMMA LoseCovers ==
    ASSUME OnceInv, CoverInv, NEW k \in Calls, Lose(k) PROVE CoverInv'
<1>1. UNCHANGED <<kind, lines, request, posted, recorded, late, replaced>>
  BY DEF Lose, form, database
<1>2. \A j \in Calls :
        /\ call'[j].pc = call[j].pc /\ call'[j].id = call[j].id
        /\ call'[j].lines = call[j].lines /\ call'[j].all = call[j].all
        /\ call'[j].rest = call[j].rest
        /\ call'[j].waits \in {"nobody", call[j].waits}
  BY DEF Lose, OnceInv, Typed, CallType
<1> QED
  BY <1>1, <1>2, FewerCallsCover

\* The loop takes the next line of its batch.
LEMMA NextCall ==
    ASSUME OnceInv, NEW k \in Calls, NEW j \in Calls, NEW m \in Lines, Continue(k, j, m)
    PROVE  /\ j # k /\ call[j].pc = "none" /\ m \in call[k].rest
           /\ call[k].pc = "recorded" /\ call[k].waits \in {"form", "left"}
           /\ call' \in [Calls -> CallType]
           /\ \A i \in Calls : i # k /\ i # j => call'[i] = call[i]
           /\ call'[k].pc = "over" /\ call'[k].waits = "nobody" /\ call'[k].id = None
           /\ call'[k].lines = {} /\ call'[k].all = {} /\ call'[k].rest = {}
           /\ call'[j].pc = "sent" /\ call'[j].waits = call[k].waits /\ call'[j].id = j
           /\ call'[j].lines = {m} /\ call'[j].all = call[k].all
           /\ call'[j].rest = call[k].rest \ {m}
           /\ kind \in Listed /\ kind \notin Firm
           /\ call[k].waits = "form" => request = None
           /\ UNCHANGED <<kind, entered, lines, filled, typed, request, posted, recorded,
                          settled, doubt, late, replaced>>
<1> USE DEF OnceInv, Continue, Awaited
<1>1. call \in [Calls -> CallType] /\ call[k] \in CallType
  BY DEF Typed
<1>2. j # k /\ call[k].waits \in {"form", "left"}
  BY <1>1 DEF CallType
<1>3. [NoCall EXCEPT !.pc = "over"] =
        [pc |-> "over", waits |-> "nobody", id |-> None, lines |-> {}, all |-> {}, rest |-> {}]
  BY DEF NoCall
<1> DEFINE next == [pc |-> "sent", waits |-> call[k].waits, id |-> j, lines |-> {m},
                    all |-> call[k].all, rest |-> call[k].rest \ {m}]
<1>4. call' = [End(k) EXCEPT ![j] = next]
  OBVIOUS
<1>5. next \in CallType
  BY <1>1 DEF CallType
<1>6. kind \in Listed /\ kind \notin Firm
  BY DEF CallSound, Listed, Firm
<1>7. call[k].waits = "form" => request = None
  BY DEF CallSound
<1>8. UNCHANGED <<kind, entered, lines, filled, typed, request, posted, recorded,
                  settled, doubt, late, replaced>>
  BY DEF form, database, history
<1>9. /\ call' \in [Calls -> CallType] /\ call'[j] = next
      /\ call'[k] = [NoCall EXCEPT !.pc = "over"]
      /\ \A i \in Calls : i # k /\ i # j => call'[i] = call[i]
  BY <1>1, <1>2, <1>3, <1>4, <1>5 DEF End, CallType
<1> QED
  BY <1>2, <1>3, <1>6, <1>7, <1>8, <1>9

\* The next line of a batch is sent for the first time.
LEMMA ContinueOnce ==
    ASSUME OnceInv, NEW k \in Calls, NEW j \in Calls, NEW m \in Lines, Continue(k, j, m)
    PROVE  OnceInv'
<1> USE DEF OnceInv
<1>1. Typed'
  BY NextCall DEF Typed
<1>2. OneAwaited'
  BY NextCall DEF OneAwaited
<1>3. CallSound(k)'
  BY NextCall DEF CallSound, Typed
<1>4. CallSound(j)'
  <2>1. CallSound(k) /\ CallSound(j)
    OBVIOUS
  <2>2. request # j
    BY NextCall DEF FormSound
  <2> QED
    BY <2>1, <2>2, NextCall DEF CallSound
<1>5. ASSUME NEW i \in Calls, i # k, i # j PROVE CallSound(i)'
  <2>1. CallSound(i) /\ call'[i] = call[i] /\ call[i].id \in Calls \cup {None}
    BY <1>5, NextCall DEF Typed, CallType
  <2>2. call[i].id # None => call'[call[i].id].pc # "none"
    BY <2>1, NextCall DEF CallSound
  <2> QED
    BY <2>1, <2>2, NextCall DEF CallSound
<1>6. FormSound'
  <2>1. request # None => call'[request].pc # "none"
    BY NextCall DEF FormSound, Typed
  <2> QED
    BY <2>1, NextCall DEF FormSound
<1>7. \A l \in Lines, i \in Calls : Sent(i, l)' =>
         (i = j /\ l = m) \/ (Sent(i, l) /\ call'[i] = call[i])
  BY NextCall DEF Sent
<1>8. ASSUME NEW l \in Lines, Trusted(l)' PROVE OnItsWay(l)'
  <2>1. OnItsWay(l)
    BY <1>8, NextCall DEF Trusted, LinesSound
  <2>2. CASE l \in call[k].rest
    <3>1. recorded[l] = 0 /\ (\A i \in Calls : ~Sent(i, l))
      BY <2>1, <2>2, NextCall DEF OnItsWay
    <3>2. \A i \in Calls : Sent(i, l)' => i = j /\ l = m
      BY <1>7, <3>1
    <3>3. \A i \in Calls : l \in call'[i].rest /\ call'[i].waits # "nobody" => i = j /\ l # m
      BY <2>1, <2>2, NextCall DEF OnItsWay
    <3> QED
      BY <3>1, <3>2, <3>3, NextCall DEF OnItsWay
  <2>3. CASE l \notin call[k].rest
    <3>1. \A i \in Calls : Sent(i, l)' => Sent(i, l) /\ call'[i] = call[i]
      BY <1>7, <2>3, NextCall
    <3>2. \A i \in Calls : l \in call'[i].rest => call'[i] = call[i]
      BY <2>3, NextCall
    <3> QED
      BY <2>1, <3>1, <3>2, NextCall DEF OnItsWay
  <2> QED
    BY <2>2, <2>3
<1>9. ASSUME NEW l \in lines \ settled, Trusted(l)' PROVE InForm(l)'
  <2>1. InForm(l) /\ l \in Lines
    BY <1>9, NextCall DEF Trusted, LinesSound, Typed
  <2>2. l \in call[k].all => call[k].waits = "form"
    BY NextCall DEF CallSound
  <2>3. call[k].lines \cup call[k].rest \subseteq call[k].all /\ call[k].lines \cap call[k].rest = {}
    BY DEF CallSound
  <2>4. ASSUME NEW i \in Calls, Sent(i, l)'
        PROVE  call'[i].id = request \/ (call'[i].waits = "form" /\ kind \notin Firm)
    BY <1>7, <2>1, <2>2, <2>3, <2>4, NextCall DEF InForm
  <2>5. ASSUME NEW i \in Calls, KnownCall(i, l) PROVE \E n \in Calls : KnownCall(n, l)'
    <3>1. i # j
      <4>1. CallSound(j) /\ call[j].pc = "none"
        BY NextCall
      <4> QED
        BY <2>5, <4>1 DEF KnownCall, CallSound
    <3>2. CASE i # k
      <4>1. KnownCall(i, l)'
        BY <2>5, <3>1, <3>2, NextCall DEF KnownCall, Before
      <4> QED
        BY <4>1
    <3>3. CASE i = k
      <4>1. l \in call[k].all /\ l \notin call[k].rest
        BY <2>3, <2>5, <3>3 DEF KnownCall, Before
      <4>2. call'[j].waits = "form" /\ l \in Before(call'[j])
        BY <2>2, <4>1, NextCall DEF Before
      <4>3. KnownCall(j, l)'
        BY <4>2 DEF KnownCall, Before
      <4> QED
        BY <4>3
    <3> QED
      BY <3>2, <3>3
  <2> QED
    BY <2>1, <2>4, <2>5, NextCall DEF InForm
<1> QED
  BY <1>1, <1>2, <1>3, <1>4, <1>5, <1>6, <1>8, <1>9, NextCall DEF LinesSound

\* The next call answers for what the calls before it recorded.
LEMMA ContinueCovers ==
    ASSUME OnceInv, CoverInv,
           NEW k \in Calls, NEW j \in Calls, NEW m \in Lines, Continue(k, j, m)
    PROVE  CoverInv'
<1>1. posted[j] = None /\ request # j /\ \A i \in Calls : call[i].id # j
  BY NextCall DEF OnceInv, CallSound, FormSound
<1>2. ASSUME call[k].waits = "form" PROVE Covers(j)'
  <2>1. Covers(k)
    BY <1>2 DEF CoverInv
  <2>2. ~replaced => \A l \in Before(call'[j]) : recorded[l] > 0
    <3>1. \A l \in Before(call'[j]) : l \in Before(call[k]) \/ l \in call[k].lines
      BY NextCall DEF Before
    <3> QED
      BY <2>1, <3>1, NextCall DEF Covers
  <2>3. posted'[call'[j].id] # Payload(call[j].lines)'
    <3>1. call'[j].lines = {m} /\ kind' = kind /\ call'[j].id = j /\ posted' = posted
      BY NextCall
    <3>2. Payload(call[j].lines)' = Payload({m})
      BY <3>1 DEF Payload
    <3>3. Payload({m}) # None
      BY PayloadIsSet
    <3> QED
      BY <1>1, <3>1, <3>2, <3>3
  <2>4. Distinct(call[j].lines)'
    BY NextCall DEF Distinct
  <2>5. \A i \in Calls : call'[i].id = j => i = j
    BY <1>1, NextCall
  <2> QED
    BY <2>1, <2>2, <2>3, <2>4, <2>5, NextCall DEF Covers, Before
<1>3. ASSUME NEW i \in Calls, call'[i].waits = "form", i # j PROVE Covers(i)'
  <2>1. i # k /\ call'[i] = call[i] /\ Covers(i) /\ call[i].id # None
    BY <1>3, NextCall DEF CoverInv, OnceInv, CallSound, Typed, CallType
  <2>2. \A n \in Calls : call'[n].id = call[i].id => call'[n] = call[n]
    BY <1>1, <2>1, NextCall
  <2>3. Payload(call[i].lines)' = Payload(call[i].lines) /\ Before(call'[i]) = Before(call[i])
    BY <2>1, NextCall DEF Payload
  <2>4. Distinct(call[i].lines)'
    BY <2>1, NextCall DEF Distinct, Covers
  <2> QED
    BY <2>1, <2>2, <2>3, <2>4, NextCall DEF Covers, Before
<1>4. KeptCovers'
  <2>1. \A i \in Calls : call'[i].id = request /\ request # None => call'[i] = call[i]
    BY <1>1, NextCall
  <2>2. UNCHANGED <<kind, lines, request, posted, recorded, replaced>>
    BY NextCall
  <2> QED
    BY <2>1, <2>2 DEF CoverInv, KeptCovers, Payload
<1>5. ExactRecorded' /\ Distinct(lines)'
  BY NextCall DEF CoverInv, ExactRecorded, Distinct
<1> QED
  BY <1>2, <1>3, <1>4, <1>5, NextCall DEF CoverInv

\* After a success the form is empty, or it is the form of the adjustment with
\* its one line, settled.
LEMMA SucceedOnce == ASSUME OnceInv, NEW k \in Calls, Succeed(k) PROVE OnceInv'
<1> USE DEF OnceInv
<1>1. /\ UNCHANGED <<kind, entered, posted, recorded, late>>
      /\ call' = End(k) /\ call[k].waits = "form" /\ call[k].pc = "recorded"
      /\ replaced' = FALSE
      /\ request' = IF call[k].all = call[k].lines THEN None ELSE request
  BY DEF Succeed, Awaited, database
<1>2. request' = None
  BY <1>1 DEF CallSound
<1>3. \A j \in Calls : call'[j].waits # "form"
  BY <1>1, EndedCall DEF OneAwaited
<1>4. doubt \subseteq doubt'
  BY DEF Succeed
<1>5. call[k] \in CallType /\ CallSound(k)
  BY DEF Typed
<1>6. ASSUME lines' \subseteq lines, NEW j \in Calls PROVE CallSound(j)'
  <2>1. CASE j = k
    BY <1>1, <2>1, EndedCall DEF CallSound, Typed
  <2>2. CASE j # k
    <3>1. CallSound(j) /\ call'[j] = call[j] /\ call[j].id \in Calls \cup {None}
      BY <1>1, <2>2, EndedCall DEF Typed, CallType
    <3>2. call[j].id # None => call'[call[j].id].pc # "none"
      BY <1>1, <3>1, EndedCall DEF CallSound
    <3> QED
      BY <1>1, <1>2, <1>3, <1>6, <3>1, <3>2 DEF CallSound
  <2> QED
    BY <2>1, <2>2
<1>7. ASSUME NEW l \in Lines, Trusted(l)' PROVE OnItsWay(l)'
  <2>1. Trusted(l)
    BY <1>1, <1>4, <1>7 DEF Trusted
  <2> QED
    BY <1>1, <2>1, EndedOnItsWay
<1>8. CASE kind = "adjustment" /\ call[k].all = call[k].lines
  <2>1. /\ UNCHANGED <<lines, filled>> /\ typed' = FALSE
        /\ settled' = settled \cup call[k].lines
        /\ doubt' = doubt \cup (call[k].lines \cap filled)
    BY <1>8 DEF Succeed
  <2>2. Typed'
    BY <1>1, <1>2, <1>5, <2>1, EndedCall DEF Typed, CallType
  <2>3. OneAwaited' /\ \A j \in Calls : CallSound(j)'
    BY <1>3, <1>6, <2>1 DEF OneAwaited
  <2>4. FormSound'
    BY <1>1, <1>2, <1>5, <1>8, <2>1 DEF FormSound, CallSound
  <2>5. ASSUME NEW l \in lines \ settled', Trusted(l)' PROVE InForm(l)'
    <3>1. l \in lines \ settled /\ l \notin call[k].lines /\ l \in Lines /\ Trusted(l)
      BY <1>1, <1>4, <2>1, <2>5 DEF Trusted, Typed
    <3>2. InForm(l)
      BY <3>1 DEF LinesSound
    <3>3. ASSUME NEW j \in Calls, call[j].id \in Calls, l \in call[j].lines
          PROVE  call[j].id # request
      <4> SUFFICES ASSUME call[j].id = request PROVE FALSE
        OBVIOUS
      <4>1. request # None /\ call[k].id = request
        BY <1>1, <1>5, <3>3 DEF CallSound
      <4>2. lines = call[k].lines
        BY <1>5, <1>8, <4>1 DEF CallSound
      <4> QED
        BY <3>1, <4>2
    <3>4. ASSUME NEW j \in Calls PROVE ~Sent(j, l)'
      <4> SUFFICES ASSUME Sent(j, l)' PROVE FALSE
        OBVIOUS
      <4>1. j # k /\ call'[j] = call[j] /\ Sent(j, l) /\ call[j].waits # "form"
        BY <1>1, <1>3, EndedCall DEF Sent
      <4>2. call[j].id \in Calls /\ l \in call[j].lines
        BY <4>1 DEF CallSound, Sent
      <4> QED
        BY <3>2, <3>3, <4>1, <4>2 DEF InForm
    <3>5. recorded[l] = 0
      <4> SUFFICES ASSUME recorded[l] > 0 PROVE FALSE
        BY <3>1 DEF Typed
      <4>1. PICK j \in Calls : KnownCall(j, l)
        BY <3>2 DEF InForm
      <4>2. CASE call[j].waits = "form"
        <5>1. j = k /\ l \notin Before(call[k])
          BY <1>1, <1>8, <3>1, <4>2 DEF OneAwaited, Before
        <5> QED
          BY <3>1, <4>1, <5>1 DEF KnownCall
      <4>3. CASE call[j].waits # "form"
        <5>1. call[j].pc = "recorded" /\ l \in call[j].lines /\ call[j].id = request
          BY <4>1, <4>3 DEF KnownCall
        <5>2. call[j].id \in Calls
          BY <5>1 DEF CallSound
        <5> QED
          BY <3>3, <5>1, <5>2
      <4> QED
        BY <4>2, <4>3
    <3> QED
      BY <1>1, <3>4, <3>5 DEF InForm
  <2> QED
    BY <1>7, <2>1, <2>2, <2>3, <2>4, <2>5 DEF LinesSound
<1>9. CASE ~(kind = "adjustment" /\ call[k].all = call[k].lines)
  <2>1. Blank /\ UNCHANGED <<settled, doubt>>
    BY <1>9 DEF Succeed
  <2>2. Typed'
    BY <1>1, <1>2, <2>1, EndedCall DEF Typed, Blank
  <2>3. OneAwaited' /\ \A j \in Calls : CallSound(j)'
    BY <1>3, <1>6, <2>1 DEF OneAwaited, Blank
  <2>4. FormSound'
    BY <1>1, <1>2, <2>1, FS_EmptySet DEF FormSound, Blank
  <2> QED
    BY <1>7, <2>1, <2>2, <2>3, <2>4 DEF LinesSound, Blank
<1> QED
  BY <1>8, <1>9

\* After a success the form keeps no id.
LEMMA SucceedCovers ==
    ASSUME OnceInv, CoverInv, NEW k \in Calls, Succeed(k) PROVE CoverInv'
<1>1. /\ UNCHANGED <<kind, posted, recorded>>
      /\ call' = End(k) /\ call[k].waits = "form"
      /\ request' = IF call[k].all = call[k].lines THEN None ELSE request
      /\ lines' = lines \/ lines' = {}
  BY DEF Succeed, Awaited, database, Blank
<1>2. request' = None
  BY <1>1 DEF OnceInv, CallSound
<1>3. \A j \in Calls : call'[j].waits # "form"
  BY <1>1, EndedCall DEF OnceInv, OneAwaited
<1>4. KeptCovers' /\ ExactRecorded' /\ Distinct(lines)'
  BY <1>1, <1>2 DEF CoverInv, KeptCovers, ExactRecorded, Distinct
<1> QED
  BY <1>3, <1>4 DEF CoverInv

-----------------------------------------------------------------------------
(* The inductive invariant.                                                *)

\* An empty form and calls that were never made.
LEMMA InitInv == Init => OnceInv /\ CoverInv
<1> SUFFICES ASSUME Init PROVE OnceInv /\ CoverInv
  OBVIOUS
<1> USE DEF Init
<1>1. NoCall = [pc |-> "none", waits |-> "nobody", id |-> None, lines |-> {}, all |-> {}, rest |-> {}]
  BY DEF NoCall
<1>2. NoCall \in CallType
  BY <1>1 DEF CallType
<1>3. Typed /\ OneAwaited
  BY <1>1, <1>2 DEF Typed, OneAwaited
<1>4. \A k \in Calls : CallSound(k)
  BY <1>1 DEF CallSound
<1>5. FormSound
  BY FS_EmptySet DEF FormSound
<1>6. LinesSound
  BY <1>1 DEF LinesSound, OnItsWay, Sent
<1>7. CoverInv
  BY <1>1 DEF CoverInv, KeptCovers, ExactRecorded, Distinct
<1> QED
  BY <1>3, <1>4, <1>5, <1>6, <1>7 DEF OnceInv

\* Changes to the form keep the invariant.
LEMMA FormStepInv ==
    ASSUME OnceInv, CoverInv, FormStep /\ FormKeeps PROVE OnceInv' /\ CoverInv'
  BY FormStepOnce, FormStepCovers

\* So does a step that changes nothing.
LEMMA StutterInv == ASSUME OnceInv, CoverInv, UNCHANGED vars PROVE OnceInv' /\ CoverInv'
<1> USE DEF vars
<1>1. Typed' /\ OneAwaited' /\ FormSound' /\ \A k \in Calls : CallSound(k)'
  BY DEF OnceInv, Typed, OneAwaited, CallSound, FormSound
<1>2. LinesSound'
  BY DEF OnceInv, LinesSound, Trusted, OnItsWay, InForm, KnownCall, Sent, Before
<1>3. CoverInv'
  BY FewerCallsCover
<1> QED
  BY <1>1, <1>2, <1>3 DEF OnceInv

\* So does every step.
LEMMA NextInv == OnceInv /\ CoverInv /\ [Next]_vars => OnceInv' /\ CoverInv'
<1> SUFFICES ASSUME OnceInv, CoverInv, [Next]_vars PROVE OnceInv' /\ CoverInv'
  OBVIOUS
<1>1. CASE Operate
  <2>1. ASSUME NEW l \in Lines, Enter(l) \/ Pick(l) \/ Fill(l) \/ Remove(l) PROVE OnceInv' /\ CoverInv'
    BY <2>1, EnterIsFormStep, PickIsFormStep, FillIsFormStep, RemoveIsFormStep, FormStepInv
  <2>2. CASE Type \/ Edit \/ Close
    BY <2>2, TypeIsFormStep, EditIsFormStep, CloseIsFormStep, FormStepInv
  <2>3. CASE Leave
    BY <2>3, LeaveLetsGo, LetGoOnce, LetGoCovers
  <2>4. ASSUME NEW k \in Calls, Submit(k) PROVE OnceInv' /\ CoverInv'
    BY <2>4, SubmitOnce, SubmitCovers
  <2>5. ASSUME NEW k \in Calls, NEW l \in Lines, SubmitBatch(k, l) PROVE OnceInv' /\ CoverInv'
    BY <2>5, BatchOnce, BatchCovers
  <2> QED
    BY <1>1, <2>1, <2>2, <2>3, <2>4, <2>5 DEF Operate
<1>2. ASSUME NEW k \in Calls, Serve(k) PROVE OnceInv' /\ CoverInv'
  BY <1>2, RecordOnce, RecordCovers, RejectOnce, RejectCovers DEF Serve
<1>3. ASSUME NEW k \in Calls, Answer(k) PROVE OnceInv' /\ CoverInv'
  <2>1. ASSUME NEW j \in Calls, NEW l \in Lines, Continue(k, j, l) PROVE OnceInv' /\ CoverInv'
    BY <2>1, ContinueOnce, ContinueCovers
  <2>2. CASE Succeed(k)
    BY <2>2, SucceedOnce, SucceedCovers
  <2>3. CASE Unheard(k)
    BY <2>3, UnheardOnce, EndedCovers
  <2>4. CASE Refused(k)
    BY <2>4, RefusedOnce, EndedCovers
  <2>5. CASE Lose(k)
    BY <2>5, LoseOnce, LoseCovers
  <2>6. CASE LateSuccess(k)
    BY <2>6, LateSuccessLetsGo, LetGoOnce, LetGoCovers
  <2> QED
    BY <1>3, <2>1, <2>2, <2>3, <2>4, <2>5, <2>6 DEF Answer
<1>4. CASE UNCHANGED vars
  BY <1>4, StutterInv
<1> QED
  BY <1>1, <1>2, <1>3, <1>4 DEF Next

\* OnceInv and CoverInv hold of every reachable state.
THEOREM EntryInvariant == Spec => [](OnceInv /\ CoverInv)
<1>1. (OnceInv /\ CoverInv) /\ [Next]_vars => (OnceInv /\ CoverInv)'
  BY NextInv
<1> QED
  BY <1>1, InitInv, PTL DEF Spec

\* The forms, their calls and the history have their types, and a mounted form
\* awaits one call at a time.
THEOREM TypeCorrect == Spec => []TypeOK
<1>1. OnceInv => TypeOK
  BY DEF OnceInv, Typed, OneAwaited, TypeOK
<1> QED
  BY <1>1, EntryInvariant, PTL

\* What the operator entered once is recorded once, however answers are lost and
\* forms submitted again: a kept request id stands for the lines it was sent with.
THEOREM LinesAreRecordedOnce == Spec => []RecordedOnce
<1>1. OnceInv => RecordedOnce
  <2> SUFFICES ASSUME OnceInv, NEW l \in Lines, recorded[l] > 1, Trusted(l) PROVE FALSE
    BY DEF RecordedOnce, Trusted, Firm
  <2>1. recorded[l] \in Nat /\ recorded[l] <= 1
    BY DEF OnceInv, Typed, LinesSound, OnItsWay
  <2> QED
    BY <2>1
<1> QED
  BY <1>1, EntryInvariant, PTL

\* A success of the form takes out of it only what was recorded, or entered
\* while the call ran.
LEMMA SuccessClears ==
    ASSUME OnceInv, CoverInv, NEW k \in Calls, Succeed(k), NEW l \in lines \ lines'
    PROVE  recorded[l] > 0 \/ l \in late \/ replaced
<1>1. call[k].rest = {} /\ call[k].pc = "recorded" /\ Covers(k)
  BY DEF Succeed, Awaited, CoverInv
<1>2. l \in call[k].all \cup late
  BY <1>1 DEF Covers
<1>3. l \in call[k].all => l \in Before(call[k]) \/ l \in call[k].lines
  BY <1>1 DEF Before
<1> QED
  BY <1>1, <1>2, <1>3 DEF Covers

\* No other step that ends a recorded call takes a line out of the form, but the
\* late success of a return.
LEMMA OnlySuccessClears ==
    ASSUME OnceInv, CoverInv, [Next]_vars, NEW k \in Calls,
           call[k].pc = "recorded", call'[k].pc = "over"
    PROVE  Succeed(k) \/ LateSuccess(k) \/ lines' = lines
<1>1. CASE Operate
  <2>1. ASSUME NEW l \in Lines, Enter(l) \/ Pick(l) \/ Fill(l) \/ Remove(l) PROVE FALSE
    BY <2>1 DEF Enter, Pick, Fill, Remove
  <2>2. CASE Type \/ Edit \/ Close
    BY <2>2 DEF Type, Edit, Close
  <2>3. CASE Leave
    BY <2>3, LeftCalls DEF Leave
  <2>4. ASSUME NEW j \in Calls, Submit(j) PROVE FALSE
    BY <2>4, SubmittedCall
  <2>5. ASSUME NEW j \in Calls, NEW l \in Lines, SubmitBatch(j, l) PROVE FALSE
    BY <2>5, BatchCall
  <2> QED
    BY <1>1, <2>1, <2>2, <2>3, <2>4, <2>5 DEF Operate
<1>2. ASSUME NEW j \in Calls, Serve(j) PROVE lines' = lines
  BY <1>2 DEF Serve, Record, Reject, form
<1>3. ASSUME NEW j \in Calls, Answer(j)
      PROVE  Succeed(k) \/ LateSuccess(k) \/ lines' = lines
  <2>1. CASE Succeed(j)
    <3>1. j = k
      BY <2>1, EndedCall DEF Succeed
    <3> QED
      BY <2>1, <3>1
  <2>2. CASE LateSuccess(j)
    <3>1. j = k
      BY <2>2, LateSuccessLetsGo
    <3> QED
      BY <2>2, <3>1
  <2>3. CASE ~Succeed(j) /\ ~LateSuccess(j)
    BY <1>3, <2>3 DEF Answer, Continue, Unheard, Refused, Lose, form
  <2> QED
    BY <2>1, <2>2, <2>3
<1>4. CASE UNCHANGED vars
  BY <1>4 DEF vars
<1> QED
  BY <1>1, <1>2, <1>3, <1>4 DEF Next

\* No line disappears from a form unrecorded because an earlier request with the
\* same content was answered again, or because a form that was left succeeds,
\* unless that is a return.
THEOREM NoLineIsLost == Spec => NothingIsLost
<1>1. OnceInv /\ CoverInv /\ [Next]_vars =>
        [\A k \in Calls : call[k].pc = "recorded" /\ call'[k].pc = "over" =>
           \A l \in lines \ lines' :
              \/ recorded[l] > 0 \/ l \in late \/ replaced
              \/ kind = "return" /\ call[k].waits = "left"]_vars
  <2> SUFFICES ASSUME OnceInv, CoverInv, [Next]_vars, NEW k \in Calls,
                      call'[k].pc = "over", call[k].pc = "recorded", NEW l \in lines \ lines'
               PROVE  \/ recorded[l] > 0 \/ l \in late \/ replaced
                      \/ kind = "return" /\ call[k].waits = "left"
    OBVIOUS
  <2>1. Succeed(k) \/ LateSuccess(k)
    BY OnlySuccessClears
  <2>2. CASE Succeed(k)
    BY <2>2, SuccessClears
  <2>3. CASE LateSuccess(k)
    BY <2>3 DEF LateSuccess
  <2> QED
    BY <2>1, <2>2, <2>3
<1> QED
  BY <1>1, EntryInvariant, PTL DEF Spec, NothingIsLost
=============================================================================
