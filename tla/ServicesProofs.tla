---------------------------- MODULE ServicesProofs ----------------------------
(***************************************************************************)
(* What the services around the jobs guarantee, for any number of requests *)
(* and workers that overlap, fail and die anywhere: the Idempotency-Key,   *)
(* the catalog's permissions, the accounts, the targets of notifications,  *)
(* the health of the daemons, the file of history, the webhook of Graph,   *)
(* the rate limit and the stored documents. Each section shows one of      *)
(* them; the last two show that all states are typed, and that what holds  *)
(* of each service holds of it among the others.                           *)
(***************************************************************************)
EXTENDS MCServices, GraphSubscriptionProofs, FiniteSetTheorems

-----------------------------------------------------------------------------
(* Idempotency                                                             *)
(*                                                                         *)
(* Answers are real because the id a call carries, and the one a record    *)
(* holds, is that of a resource made from the body it is compared by. A    *)
(* key makes one resource because a call that has found its key free is    *)
(* alone with it until the record is there: otherwise the key is excused.  *)

Made(made, id, p) == \E x \in made : x.id = id /\ x.payload = p

\* A call that is not received yet carries nothing, and one that stores has a
\* resource to answer.
Carried ==
  \A c \in Calls :
    /\ call[c].pc = "new" => call[c].id = None /\ call[c].answer = None /\ call[c].payload = None
    /\ call[c].pc # "new" => call[c].payload \in Payloads
    /\ call[c].pc = "store" => call[c].id # None
    /\ call[c].id # None => Made(resources, call[c].id, call[c].payload)

\* So has a record.
Recorded ==
  \A k \in Keys : store[k] # None => Made(resources, store[k].response, store[k].fingerprint)

AnswerInv == TypeOK /\ Carried /\ Recorded /\ AnswersAreReal

\* A key that is not excused is worked on by one call, and by none once it
\* has its record.
Alone ==
  \A k \in Keys \ excused :
    /\ \A c, d \in InFlight(k) : c = d
    /\ store[k] # None => InFlight(k) = {}

\* Who made something stores its answer, or has stored it.
Creators ==
  /\ \A x, y \in resources : x.by = y.by => x = y
  /\ \A x \in resources :
       /\ call[x.by].pc \in {"store", "done"}
       /\ LET k == call[x.by].key IN
            k \in Keys \ excused => call[x.by].pc = "store" \/ store[k] # None

KeyInv == AnswerInv /\ Alone /\ Creators /\ OneResourcePerKey

-----------------------------------------------------------------------------
LEMMA CallFields ==
  ASSUME TypeOK, NEW c \in Calls
  PROVE  /\ call[c] \in CallState
         /\ call[c].pc \in {"new", "get", "create", "store", "done"}
         /\ call[c].key \in Keys \cup {NoKey}
         /\ call[c].payload \in Payloads \cup {None}
         /\ call[c].id \in Ids \cup {None}
         /\ call[c].answer \in Ids \cup {None, "409"}
BY DEF TypeOK, CallState

\* The four ways in which a call is rewritten.
LEMMA Rewritten ==
  ASSUME TypeOK, NEW c \in Calls, NEW r \in CallState, call' = [call EXCEPT ![c] = r]
  PROVE  /\ call' \in [Calls -> CallState]
         /\ call'[c] = r
         /\ \A d \in Calls : d # c => call'[d] = call[d]
BY DEF TypeOK

LEMMA InitKey == Init => KeyInv
BY CallAssumption
DEF Init, KeyInv, AnswerInv, TypeOK, CallState, Carried, Recorded, AnswersAreReal, Alone, InFlight,
    Creators, OneResourcePerKey

-----------------------------------------------------------------------------
(* One lemma per action                                                     *)

LEMMA ReceiveKey ==
  ASSUME KeyInv, NEW c \in Calls, NEW k \in Keys \cup {NoKey}, NEW p \in Payloads, Receive(c, k, p)
  PROVE  KeyInv'
<1> USE DEF KeyInv, AnswerInv
<1> DEFINE r == [call[c] EXCEPT !.pc = "get", !.key = k, !.payload = p]
<1>1. r \in CallState /\ call' = [call EXCEPT ![c] = r]
  BY CallFields DEF Receive, CallState
<1>2. /\ call' \in [Calls -> CallState]
      /\ call'[c] = r
      /\ \A d \in Calls : d # c => call'[d] = call[d]
  BY <1>1, Rewritten
<1>3. /\ call[c].pc = "new" /\ call[c] \in CallState
      /\ call[c].id = None /\ call[c].answer = None
  BY CallFields DEF Receive, Carried
<1>4. r.pc = "get" /\ r.payload = p /\ r.key = k /\ r.id = None /\ r.answer = None
  BY <1>3 DEF CallState
<1>5. UNCHANGED <<store, resources, excused, deaths>>
  BY DEF Receive
<1> HIDE DEF r
<1>6. AnswerInv'
  BY <1>2, <1>4, <1>5 DEF TypeOK, Carried, Recorded, AnswersAreReal
<1>7. Alone'
  BY <1>2, <1>3, <1>4, <1>5 DEF Alone, InFlight
<1>8. \A x \in resources : x.by \in Calls /\ x.by # c
  BY <1>3 DEF Creators, TypeOK, Resource
<1>9. Creators' /\ OneResourcePerKey'
  BY <1>2, <1>5, <1>8 DEF Creators, OneResourcePerKey
<1> QED
  BY <1>6, <1>7, <1>9

LEMMA GetKey ==
  ASSUME KeyInv, NEW c \in Calls, Get(c)
  PROVE  KeyInv'
<1> USE DEF KeyInv, AnswerInv
<1> DEFINE k == call[c].key
           found == k # NoKey /\ store[k] # None
           reply == IF store[k].fingerprint = call[c].payload THEN store[k].response ELSE "409"
           r == IF found THEN [call[c] EXCEPT !.pc = "done", !.answer = reply]
                ELSE [call[c] EXCEPT !.pc = "create"]
<1>1. call[c].pc = "get" /\ call[c] \in CallState /\ k \in Keys \cup {NoKey}
  BY CallFields DEF Get
<1>2. found => /\ reply \in Ids \cup {None, "409"}
               /\ reply # "409" => Made(resources, reply, call[c].payload)
  BY <1>1 DEF TypeOK, Record, Recorded
<1>3. r \in CallState /\ call' = [call EXCEPT ![c] = r]
  BY <1>1, <1>2 DEF Get, Goto, Answer, CallState, TypeOK
<1>4. /\ call' \in [Calls -> CallState]
      /\ call'[c] = r
      /\ \A d \in Calls : d # c => call'[d] = call[d]
  BY <1>3, Rewritten
<1>5. /\ r.pc = IF found THEN "done" ELSE "create"
      /\ r.key = k /\ r.payload = call[c].payload /\ r.id = call[c].id
      /\ r.answer = IF found THEN reply ELSE call[c].answer
  BY <1>1 DEF CallState
<1>6. /\ excused' \in SUBSET Keys /\ excused \subseteq excused'
      /\ ~found /\ k \in Keys /\ InFlight(k) # {} => k \in excused'
  BY <1>1, CallAssumption DEF Get, TypeOK
<1>7. UNCHANGED <<store, resources, deaths>>
  BY DEF Get
<1> HIDE DEF r, reply, found
<1>8. AnswerInv'
  <2>1. TypeOK' /\ Recorded'
    BY <1>4, <1>6, <1>7 DEF TypeOK, Recorded, Made
  <2>2. Carried'
    BY <1>1, <1>4, <1>5, <1>7 DEF Carried
  <2>3. AnswersAreReal'
    BY <1>2, <1>4, <1>5, <1>7 DEF AnswersAreReal, Made
  <2> QED
    BY <2>1, <2>2, <2>3
<1>9. Alone'
  <2> SUFFICES ASSUME NEW l \in Keys \ excused'
               PROVE  /\ \A d, e \in InFlight(l)' : d = e
                      /\ store'[l] # None => InFlight(l)' = {}
    BY DEF Alone
  <2>1. l \in Keys \ excused
    BY <1>6
  <2>2. CASE l = k /\ ~found
    <3>1. InFlight(l) = {}
      BY <1>6, <2>2
    <3>2. InFlight(l)' \subseteq {c}
      BY <1>4, <3>1 DEF InFlight
    <3> QED
      BY <1>7, <2>2, <3>2, CallAssumption DEF found
  <2>3. CASE ~(l = k /\ ~found)
    <3>1. InFlight(l)' = InFlight(l)
      BY <1>1, <1>4, <1>5, <2>3 DEF InFlight
    <3> QED
      BY <1>7, <2>1, <3>1 DEF Alone
  <2> QED
    BY <2>2, <2>3
<1>10. \A x \in resources : x.by \in Calls /\ x.by # c
  BY <1>1 DEF Creators, TypeOK, Resource
<1>11. Creators' /\ OneResourcePerKey'
  BY <1>4, <1>6, <1>7, <1>10 DEF Creators, OneResourcePerKey
<1> QED
  BY <1>8, <1>9, <1>11

LEMMA CreateKey ==
  ASSUME KeyInv, NEW c \in Calls, Create(c)
  PROVE  KeyInv'
<1> USE DEF KeyInv, AnswerInv
<1> DEFINE k == call[c].key
           new == [id |-> NewId(c), payload |-> call[c].payload, by |-> c]
<1>1. /\ call[c].pc = "create" /\ call[c] \in CallState /\ k \in Keys \cup {NoKey}
      /\ call[c].payload \in Payloads /\ NewId(c) \in Ids /\ NewId(c) # None
  BY CallFields, CallAssumption DEF Create, Carried, NewId, Ids
<1>2. UNCHANGED <<store, excused, deaths>>
  BY DEF Create
<1>3. \A x \in resources : x.by \in Calls /\ x.by # c
  BY <1>1 DEF Creators, TypeOK, Resource
<1>4. CASE \E x \in resources : x.id = NewId(c)
  <2> DEFINE r == [call[c] EXCEPT !.pc = "done", !.answer = "409"]
  <2>1. r \in CallState /\ call' = [call EXCEPT ![c] = r] /\ resources' = resources
    BY <1>1, <1>4 DEF Create, Answer, CallState, TypeOK
  <2>2. /\ call' \in [Calls -> CallState]
        /\ call'[c].pc = "done" /\ call'[c].answer = "409" /\ call'[c].key = k
        /\ call'[c].id = call[c].id /\ call'[c].payload = call[c].payload
        /\ \A d \in Calls : d # c => call'[d] = call[d]
    BY <1>1, <2>1, Rewritten DEF CallState
  <2>3. AnswerInv'
    BY <1>1, <1>2, <2>1, <2>2 DEF TypeOK, Carried, Recorded, AnswersAreReal, Made
  <2>4. Alone'
    BY <1>2, <2>2 DEF Alone, InFlight
  <2>5. Creators' /\ OneResourcePerKey'
    BY <1>2, <1>3, <2>1, <2>2 DEF Creators, OneResourcePerKey
  <2> QED
    BY <2>3, <2>4, <2>5
<1>5. CASE \A x \in resources : x.id # NewId(c)
  <2> DEFINE r == [call[c] EXCEPT !.pc = "store", !.id = NewId(c)]
  <2>1. /\ r \in CallState /\ call' = [call EXCEPT ![c] = r]
        /\ resources' = resources \cup {new}
    BY <1>1, <1>5 DEF Create, CallState, TypeOK
  <2>2. /\ call' \in [Calls -> CallState]
        /\ call'[c].pc = "store" /\ call'[c].id = NewId(c) /\ call'[c].key = k
        /\ call'[c].answer = call[c].answer /\ call'[c].payload = call[c].payload
        /\ \A d \in Calls : d # c => call'[d] = call[d]
    BY <1>1, <2>1, Rewritten DEF CallState
  <2>3. TypeOK'
    BY <1>1, <1>2, <2>1, <2>2 DEF TypeOK, Resource
  <2>4. ASSUME NEW id, NEW p, Made(resources, id, p) PROVE Made(resources', id, p)
    BY <2>1, <2>4 DEF Made
  <2>5. Made(resources', NewId(c), call[c].payload)
    <3>1. new \in resources' /\ new.id = NewId(c) /\ new.payload = call[c].payload
      BY <2>1
    <3> QED
      BY <3>1 DEF Made
  <2>6. Carried' /\ Recorded' /\ AnswersAreReal'
    <3>1. Carried' /\ Recorded'
      BY <1>1, <1>2, <2>2, <2>4, <2>5 DEF Carried, Recorded
    <3>2. ASSUME NEW d \in Calls, call'[d].answer \notin {None, "409"}
          PROVE  Made(resources', call'[d].answer, call'[d].payload)
      <4>1. Made(resources, call'[d].answer, call'[d].payload)
        BY <2>2, <3>2 DEF AnswersAreReal, Made
      <4> QED
        BY <2>4, <4>1
    <3>3. AnswersAreReal'
      BY <3>2 DEF AnswersAreReal, Made
    <3> QED
      BY <3>1, <3>3
  <2>7. Alone'
    BY <1>1, <1>2, <2>2 DEF Alone, InFlight
  <2>8. \A x \in resources : k \in Keys \ excused => call[x.by].key # k
    BY <1>1, <1>3 DEF Alone, Creators, InFlight
  <2>9. Creators'
    BY <1>2, <1>3, <2>1, <2>2 DEF Creators
  <2>10. OneResourcePerKey'
    BY <1>1, <1>2, <1>3, <2>1, <2>2, <2>8 DEF OneResourcePerKey
  <2> QED
    BY <2>3, <2>6, <2>7, <2>9, <2>10
<1> QED
  BY <1>4, <1>5

LEMMA StoreKey ==
  ASSUME KeyInv, NEW c \in Calls, Store(c)
  PROVE  KeyInv'
<1> USE DEF KeyInv, AnswerInv
<1> DEFINE k == call[c].key
           reply == call'[c].answer
<1>1. /\ call[c].pc = "store" /\ call[c] \in CallState /\ k \in Keys \cup {NoKey}
      /\ call[c].payload \in Payloads /\ call[c].id \in Ids
      /\ Made(resources, call[c].id, call[c].payload)
  BY CallFields DEF Store, Carried
<1>2. PICK a \in {call[c].id, "409"} :
         /\ call' = [call EXCEPT ![c] = [call[c] EXCEPT !.pc = "done", !.answer = a]]
         /\ k \in Keys /\ store[k] = None => a = call[c].id
  BY <1>1, CallAssumption DEF Store, Answer, TypeOK
<1> DEFINE r == [call[c] EXCEPT !.pc = "done", !.answer = a]
<1>3. r \in CallState /\ call' = [call EXCEPT ![c] = r]
  BY <1>1, <1>2 DEF CallState
<1>4. /\ call' \in [Calls -> CallState]
      /\ call'[c] = r
      /\ \A d \in Calls : d # c => call'[d] = call[d]
  BY <1>3, Rewritten
<1>5. r.pc = "done" /\ r.key = k /\ r.payload = call[c].payload /\ r.id = call[c].id /\ r.answer = a
  BY <1>1 DEF CallState
<1>6. UNCHANGED <<resources, excused, deaths>>
  BY DEF Store
<1> HIDE DEF r
<1>7. \/ k \notin Keys /\ store' = store
      \/ k \in Keys /\ store[k] # None /\ store' = store
      \/ /\ k \in Keys /\ store[k] = None
         /\ store' = [store EXCEPT ![k] = [fingerprint |-> call[c].payload,
                                           response |-> call[c].id]]
  BY <1>1, CallAssumption DEF Store
<1>8. AnswerInv'
  <2>1. TypeOK'
    BY <1>1, <1>4, <1>6, <1>7 DEF TypeOK, Record
  <2>2. Carried'
    BY <1>1, <1>4, <1>5, <1>6 DEF Carried
  <2>3. Recorded'
    BY <1>1, <1>6, <1>7 DEF Recorded, TypeOK
  <2>4. AnswersAreReal'
    BY <1>1, <1>2, <1>4, <1>5, <1>6 DEF AnswersAreReal, Made
  <2> QED
    BY <2>1, <2>2, <2>3, <2>4
<1>9. \A l : InFlight(l)' = InFlight(l) \ {c}
  BY <1>4, <1>5 DEF InFlight
<1>10. k \in Keys \ excused => InFlight(k) = {c} /\ store[k] = None
  BY <1>1 DEF Alone, InFlight
<1>11. Alone'
  <2> SUFFICES ASSUME NEW l \in Keys \ excused
               PROVE  /\ \A d, e \in InFlight(l)' : d = e
                      /\ store'[l] # None => InFlight(l)' = {}
    BY <1>6 DEF Alone
  <2>1. CASE l = k
    BY <1>9, <1>10, <2>1
  <2>2. CASE l # k
    BY <1>7, <1>9, <2>2 DEF Alone, TypeOK
  <2> QED
    BY <2>1, <2>2
<1>12. /\ \A l \in Keys \ {k} : store'[l] = store[l]
       /\ k \in Keys => store'[k] # None
  <2>1. [fingerprint |-> call[c].payload, response |-> call[c].id] # None
    BY <1>1, CallAssumption DEF Record
  <2> QED
    BY <1>7, <2>1 DEF TypeOK
<1>13. Creators'
  <2>1. \A x \in resources : x.by \in Calls
    BY DEF TypeOK, Resource
  <2> QED
    BY <1>4, <1>5, <1>6, <1>12, <2>1 DEF Creators
<1>14. OneResourcePerKey'
  <2>1. \A x \in resources : x.by \in Calls /\ call'[x.by].key = call[x.by].key
    BY <1>4, <1>5 DEF TypeOK, Resource
  <2> QED
    BY <1>6, <2>1 DEF OneResourcePerKey
<1> QED
  BY <1>8, <1>11, <1>13, <1>14

LEMMA DiesKey ==
  ASSUME KeyInv, NEW c \in Calls, Dies(c)
  PROVE  KeyInv'
<1> USE DEF KeyInv, AnswerInv
<1> DEFINE k == call[c].key
           r == [call[c] EXCEPT !.pc = "done", !.answer = None]
<1>1. call[c].pc # "new" /\ call[c] \in CallState /\ k \in Keys \cup {NoKey}
  BY CallFields DEF Dies
<1>2. r \in CallState /\ call' = [call EXCEPT ![c] = r]
  BY <1>1 DEF Dies, Answer, CallState
<1>3. /\ call' \in [Calls -> CallState]
      /\ call'[c] = r
      /\ \A d \in Calls : d # c => call'[d] = call[d]
  BY <1>2, Rewritten
<1>4. r.pc = "done" /\ r.key = k /\ r.payload = call[c].payload /\ r.id = call[c].id /\ r.answer = None
  BY <1>1 DEF CallState
<1>5. /\ UNCHANGED <<store, resources>>
      /\ excused' = excused \cup ({k} \ {NoKey})
      /\ deaths' \in 0..MaxDeaths
  BY CallAssumption DEF Dies, TypeOK
<1> HIDE DEF r
<1>6. AnswerInv'
  BY <1>1, <1>3, <1>4, <1>5 DEF TypeOK, Carried, Recorded, AnswersAreReal
<1>7. \A l : InFlight(l)' = InFlight(l) \ {c}
  BY <1>3, <1>4 DEF InFlight
<1>8. Alone'
  BY <1>5, <1>7 DEF Alone
<1>9. \A x \in resources : x.by \in Calls
  BY DEF TypeOK, Resource
<1>10. Creators'
  BY <1>1, <1>3, <1>4, <1>5, <1>9, CallAssumption DEF Creators
<1>11. OneResourcePerKey'
  BY <1>3, <1>4, <1>5, <1>9 DEF OneResourcePerKey
<1> QED
  BY <1>6, <1>8, <1>10, <1>11

-----------------------------------------------------------------------------
(* The theorems                                                             *)

LEMMA NextKey == KeyInv /\ [Next]_vars => KeyInv'
<1> SUFFICES ASSUME KeyInv, [Next]_vars PROVE KeyInv'
  OBVIOUS
<1>1. ASSUME NEW c \in Calls, NEW k \in Keys \cup {NoKey}, NEW p \in Payloads, Receive(c, k, p)
      PROVE  KeyInv'
  BY <1>1, ReceiveKey
<1>2. ASSUME NEW c \in Calls, Get(c) PROVE KeyInv'
  BY <1>2, GetKey
<1>3. ASSUME NEW c \in Calls, Create(c) PROVE KeyInv'
  BY <1>3, CreateKey
<1>4. ASSUME NEW c \in Calls, Store(c) PROVE KeyInv'
  BY <1>4, StoreKey
<1>5. ASSUME NEW c \in Calls, Dies(c) PROVE KeyInv'
  BY <1>5, DiesKey
<1>6. CASE UNCHANGED vars
  BY <1>6
  DEF vars, KeyInv, AnswerInv, TypeOK, Carried, Recorded, AnswersAreReal, Alone, InFlight, Creators,
      OneResourcePerKey, CallState, Record, Resource
<1> QED
  BY <1>1, <1>2, <1>3, <1>4, <1>5, <1>6 DEF Next

\* Every answer is the id of a resource made from the body of the call that is
\* answered, for any number of calls, keys, bodies and deaths.
THEOREM AnswersHold == Spec => []AnswersAreReal
<1>1. KeyInv => AnswersAreReal
  BY DEF KeyInv, AnswerInv
<1> QED
  BY InitKey, NextKey, <1>1, PTL DEF Spec

\* Two resources of one key need two calls that overlapped, or one that died.
THEOREM OneResourceHolds == Spec => []OneResourcePerKey
<1>1. KeyInv => OneResourcePerKey
  BY DEF KeyInv
<1> QED
  BY InitKey, NextKey, <1>1, PTL DEF Spec

-----------------------------------------------------------------------------
(* Access                                                                  *)
(*                                                                         *)
(* What a user is shown decides what he is answered: on a catalog whose    *)
(* shares and slots belong to scenarios that exist, the lists and the      *)
(* checks of the endpoints are one condition, and every request leaves     *)
(* such a catalog.                                                         *)

\* The foreign keys of the tables.
Sound ==
  /\ owner \in [Scenarios -> Users \cup {Nobody}]
  /\ shares \subseteq Rows \X Users
  /\ \A s \in SlotIds : slotOf[s] \in {Nobody} \cup Rows
  /\ slotOf = [s \in SlotIds |-> slotOf[s]]

Said(u, op, on, scoped, code) ==
  [by |-> u, op |-> op, on |-> on, scoped |-> scoped, code |-> code]

\* The scope of a request without a user_id in its path.
Anywhere == TRUE

LEMMA AnywhereIs == Anywhere \in BOOLEAN
BY DEF Anywhere

-----------------------------------------------------------------------------
(* The three places agree                                                   *)

LEMMA ListIsCheck ==
  ASSUME Sound, NEW u \in Users
  PROVE  /\ Listed(u) \subseteq Rows /\ Rows \subseteq Scenarios /\ Nobody \notin Rows
         /\ \A n \in Scenarios : n \in Listed(u) <=> CodeFor(u, n) = 200
         /\ \A n \in Scenarios : n \notin Listed(u) <=> CodeFor(u, n) = 404
<1>1. Rows \subseteq Scenarios /\ Nobody \notin Rows
  BY AccessAssumption DEF Rows
<1>2. \A n : n \in Listed(u) <=>
        n \in Rows /\ (Super(u) \/ owner[n] = u \/ <<n, u>> \in shares)
  <2>1. \A n : n \in {x[1] : x \in {y \in shares : y[2] = u}} <=> <<n, u>> \in shares
    BY DEF Sound
  <2> QED
    BY <2>1 DEF Sound, Listed
<1>3. \A n \in Scenarios : n \in Rows <=> owner[n] # Nobody
  BY DEF Rows
<1>4. \A n \in Scenarios : n \in Listed(u) => CodeFor(u, n) = 200
  BY <1>2, <1>3 DEF CodeFor
<1>5. \A n \in Scenarios : n \notin Listed(u) => CodeFor(u, n) = 404
  BY <1>2, <1>3 DEF CodeFor
<1>6. Listed(u) \subseteq Rows
  BY <1>2
<1> QED
  BY <1>1, <1>4, <1>5, <1>6

LEMMA SlotsFollow ==
  ASSUME Sound, NEW u \in Users
  PROVE  \A s \in SlotIds : s \in ListedSlots(u) <=> slotOf[s] \in Listed(u)
<1> SUFFICES ASSUME NEW s \in SlotIds PROVE s \in ListedSlots(u) <=> slotOf[s] \in Listed(u)
  OBVIOUS
<1>1. CASE slotOf[s] = Nobody
  BY <1>1, ListIsCheck DEF ListedSlots
<1>2. CASE slotOf[s] # Nobody
  <2>1. slotOf[s] \in Rows
    BY <1>2 DEF Sound
  <2>2. slotOf[s] \in Scenarios /\ owner[slotOf[s]] # Nobody
    BY <2>1 DEF Rows
  <2> QED
    BY <1>2, <2>2, ListIsCheck DEF ListedSlots, CodeFor
<1> QED
  BY <1>1, <1>2

LEMMA OwnersCheck ==
  ASSUME Sound, NEW u \in Users, NEW n \in Scenarios
  PROVE  /\ OwnerCode(u, n) \in {200, 403, 404}
         /\ OwnerCode(u, n) = 200 <=> n \in Listed(u) /\ Writable(u, n)
         /\ OwnerCode(u, n) = 404 <=> n \notin Listed(u)
         /\ OwnerCode(u, n) = 200 => n \in Rows
BY ListIsCheck DEF OwnerCode, Writable

-----------------------------------------------------------------------------
(* Answers                                                                  *)

LEMMA RightRead ==
  ASSUME Sound, NEW u \in Users, NEW op \in {"read", "read slot"}, NEW on \in SUBSET Scenarios,
         NEW scoped \in BOOLEAN, NEW code,
         scoped => (code = 200 <=> Shown(u, on) /\ on # {})
  PROVE  RightAnswer(Said(u, op, on, scoped, code))
<1> DEFINE q == Said(u, op, on, scoped, code)
<1>1. q.by = u /\ q.op = op /\ q.on = on /\ q.scoped = scoped /\ q.code = code
  BY DEF Said
<1>2. op \notin {"plan", "filter"} \cup Writes
  BY DEF Writes
<1> HIDE DEF q
<1> QED
  BY <1>1, <1>2, SlotsFollow DEF RightAnswer, q

LEMMA RightFilter ==
  ASSUME Sound, NEW u \in Users, NEW n \in Scenarios, NEW scoped \in BOOLEAN, NEW code,
         scoped => (code = 200 <=> n \in Listed(u) \/ Super(u))
  PROVE  RightAnswer(Said(u, "filter", {n}, scoped, code))
<1> DEFINE q == Said(u, "filter", {n}, scoped, code)
<1>1. q.by = u /\ q.op = "filter" /\ q.on = {n} /\ q.scoped = scoped /\ q.code = code
  BY DEF Said
<1>2. Shown(u, {n}) <=> n \in Listed(u)
  BY DEF Shown
<1> HIDE DEF q
<1> QED
  BY <1>1, <1>2, SlotsFollow DEF RightAnswer, Writes, q

LEMMA RightPlan ==
  ASSUME Sound, NEW u \in Users, NEW scoped \in BOOLEAN, NEW code,
         scoped => (code = 200 <=> Listed(u) # {})
  PROVE  RightAnswer(Said(u, "plan", {}, scoped, code))
<1> DEFINE q == Said(u, "plan", {}, scoped, code)
<1>1. q.by = u /\ q.op = "plan" /\ q.on = {} /\ q.scoped = scoped /\ q.code = code
  BY DEF Said
<1>2. "plan" \notin Writes
  BY DEF Writes
<1> HIDE DEF q
<1> QED
  BY <1>1, <1>2, SlotsFollow DEF RightAnswer, q

LEMMA RightCreate ==
  ASSUME Sound, NEW u \in Users, NEW on, NEW scoped \in BOOLEAN, NEW code
  PROVE  RightAnswer(Said(u, "create", on, scoped, code))
<1> DEFINE q == Said(u, "create", on, scoped, code)
<1>1. q.by = u /\ q.op = "create" /\ q.on = on /\ q.scoped = scoped /\ q.code = code
  BY DEF Said
<1>2. "create" \notin Writes
  BY DEF Writes
<1> HIDE DEF q
<1> QED
  BY <1>1, <1>2, SlotsFollow DEF RightAnswer, q

LEMMA RightWrite ==
  ASSUME Sound, NEW u \in Users, NEW op \in Writes, NEW on \in SUBSET Scenarios,
         NEW scoped \in BOOLEAN, NEW code,
         scoped => /\ code \in {200, 409, 500} <=> Mine(u, on) /\ on # {}
                   /\ code = 404 => ~Shown(u, on) \/ on = {}
                   /\ code = 403 => \E n \in on \cap Listed(u) : ~Writable(u, n)
  PROVE  RightAnswer(Said(u, op, on, scoped, code))
<1> DEFINE q == Said(u, op, on, scoped, code)
<1>1. q.by = u /\ q.op = op /\ q.on = on /\ q.scoped = scoped /\ q.code = code
  BY DEF Said
<1>2. op \notin {"plan", "filter", "read", "read slot"}
  BY DEF Writes
<1> HIDE DEF q
<1>3. q.scoped => /\ q.code \in {200, 409, 500} <=> Mine(q.by, q.on) /\ q.on # {}
                  /\ q.code = 404 => ~Shown(q.by, q.on) \/ q.on = {}
                  /\ q.code = 403 => \E n \in q.on \cap Listed(q.by) : ~Writable(q.by, n)
  BY <1>1
<1>4. q.op \notin {"plan", "filter", "read", "read slot"}
  BY <1>1, <1>2
<1>5. \A s \in SlotIds : s \in ListedSlots(q.by) <=> slotOf[s] \in Listed(q.by)
  BY <1>1, SlotsFollow
<1>6. RightAnswer(q)
  BY <1>3, <1>4, <1>5 DEF RightAnswer
<1> QED
  BY <1>6 DEF q

\* A request about one scenario that asks for its owner.
LEMMA RightOwner ==
  ASSUME Sound, NEW u \in Users, NEW op \in Writes, NEW n \in Scenarios,
         NEW scoped \in BOOLEAN, NEW code,
         scoped /\ OwnerCode(u, n) = 200 => code \in {200, 409, 500},
         scoped /\ OwnerCode(u, n) # 200 => code = OwnerCode(u, n)
  PROVE  RightAnswer(Said(u, op, {n}, scoped, code))
<1>1. Shown(u, {n}) <=> n \in Listed(u)
  BY DEF Shown
<1>2. Mine(u, {n}) <=> n \in Listed(u) /\ Writable(u, n)
  BY <1>1 DEF Mine
<1>3. ASSUME scoped
      PROVE  /\ code \in {200, 409, 500} <=> Mine(u, {n}) /\ {n} # {}
             /\ code = 404 => ~Shown(u, {n}) \/ {n} = {}
             /\ code = 403 => \E m \in {n} \cap Listed(u) : ~Writable(u, m)
  <2>1. CASE OwnerCode(u, n) = 200
    BY <1>1, <1>2, <1>3, <2>1, OwnersCheck
  <2>2. CASE OwnerCode(u, n) # 200
    BY <1>1, <1>2, <1>3, <2>2, OwnersCheck
  <2> QED
    BY <2>1, <2>2
<1> QED
  BY <1>3, RightWrite

\* A request about a slot that is not there.
LEMMA RightAbsent ==
  ASSUME Sound, NEW u \in Users, NEW op \in Writes, NEW scoped \in BOOLEAN, NEW code, code = 404
  PROVE  RightAnswer(Said(u, op, {}, scoped, code))
<1>1. scoped => /\ code \in {200, 409, 500} <=> Mine(u, {}) /\ {} # {}
                /\ code = 404 => ~Shown(u, {}) \/ {} = {}
                /\ code = 403 => \E n \in {} \cap Listed(u) : ~Writable(u, n)
  OBVIOUS
<1>2. {} \in SUBSET Scenarios
  OBVIOUS
<1> QED
  BY <1>1, <1>2, RightWrite

-----------------------------------------------------------------------------
(* What a request changes                                                   *)

\* The catalog is sound again, and what has changed is u's.
Right(u) == Sound' /\ Permitted(u)

LEMMA RestRight ==
  ASSUME Sound, NEW u \in Users, UNCHANGED catalog
  PROVE  Right(u)
BY DEF Right, Sound, Rows, Permitted, Touched, catalog

\* One row of scenarios is written.
LEMMA OneRow ==
  ASSUME Sound, NEW u \in Users, NEW n \in Scenarios, NEW w \in Users,
         owner' = [owner EXCEPT ![n] = w], owner[n] = Nobody \/ Writable(u, n),
         UNCHANGED <<shares, slotOf>>
  PROVE  Right(u)
<1>1. \A m \in Scenarios : owner'[m] = IF m = n THEN w ELSE owner[m]
  BY DEF Sound
<1>2. Rows \subseteq Rows'
  BY <1>1, AccessAssumption DEF Rows
<1>3. Sound'
  BY <1>2 DEF Sound
<1>4. Touched \subseteq {n}
  BY <1>1 DEF Touched
<1> QED
  BY <1>3, <1>4 DEF Right, Permitted, Touched

\* One share is written or deleted.
LEMMA OneShare ==
  ASSUME Sound, NEW u \in Users, NEW n \in Rows, NEW w \in Users,
         shares' \in {shares \cup {<<n, w>>}, shares \ {<<n, w>>}}, Writable(u, n),
         UNCHANGED <<owner, slotOf>>
  PROVE  Right(u)
<1>1. Rows' = Rows
  BY DEF Rows
<1>2. Sound'
  BY <1>1 DEF Sound
<1>3. \A m, v : m # n => (<<m, v>> \in shares' <=> <<m, v>> \in shares)
  OBVIOUS
<1>4. Touched \subseteq {n}
  BY <1>3 DEF Touched
<1> QED
  BY <1>2, <1>4 DEF Right, Permitted, Touched

\* One slot is written or deleted.
LEMMA OneSlot ==
  ASSUME Sound, NEW u \in Users, NEW s \in SlotIds, NEW n \in {Nobody} \cup Rows,
         slotOf' = [slotOf EXCEPT ![s] = n],
         slotOf[s] \in Scenarios => Writable(u, slotOf[s]),
         n \in Scenarios => Writable(u, n),
         UNCHANGED <<owner, shares>>
  PROVE  Right(u)
<1>1. Rows' = Rows
  BY DEF Rows
<1>2. \A t \in SlotIds : slotOf'[t] = IF t = s THEN n ELSE slotOf[t]
  BY DEF Sound
<1>3. Sound'
  BY <1>1, <1>2 DEF Sound
<1>4. Touched \subseteq {slotOf[s], n}
  BY <1>2 DEF Touched
<1> QED
  BY <1>3, <1>4 DEF Right, Permitted, Touched

-----------------------------------------------------------------------------
(* The requests                                                             *)

RightStep == Sound' /\ RightAnswer(answered') /\ Permitted(answered'.by)

LEMMA Answered ==
  ASSUME NEW u \in Users, NEW op, NEW on, NEW scoped, NEW code,
         Reply(u, op, on, scoped, code),
         RightAnswer(Said(u, op, on, scoped, code)), Right(u)
  PROVE  RightStep
<1>1. answered' = Said(u, op, on, scoped, code) /\ answered'.by = u
  BY DEF Reply, Said
<1> QED
  BY <1>1 DEF RightStep, Right

LEMMA ReadRight ==
  ASSUME Sound, NEW u \in Users, NEW w \in Users, NEW n \in Scenarios, ReadScenario(u, w, n)
  PROVE  RightStep
<1> DEFINE code == IF InScope(u, w) THEN CodeFor(u, n) ELSE 403
<1>1. Reply(u, "read", {n}, InScope(u, w), code) /\ UNCHANGED catalog
  BY DEF ReadScenario
<1>2. InScope(u, w) \in BOOLEAN
  BY DEF InScope
<1>3. InScope(u, w) => (code = 200 <=> Shown(u, {n}) /\ {n} # {})
  BY ListIsCheck DEF Shown
<1> HIDE DEF code
<1> QED
  BY <1>1, <1>2, <1>3, RightRead, RestRight, Answered

LEMMA ReadSlotRight ==
  ASSUME Sound, NEW u \in Users, NEW s \in SlotIds, ReadSlot(u, s)
  PROVE  RightStep
<1> DEFINE on   == IF slotOf[s] = Nobody THEN {} ELSE {slotOf[s]}
           code == IF slotOf[s] = Nobody THEN 404 ELSE CodeFor(u, slotOf[s])
<1>1. Reply(u, "read slot", on, Anywhere, code) /\ UNCHANGED catalog
  BY DEF ReadSlot, Anywhere
<1>2. on \in SUBSET Scenarios /\ (code = 200 <=> Shown(u, on) /\ on # {})
  <2>1. slotOf[s] # Nobody => slotOf[s] \in Scenarios
    BY DEF Sound, Rows
  <2> QED
    BY <2>1, ListIsCheck DEF Shown
<1> HIDE DEF on, code
<1> QED
  BY <1>1, <1>2, AnywhereIs, RightRead, RestRight, Answered

LEMMA FilterRight ==
  ASSUME Sound, NEW u \in Users, NEW n \in Scenarios, FilterSlots(u, n)
  PROVE  RightStep
<1> DEFINE code == IF {s \in ListedSlots(u) : slotOf[s] = n} = {} /\ ~Super(u)
                     THEN CodeFor(u, n) ELSE 200
<1>1. Reply(u, "filter", {n}, Anywhere, code) /\ UNCHANGED catalog
  BY DEF FilterSlots, Anywhere
<1>2. code = 200 <=> n \in Listed(u) \/ Super(u)
  BY ListIsCheck, SlotsFollow DEF ListedSlots
<1> HIDE DEF code
<1> QED
  BY <1>1, <1>2, AnywhereIs, RightFilter, RestRight, Answered

LEMMA HistoryRight ==
  ASSUME Sound, NEW u \in Users, NEW w \in Users, NEW n \in Scenarios, FilterHistory(u, w, n)
  PROVE  RightStep
<1> DEFINE code == IF ~InScope(u, w) THEN 403
                   ELSE IF ~Super(u) /\ n \notin Listed(u) THEN 404 ELSE 200
<1>1. Reply(u, "filter", {n}, InScope(u, w), code) /\ UNCHANGED catalog
  BY DEF FilterHistory
<1>2. InScope(u, w) \in BOOLEAN
  BY DEF InScope
<1>3. InScope(u, w) => (code = 200 <=> n \in Listed(u) \/ Super(u))
  OBVIOUS
<1> HIDE DEF code
<1> QED
  BY <1>1, <1>2, <1>3, RightFilter, RestRight, Answered

LEMMA PlanRight ==
  ASSUME Sound, NEW u \in Users, NEW w \in Users, ReadPlan(u, w)
  PROVE  RightStep
<1> DEFINE code == IF ~InScope(u, w) THEN 403 ELSE IF Listed(u) = {} THEN 404 ELSE 200
<1>1. Reply(u, "plan", {}, InScope(u, w), code) /\ UNCHANGED catalog
  BY DEF ReadPlan
<1>2. InScope(u, w) \in BOOLEAN
  BY DEF InScope
<1>3. InScope(u, w) => (code = 200 <=> Listed(u) # {})
  OBVIOUS
<1> HIDE DEF code
<1> QED
  BY <1>1, <1>2, <1>3, RightPlan, RestRight, Answered

LEMMA CreateRight ==
  ASSUME Sound, NEW u \in Users, NEW w \in Users, NEW n \in Scenarios, CreateScenario(u, w, n)
  PROVE  RightStep
<1> DEFINE code == IF ~InScope(u, w) THEN 403 ELSE IF owner[n] # Nobody THEN 409 ELSE 200
<1>1. Reply(u, "create", {n}, InScope(u, w), code) /\ InScope(u, w) \in BOOLEAN
  BY DEF CreateScenario, InScope
<1>2. Right(u)
  <2>1. CASE code = 200
    <3>1. owner[n] = Nobody
      BY <2>1
    <3>2. owner' = [owner EXCEPT ![n] = w] /\ UNCHANGED <<shares, slotOf>>
      BY <2>1 DEF CreateScenario
    <3> QED
      BY <3>1, <3>2, OneRow
  <2>2. CASE code # 200
    BY <2>2, RestRight DEF CreateScenario, catalog
  <2> QED
    BY <2>1, <2>2
<1> HIDE DEF code
<1> QED
  BY <1>1, <1>2, RightCreate, Answered

LEMMA EditRight ==
  ASSUME Sound, NEW u \in Users, NEW w \in Users, NEW n \in Scenarios, EditScenario(u, w, n)
  PROVE  RightStep
<1> DEFINE code == IF InScope(u, w) THEN OwnerCode(u, n) ELSE 403
<1>1. Reply(u, "edit", {n}, InScope(u, w), code) /\ InScope(u, w) \in BOOLEAN /\ UNCHANGED catalog
  BY DEF EditScenario, InScope
<1>2. /\ InScope(u, w) /\ OwnerCode(u, n) = 200 => code \in {200, 409, 500}
      /\ InScope(u, w) /\ OwnerCode(u, n) # 200 => code = OwnerCode(u, n)
      /\ "edit" \in Writes
  BY DEF Writes
<1> HIDE DEF code
<1> QED
  BY <1>1, <1>2, RightOwner, RestRight, Answered

\* Why a request that asked for the owner was let through.
LEMMA MayWrite ==
  ASSUME Sound, NEW u \in Users, NEW n \in Scenarios, OwnerCode(u, n) = 200
  PROVE  n \in Rows /\ Writable(u, n) /\ owner[n] \in Users
BY OwnersCheck DEF Sound, Rows

LEMMA GiveRight ==
  ASSUME Sound, NEW u \in Users, NEW w \in Users, NEW n \in Scenarios, GiveScenario(u, n, w)
  PROVE  RightStep
<1> DEFINE code == IF OwnerCode(u, n) # 200 THEN OwnerCode(u, n)
                   ELSE IF InScope(u, w) THEN 200 ELSE 403
<1>1. Reply(u, "give", {n}, InScope(u, w), code) /\ InScope(u, w) \in BOOLEAN
  BY DEF GiveScenario, InScope
<1>2. /\ InScope(u, w) /\ OwnerCode(u, n) = 200 => code \in {200, 409, 500}
      /\ InScope(u, w) /\ OwnerCode(u, n) # 200 => code = OwnerCode(u, n)
      /\ "give" \in Writes
  BY DEF Writes
<1>3. Right(u)
  <2>1. CASE code = 200
    <3>1. Writable(u, n)
      BY <2>1, MayWrite
    <3>2. owner' = [owner EXCEPT ![n] = w] /\ UNCHANGED <<shares, slotOf>>
      BY <2>1 DEF GiveScenario
    <3> QED
      BY <3>1, <3>2, OneRow
  <2>2. CASE code # 200
    BY <2>2, RestRight DEF GiveScenario, catalog
  <2> QED
    BY <2>1, <2>2
<1> HIDE DEF code
<1> QED
  BY <1>1, <1>2, <1>3, RightOwner, Answered

LEMMA DuplicateRight ==
  ASSUME Sound, NEW u \in Users, NEW n \in Scenarios, NEW m \in Scenarios,
         DuplicateScenario(u, n, m)
  PROVE  RightStep
<1> DEFINE code == IF OwnerCode(u, n) # 200 THEN OwnerCode(u, n)
                   ELSE IF owner[m] # Nobody THEN 409 ELSE 200
<1>1. Reply(u, "duplicate", {n}, Anywhere, code)
  BY DEF DuplicateScenario, Anywhere
<1>2. /\ OwnerCode(u, n) = 200 => code \in {200, 409, 500}
      /\ OwnerCode(u, n) # 200 => code = OwnerCode(u, n)
      /\ "duplicate" \in Writes
  BY DEF Writes
<1>3. Right(u)
  <2>1. CASE code = 200
    <3>1. PICK w \in Users : w = owner[n]
      BY <2>1, MayWrite
    <3>2. owner[m] = Nobody /\ owner' = [owner EXCEPT ![m] = w] /\ UNCHANGED <<shares, slotOf>>
      BY <2>1, <3>1 DEF DuplicateScenario
    <3> QED
      BY <3>1, <3>2, OneRow
  <2>2. CASE code # 200
    BY <2>2, RestRight DEF DuplicateScenario, catalog
  <2> QED
    BY <2>1, <2>2
<1> HIDE DEF code
<1> QED
  BY <1>1, <1>2, <1>3, AnywhereIs, RightOwner, Answered

LEMMA RenameRight ==
  ASSUME Sound, NEW u \in Users, NEW n \in Scenarios, NEW m \in Scenarios,
         RenameScenario(u, n, m)
  PROVE  RightStep
<1> DEFINE code == IF OwnerCode(u, n) # 200 THEN OwnerCode(u, n)
                   ELSE IF owner[m] # Nobody THEN 409
                   ELSE IF \E share \in shares : share[1] = n THEN 500 ELSE 200
<1>1. Reply(u, "rename", {n}, Anywhere, code)
  BY DEF RenameScenario, Anywhere
<1>2. /\ OwnerCode(u, n) = 200 => code \in {200, 409, 500}
      /\ OwnerCode(u, n) # 200 => code = OwnerCode(u, n)
      /\ "rename" \in Writes
  BY DEF Writes
<1>3. Right(u)
  <2>1. CASE code = 200
    <3>1. /\ n \in Rows /\ Writable(u, n) /\ owner[n] \in Users /\ owner[m] = Nobody /\ n # m
          /\ \A v : <<n, v>> \notin shares
      BY <2>1, MayWrite DEF RenameScenario
    <3>2. /\ \A k \in Scenarios : owner'[k] = IF k = m THEN owner[n]
                                              ELSE IF k = n THEN Nobody ELSE owner[k]
          /\ owner' \in [Scenarios -> Users \cup {Nobody}]
          /\ slotOf' = [s \in SlotIds |-> IF slotOf[s] = n THEN m ELSE slotOf[s]]
          /\ shares' = shares
      BY <2>1, <3>1 DEF RenameScenario, Sound
    <3>3. \A k \in Rows : k # n => k \in Rows'
      BY <3>1, <3>2 DEF Rows
    <3>4. m \in Rows'
      BY <3>1, <3>2, AccessAssumption DEF Rows
    <3>5. shares \subseteq Rows' \X Users
      BY <3>1, <3>3 DEF Sound
    <3>6. Sound'
      BY <3>2, <3>3, <3>4, <3>5 DEF Sound
    <3>7. Touched \subseteq {n, m}
      BY <3>2 DEF Touched
    <3> QED
      BY <3>1, <3>6, <3>7 DEF Right, Permitted, Touched
  <2>2. CASE code # 200
    BY <2>2, RestRight DEF RenameScenario, catalog
  <2> QED
    BY <2>1, <2>2
<1> HIDE DEF code
<1> QED
  BY <1>1, <1>2, <1>3, AnywhereIs, RightOwner, Answered

LEMMA DeleteRight ==
  ASSUME Sound, NEW u \in Users, NEW n \in Scenarios, DeleteScenario(u, n)
  PROVE  RightStep
<1> DEFINE code == IF OwnerCode(u, n) # 200 THEN OwnerCode(u, n)
                   ELSE IF \E s \in SlotIds : slotOf[s] = n THEN 409 ELSE 200
<1>1. Reply(u, "delete", {n}, Anywhere, code)
  BY DEF DeleteScenario, Anywhere
<1>2. /\ OwnerCode(u, n) = 200 => code \in {200, 409, 500}
      /\ OwnerCode(u, n) # 200 => code = OwnerCode(u, n)
      /\ "delete" \in Writes
  BY DEF Writes
<1>3. Right(u)
  <2>1. CASE code = 200
    <3>1. n \in Rows /\ Writable(u, n) /\ \A s \in SlotIds : slotOf[s] # n
      BY <2>1, MayWrite
    <3>2. /\ \A k \in Scenarios : owner'[k] = IF k = n THEN Nobody ELSE owner[k]
          /\ owner' \in [Scenarios -> Users \cup {Nobody}]
          /\ shares' = {x \in shares : x[1] # n} /\ slotOf' = slotOf
      BY <2>1 DEF DeleteScenario, Sound
    <3>3. \A k \in Rows : k # n => k \in Rows'
      BY <3>2 DEF Rows
    <3>4. Sound'
      BY <3>1, <3>2, <3>3 DEF Sound
    <3>5. Touched \subseteq {n}
      <4>1. \A k, v : k # n => (<<k, v>> \in shares' <=> <<k, v>> \in shares)
        BY <3>2
      <4> QED
        BY <3>2, <4>1 DEF Touched
    <3> QED
      BY <3>1, <3>4, <3>5 DEF Right, Permitted, Touched
  <2>2. CASE code # 200
    BY <2>2, RestRight DEF DeleteScenario, catalog
  <2> QED
    BY <2>1, <2>2
<1> HIDE DEF code
<1> QED
  BY <1>1, <1>2, <1>3, AnywhereIs, RightOwner, Answered

LEMMA ShareRight ==
  ASSUME Sound, NEW u \in Users, NEW w \in Users, NEW n \in Scenarios,
         NEW op \in {"share", "unshare"}, Reply(u, op, {n}, TRUE, OwnerCode(u, n)),
         shares' \in IF OwnerCode(u, n) = 200
                       THEN {shares \cup {<<n, w>>}, shares \ {<<n, w>>}} ELSE {shares},
         UNCHANGED <<owner, slotOf>>
  PROVE  RightStep
<1> DEFINE code == OwnerCode(u, n)
<1>1. Reply(u, op, {n}, Anywhere, code) /\ op \in Writes
  BY DEF Anywhere, Writes
<1>2. /\ OwnerCode(u, n) = 200 => code \in {200, 409, 500}
      /\ OwnerCode(u, n) # 200 => code = OwnerCode(u, n)
  OBVIOUS
<1>3. Right(u)
  <2>1. CASE code = 200
    BY <2>1, MayWrite, OneShare
  <2>2. CASE code # 200
    BY <2>2, RestRight DEF catalog
  <2> QED
    BY <2>1, <2>2
<1> HIDE DEF code
<1> QED
  BY <1>1, <1>2, <1>3, AnywhereIs, RightOwner, Answered

LEMMA MakeSlotRight ==
  ASSUME Sound, NEW u \in Users, NEW s \in SlotIds, NEW n \in Scenarios, MakeSlot(u, s, n)
  PROVE  RightStep
<1> DEFINE code == IF OwnerCode(u, n) # 200 THEN OwnerCode(u, n)
                   ELSE IF slotOf[s] # Nobody THEN 409 ELSE 200
<1>1. PICK op \in Writes : Reply(u, op, {n}, Anywhere, code)
  BY DEF MakeSlot, Anywhere, Writes
<1>2. /\ OwnerCode(u, n) = 200 => code \in {200, 409, 500}
      /\ OwnerCode(u, n) # 200 => code = OwnerCode(u, n)
  OBVIOUS
<1>3. Right(u)
  <2>1. CASE code = 200
    <3>1. n \in Rows /\ Writable(u, n) /\ slotOf[s] \notin Scenarios
      BY <2>1, MayWrite, AccessAssumption
    <3>2. slotOf' = [slotOf EXCEPT ![s] = n] /\ UNCHANGED <<owner, shares>>
      BY <2>1 DEF MakeSlot
    <3> QED
      BY <3>1, <3>2, OneSlot
  <2>2. CASE code # 200
    <3>1. UNCHANGED catalog
      BY <2>2 DEF MakeSlot, catalog
    <3> QED
      BY <3>1, RestRight
  <2> QED
    BY <2>1, <2>2
<1> HIDE DEF code
<1>4. RightAnswer(Said(u, op, {n}, Anywhere, code))
  BY <1>2, AnywhereIs, RightOwner
<1> QED
  BY <1>1, <1>3, <1>4, Answered

\* A request about a slot that is not there.
LEMMA AbsentRight ==
  ASSUME Sound, NEW u \in Users, NEW op \in Writes, NEW code, code = 404,
         Reply(u, op, {}, TRUE, code), UNCHANGED catalog
  PROVE  RightStep
<1>1. Reply(u, op, {}, Anywhere, code)
  BY DEF Anywhere
<1>2. RightAnswer(Said(u, op, {}, Anywhere, code))
  BY AnywhereIs, RightAbsent
<1> QED
  BY <1>1, <1>2, RestRight, Answered

LEMMA DropSlotRight ==
  ASSUME Sound, NEW u \in Users, NEW s \in SlotIds, DropSlot(u, s)
  PROVE  RightStep
<1>1. CASE slotOf[s] = Nobody
  <2>1. PICK op \in Writes, code \in {404} : Reply(u, op, {}, TRUE, code)
    BY <1>1 DEF DropSlot, Writes
  <2>2. UNCHANGED catalog
    BY <1>1 DEF DropSlot, catalog
  <2> QED
    BY <2>1, <2>2, AbsentRight
<1>2. CASE slotOf[s] # Nobody
  <2>1. PICK n \in Scenarios : n = slotOf[s]
    BY <1>2 DEF Sound, Rows
  <2> DEFINE code == OwnerCode(u, n)
  <2>2. PICK op \in Writes : Reply(u, op, {n}, Anywhere, code)
    BY <1>2, <2>1 DEF DropSlot, Anywhere, Writes
  <2>3. /\ OwnerCode(u, n) = 200 => code \in {200, 409, 500}
        /\ OwnerCode(u, n) # 200 => code = OwnerCode(u, n)
    OBVIOUS
  <2>4. Right(u)
    <3>1. CASE code = 200
      <4>1. Writable(u, n) /\ Nobody \notin Scenarios
        BY <3>1, MayWrite, AccessAssumption
      <4>2. slotOf' = [slotOf EXCEPT ![s] = Nobody] /\ UNCHANGED <<owner, shares>>
        BY <1>2, <2>1, <3>1 DEF DropSlot
      <4> QED
        BY <2>1, <4>1, <4>2, OneSlot
    <3>2. CASE code # 200
      BY <1>2, <2>1, <3>2, RestRight DEF DropSlot, catalog
    <3> QED
      BY <3>1, <3>2
  <2> HIDE DEF code
  <2>5. RightAnswer(Said(u, op, {n}, Anywhere, code))
    BY <2>3, AnywhereIs, RightOwner
  <2> QED
    BY <2>2, <2>4, <2>5, Answered
<1> QED
  BY <1>1, <1>2

LEMMA MoveSlotRight ==
  ASSUME Sound, NEW u \in Users, NEW s \in SlotIds, NEW n \in Scenarios, MoveSlot(u, s, n)
  PROVE  RightStep
<1>1. CASE slotOf[s] = Nobody
  <2>1. PICK op \in Writes, code \in {404} : Reply(u, op, {}, TRUE, code)
    BY <1>1 DEF MoveSlot, Writes
  <2>2. UNCHANGED catalog
    BY <1>1 DEF MoveSlot, catalog
  <2> QED
    BY <2>1, <2>2, AbsentRight
<1>2. CASE slotOf[s] # Nobody
  <2>1. PICK k \in Scenarios : k = slotOf[s]
    BY <1>2 DEF Sound, Rows
  <2> DEFINE on == {k, n}
             code == MoveCode(u, s, n)
  <2>2. /\ Reply(u, "move slot", on, Anywhere, code)
        /\ on \in SUBSET Scenarios /\ "move slot" \in Writes
    BY <1>2, <2>1 DEF MoveSlot, Anywhere, Writes
  <2>3. code = IF OwnerCode(u, k) # 200 THEN OwnerCode(u, k) ELSE OwnerCode(u, n)
    BY <2>1 DEF MoveCode
  <2>4. Right(u)
    <3>1. CASE code = 200
      <4>1. Writable(u, k) /\ Writable(u, n) /\ n \in Rows
        BY <2>3, <3>1, MayWrite
      <4>2. slotOf' = [slotOf EXCEPT ![s] = n] /\ UNCHANGED <<owner, shares>>
        BY <1>2, <3>1 DEF MoveSlot
      <4> QED
        BY <2>1, <4>1, <4>2, OneSlot
    <3>2. CASE code # 200
      BY <1>2, <3>2, RestRight DEF MoveSlot, catalog
    <3> QED
      BY <3>1, <3>2
  <2>5. /\ Shown(u, on) <=> k \in Listed(u) /\ n \in Listed(u)
        /\ Mine(u, on) <=> /\ k \in Listed(u) /\ Writable(u, k)
                           /\ n \in Listed(u) /\ Writable(u, n)
    BY DEF Shown, Mine
  <2>6. /\ code \in {200, 409, 500} <=> Mine(u, on) /\ on # {}
        /\ code = 404 => ~Shown(u, on) \/ on = {}
        /\ code = 403 => \E m \in on \cap Listed(u) : ~Writable(u, m)
    <3>1. OwnerCode(u, k) \in {200, 403, 404} /\ OwnerCode(u, n) \in {200, 403, 404}
      BY OwnersCheck
    <3>2. /\ OwnerCode(u, k) = 200 <=> k \in Listed(u) /\ Writable(u, k)
          /\ OwnerCode(u, n) = 200 <=> n \in Listed(u) /\ Writable(u, n)
          /\ OwnerCode(u, k) = 404 <=> k \notin Listed(u)
          /\ OwnerCode(u, n) = 404 <=> n \notin Listed(u)
      BY OwnersCheck
    <3> HIDE DEF code
    <3>3. on # {}
      OBVIOUS
    <3>4. code \in {200, 409, 500} <=> Mine(u, on)
      BY <2>3, <2>5, <3>1, <3>2
    <3>5. code = 404 => ~Shown(u, on)
      BY <2>3, <2>5, <3>1, <3>2
    <3>6. code = 403 => \E m \in on \cap Listed(u) : ~Writable(u, m)
      BY <2>3, <3>1, <3>2
    <3> QED
      BY <3>3, <3>4, <3>5, <3>6
  <2> HIDE DEF on, code
  <2>7. RightAnswer(Said(u, "move slot", on, Anywhere, code))
    BY <2>2, <2>6, AnywhereIs, RightWrite
  <2> QED
    BY <2>2, <2>4, <2>7, Answered
<1> QED
  BY <1>1, <1>2

-----------------------------------------------------------------------------
LEMMA InitSound == AccessInit => Sound
BY DEF AccessInit, Sound, Rows

\* Every request finds a sound catalog, and is answered and leaves it right.
LEMMA NextRight ==
  ASSUME Sound, AccessNext
  PROVE  RightStep
<1>1. PICK u \in Users :
        \/ \E w \in Users :
             \/ ReadPlan(u, w)
             \/ \E n \in Scenarios :
                  \/ ReadScenario(u, w, n) \/ FilterHistory(u, w, n) \/ CreateScenario(u, w, n)
                  \/ EditScenario(u, w, n) \/ GiveScenario(u, n, w)
                  \/ ShareScenario(u, n, w) \/ UnshareScenario(u, n, w)
        \/ \E n \in Scenarios :
             \/ FilterSlots(u, n) \/ DeleteScenario(u, n)
             \/ \E m \in Scenarios : RenameScenario(u, n, m) \/ DuplicateScenario(u, n, m)
             \/ \E s \in SlotIds : MakeSlot(u, s, n) \/ MoveSlot(u, s, n)
        \/ \E s \in SlotIds : ReadSlot(u, s) \/ DropSlot(u, s)
  BY DEF AccessNext
<1>2. ASSUME NEW w \in Users, ReadPlan(u, w) PROVE RightStep
  BY <1>2, PlanRight
<1>3. ASSUME NEW w \in Users, NEW n \in Scenarios,
             \/ ReadScenario(u, w, n) \/ FilterHistory(u, w, n) \/ CreateScenario(u, w, n)
             \/ EditScenario(u, w, n) \/ GiveScenario(u, n, w)
      PROVE  RightStep
  BY <1>3, ReadRight, HistoryRight, CreateRight, EditRight, GiveRight
<1>4. ASSUME NEW w \in Users, NEW n \in Scenarios, ShareScenario(u, n, w) PROVE RightStep
  BY <1>4, ShareRight DEF ShareScenario
<1>5. ASSUME NEW w \in Users, NEW n \in Scenarios, UnshareScenario(u, n, w) PROVE RightStep
  BY <1>5, ShareRight DEF UnshareScenario
<1>6. ASSUME NEW n \in Scenarios, FilterSlots(u, n) \/ DeleteScenario(u, n) PROVE RightStep
  BY <1>6, FilterRight, DeleteRight
<1>7. ASSUME NEW n \in Scenarios, NEW m \in Scenarios,
             RenameScenario(u, n, m) \/ DuplicateScenario(u, n, m)
      PROVE  RightStep
  BY <1>7, RenameRight, DuplicateRight
<1>8. ASSUME NEW s \in SlotIds, NEW n \in Scenarios, MakeSlot(u, s, n) \/ MoveSlot(u, s, n)
      PROVE  RightStep
  BY <1>8, MakeSlotRight, MoveSlotRight
<1>9. ASSUME NEW s \in SlotIds, ReadSlot(u, s) \/ DropSlot(u, s) PROVE RightStep
  BY <1>9, ReadSlotRight, DropSlotRight
<1> QED
  BY <1>1, <1>2, <1>3, <1>4, <1>5, <1>6, <1>7, <1>8, <1>9

\* What a user is shown decides what he is answered, and he changes only what
\* is his, whatever was made, given, shared, renamed or deleted before.
THEOREM ShownHolds == AccessSpec => ShownIsAllowed
<1>1. Sound /\ [AccessNext]_accessVars
        => Sound' /\ [RightAnswer(answered') /\ Permitted(answered'.by)]_accessVars
  <2>1. Sound /\ UNCHANGED accessVars => Sound'
    BY DEF accessVars, Sound, Rows
  <2> QED
    BY <2>1, NextRight DEF RightStep
<1> QED
  BY InitSound, <1>1, PTL DEF AccessSpec, ShownIsAllowed

-----------------------------------------------------------------------------
(* Accounts                                                                *)
(*                                                                         *)
(* A save puts back what its request read. What it read is what was meant, *)
(* but for the columns others have set since, which its save then undoes,  *)
(* and those undone before.                                                *)

\* A save of the whole row puts back what it read: what others have set since,
\* and what was undone when it read.
Whole(r) == request[r].pc = "save" /\ request[r].op \in {"me", "admin"}

ReadsTrue ==
  \A r \in Requests : Whole(r) =>
    /\ request[r].read \in Row
    /\ \A c \in Columns \ (undone \cup since[r]) : request[r].read[c] = intended[c]

\* Nobody has a link to an account or works on one that is not there.
RowThere ==
  /\ HasRow(account) => account \in Row /\ intended \in Row
  /\ links # {} => HasRow(account)
  /\ \A r \in Requests : request[r].pc = "save" /\ request[r].op # "register" => HasRow(account)

AccountInv == AccountTypeOK /\ RowThere /\ ReadsTrue /\ ColumnsKept

RequestState == [pc   : {"new", "save", "done"},
                 op   : Ops,
                 sets : SUBSET Columns,
                 live : BOOLEAN,
                 read : Row \cup {NoAccount}]

LEMMA RequestFields ==
  ASSUME AccountTypeOK, NEW r \in Requests
  PROVE  /\ request \in [Requests -> RequestState]
         /\ request[r] \in RequestState
         /\ request[r].pc \in {"new", "save", "done"}
         /\ request[r].op \in Ops
         /\ request[r].sets \in SUBSET Columns
         /\ request[r].live \in BOOLEAN
         /\ request[r].read \in Row \cup {NoAccount}
<1>1. request \in [Requests -> RequestState]
  BY DEF AccountTypeOK, RequestState
<1> QED
  BY <1>1 DEF RequestState

LEMMA RowFields ==
  ASSUME NEW a \in Row
  PROVE  HasRow(a) /\ a.live \in BOOLEAN /\ a.password \in Authors /\ a.zone \in Authors
<1>1. DOMAIN a = {"live", "password", "zone"} /\ DOMAIN NoAccount = {"live"}
  BY DEF Row, NoAccount
<1>2. "zone" \in DOMAIN a /\ "zone" \notin DOMAIN NoAccount
  BY <1>1
<1> QED
  BY <1>2 DEF HasRow, Row

LEMMA RowOfColumns ==
  ASSUME NEW f, f = [c \in Columns |-> f[c]],
         f["live"] \in BOOLEAN, f["password"] \in Authors, f["zone"] \in Authors
  PROVE  f \in Row
<1>1. f = [live |-> f["live"], password |-> f["password"], zone |-> f["zone"]]
  BY DEF Columns
<1> QED
  BY <1>1 DEF Row

LEMMA SavedRow ==
  ASSUME AccountTypeOK, NEW r \in Requests, NEW kept \in Row
  PROVE  /\ Written(r, kept) \in Row
         /\ \A c \in Columns : Written(r, kept)[c] = IF c \in request[r].sets THEN Value(r, c)
                                                      ELSE kept[c]
<1> DEFINE f == Written(r, kept)
<1>1. \A c \in Columns : f[c] = IF c \in request[r].sets THEN Value(r, c) ELSE kept[c]
  BY DEF Written
<1>2. f = [c \in Columns |-> f[c]]
  BY DEF Written
<1>3. "live" \in Columns /\ "password" \in Columns /\ "zone" \in Columns
  BY DEF Columns
<1>4. Value(r, "live") \in BOOLEAN /\ Value(r, "password") = r /\ Value(r, "zone") = r
  BY RequestFields DEF Value
<1>5. kept["live"] \in BOOLEAN /\ kept["password"] \in Authors /\ kept["zone"] \in Authors
  BY RowFields
<1>6. f["live"] \in BOOLEAN
  <2>1. CASE "live" \in request[r].sets
    BY <2>1, <1>1, <1>3, <1>4
  <2>2. CASE "live" \notin request[r].sets
    BY <2>2, <1>1, <1>3, <1>5
  <2> QED
    BY <2>1, <2>2
<1>7. f["password"] \in Authors /\ f["zone"] \in Authors
  BY <1>1, <1>3, <1>4, <1>5 DEF Authors
<1>8. f \in Row
  BY <1>2, <1>6, <1>7, RowOfColumns
<1> HIDE DEF f
<1> QED
  BY <1>1, <1>8 DEF f

-----------------------------------------------------------------------------
LEMMA InitAccount == AccountInit => AccountInv
<1> SUFFICES ASSUME AccountInit PROVE AccountInv
  OBVIOUS
<1>1. Earlier \in Authors
  BY DEF Authors
<1>2. account \in Row \cup {NoAccount} /\ intended \in Row \cup {NoAccount}
  <2>1. [live |-> TRUE, password |-> Earlier, zone |-> Earlier] \in Row
    BY <1>1 DEF Row
  <2> QED
    BY <2>1 DEF AccountInit
<1>3. Bare("new") \in RequestState
  BY DEF Bare, RequestState, Ops
<1>4. AccountTypeOK
  BY <1>2, <1>3 DEF AccountInit, AccountTypeOK, RequestState
<1>5. \A r \in Requests : request[r].pc = "new"
  BY DEF AccountInit, Bare
<1> QED
  BY <1>2, <1>4, <1>5
  DEF AccountInit, AccountInv, RowThere, HasRow, ReadsTrue, Whole, ColumnsKept

\* A request reads the row, which may be missing for a registration.
LEMMA ReadKept ==
  ASSUME AccountInv, NEW r \in Requests, NEW op \in Ops, NEW sets \in SUBSET Columns,
         NEW live \in BOOLEAN, Read(r, op, sets, live), op # "register" => HasRow(account),
         UNCHANGED links
  PROVE  AccountInv'
<1> DEFINE q == [pc |-> "save", op |-> op, sets |-> sets, live |-> live, read |-> account]
<1> USE DEF AccountInv
<1>1. account \in Row \cup {NoAccount}
  BY DEF AccountTypeOK
<1>2. q \in RequestState
  BY <1>1 DEF RequestState
<1>3. request \in [Requests -> RequestState] /\ request' = [request EXCEPT ![r] = q]
  BY RequestFields DEF Read
<1>4. AccountTypeOK'
  BY <1>2, <1>3 DEF AccountTypeOK, Read, RequestState
<1>5. RowThere'
  <2>1. ASSUME NEW s \in Requests, request'[s].pc = "save", request'[s].op # "register"
        PROVE  HasRow(account)
    BY <2>1, <1>3 DEF RowThere
  <2> QED
    BY <2>1 DEF RowThere, Read, HasRow
<1>6. ReadsTrue'
  <2>1. ASSUME NEW s \in Requests, Whole(s)'
        PROVE  /\ request'[s].read \in Row
               /\ \A c \in Columns \ (undone' \cup since'[s]) : request'[s].read[c] = intended'[c]
    <3>1. CASE s = r
      <4>1. HasRow(account) /\ account \in Row
        BY <3>1, <2>1, <1>3 DEF Whole, RowThere
      <4> QED
        BY <4>1, <3>1, <1>3 DEF Read, ColumnsKept
    <3>2. CASE s # r
      <4>1. request'[s] = request[s] /\ since'[s] = since[s]
        BY <3>2, <1>3 DEF Read, AccountTypeOK
      <4> QED
        BY <4>1, <2>1 DEF ReadsTrue, Whole, Read
    <3> QED
      BY <3>1, <3>2
  <2> QED
    BY <2>1 DEF ReadsTrue
<1>7. ColumnsKept'
  BY DEF ColumnsKept, Read, HasRow
<1> QED
  BY <1>4, <1>5, <1>6, <1>7

\* A request ends and leaves the row alone.
LEMMA EndKept ==
  ASSUME AccountInv, NEW r \in Requests, Ends(r), UNCHANGED <<account, intended, undone>>,
         links' \subseteq Links, links' # {} => HasRow(account),
         \A s \in Requests \ {r} : since'[s] = since[s], since' \in [Requests -> SUBSET Columns]
  PROVE  AccountInv'
<1> USE DEF AccountInv
<1>1. Bare("done") \in RequestState
  BY DEF Bare, RequestState, Ops
<1>2. request \in [Requests -> RequestState] /\ request' = [request EXCEPT ![r] = Bare("done")]
  BY RequestFields DEF Ends
<1>3. request'[r].pc = "done"
  BY <1>2 DEF Bare
<1>4. AccountTypeOK'
  BY <1>1, <1>2 DEF AccountTypeOK, RequestState
<1>5. ASSUME NEW s \in Requests, request'[s].pc = "save"
      PROVE  s # r /\ request'[s] = request[s]
  BY <1>5, <1>2, <1>3
<1>6. RowThere'
  BY <1>5 DEF RowThere, HasRow
<1>7. ReadsTrue'
  BY <1>5 DEF ReadsTrue, Whole
<1>8. ColumnsKept'
  BY DEF ColumnsKept, HasRow
<1> QED
  BY <1>4, <1>6, <1>7, <1>8

LEMMA SaveKept ==
  ASSUME AccountInv, NEW r \in Requests, SaveAccount(r)
  PROVE  AccountInv'
<1> DEFINE q == request[r]
           whole == q.op \in {"me", "admin"}
           kept == IF whole THEN q.read ELSE account
<1> USE DEF AccountInv
<1>1. q.pc = "save" /\ q.op # "register" /\ q.op \in Ops /\ q.sets \in SUBSET Columns
  BY RequestFields DEF SaveAccount
<1>2. HasRow(account) /\ account \in Row /\ intended \in Row
  BY <1>1 DEF RowThere
<1>3. ~Partial(q.op) <=> whole
  BY <1>1 DEF Partial, Ops
<1>4. kept \in Row
  BY <1>1, <1>2 DEF ReadsTrue, Whole
<1>5. account' = Written(r, kept)
  BY <1>3 DEF SaveAccount
<1>6. intended' = Written(r, intended)
  BY DEF SaveAccount, Written
<1>7. undone' = (undone \cup (IF whole THEN since[r] ELSE {})) \ q.sets
  BY DEF SaveAccount
<1>8. since' = [s \in Requests |-> IF request[s].pc = "save" /\ s # r THEN since[s] \cup q.sets
                                    ELSE {}]
  BY DEF SaveAccount
<1>9. account' \in Row /\ intended' \in Row /\ HasRow(account')
  BY <1>2, <1>4, <1>5, <1>6, SavedRow, RowFields
<1>10. links' = links /\ Ends(r)
  BY DEF SaveAccount
<1>11. \A c \in Columns : /\ account'[c] = IF c \in q.sets THEN Value(r, c) ELSE kept[c]
                          /\ intended'[c] = IF c \in q.sets THEN Value(r, c) ELSE intended[c]
  BY <1>2, <1>4, <1>5, <1>6, SavedRow
<1>12. request \in [Requests -> RequestState] /\ request' = [request EXCEPT ![r] = Bare("done")]
  BY <1>10, RequestFields DEF Ends
<1>13. Bare("done") \in RequestState /\ Bare("done").pc = "done"
  BY DEF Bare, RequestState, Ops
<1> HIDE DEF q, whole, kept
<1>14. AccountTypeOK'
  <2>1. request' \in [Requests -> RequestState]
    BY <1>12, <1>13
  <2>2. since' \in [Requests -> SUBSET Columns] /\ undone' \in SUBSET Columns
    <3>1. since \in [Requests -> SUBSET Columns] /\ undone \in SUBSET Columns
      BY DEF AccountTypeOK
    <3> QED
      BY <1>1, <1>7, <1>8, <3>1
  <2> QED
    BY <1>9, <1>10, <2>1, <2>2 DEF AccountTypeOK, RequestState
<1>15. ASSUME NEW s \in Requests, request'[s].pc = "save"
       PROVE  s # r /\ request'[s] = request[s] /\ since'[s] = since[s] \cup q.sets
  BY <1>15, <1>8, <1>12, <1>13
<1>16. RowThere'
  BY <1>9 DEF RowThere
<1>17. ReadsTrue'
  <2>1. ASSUME NEW s \in Requests, Whole(s)'
        PROVE  /\ request'[s].read \in Row
               /\ \A c \in Columns \ (undone' \cup since'[s]) : request'[s].read[c] = intended'[c]
    <3>1. s # r /\ request'[s] = request[s] /\ since'[s] = since[s] \cup q.sets
      BY <2>1, <1>15 DEF Whole
    <3>2. Whole(s)
      BY <2>1, <3>1 DEF Whole
    <3>3. ASSUME NEW c \in Columns \ (undone' \cup since'[s])
          PROVE  request'[s].read[c] = intended'[c]
      <4>1. c \notin q.sets /\ c \notin undone /\ c \notin since[s]
        BY <3>1, <1>7
      <4> QED
        BY <4>1, <3>1, <3>2, <1>11 DEF ReadsTrue
    <3> QED
      BY <3>1, <3>2, <3>3 DEF ReadsTrue
  <2> QED
    BY <2>1 DEF ReadsTrue
<1>18. ColumnsKept'
  <2>1. ASSUME NEW c \in Columns \ undone' PROVE account'[c] = intended'[c]
    <3>1. CASE c \in q.sets
      BY <3>1, <1>11
    <3>2. CASE c \notin q.sets
      <4>1. c \notin undone /\ (whole => c \notin since[r])
        BY <3>2, <2>1, <1>7
      <4>2. kept[c] = intended[c]
        <5>1. CASE whole
          BY <5>1, <4>1, <1>1 DEF ReadsTrue, Whole, kept, whole, q
        <5>2. CASE ~whole
          BY <5>2, <4>1, <1>2 DEF ColumnsKept, kept
        <5> QED
          BY <5>1, <5>2
      <4> QED
        BY <4>2, <3>2, <1>11
    <3> QED
      BY <3>1, <3>2
  <2> QED
    BY <2>1 DEF ColumnsKept
<1> QED
  BY <1>14, <1>16, <1>17, <1>18

LEMMA CreateKept ==
  ASSUME AccountInv, NEW r \in Requests, CreateAccount(r)
  PROVE  AccountInv'
<1> USE DEF AccountInv
<1>0. Ends(r) /\ UNCHANGED <<since, undone>> /\ since \in [Requests -> SUBSET Columns]
  BY DEF CreateAccount, AccountTypeOK
<1>1. CASE HasRow(account)
  <2>1. UNCHANGED <<account, links, intended>> /\ links \subseteq Links
    BY <1>1 DEF CreateAccount, AccountTypeOK
  <2> QED
    BY <2>1, <1>0, <1>1, EndKept
<1>2. CASE ~HasRow(account)
  <2>1. /\ account' = [live |-> FALSE, password |-> r, zone |-> r]
        /\ intended' = account' /\ links' = links \cup {"activate"}
    BY <1>2 DEF CreateAccount, Mail
  <2>2. account' \in Row /\ intended' \in Row
    BY <2>1 DEF Row, Authors
  <2>3. HasRow(account')
    BY <2>2, RowFields
  <2>4. request \in [Requests -> RequestState] /\ request' = [request EXCEPT ![r] = Bare("done")]
    BY <1>0, RequestFields DEF Ends
  <2>5. Bare("done") \in RequestState /\ Bare("done").pc = "done"
    BY DEF Bare, RequestState, Ops
  <2>6. AccountTypeOK'
    BY <2>1, <2>2, <2>4, <2>5, <1>0 DEF AccountTypeOK, RequestState, Links
  <2>7. RowThere'
    BY <2>2, <2>3 DEF RowThere
  <2>8. ASSUME NEW s \in Requests PROVE ~Whole(s)'
    <3>1. CASE s = r
      BY <3>1, <2>4, <2>5 DEF Whole
    <3>2. CASE s # r
      BY <3>2, <2>4, <1>2 DEF Whole, RowThere
    <3> QED
      BY <3>1, <3>2
  <2> QED
    BY <2>1, <2>6, <2>7, <2>8 DEF ReadsTrue, ColumnsKept
<1> QED
  BY <1>1, <1>2

LEMMA NextAccount == AccountInv /\ [AccountNext]_accountVars => AccountInv'
<1> SUFFICES ASSUME AccountInv, [AccountNext]_accountVars PROVE AccountInv'
  OBVIOUS
<1> USE DEF AccountInv
<1>1. ASSUME NEW r \in Requests, Register(r) PROVE AccountInv'
  BY <1>1, ReadKept DEF Register, Ops
<1>2. ASSUME NEW r \in Requests, RegisterAgain(r) PROVE AccountInv'
  <2>1. since \in [Requests -> SUBSET Columns] /\ links \subseteq Links
    BY DEF AccountTypeOK
  <2> QED
    BY <1>2, <2>1, EndKept DEF RegisterAgain, Mail, Links
<1>3. ASSUME NEW r \in Requests, CreateAccount(r) PROVE AccountInv'
  BY <1>3, CreateKept
<1>4. ASSUME NEW r \in Requests, Activate(r) PROVE AccountInv'
  <2>1. HasRow(account) /\ {"live"} \in SUBSET Columns
    BY <1>4 DEF Activate, RowThere, Columns
  <2> QED
    BY <1>4, <2>1, ReadKept DEF Activate, Ops
<1>5. ASSUME NEW r \in Requests, ResetPassword(r) PROVE AccountInv'
  <2>1. HasRow(account) /\ {"password"} \in SUBSET Columns
    BY <1>5 DEF ResetPassword, RowThere, Columns
  <2> QED
    BY <1>5, <2>1, ReadKept DEF ResetPassword, Ops
<1>6. ASSUME NEW r \in Requests, NEW column \in Columns, PatchMe(r, column) PROVE AccountInv'
  BY <1>6, ReadKept DEF PatchMe, Ops
<1>7. ASSUME NEW r \in Requests, NEW column \in Columns, NEW live \in BOOLEAN,
             PatchUser(r, column, live)
      PROVE  AccountInv'
  BY <1>7, ReadKept DEF PatchUser, Ops
<1>8. ASSUME NEW r \in Requests, SaveAccount(r) PROVE AccountInv'
  BY <1>8, SaveKept
<1>9. ASSUME NEW r \in Requests, RequestDies(r) PROVE AccountInv'
  <2>1. since \in [Requests -> SUBSET Columns] /\ links \subseteq Links
    BY DEF AccountTypeOK
  <2> QED
    BY <1>9, <2>1, EndKept DEF RequestDies, RowThere
<1>10. CASE AskLink
  BY <1>10
  DEF AskLink, Mail, AccountTypeOK, Links, RowThere, ReadsTrue, Whole, ColumnsKept, HasRow
<1>11. ASSUME NEW link \in Links, LinkExpires(link) PROVE AccountInv'
  BY <1>11
  DEF LinkExpires, AccountTypeOK, RowThere, ReadsTrue, Whole, ColumnsKept, HasRow
<1>12. CASE UNCHANGED accountVars
  BY <1>12 DEF accountVars, AccountTypeOK, RowThere, ReadsTrue, Whole, ColumnsKept, HasRow
<1> QED
  BY <1>1, <1>2, <1>3, <1>4, <1>5, <1>6, <1>7, <1>8, <1>9, <1>10, <1>11, <1>12 DEF AccountNext

\* Every column has the value of the last request that set it, but for those a
\* PATCH put back, for any number of requests that read, save and die.
THEOREM ColumnsHold == AccountSpec => []ColumnsKept
<1>1. AccountInv => ColumnsKept
  BY DEF AccountInv
<1> QED
  BY InitAccount, NextAccount, <1>1, PTL DEF AccountSpec

-----------------------------------------------------------------------------
(* PushItTargets                                                           *)
(*                                                                         *)
(* A transaction clears every default it sees before it commits, and it    *)
(* sees every one that is committed before it: two defaults take two       *)
(* transactions that have met.                                             *)

\* The transaction of r has saved a default and is not over.
OpenDefault(r) == saver[r].pc \in {"clear", "commit"} /\ saver[r].flag = "default"

\* Two of those have met.
AllMet ==
  \A r, s \in Savers : r # s /\ OpenDefault(r) /\ OpenDefault(s) => s \in met[r]

\* A transaction has written its target, and has made nothing else a default.
WritesOf(r) ==
  /\ saver[r].pc \in {"new", "save", "done"} => wrote[r] = Nothing
  /\ saver[r].pc = "clear" => saver[r].flag = "default"
  /\ saver[r].pc \in {"clear", "commit"} =>
       /\ wrote[r][saver[r].on] = saver[r].flag
       /\ \A t \in Targets \ {saver[r].on} :
            wrote[r][t] = "" \/ (wrote[r][t] = "plain" /\ saver[r].flag = "default")

AllWrites == \A r \in Savers : WritesOf(r)

\* One that has met nobody will leave its target the only default.
LeavesOne ==
  \A r \in Savers : saver[r].pc = "commit" /\ saver[r].flag = "default" /\ met[r] = {} =>
    \A t \in Targets \ {saver[r].on} : Seen(r, t) # "default"

One(rows) == \A t, u \in Targets : rows[t] = "default" /\ rows[u] = "default" => t = u

PushInv == PushTypeOK /\ AllMet /\ AllWrites /\ LeavesOne /\ (doubled \/ One(target))

SaverState == [op : {"create", "update", "delete"},
               pc : {"new", "save", "clear", "commit", "done"},
               on : Targets, flag : Flags]

\* Finitely many rows: what is at most one is counted as at most one.
LEMMA CountedOne ==
  ASSUME NEW rows
  PROVE  Cardinality({t \in Targets : rows[t] = "default"}) <= 1 <=> One(rows)
<1> DEFINE D == {t \in Targets : rows[t] = "default"}
<1>1. IsFiniteSet(D)
  BY TargetsAssumption, FS_Subset
<1>2. CASE D = {}
  BY <1>2, FS_EmptySet DEF One
<1>3. ASSUME NEW x \in D PROVE Cardinality(D) <= 1 <=> One(rows)
  <2>1. Cardinality(D \ {x}) = Cardinality(D) - 1 /\ IsFiniteSet(D \ {x})
    BY <1>1, FS_RemoveElement
  <2>2. Cardinality(D \ {x}) \in Nat /\ (Cardinality(D \ {x}) = 0 <=> D \ {x} = {})
    BY <2>1, FS_CardinalityType, FS_EmptySet
  <2>4. Cardinality(D) \in Nat
    BY <1>1, FS_CardinalityType
  <2>3. D \ {x} = {} <=> One(rows)
    BY DEF One
  <2> QED
    BY <2>1, <2>2, <2>3, <2>4
<1> QED
  BY <1>2, <1>3

LEMMA SaverFields ==
  ASSUME PushTypeOK, NEW r \in Savers
  PROVE  /\ saver \in [Savers -> SaverState] /\ saver[r] \in SaverState
         /\ saver[r].pc \in {"new", "save", "clear", "commit", "done"}
         /\ saver[r].on \in Targets /\ saver[r].flag \in Flags
         /\ wrote[r] \in [Targets -> Flags \cup {""}]
         /\ met[r] \subseteq Savers
BY DEF PushTypeOK, SaverState

LEMMA SameWrites ==
  ASSUME NEW s, WritesOf(s), saver'[s] = saver[s], wrote'[s] = wrote[s]
  PROVE  WritesOf(s)'
BY DEF WritesOf

LEMMA DoneState == NoRequest("done") \in SaverState /\ NoRequest("new") \in SaverState
<1>1. (CHOOSE t \in Targets : TRUE) \in Targets
  BY TargetsAssumption
<1> QED
  BY <1>1 DEF NoRequest, SaverState, Flags

LEMMA StepOf ==
  ASSUME PushTypeOK, NEW r \in Savers, NEW label \in {"clear", "commit", "done"}, Step(r, label)
  PROVE  /\ saver' \in [Savers -> SaverState]
         /\ saver'[r].pc = label
         /\ label # "done" => saver'[r].on = saver[r].on /\ saver'[r].flag = saver[r].flag
         /\ \A s \in Savers \ {r} : saver'[s] = saver[s]
<1>1. saver \in [Savers -> SaverState]
  BY SaverFields
<1>2. CASE label = "done"
  BY <1>1, <1>2, DoneState DEF Step, NoRequest
<1>3. CASE label # "done"
  BY <1>1, <1>3 DEF Step, SaverState
<1> QED
  BY <1>2, <1>3

LEMMA InitPush == PushInit => PushInv
<1> SUFFICES ASSUME PushInit PROVE PushInv
  OBVIOUS
<1>1. \A r \in Savers : saver[r].pc = "new" /\ wrote[r] = Nothing
  BY DEF PushInit, NoRequest
<1>2. PushTypeOK
  <2>1. Nothing \in [Targets -> Flags \cup {""}]
    BY DEF Nothing
  <2> QED
    BY <2>1, DoneState DEF PushInit, PushTypeOK, SaverState
<1>3. One(target)
  BY CountedOne DEF PushInit
<1> QED
  BY <1>1, <1>2, <1>3 DEF PushInv, AllMet, OpenDefault, AllWrites, WritesOf, LeavesOne

LEMMA AcceptKept ==
  ASSUME PushInv, NEW r \in Savers, NEW op \in {"create", "update", "delete"}, NEW t \in Targets,
         NEW flag \in Flags, Accept(r, op, t, flag)
  PROVE  PushInv'
<1> DEFINE q == [op |-> op, pc |-> "save", on |-> t, flag |-> flag]
<1> USE DEF PushInv
<1>1. /\ saver' = [saver EXCEPT ![r] = q] /\ saver[r].pc = "new" /\ q \in SaverState
      /\ wrote[r] = Nothing
  BY DEF Accept, SaverState, AllWrites, WritesOf
<1>2. saver \in [Savers -> SaverState]
  BY SaverFields
<1>3. saver'[r].pc = "save" /\ \A s \in Savers \ {r} : saver'[s] = saver[s]
  BY <1>1, <1>2
<1>4. UNCHANGED <<target, wrote, met, doubled>>
  BY DEF Accept
<1>5. PushTypeOK'
  BY <1>1, <1>2, <1>4 DEF PushTypeOK, SaverState
<1>6. \A s \in Savers : saver'[s].pc \in {"clear", "commit"} => s # r /\ saver'[s] = saver[s]
  BY <1>3
<1>7. AllMet'
  BY <1>4, <1>6 DEF AllMet, OpenDefault
<1>8. AllWrites'
  <2>1. WritesOf(r)'
    BY <1>1, <1>3, <1>4 DEF WritesOf
  <2>2. ASSUME NEW s \in Savers \ {r} PROVE WritesOf(s)'
    BY <1>3, <1>4, SameWrites DEF AllWrites
  <2> QED
    BY <2>1, <2>2 DEF AllWrites
<1>9. LeavesOne'
  BY <1>4, <1>6 DEF LeavesOne, Seen
<1> QED
  BY <1>4, <1>5, <1>7, <1>8, <1>9 DEF One

\* A transaction ends and leaves the rows alone.
LEMMA GoneKept ==
  ASSUME PushInv, NEW r \in Savers, Step(r, "done"), UNCHANGED target,
         wrote' = [wrote EXCEPT ![r] = Nothing],
         met' = [met EXCEPT ![r] = {}] \/ met' = met,
         doubled' = doubled
  PROVE  PushInv'
<1> USE DEF PushInv
<1>1. /\ saver' \in [Savers -> SaverState] /\ saver'[r].pc = "done"
      /\ \A s \in Savers \ {r} : saver'[s] = saver[s]
  BY StepOf
<1>2. PushTypeOK'
  BY <1>1 DEF PushTypeOK, SaverState, Nothing
<1>3. wrote'[r] = Nothing /\ \A s \in Savers \ {r} : wrote'[s] = wrote[s] /\ met'[s] = met[s]
  BY DEF PushTypeOK
<1>4. \A s \in Savers : saver'[s].pc \in {"clear", "commit"} => s # r
  BY <1>1
<1>5. AllMet'
  BY <1>1, <1>3, <1>4 DEF AllMet, OpenDefault
<1>6. AllWrites'
  <2>1. WritesOf(r)'
    BY <1>1, <1>3 DEF WritesOf
  <2>2. ASSUME NEW s \in Savers \ {r} PROVE WritesOf(s)'
    BY <1>1, <1>3, SameWrites DEF AllWrites
  <2> QED
    BY <2>1, <2>2 DEF AllWrites
<1>7. LeavesOne'
  BY <1>1, <1>3, <1>4 DEF LeavesOne, Seen
<1> QED
  BY <1>2, <1>5, <1>6, <1>7 DEF One

LEMMA SaveTargetKept ==
  ASSUME PushInv, NEW r \in Savers, SaveTarget(r)
  PROVE  PushInv'
<1> DEFINE q     == saver[r]
           taken == q.op = "create" /\ Seen(r, q.on) # "none"
           peers == {s \in Savers \ {r} : saver[s].pc \in {"clear", "commit"}
                                            /\ saver[s].flag = "default"}
           next  == IF q.flag = "default" THEN "clear" ELSE "commit"
<1> USE DEF PushInv
<1>1. q.pc = "save" /\ wrote[r] = Nothing /\ UNCHANGED <<target, doubled>>
  BY DEF SaveTarget, AllWrites, WritesOf
<1>2. CASE taken
  <2>1. Step(r, "done") /\ wrote' = wrote /\ met' = met
    BY <1>2 DEF SaveTarget
  <2>2. wrote' = [wrote EXCEPT ![r] = Nothing]
    BY <2>1, <1>1 DEF PushTypeOK
  <2> QED
    BY <2>1, <2>2, <1>1, GoneKept
<1>3. CASE ~taken
  <2>1. /\ Step(r, next)
        /\ wrote' = [wrote EXCEPT ![r][q.on] = q.flag]
        /\ met' = IF q.flag # "default" THEN met
                  ELSE [s \in Savers |-> IF s = r THEN peers
                                         ELSE IF s \in peers THEN met[s] \cup {r} ELSE met[s]]
    BY <1>3 DEF SaveTarget
  <2>2. q.on \in Targets /\ q.flag \in Flags /\ wrote \in [Savers -> [Targets -> Flags \cup {""}]]
        /\ met \in [Savers -> SUBSET Savers]
    BY SaverFields DEF PushTypeOK
  <2>3. /\ saver' \in [Savers -> SaverState]
        /\ saver'[r].pc = next /\ saver'[r].on = q.on /\ saver'[r].flag = q.flag
        /\ \A s \in Savers \ {r} : saver'[s] = saver[s]
    BY <2>1, StepOf
  <2>4. /\ \A t \in Targets : wrote'[r][t] = IF t = q.on THEN q.flag ELSE ""
        /\ \A s \in Savers \ {r} : wrote'[s] = wrote[s]
    BY <2>1, <2>2, <1>1 DEF Nothing
  <2>5. met' \in [Savers -> SUBSET Savers] /\ \A s \in Savers \ {r} : met[s] \subseteq met'[s]
    BY <2>1, <2>2
  <2> HIDE DEF q, next
  <2>6. PushTypeOK'
    <3>1. wrote' \in [Savers -> [Targets -> Flags \cup {""}]]
      BY <2>1, <2>2
    <3> QED
      BY <3>1, <2>3, <2>5, <1>1 DEF PushTypeOK, SaverState
  <2>7. AllMet'
    <3>1. ASSUME NEW a \in Savers, NEW b \in Savers, a # b, OpenDefault(a)', OpenDefault(b)'
          PROVE  b \in met'[a]
      <4>1. CASE a = r
        BY <4>1, <3>1, <2>1, <2>3 DEF OpenDefault
      <4>2. CASE b = r
        <5>1. a \in peers /\ q.flag = "default"
          BY <4>2, <3>1, <2>3 DEF OpenDefault
        <5> QED
          BY <5>1, <4>2, <3>1, <2>1
      <4>3. CASE a # r /\ b # r
        BY <4>3, <3>1, <2>3, <2>5 DEF AllMet, OpenDefault
      <4> QED
        BY <4>1, <4>2, <4>3
    <3> QED
      BY <3>1 DEF AllMet
  <2>8. AllWrites'
    <3>1. WritesOf(r)'
      BY <2>2, <2>3, <2>4 DEF WritesOf, next
    <3>2. ASSUME NEW s \in Savers \ {r} PROVE WritesOf(s)'
      BY <2>3, <2>4, SameWrites DEF AllWrites
    <3> QED
      BY <3>1, <3>2 DEF AllWrites
  <2>9. LeavesOne'
    <3>1. ASSUME NEW s \in Savers, saver'[s].pc = "commit", saver'[s].flag = "default", met'[s] = {}
          PROVE  \A t \in Targets \ {saver'[s].on} : Seen(s, t)' # "default"
      <4>1. s # r
        BY <3>1, <2>3 DEF next
      <4>2. met[s] = {} /\ saver'[s] = saver[s] /\ wrote'[s] = wrote[s]
        BY <4>1, <3>1, <2>3, <2>4, <2>5
      <4> QED
        BY <4>2, <3>1, <1>1 DEF LeavesOne, Seen
    <3> QED
      BY <3>1 DEF LeavesOne
  <2> QED
    BY <2>6, <2>7, <2>8, <2>9, <1>1 DEF One
<1> QED
  BY <1>2, <1>3

LEMMA ClearKept ==
  ASSUME PushInv, NEW r \in Savers, ClearOthers(r)
  PROVE  PushInv'
<1> USE DEF PushInv
<1>1. /\ saver[r].pc = "clear" /\ Step(r, "commit") /\ UNCHANGED <<target, met, doubled>>
      /\ wrote' = [wrote EXCEPT ![r] = [t \in Targets |-> IF t \in Others(r) THEN "plain"
                                                           ELSE wrote[r][t]]]
  BY DEF ClearOthers, PushTypeOK
<1>2. /\ saver' \in [Savers -> SaverState]
      /\ saver'[r].pc = "commit" /\ saver'[r].on = saver[r].on /\ saver'[r].flag = saver[r].flag
      /\ \A s \in Savers \ {r} : saver'[s] = saver[s]
  BY <1>1, StepOf
<1>3. wrote \in [Savers -> [Targets -> Flags \cup {""}]]
  BY DEF PushTypeOK
<1>4. /\ \A t \in Targets : wrote'[r][t] = IF t \in Others(r) THEN "plain" ELSE wrote[r][t]
      /\ \A s \in Savers \ {r} : wrote'[s] = wrote[s]
  BY <1>1, <1>3
<1>5. saver[r].flag = "default" /\ saver[r].on \notin Others(r)
  BY <1>1 DEF AllWrites, WritesOf, Others
<1>6. PushTypeOK'
  <2>1. wrote' \in [Savers -> [Targets -> Flags \cup {""}]]
    BY <1>1, <1>3 DEF Flags
  <2> QED
    BY <2>1, <1>1, <1>2 DEF PushTypeOK, SaverState
<1>7. AllMet'
  BY <1>1, <1>2, <1>5 DEF AllMet, OpenDefault
<1>8. AllWrites'
  <2>1. saver[r].on \in Targets /\ WritesOf(r)
    BY SaverFields DEF AllWrites
  <2>2. WritesOf(r)'
    BY <2>1, <1>1, <1>2, <1>4, <1>5 DEF WritesOf
  <2>3. ASSUME NEW s \in Savers \ {r} PROVE WritesOf(s)'
    BY <1>2, <1>4, SameWrites DEF AllWrites
  <2> QED
    BY <2>2, <2>3 DEF AllWrites
<1>9. LeavesOne'
  <2>1. ASSUME NEW t \in Targets \ {saver[r].on} PROVE Seen(r, t)' # "default"
    <3>1. CASE t \in Others(r)
      BY <3>1, <1>4 DEF Seen
    <3>2. CASE t \notin Others(r)
      BY <3>2, <1>1, <1>4 DEF Seen, Others
    <3> QED
      BY <3>1, <3>2
  <2>2. LeavesOne'
    <3>1. \A s \in Savers \ {r} : \A t \in Targets : Seen(s, t)' = Seen(s, t)
      BY <1>1, <1>4 DEF Seen
    <3> QED
      BY <2>1, <3>1, <1>1, <1>2 DEF LeavesOne
  <2> QED
    BY <2>2
<1> QED
  BY <1>1, <1>6, <1>7, <1>8, <1>9 DEF One

LEMMA CommitTargetKept ==
  ASSUME PushInv, NEW r \in Savers, CommitTarget(r)
  PROVE  PushInv'
<1> USE DEF PushInv
<1>1. /\ saver[r].pc = "commit" /\ Step(r, "done")
      /\ target' = [t \in Targets |-> Seen(r, t)]
      /\ wrote' = [wrote EXCEPT ![r] = Nothing]
      /\ met' = [met EXCEPT ![r] = {}]
      /\ doubled' = IF saver[r].flag = "default" THEN met[r] # {} ELSE doubled
  BY DEF CommitTarget
<1>2. /\ saver' \in [Savers -> SaverState] /\ saver'[r].pc = "done"
      /\ \A s \in Savers \ {r} : saver'[s] = saver[s]
  BY <1>1, StepOf
<1>3. /\ target \in [Targets -> Flags] /\ wrote \in [Savers -> [Targets -> Flags \cup {""}]]
      /\ met \in [Savers -> SUBSET Savers]
  BY DEF PushTypeOK
<1>4. /\ wrote'[r] = Nothing /\ met'[r] = {}
      /\ \A s \in Savers \ {r} : wrote'[s] = wrote[s] /\ met'[s] = met[s]
  BY <1>1, <1>3
<1>5. \A t \in Targets : target'[t] = Seen(r, t) /\ Seen(r, t) \in Flags
  BY <1>1, <1>3 DEF Seen
<1>6. ASSUME NEW t \in Targets, target'[t] = "default"
      PROVE  target[t] = "default" \/ (t = saver[r].on /\ saver[r].flag = "default")
  BY <1>6, <1>1, <1>5 DEF Seen, AllWrites, WritesOf
<1>7. PushTypeOK'
  <2>1. target' \in [Targets -> Flags] /\ Nothing \in [Targets -> Flags \cup {""}]
    BY <1>1, <1>5 DEF Nothing
  <2>2. wrote' \in [Savers -> [Targets -> Flags \cup {""}]] /\ met' \in [Savers -> SUBSET Savers]
    BY <1>1, <1>3, <2>1
  <2>3. doubled' \in BOOLEAN
    BY <1>1 DEF PushTypeOK
  <2> QED
    BY <2>1, <2>2, <2>3, <1>2 DEF PushTypeOK, SaverState
<1>8. \A s \in Savers : saver'[s].pc \in {"clear", "commit"} => s # r
  BY <1>2
<1>9. AllMet'
  BY <1>2, <1>4, <1>8 DEF AllMet, OpenDefault
<1>10. AllWrites'
  <2>1. WritesOf(r)'
    BY <1>2, <1>4 DEF WritesOf
  <2>2. ASSUME NEW s \in Savers \ {r} PROVE WritesOf(s)'
    BY <1>2, <1>4, SameWrites DEF AllWrites
  <2> QED
    BY <2>1, <2>2 DEF AllWrites
<1>11. LeavesOne'
  <2>1. ASSUME NEW s \in Savers, saver'[s].pc = "commit", saver'[s].flag = "default", met'[s] = {},
               NEW t \in Targets \ {saver'[s].on}
        PROVE  Seen(s, t)' # "default"
    <3>1. s # r /\ saver'[s] = saver[s] /\ wrote'[s] = wrote[s] /\ met[s] = {}
      BY <2>1, <1>2, <1>4, <1>8
    <3>2. Seen(s, t) # "default"
      BY <2>1, <3>1 DEF LeavesOne
    <3>3. saver[r].flag # "default"
      BY <2>1, <3>1, <1>1 DEF AllMet, OpenDefault
    <3>4. target'[t] = "default" => target[t] = "default"
      BY <1>6, <3>3
    <3> QED
      BY <3>1, <3>2, <3>4 DEF Seen
  <2> QED
    BY <2>1 DEF LeavesOne
<1>12. doubled' \/ One(target')
  <2>1. CASE saver[r].flag = "default"
    <3>1. ASSUME met[r] = {}, NEW t \in Targets, target'[t] = "default" PROVE t = saver[r].on
      BY <3>1, <2>1, <1>1, <1>5 DEF LeavesOne
    <3> QED
      BY <3>1, <2>1, <1>1 DEF One
  <2>2. CASE saver[r].flag # "default"
    BY <2>2, <1>1, <1>6 DEF One
  <2> QED
    BY <2>1, <2>2
<1> QED
  BY <1>7, <1>9, <1>10, <1>11, <1>12 DEF One

LEMMA NextPush == PushInv /\ [PushNext]_pushVars => PushInv'
<1> SUFFICES ASSUME PushInv, [PushNext]_pushVars PROVE PushInv'
  OBVIOUS
<1>1. ASSUME NEW r \in Savers, NEW op \in {"create", "update", "delete"}, NEW t \in Targets,
             NEW flag \in Flags, Accept(r, op, t, flag)
      PROVE  PushInv'
  BY <1>1, AcceptKept
<1>2. ASSUME NEW r \in Savers, SaveTarget(r) PROVE PushInv'
  BY <1>2, SaveTargetKept
<1>3. ASSUME NEW r \in Savers, ClearOthers(r) PROVE PushInv'
  BY <1>3, ClearKept
<1>4. ASSUME NEW r \in Savers, CommitTarget(r) PROVE PushInv'
  BY <1>4, CommitTargetKept
<1>5. ASSUME NEW r \in Savers, AbortTarget(r) PROVE PushInv'
  BY <1>5, GoneKept DEF AbortTarget
<1>6. CASE UNCHANGED pushVars
  <2>1. UNCHANGED <<target, saver, wrote, met, doubled>>
    BY <1>6 DEF pushVars
  <2>2. PushTypeOK' /\ AllMet' /\ AllWrites'
    BY <2>1 DEF PushInv, PushTypeOK, AllMet, OpenDefault, AllWrites, WritesOf
  <2>3. LeavesOne' /\ (doubled' \/ One(target'))
    BY <2>1 DEF PushInv, LeavesOne, Seen, One
  <2> QED
    BY <2>2, <2>3 DEF PushInv
<1> QED
  BY <1>1, <1>2, <1>3, <1>4, <1>5, <1>6 DEF PushNext

\* Never two defaults, unless the last one was saved while another one was, for
\* any number of targets and of requests that save, wait, fail and die.
THEOREM OneDefaultHolds == PushSpec => []OneDefault
<1>1. PushInv => OneDefault
  BY CountedOne DEF PushInv, OneDefault
<1> QED
  BY InitPush, NextPush, <1>1, PTL DEF PushSpec

-----------------------------------------------------------------------------
(* SystemStatus                                                            *)
(*                                                                         *)
(* The status tells the truth because the ages it reads are bounded from   *)
(* both sides: by the time the part has been gone, and by the writes that  *)
(* may be lost or the stamp of beat that is due.                           *)

\* A part that is gone has not given a sign of life since, and one that is up
\* is not gone.
SignsOfLife ==
  \A p \in {"scheduler", "celery_beat"} : gone[p] <= age[p] /\ (p \in up => gone[p] = 0)

\* The file of a scheduler that is up is as old as the writes lost in a row.
FileAge ==
  "scheduler" \in up => age["scheduler"] <= lost + (IF beaten THEN 0 ELSE 1)

\* While everything is up, the next stamp of beat is due within its period: one
\* was made, or none was due yet, or the one that is due waits in the queue.
StampDue ==
  calm > 0 =>
    /\ up = Parts /\ ~busy
    /\ \/ age["celery_beat"] + nextBeat <= BeatEvery
       \/ calm + nextBeat <= BeatEvery
       \/ queue > 0 /\ (age["celery_beat"] <= BeatEvery \/ calm <= BeatEvery)

StatusInv == StatusTypeOK /\ SignsOfLife /\ FileAge /\ StampDue

LEMMA StatusNumbers ==
  /\ SchedulerStale \in Nat /\ BeatStale \in Nat /\ BeatEvery \in Nat /\ MaxLost \in Nat
  /\ 0 < BeatEvery /\ BeatEvery < BeatStale /\ MaxLost < SchedulerStale
  /\ Cap \in Nat /\ SchedulerStale < Cap /\ BeatStale < Cap /\ BeatEvery < Cap
BY StatusAssumption DEF Cap

LEMMA StatusFields ==
  ASSUME StatusTypeOK
  PROVE  /\ age["scheduler"] \in 0..Cap /\ age["celery_beat"] \in 0..Cap
         /\ gone["scheduler"] \in 0..Cap /\ gone["celery_beat"] \in 0..Cap
         /\ DOMAIN age = {"scheduler", "celery_beat"} /\ DOMAIN gone = {"scheduler", "celery_beat"}
         /\ queue \in 0..2 /\ nextBeat \in 0..BeatEvery /\ lost \in 0..MaxLost /\ calm \in 0..Cap
BY DEF StatusTypeOK, Full

\* A clock that counts no further than Cap keeps the order of two.
LEMMA LaterKeeps ==
  ASSUME NEW m \in 0..Cap, NEW n \in 0..Cap
  PROVE  /\ Later(m) \in 0..Cap
         /\ m <= n => Later(m) <= Later(n)
         /\ Later(m) <= m + 1 /\ Later(m) # 0
BY StatusNumbers DEF Later

LEMMA InitStatus == StatusInit => StatusInv
<1> SUFFICES ASSUME StatusInit PROVE StatusInv
  OBVIOUS
<1>1. StatusTypeOK
  <2>1. up \in SUBSET Parts
    BY DEF StatusInit, Parts
  <2>2. busy \in BOOLEAN /\ beaten \in BOOLEAN
    BY DEF StatusInit
  <2>3. queue \in 0..Full /\ nextBeat \in 0..BeatEvery /\ lost \in 0..MaxLost /\ calm \in 0..Cap
    BY StatusNumbers DEF StatusInit, Full
  <2>4. \A p \in {"scheduler", "celery_beat"} : Cap \in 0..Cap /\ 0 \in 0..Cap
    BY StatusNumbers
  <2> QED
    BY <2>1, <2>2, <2>3, <2>4 DEF StatusInit, StatusTypeOK
<1>2. SignsOfLife
  BY StatusNumbers DEF StatusInit, SignsOfLife
<1>3. FileAge /\ StampDue
  BY DEF StatusInit, FileAge, StampDue
<1> QED
  BY <1>1, <1>2, <1>3 DEF StatusInv

LEMMA StartKept ==
  ASSUME StatusInv, NEW p \in Parts, Start(p)
  PROVE  StatusInv'
<1> USE DEF StatusInv
<1>1. calm = 0
  BY StatusFields DEF Start, StampDue
<1>2. DOMAIN gone = {"scheduler", "celery_beat"}
  BY StatusFields
<1>3. StatusTypeOK'
  BY <1>2, StatusNumbers DEF Start, StatusTypeOK, Parts
<1>4. SignsOfLife'
  <2>1. CASE p = "scheduler"
    BY <2>1, <1>2, StatusFields DEF Start, SignsOfLife
  <2>2. CASE p = "celery_beat"
    BY <2>2, <1>2, StatusFields DEF Start, SignsOfLife
  <2>3. CASE p \notin {"scheduler", "celery_beat"}
    BY <2>3, <1>2, StatusFields DEF Start, SignsOfLife
  <2> QED
    BY <2>1, <2>2, <2>3
<1>5. FileAge'
  <2>1. CASE p = "scheduler"
    BY <2>1, StatusFields DEF Start, FileAge
  <2>2. CASE p # "scheduler"
    BY <2>2, StatusFields DEF Start, FileAge
  <2> QED
    BY <2>1, <2>2
<1>6. StampDue'
  BY <1>1 DEF Start, StampDue
<1> QED
  BY <1>3, <1>4, <1>5, <1>6

LEMMA StopKept ==
  ASSUME StatusInv, NEW p \in Parts, Stop(p)
  PROVE  StatusInv'
BY StatusNumbers DEF Stop, StatusInv, StatusTypeOK, SignsOfLife, FileAge, StampDue

LEMMA BeatsKept ==
  ASSUME StatusInv, NEW written \in BOOLEAN, SchedulerBeats(written)
  PROVE  StatusInv'
<1> USE DEF StatusInv
<1>1. StatusTypeOK'
  BY StatusNumbers, StatusFields DEF SchedulerBeats, StatusTypeOK
<1>2. SignsOfLife'
  BY StatusNumbers, StatusFields DEF SchedulerBeats, SignsOfLife
<1>3. FileAge'
  <2>1. CASE written
    BY <2>1, StatusNumbers, StatusFields DEF SchedulerBeats, FileAge
  <2>2. CASE ~written
    BY <2>2, StatusNumbers, StatusFields DEF SchedulerBeats, FileAge
  <2> QED
    BY <2>1, <2>2
<1>4. StampDue'
  BY StatusFields DEF SchedulerBeats, StampDue
<1> QED
  BY <1>1, <1>2, <1>3, <1>4

LEMMA SendKept ==
  ASSUME StatusInv, SendBeat
  PROVE  StatusInv'
<1> USE DEF StatusInv
<1>1. StatusTypeOK'
  BY StatusNumbers DEF SendBeat, StatusTypeOK, Full
<1>2. SignsOfLife' /\ FileAge'
  BY DEF SendBeat, SignsOfLife, FileAge
<1>3. StampDue'
  BY StatusNumbers, StatusFields DEF SendBeat, StampDue, Parts, Full
<1> QED
  BY <1>1, <1>2, <1>3

LEMMA StampKept ==
  ASSUME StatusInv, StampBeat
  PROVE  StatusInv'
<1> USE DEF StatusInv
<1>1. StatusTypeOK'
  BY StatusNumbers DEF StampBeat, StatusTypeOK, Full
<1>2. SignsOfLife'
  BY StatusFields DEF StampBeat, SignsOfLife
<1>3. FileAge'
  BY StatusFields DEF StampBeat, FileAge
<1>4. StampDue'
  BY StatusNumbers, StatusFields DEF StampBeat, StampDue, Parts
<1> QED
  BY <1>1, <1>2, <1>3, <1>4

LEMMA IntervalKept ==
  ASSUME StatusInv, IntervalPasses
  PROVE  StatusInv'
<1> DEFINE D == {"scheduler", "celery_beat"}
<1> USE DEF StatusInv
<1>1. /\ age' = [p \in D |-> Later(age[p])]
      /\ gone' = [p \in D |-> IF p \in up \/ (p = "celery_beat" /\ queue > 0) THEN 0
                              ELSE Later(gone[p])]
      /\ up' = up /\ busy' = busy /\ queue' = queue /\ lost' = lost /\ beaten' = FALSE
      /\ calm' = IF up = Parts /\ ~busy THEN Later(calm) ELSE 0
      /\ nextBeat' = IF nextBeat > 0 THEN nextBeat - 1 ELSE 0
  BY StatusFields DEF IntervalPasses
<1>2. \A p \in D : age[p] \in 0..Cap /\ gone[p] \in 0..Cap
  BY StatusFields
<1>3. \A p \in D : /\ Later(age[p]) \in 0..Cap /\ Later(gone[p]) \in 0..Cap
                   /\ Later(age[p]) <= age[p] + 1
                   /\ gone[p] <= age[p] => Later(gone[p]) <= Later(age[p])
  BY <1>2, LaterKeeps
<1>4. Later(calm) \in 0..Cap /\ Later(calm) <= calm + 1
  BY StatusFields, LaterKeeps
<1>5. StatusTypeOK'
  <2>1. age' \in [D -> 0..Cap] /\ gone' \in [D -> 0..Cap]
    BY <1>1, <1>3, StatusNumbers
  <2>2. nextBeat' \in 0..BeatEvery /\ calm' \in 0..Cap
    BY <1>1, <1>4, StatusFields, StatusNumbers
  <2> QED
    BY <2>1, <2>2, <1>1 DEF StatusTypeOK
<1>6. SignsOfLife'
  BY <1>1, <1>2, <1>3, StatusNumbers DEF SignsOfLife
<1>7. FileAge'
  <2>1. ASSUME "scheduler" \in up PROVE age'["scheduler"] <= lost + 1
    <3>1. beaten /\ age["scheduler"] <= lost
      BY <2>1, StatusFields DEF IntervalPasses, FileAge
    <3> QED
      BY <3>1, <1>1, <1>2, <1>3, StatusFields
  <2> QED
    BY <2>1, <1>1 DEF FileAge
<1>8. StampDue'
  <2>1. SUFFICES ASSUME calm' > 0
                 PROVE  /\ up = Parts /\ ~busy
                        /\ \/ age'["celery_beat"] + nextBeat' <= BeatEvery
                           \/ calm' + nextBeat' <= BeatEvery
    BY <1>1 DEF StampDue
  <2>2. up = Parts /\ ~busy /\ calm' = Later(calm)
    BY <2>1, <1>1
  <2>3. queue = 0 /\ nextBeat > 0 /\ nextBeat' = nextBeat - 1
    BY <2>2, <1>1, StatusFields DEF IntervalPasses, WorkerFree, Parts
  <2>4. age'["celery_beat"] <= age["celery_beat"] + 1 /\ age'["celery_beat"] \in 0..Cap
    BY <1>1, <1>3
  <2>5. calm' <= calm + 1 /\ calm' \in 0..Cap
    BY <2>2, <1>4
  <2>6. \/ age["celery_beat"] + nextBeat <= BeatEvery
        \/ calm + nextBeat <= BeatEvery
    BY <2>3, StatusFields, StatusNumbers DEF StampDue
  <2> QED
    BY <2>2, <2>3, <2>4, <2>5, <2>6, StatusFields, StatusNumbers
<1> QED
  BY <1>5, <1>6, <1>7, <1>8

LEMMA NextStatus == StatusInv /\ [StatusNext]_statusVars => StatusInv'
<1> SUFFICES ASSUME StatusInv, [StatusNext]_statusVars PROVE StatusInv'
  OBVIOUS
<1>1. ASSUME NEW p \in Parts, Start(p) PROVE StatusInv'
  BY <1>1, StartKept
<1>2. ASSUME NEW p \in Parts, Stop(p) PROVE StatusInv'
  BY <1>2, StopKept
<1>3. ASSUME NEW written \in BOOLEAN, SchedulerBeats(written) PROVE StatusInv'
  BY <1>3, BeatsKept
<1>4. CASE SendBeat
  BY <1>4, SendKept
<1>5. CASE StampBeat
  BY <1>5, StampKept
<1>6. CASE RunJob
  BY <1>6, StatusNumbers
  DEF RunJob, StatusInv, StatusTypeOK, SignsOfLife, FileAge, StampDue
<1>7. CASE EndJob
  BY <1>7 DEF EndJob, StatusInv, StatusTypeOK, SignsOfLife, FileAge, StampDue
<1>8. CASE IntervalPasses
  BY <1>8, IntervalKept
<1>9. CASE UNCHANGED statusVars
  BY <1>9 DEF statusVars, StatusInv, StatusTypeOK, SignsOfLife, FileAge, StampDue
<1> QED
  BY <1>1, <1>2, <1>3, <1>4, <1>5, <1>6, <1>7, <1>8, <1>9 DEF StatusNext

\* What the page says follows from the ages.
LEMMA TrueStatus == StatusInv => StatusIsTrue
<1> SUFFICES ASSUME StatusInv, NEW required \in Installations
             PROVE  LET missing == {p \in required :
                          CASE p \in DOMAIN gone ->
                                 gone[p] > IF p = "scheduler" THEN SchedulerStale ELSE BeatStale
                            [] OTHER -> p \notin up}
                    IN  /\ missing # {} => Overall(required) # "ok"
                        /\ missing \cap Critical # {} => Overall(required) = "down"
                        /\ calm > BeatEvery => Overall(required) = "ok"
  BY DEF StatusIsTrue
<1> USE DEF StatusInv
<1> DEFINE Gone(p) == CASE p \in DOMAIN gone ->
                             gone[p] > IF p = "scheduler" THEN SchedulerStale ELSE BeatStale
                        [] OTHER -> p \notin up
           missing == {p \in required : Gone(p)}
<1>1. required \subseteq Parts
  BY DEF Installations, Celery, Parts
<1>2. ASSUME NEW p \in required, Gone(p) PROVE ~CheckPart(p)
  <2>1. CASE p \in {"scheduler", "celery_beat"}
    <3>1. p \in DOMAIN gone
      BY <2>1, StatusFields
    <3>2. gone[p] <= age[p] /\ gone[p] > IF p = "scheduler" THEN SchedulerStale ELSE BeatStale
      BY <1>2, <2>1, <3>1 DEF SignsOfLife
    <3>3. age[p] > IF p = "scheduler" THEN SchedulerStale ELSE BeatStale
      BY <3>2, <2>1, StatusFields, StatusNumbers
    <3>4. ~Fresh(p, IF p = "scheduler" THEN SchedulerStale ELSE BeatStale)
      BY <3>3, <2>1, StatusFields, StatusNumbers DEF Fresh
    <3> QED
      BY <3>4, <2>1 DEF CheckPart
  <2>2. CASE p \notin {"scheduler", "celery_beat"}
    <3>1. p \notin up
      BY <1>2, <2>2, StatusFields
    <3>2. p \in {"database", "redis", "celery_worker"}
      BY <1>1, <2>2 DEF Parts
    <3> QED
      BY <3>1, <3>2 DEF CheckPart, WorkerFree
  <2> QED
    BY <2>1, <2>2
<1>3. ASSUME calm > BeatEvery, NEW p \in required PROVE CheckPart(p)
  <2>1. calm > 0 /\ up = Parts /\ ~busy
    BY <1>3, StatusFields, StatusNumbers DEF StampDue
  <2>2. age["celery_beat"] <= BeatStale
    <3>1. \/ age["celery_beat"] + nextBeat <= BeatEvery
          \/ calm + nextBeat <= BeatEvery
          \/ age["celery_beat"] <= BeatEvery \/ calm <= BeatEvery
      BY <2>1 DEF StampDue
    <3> QED
      BY <3>1, <1>3, StatusFields, StatusNumbers
  <2>3. age["scheduler"] <= SchedulerStale
    <3>1. age["scheduler"] <= lost + (IF beaten THEN 0 ELSE 1)
      BY <2>1 DEF FileAge, Parts
    <3> QED
      BY <3>1, StatusFields, StatusNumbers
  <2>4. p \in Parts
    BY <1>1
  <2> QED
    BY <2>1, <2>2, <2>3, <2>4 DEF CheckPart, WorkerFree, Fresh, Parts
<1>4. missing \subseteq DownParts(required)
  BY <1>2 DEF DownParts
<1>5. missing # {} => Overall(required) # "ok"
  BY <1>4 DEF Overall
<1>6. missing \cap Critical # {} => Overall(required) = "down"
  BY <1>4 DEF Overall
<1>7. calm > BeatEvery => Overall(required) = "ok"
  BY <1>3 DEF Overall, DownParts
<1> QED
  BY <1>5, <1>6, <1>7

\* A part that is gone is reported, and nothing else is once everything has been
\* up for a period of beat, for any periods and limits.
THEOREM StatusHolds == StatusSpec => []StatusIsTrue
BY InitStatus, NextStatus, TrueStatus, PTL DEF StatusSpec

-----------------------------------------------------------------------------
(* History                                                                 *)
(*                                                                         *)
(* Half a line is in the file only while its appender is at it, or after   *)
(* one died or met another; and a pruner keeps what it has read unless it  *)
(* met a writer.                                                           *)

Met(w)    == Clashed(w, "append") \/ Clashed(w, "prune")
PrunersMet == \E w \in Writers : writer[w].op = "prune" /\ Clashed(w, "prune")
Appended  == {w \in Writers : writer[w].op = "append" /\ writer[w].pc \in {"unlock", "done"}}

WriterState == [op   : {"append", "prune"},
                pc   : {"lock", "unlock", "done"} \cup AppendLabels \cup PruneLabels,
                open : Files \cup {0},
                kept : SUBSET Writers]

\* The part of the types the rest needs.
Shapes ==
  /\ writer \in [Writers -> WriterState]
  /\ file \in Files /\ tmp \in Files \cup {0}
  /\ content \in [Files -> Content]
  /\ \A w \in Writers :
       /\ writer[w].pc \in AppendLabels => writer[w].op = "append"
       /\ writer[w].pc \in PruneLabels => writer[w].op = "prune"
       /\ writer[w].pc \in {"write", "replace"} => writer[w].open # 0

\* Two writers at work have met.
Together == \A w, v \in Working : w # v => {w, v} \in clash

\* The temporary file is not the file, and no append has it open.
TmpApart ==
  tmp # 0 => tmp # file /\ \A w \in Writers : writer[w].op = "append" => writer[w].open # tmp

\* A file with half a line in it: the appender is still at it, or there is one
\* that died or met another. The first of several is such a one.
Halves ==
  \A f \in Files :
    /\ \A w \in content[f].half :
         /\ w \in Writers /\ writer[w].op = "append" /\ writer[w].open = f
         /\ writer[w].pc \in {"half", "unlock", "done"}
    /\ \/ content[f].half = {}
       \/ \E w \in Writers : content[f].half = {w} /\ writer[w].pc = "half"
       \/ \E w \in content[f].half : w \in dead \/ Met(w)

\* The appender that is at it works on the file, but for one that was met.
AtHalf ==
  \A w \in Writers : writer[w].pc = "half" =>
    /\ writer[w].open \in Files
    /\ w \in content[writer[w].open].half
    /\ writer[w].open = file \/ w \in dead \/ Met(w)

Spoilt(w) == writer[w].open \in Files /\ w \in content[writer[w].open].half

LinesKept ==
  \A w \in Appended : Met(w) \/ PrunersMet \/ Spoilt(w) \/ w \in content[file].lines

\* A pruning has read every such line, writes to the temporary file, and has
\* written what it has read.
PruningKeeps ==
  \A p \in Working : writer[p].op = "prune" /\ ~PrunersMet =>
    /\ writer[p].pc \in {"truncate", "write", "replace"} =>
         \A w \in Appended : Met(w) \/ Spoilt(w) \/ w \in writer[p].kept
    /\ writer[p].pc \in {"write", "replace"} => writer[p].open = tmp
    /\ writer[p].pc = "replace" => writer[p].kept \subseteq content[tmp].lines

HistoryInv ==
  Shapes /\ Together /\ TmpApart /\ Halves /\ AtHalf /\ LinesKept /\ PruningKeeps

-----------------------------------------------------------------------------
LEMMA FilesNumbers == Cardinality(Writers) \in Nat /\ 1 \in Files /\ 0 \notin Files
<1>1. Cardinality(Writers) \in Nat
  BY WritersAssumption, FS_CardinalityType
<1> QED
  BY <1>1 DEF Files

LEMMA WriterFields ==
  ASSUME Shapes, NEW w \in Writers
  PROVE  /\ writer[w] \in WriterState /\ writer[w].op \in {"append", "prune"}
         /\ writer[w].pc \in {"lock", "unlock", "done"} \cup AppendLabels \cup PruneLabels
         /\ writer[w].open \in Files \cup {0} /\ writer[w].kept \subseteq Writers
BY DEF Shapes, WriterState

LEMMA ChangedState ==
  ASSUME NEW q \in WriterState, NEW kept \in SUBSET Writers,
         NEW label \in {"lock", "unlock", "done"} \cup AppendLabels \cup PruneLabels
  PROVE  [q EXCEPT !.pc = label, !.kept = kept] \in WriterState
<1> DEFINE y == [q EXCEPT !.pc = label]
<1>1. y \in WriterState
  BY DEF WriterState
<1> HIDE DEF y
<1>2. [y EXCEPT !.kept = kept] \in WriterState
  BY <1>1 DEF WriterState
<1> QED
  BY <1>2 DEF y

LEMMA ContentFields ==
  ASSUME Shapes, NEW f \in Files
  PROVE  /\ content[f] \in Content
         /\ content[f].lines \subseteq Writers /\ content[f].half \subseteq Writers
BY DEF Shapes, Content

\* Who has met another has met him.
LEMMA MetPair ==
  ASSUME Shapes, NEW w \in Writers, NEW v \in Writers, w # v, {w, v} \in clash
  PROVE  /\ Met(w) /\ Met(v)
         /\ writer[w].op = "prune" /\ writer[v].op = "prune" => PrunersMet
<1>1. {w, v} = {v, w}
  OBVIOUS
<1>2. writer[w].op \in {"append", "prune"} /\ writer[v].op \in {"append", "prune"}
  BY WriterFields
<1> QED
  BY <1>1, <1>2 DEF Met, Clashed, PrunersMet

\* A meeting is not forgotten.
LEMMA MetGrows ==
  ASSUME clash \subseteq clash', \A v \in Writers : writer'[v].op = writer[v].op
  PROVE  /\ \A w \in Writers : Met(w) => Met(w)'
         /\ PrunersMet => PrunersMet'
BY DEF Met, Clashed, PrunersMet

LEMMA WorkingIs ==
  ASSUME NEW w \in Writers
  PROVE  w \in Working <=> w \notin dead /\ writer[w].pc \in AppendLabels \cup PruneLabels
BY DEF Working

\* A writer that is not new at work meets nobody.
LEMMA TogetherKept ==
  ASSUME Together, clash \subseteq clash', Working' \subseteq Working
  PROVE  Together'
BY DEF Together

\* A step of one writer: what it does not touch.
LEMMA OneStep ==
  ASSUME Shapes, NEW w \in Writers, NEW x \in WriterState, writer' = [writer EXCEPT ![w] = x]
  PROVE  /\ writer' \in [Writers -> WriterState] /\ writer'[w] = x
         /\ \A v \in Writers : v # w => writer'[v] = writer[v]
BY DEF Shapes

LEMMA InitHistory == HistoryInit => HistoryInv
<1> SUFFICES ASSUME HistoryInit PROVE HistoryInv
  OBVIOUS
<1> USE FilesNumbers
<1>1. PICK appenders \in SUBSET Writers :
        writer = [w \in Writers |-> [op |-> IF w \in appenders THEN "append" ELSE "prune",
                                     pc |-> "lock", open |-> 0, kept |-> {}]]
  BY DEF HistoryInit
<1>2. writer \in [Writers -> WriterState] /\ \A w \in Writers : writer[w].pc = "lock"
  BY <1>1 DEF WriterState
<1>3. content \in [Files -> Content] /\ \A f \in Files : content[f].half = {}
  BY DEF HistoryInit, Blank, Content
<1>4. Shapes
  BY <1>2, <1>3 DEF HistoryInit, Shapes, AppendLabels, PruneLabels
<1>5. Working = {} /\ Appended = {}
  BY <1>2 DEF Working, Appended, AppendLabels, PruneLabels
<1> QED
  BY <1>2, <1>3, <1>4, <1>5
  DEF HistoryInit, HistoryInv, Together, TmpApart, Halves, AtHalf, LinesKept, PruningKeeps

\* Where a line is half written, somebody has opened the file.
LEMMA HalfOf ==
  ASSUME HistoryInv, NEW f \in Files, NEW w \in content[f].half
  PROVE  /\ w \in Writers /\ writer[w].op = "append" /\ writer[w].open = f
         /\ writer[w].pc \in {"half", "unlock", "done"}
BY DEF HistoryInv, Halves

\* A writer comes to work, or leaves it: the files stay.
LEMMA MoveKept ==
  ASSUME HistoryInv, NEW w \in Writers, NEW x \in WriterState, writer' = [writer EXCEPT ![w] = x],
         x.op = writer[w].op, x.open = writer[w].open, UNCHANGED <<file, tmp, content, dead>>,
         clash \subseteq clash', Together',
         \/ writer[w].pc = "lock" /\ x.pc = IF x.op = "append" THEN "append" ELSE "read"
         \/ writer[w].pc = "unlock" /\ x.pc = "done"
         \/ writer[w].pc = "read" /\ x.pc = "unlock"
         \/ /\ writer[w].pc = "read" /\ x.pc = "truncate"
            /\ x.kept = content[file].lines
  PROVE  HistoryInv'
<1> USE DEF HistoryInv
<1>1. /\ writer' \in [Writers -> WriterState] /\ writer'[w] = x
      /\ \A v \in Writers : v # w => writer'[v] = writer[v]
  BY OneStep
<1>2. \A v \in Writers : writer'[v].op = writer[v].op /\ writer'[v].open = writer[v].open
  BY <1>1
<1>3. (\A v \in Writers : Met(v) => Met(v)') /\ (PrunersMet => PrunersMet')
  BY <1>2, MetGrows
<1>4. \A v \in Writers : Spoilt(v)' <=> Spoilt(v)
  BY <1>2 DEF Spoilt
<1>5. writer[w].pc = "read" => writer[w].op = "prune"
  BY DEF Shapes, PruneLabels
<1>6. Appended' = Appended
  <2>1. \A v \in Writers : v \in Appended' <=> v \in Appended
    <3>1. w \in Appended' <=> w \in Appended
      BY <1>1, <1>5 DEF Appended
    <3> QED
      BY <3>1, <1>1 DEF Appended
  <2> QED
    BY <2>1 DEF Appended
<1>7. Shapes'
  <2>1. \A v \in Writers : /\ writer'[v].pc \in AppendLabels => writer'[v].op = "append"
                           /\ writer'[v].pc \in PruneLabels => writer'[v].op = "prune"
                           /\ writer'[v].pc \in {"write", "replace"} => writer'[v].open # 0
    <3>1. x.op \in {"append", "prune"}
      BY WriterFields
    <3> QED
      BY <1>1, <1>5, <3>1 DEF Shapes, AppendLabels, PruneLabels
  <2> QED
    BY <1>1, <2>1 DEF Shapes
<1>8. TmpApart'
  BY <1>2 DEF TmpApart
<1>9. Halves'
  <2>1. ASSUME NEW f \in Files, NEW v \in content[f].half
        PROVE  /\ v \in Writers /\ writer'[v].op = "append" /\ writer'[v].open = f
               /\ writer'[v].pc \in {"half", "unlock", "done"}
               /\ writer[v].pc = "half" => writer'[v].pc = "half"
    BY <1>1, <1>2, HalfOf
  <2>2. ASSUME NEW f \in Files
        PROVE  \/ content[f].half = {}
               \/ \E v \in Writers : content[f].half = {v} /\ writer'[v].pc = "half"
               \/ \E v \in content[f].half : v \in dead \/ Met(v)'
    <3>1. CASE \E v \in Writers : content[f].half = {v} /\ writer[v].pc = "half"
      BY <3>1, <2>1
    <3>2. CASE \E v \in content[f].half : v \in dead \/ Met(v)
      BY <3>2, <1>3, HalfOf
    <3> QED
      BY <3>1, <3>2 DEF Halves
  <2> QED
    BY <2>1, <2>2 DEF Halves
<1>10. AtHalf'
  <2>1. ASSUME NEW v \in Writers, writer'[v].pc = "half" PROVE v # w /\ writer[v].pc = "half"
    BY <2>1, <1>1
  <2> QED
    BY <2>1, <1>2, <1>3 DEF AtHalf
<1>11. LinesKept'
  BY <1>3, <1>4, <1>6 DEF LinesKept, Appended
<1>12. PruningKeeps'
  <2>1. ASSUME NEW p \in Writers, p \in Working', writer'[p].op = "prune", ~PrunersMet'
        PROVE  /\ writer'[p].pc \in {"truncate", "write", "replace"} =>
                    \A v \in Appended : Met(v)' \/ Spoilt(v)' \/ v \in writer'[p].kept
               /\ writer'[p].pc \in {"write", "replace"} => writer'[p].open = tmp
               /\ writer'[p].pc = "replace" => writer'[p].kept \subseteq content[tmp].lines
    <3>0. ~PrunersMet /\ Appended \subseteq Writers
      BY <2>1, <1>3 DEF Appended
    <3>1. CASE p = w
      <4>1. writer'[p].pc \in {"truncate", "write", "replace"} =>
              writer'[p].pc = "truncate" /\ writer'[p].kept = content[file].lines
        BY <3>1, <1>1
      <4> QED
        BY <4>1, <3>0, <1>3, <1>4 DEF LinesKept
    <3>2. CASE p # w
      <4>1. p \in Working /\ writer'[p] = writer[p]
        BY <3>2, <2>1, <1>1 DEF Working
      <4> QED
        BY <4>1, <3>0, <2>1, <1>3, <1>4 DEF PruningKeeps
    <3> QED
      BY <3>1, <3>2
  <2>2. Working' \subseteq Writers
    BY DEF Working
  <2> QED
    BY <2>1, <2>2, <1>6 DEF PruningKeeps
<1> QED
  BY <1>7, <1>8, <1>9, <1>10, <1>11, <1>12

LEMMA EnterKept ==
  ASSUME HistoryInv, NEW w \in Writers, At(w, "lock"), Enter(w)
  PROVE  HistoryInv'
<1> DEFINE x == [writer[w] EXCEPT !.pc = IF writer[w].op = "append" THEN "append" ELSE "read"]
<1> USE DEF HistoryInv
<1>1. writer' = [writer EXCEPT ![w] = x] /\ x \in WriterState
  BY WriterFields DEF Enter, To, WriterState, AppendLabels, PruneLabels, Shapes
<1>2. x.op = writer[w].op /\ x.open = writer[w].open /\ writer[w].pc = "lock"
      /\ x.pc = IF x.op = "append" THEN "append" ELSE "read"
  BY WriterFields DEF WriterState, At
<1>3. UNCHANGED <<file, tmp, content, dead>> /\ clash' = clash \cup {{w, v} : v \in Working}
  BY DEF Enter
<1>4. \A v \in Writers : v # w => writer'[v] = writer[v]
  BY <1>1, OneStep
<1>5. Together'
  <2>1. ASSUME NEW a \in Writers, NEW b \in Writers, a \in Working', b \in Working', a # b
        PROVE  {a, b} \in clash'
    <3>1. CASE a = w
      <4>1. b \in Working
        BY <3>1, <2>1, <1>3, <1>4 DEF Working
      <4> QED
        BY <4>1, <3>1, <1>3
    <3>2. CASE b = w
      <4>1. a \in Working /\ {a, b} = {w, a}
        BY <3>2, <2>1, <1>3, <1>4 DEF Working
      <4> QED
        BY <4>1, <1>3
    <3>3. CASE a # w /\ b # w
      <4>1. a \in Working /\ b \in Working
        BY <3>3, <2>1, <1>3, <1>4 DEF Working
      <4> QED
        BY <4>1, <2>1, <1>3 DEF Together
    <3> QED
      BY <3>1, <3>2, <3>3
  <2>2. Working' \subseteq Writers
    BY DEF Working
  <2> QED
    BY <2>1, <2>2 DEF Together
<1> HIDE DEF x
<1> QED
  BY <1>1, <1>2, <1>3, <1>5, MoveKept

LEMMA UnlockKept ==
  ASSUME HistoryInv, NEW w \in Writers, Unlock(w)
  PROVE  HistoryInv'
<1> DEFINE x == [writer[w] EXCEPT !.pc = "done", !.kept = {}]
<1> USE DEF HistoryInv
<1>1. writer' = [writer EXCEPT ![w] = x]
  BY DEF Unlock, Shapes
<1>0. x \in WriterState
  BY WriterFields, ChangedState
<1>2. x.op = writer[w].op /\ x.open = writer[w].open /\ x.pc = "done" /\ writer[w].pc = "unlock"
  BY WriterFields DEF WriterState, Unlock, At
<1>3. UNCHANGED <<file, tmp, content, dead, clash>>
  BY DEF Unlock
<1> HIDE DEF x
<1>4. writer'[w] = x /\ \A v \in Writers : v # w => writer'[v] = writer[v]
  BY <1>0, <1>1, OneStep
<1>5. Working' \subseteq Working
  BY <1>2, <1>3, <1>4 DEF Working, AppendLabels, PruneLabels
<1>6. Together'
  BY <1>3, <1>5, TogetherKept
<1> QED
  BY <1>0, <1>1, <1>2, <1>3, <1>6, MoveKept

LEMMA ReadKeptLines ==
  ASSUME HistoryInv, NEW w \in Writers, ReadAll(w)
  PROVE  HistoryInv'
<1> USE DEF HistoryInv
<1>1. writer[w].pc = "read" /\ UNCHANGED <<file, tmp, content, dead, clash>>
  BY DEF ReadAll, At
<1>2. PICK x \in WriterState :
        /\ writer' = [writer EXCEPT ![w] = x]
        /\ x.op = writer[w].op /\ x.open = writer[w].open
        /\ x.pc = "unlock" \/ (x.pc = "truncate" /\ x.kept = content[file].lines)
  <2>1. CASE Unread(file)
    <3> DEFINE x == [writer[w] EXCEPT !.pc = "unlock"]
    <3>1. writer' = [writer EXCEPT ![w] = x] /\ x \in WriterState
      BY <2>1, WriterFields DEF ReadAll, WriterState, Shapes
    <3>2. x.op = writer[w].op /\ x.open = writer[w].open /\ x.pc = "unlock"
      BY WriterFields DEF WriterState
    <3> QED
      BY <3>1, <3>2
  <2>2. CASE ~Unread(file)
    <3> DEFINE x == [writer[w] EXCEPT !.pc = "truncate", !.kept = content[file].lines]
    <3>0. content[file].lines \subseteq Writers
      BY ContentFields DEF Shapes
    <3>1. writer' = [writer EXCEPT ![w] = x]
      BY <2>2 DEF ReadAll, Shapes
    <3>3. x \in WriterState
      BY <3>0, WriterFields, ChangedState DEF PruneLabels
    <3>2. x.op = writer[w].op /\ x.open = writer[w].open /\ x.pc = "truncate"
          /\ x.kept = content[file].lines
      BY WriterFields DEF WriterState
    <3> QED
      BY <3>1, <3>2, <3>3
  <2> QED
    BY <2>1, <2>2
<1>3. writer'[w] = x /\ \A v \in Writers : v # w => writer'[v] = writer[v]
  BY <1>2, OneStep
<1>4. Working' \subseteq Working
  BY <1>1, <1>3 DEF Working, PruneLabels
<1>5. Together'
  BY <1>1, <1>4, TogetherKept
<1> QED
  BY <1>1, <1>2, <1>5, MoveKept

\* A writer at work stays at it or ends it: no new meeting.
LEMMA StillTogether ==
  ASSUME HistoryInv, NEW w \in Working, \A v \in Writers : v # w => writer'[v] = writer[v],
         dead' = dead, clash' = clash
  PROVE  Together'
<1>1. Working' \subseteq Working
  BY DEF Working
<1> QED
  BY <1>1, TogetherKept DEF HistoryInv

\* Two at work at once have met.
LEMMA AtWork ==
  ASSUME HistoryInv, NEW w \in Working, NEW v \in Working, w # v
  PROVE  /\ Met(w) /\ Met(v)
         /\ writer[w].op = "prune" /\ writer[v].op = "prune" => PrunersMet
<1>1. w \in Writers /\ v \in Writers
  BY DEF Working
<1> QED
  BY <1>1, MetPair DEF HistoryInv, Together

LEMMA OpenKept ==
  ASSUME HistoryInv, NEW w \in Writers, OpenAppend(w)
  PROVE  HistoryInv'
<1> DEFINE x == [writer[w] EXCEPT !.pc = "half", !.open = file]
<1> USE DEF HistoryInv
<1>1. /\ writer' = [writer EXCEPT ![w] = x]
      /\ content' = [content EXCEPT ![file].half = @ \cup {w}]
      /\ UNCHANGED <<file, tmp, dead, clash>> /\ writer[w].pc = "append" /\ w \notin dead
  BY DEF OpenAppend, At, Shapes
<1>2. writer[w].op = "append" /\ w \in Working
  BY <1>1 DEF Shapes, AppendLabels, Working
<1>3. x \in WriterState /\ x.pc = "half" /\ x.open = file /\ x.op = "append"
  <2> DEFINE y == [writer[w] EXCEPT !.pc = "half"]
  <2>1. y \in WriterState /\ y.pc = "half" /\ y.op = "append"
    BY <1>2, WriterFields DEF WriterState, AppendLabels
  <2> HIDE DEF y
  <2>2. LET z == [y EXCEPT !.open = file] IN
          z \in WriterState /\ z.pc = "half" /\ z.open = file /\ z.op = "append"
    BY <2>1 DEF WriterState, Shapes
  <2> QED
    BY <2>2 DEF y
<1> HIDE DEF x
<1>4. /\ writer' \in [Writers -> WriterState] /\ writer'[w] = x
      /\ \A v \in Writers : v # w => writer'[v] = writer[v]
  BY <1>1, <1>3, OneStep
<1>5. /\ content' \in [Files -> Content] /\ file \in Files
      /\ \A f \in Files : /\ content'[f].lines = content[f].lines
                          /\ content'[f].half = IF f = file THEN content[f].half \cup {w}
                                                ELSE content[f].half
  BY <1>1 DEF Shapes, Content
<1>6. \A v \in Writers : writer'[v].op = writer[v].op
  BY <1>2, <1>3, <1>4
<1>7. (\A v \in Writers : Met(v) => Met(v)') /\ (PrunersMet => PrunersMet')
  BY <1>1, <1>6, MetGrows
<1>8. Appended' = Appended /\ w \notin Appended
  BY <1>1, <1>3, <1>4 DEF Appended
<1>9. \A v \in Appended : v \in Writers /\ v # w /\ (Spoilt(v) => Spoilt(v)')
  BY <1>4, <1>5, <1>8 DEF Spoilt, Appended
<1>10. Shapes'
  BY <1>1, <1>2, <1>3, <1>4, <1>5 DEF Shapes, AppendLabels, PruneLabels
<1>11. Together'
  BY <1>1, <1>2, <1>4, StillTogether
<1>12. TmpApart'
  BY <1>1, <1>3, <1>4, <1>6 DEF TmpApart
<1>13. Halves'
  <2>1. ASSUME NEW f \in Files, NEW v \in content[f].half
        PROVE  v # w /\ v \in Writers /\ writer'[v] = writer[v]
    BY <1>1, <1>4, HalfOf
  <2>2. ASSUME NEW f \in Files, NEW v \in content'[f].half
        PROVE  /\ v \in Writers /\ writer'[v].op = "append" /\ writer'[v].open = f
               /\ writer'[v].pc \in {"half", "unlock", "done"}
    <3>1. CASE v \in content[f].half
      BY <3>1, <2>1, HalfOf
    <3>2. CASE v = w /\ f = file
      BY <3>2, <1>3, <1>4
    <3> QED
      BY <3>1, <3>2, <1>5
  <2>3. ASSUME NEW f \in Files
        PROVE  \/ content'[f].half = {}
               \/ \E v \in Writers : content'[f].half = {v} /\ writer'[v].pc = "half"
               \/ \E v \in content'[f].half : v \in dead' \/ Met(v)'
    <3>1. CASE content[f].half = {}
      BY <3>1, <1>3, <1>4, <1>5
    <3>2. ASSUME NEW v \in Writers, content[f].half = {v}, writer[v].pc = "half"
          PROVE  \/ content'[f].half = {v} /\ writer'[v].pc = "half"
                 \/ \E u \in content'[f].half : u \in dead' \/ Met(u)'
      <4>1. v # w /\ writer'[v] = writer[v] /\ v \in content'[f].half
        BY <3>2, <2>1, <1>5
      <4>2. CASE v \in dead
        BY <4>2, <4>1, <1>1
      <4>3. CASE v \notin dead
        <5>1. v \in Working
          BY <4>3, <3>2, WorkingIs DEF AppendLabels
        <5> QED
          BY <5>1, <4>1, <1>2, <1>7, AtWork
      <4> QED
        BY <4>2, <4>3
    <3>3. ASSUME NEW v \in content[f].half, v \in dead \/ Met(v)
          PROVE  v \in content'[f].half /\ (v \in dead' \/ Met(v)')
      BY <3>3, <2>1, <1>1, <1>5, <1>7
    <3> QED
      BY <3>1, <3>2, <3>3 DEF Halves
  <2> QED
    BY <2>2, <2>3 DEF Halves
<1>14. AtHalf'
  <2>1. w \in content'[file].half
    BY <1>5
  <2>2. ASSUME NEW v \in Writers, v # w, writer'[v].pc = "half"
        PROVE  /\ writer'[v].open \in Files
               /\ v \in content'[writer'[v].open].half
               /\ writer'[v].open = file' \/ v \in dead' \/ Met(v)'
    BY <2>2, <1>1, <1>4, <1>5, <1>7 DEF AtHalf
  <2> QED
    BY <2>1, <2>2, <1>1, <1>3, <1>4, <1>5 DEF AtHalf
<1>15. LinesKept'
  BY <1>1, <1>5, <1>7, <1>8, <1>9 DEF LinesKept
<1>16. PruningKeeps'
  <2>1. ASSUME NEW p \in Working', writer'[p].op = "prune", ~PrunersMet'
        PROVE  /\ p \in Working /\ writer'[p] = writer[p] /\ writer[p].op = "prune" /\ ~PrunersMet
    BY <2>1, <1>1, <1>3, <1>4, <1>7 DEF Working
  <2>2. \A p \in Working : writer[p].pc \in {"write", "replace"} /\ writer[p].open = tmp => tmp \in Files
    BY DEF Shapes, WriterState, Working
  <2> QED
    BY <2>1, <2>2, <1>1, <1>5, <1>7, <1>8, <1>9 DEF PruningKeeps
<1> QED
  BY <1>10, <1>11, <1>12, <1>13, <1>14, <1>15, <1>16

LEMMA CloseKept ==
  ASSUME HistoryInv, NEW w \in Writers, CloseAppend(w)
  PROVE  HistoryInv'
<1> DEFINE x == [writer[w] EXCEPT !.pc = "unlock"]
           f == writer[w].open
           alone == content[f].half = {w}
<1> USE DEF HistoryInv
<1>1. /\ writer' = [writer EXCEPT ![w] = x]
      /\ content' = IF alone THEN [content EXCEPT ![f] = [lines |-> content[f].lines \cup {w},
                                                          half |-> {}]]
                    ELSE content
      /\ UNCHANGED <<file, tmp, dead, clash>> /\ writer[w].pc = "half" /\ w \notin dead
  BY DEF CloseAppend, At, To, Shapes, AtHalf
<1>2. /\ writer[w].op = "append" /\ w \in Working /\ f \in Files /\ w \in content[f].half
      /\ f = file \/ Met(w)
  BY <1>1 DEF Shapes, AppendLabels, Working, AtHalf
<1>3. x \in WriterState /\ x.pc = "unlock" /\ x.open = f /\ x.op = "append"
  BY <1>2, WriterFields DEF WriterState
<1> HIDE DEF x
<1>4. /\ writer' \in [Writers -> WriterState] /\ writer'[w] = x
      /\ \A v \in Writers : v # w => writer'[v] = writer[v]
  BY <1>1, <1>3, OneStep
<1>5. /\ content' \in [Files -> Content]
      /\ \A g \in Files :
           /\ content'[g].lines = IF alone /\ g = f THEN content[g].lines \cup {w}
                                  ELSE content[g].lines
           /\ content'[g].half = IF alone /\ g = f THEN {} ELSE content[g].half
  BY <1>1, <1>2 DEF Shapes, Content
<1> HIDE DEF f, alone
<1>6. \A v \in Writers : writer'[v].op = writer[v].op /\ writer'[v].open = writer[v].open
  BY <1>2, <1>3, <1>4 DEF f
<1>7. (\A v \in Writers : Met(v) => Met(v)') /\ (PrunersMet => PrunersMet')
  BY <1>1, <1>6, MetGrows
<1>8. Appended' = Appended \cup {w}
  <2>1. \A v \in Writers : v # w => (v \in Appended' <=> v \in Appended)
    BY <1>4 DEF Appended
  <2>2. w \in Appended' /\ Appended' \subseteq Writers /\ Appended \subseteq Writers
    BY <1>3, <1>4 DEF Appended
  <2> QED
    BY <2>1, <2>2
\* Only its own half line goes.
<1>9. ASSUME NEW g \in Files, NEW v \in content[g].half, v # w
      PROVE  v \in content'[g].half
  BY <1>9, <1>5 DEF alone
<1>10. \A v \in Appended : v \in Writers /\ v # w /\ (Spoilt(v) => Spoilt(v)')
  <2>1. \A v \in Appended : v \in Writers /\ v # w
    BY <1>1 DEF Appended
  <2> QED
    BY <2>1, <1>6, <1>9 DEF Spoilt
<1>11. Shapes'
  BY <1>1, <1>2, <1>3, <1>4, <1>5 DEF Shapes, AppendLabels, PruneLabels
<1>12. Together'
  BY <1>1, <1>2, <1>4, StillTogether
<1>13. TmpApart'
  BY <1>1, <1>6 DEF TmpApart
<1>14. Halves'
  <2>1. ASSUME NEW g \in Files, NEW v \in content'[g].half
        PROVE  /\ v \in Writers /\ writer'[v].op = "append" /\ writer'[v].open = g
               /\ writer'[v].pc \in {"half", "unlock", "done"}
    <3>1. v \in content[g].half
      BY <2>1, <1>5
    <3> QED
      BY <3>1, <1>3, <1>4, <1>6, HalfOf
  <2>2. ASSUME NEW g \in Files
        PROVE  \/ content'[g].half = {}
               \/ \E v \in Writers : content'[g].half = {v} /\ writer'[v].pc = "half"
               \/ \E v \in content'[g].half : v \in dead' \/ Met(v)'
    <3>1. CASE alone /\ g = f
      BY <3>1, <1>5
    <3>2. CASE ~(alone /\ g = f)
      <4>1. content'[g].half = content[g].half
        BY <3>2, <1>5
      <4>2. ASSUME NEW v \in Writers, content[g].half = {v}, writer[v].pc = "half"
            PROVE  content'[g].half = {v} /\ writer'[v].pc = "half"
        <5>1. v # w
          <6>1. ASSUME v = w PROVE FALSE
            <7>1. g = f
              BY <6>1, <4>2, HalfOf DEF f
            <7> QED
              BY <7>1, <6>1, <4>2, <3>2 DEF alone
          <6> QED
            BY <6>1
        <5> QED
          BY <5>1, <4>1, <4>2, <1>4
      <4>3. ASSUME NEW v \in content[g].half, v \in dead \/ Met(v)
            PROVE  v \in content'[g].half /\ (v \in dead' \/ Met(v)')
        BY <4>3, <4>1, <1>1, <1>7, HalfOf
      <4> QED
        BY <4>1, <4>2, <4>3 DEF Halves
    <3> QED
      BY <3>1, <3>2
  <2> QED
    BY <2>1, <2>2 DEF Halves
<1>15. AtHalf'
  <2>1. ASSUME NEW v \in Writers, writer'[v].pc = "half"
        PROVE  /\ writer'[v].open \in Files
               /\ v \in content'[writer'[v].open].half
               /\ writer'[v].open = file' \/ v \in dead' \/ Met(v)'
    <3>1. v # w /\ writer'[v] = writer[v]
      BY <2>1, <1>3, <1>4
    <3> QED
      BY <3>1, <2>1, <1>1, <1>7, <1>9 DEF AtHalf
  <2> QED
    BY <2>1 DEF AtHalf
<1>16. Met(w) \/ Spoilt(w)' \/ w \in content'[file].lines
  <2>1. CASE alone
    BY <2>1, <1>2, <1>5
  <2>2. CASE ~alone
    BY <2>2, <1>2, <1>5, <1>6 DEF Spoilt, f
  <2> QED
    BY <2>1, <2>2
<1>17. LinesKept'
  <2>1. \A v \in Appended : Met(v)' \/ PrunersMet' \/ Spoilt(v)' \/ v \in content'[file].lines
    <3>1. content[file].lines \subseteq content'[file].lines
      BY <1>5 DEF Shapes
    <3> QED
      BY <3>1, <1>7, <1>10 DEF LinesKept
  <2> QED
    BY <2>1, <1>1, <1>7, <1>8, <1>16 DEF LinesKept
<1>18. PruningKeeps'
  <2>1. ASSUME NEW p \in Working', writer'[p].op = "prune", ~PrunersMet'
        PROVE  /\ writer'[p].pc \in {"truncate", "write", "replace"} =>
                    \A v \in Appended' : Met(v)' \/ Spoilt(v)' \/ v \in writer'[p].kept
               /\ writer'[p].pc \in {"write", "replace"} => writer'[p].open = tmp'
               /\ writer'[p].pc = "replace" => writer'[p].kept \subseteq content'[tmp'].lines
    <3>1. /\ p \in Working /\ p # w /\ writer'[p] = writer[p] /\ writer[p].op = "prune"
          /\ ~PrunersMet /\ p \in Writers
      BY <2>1, <1>1, <1>3, <1>4, <1>7 DEF Working
    <3>2. Met(w)'
      BY <3>1, <1>2, <1>7, AtWork
    <3>3. writer[p].pc = "replace" => content[tmp].lines \subseteq content'[tmp].lines
      <4>1. writer[p].pc = "replace" => tmp \in Files
        BY <3>1 DEF PruningKeeps, Shapes, WriterState
      <4> QED
        BY <4>1, <1>5
    <3> QED
      BY <3>1, <3>2, <3>3, <1>1, <1>7, <1>8, <1>10 DEF PruningKeeps
  <2> QED
    BY <2>1 DEF PruningKeeps
<1> QED
  BY <1>11, <1>12, <1>13, <1>14, <1>15, <1>17, <1>18

\* A step of a pruning at work: appenders are where they were, and no other
\* pruning may rely on anything.
LEMMA PruneStep ==
  ASSUME HistoryInv, NEW w \in Working, writer[w].op = "prune", NEW x \in WriterState,
         writer' = [writer EXCEPT ![w] = x], x.op = "prune", UNCHANGED <<dead, clash>>
  PROVE  /\ writer' \in [Writers -> WriterState] /\ w \in Writers /\ writer'[w] = x
         /\ \A v \in Writers : v # w => writer'[v] = writer[v]
         /\ \A v \in Writers : writer'[v].op = writer[v].op
         /\ \A v \in Writers : writer[v].op = "append" => writer'[v] = writer[v]
         /\ \A v \in Writers : Met(v) <=> Met(v)'
         /\ PrunersMet <=> PrunersMet'
         /\ Appended' = Appended
         /\ Together'
         /\ \A p \in Working' : writer'[p].op = "prune" /\ ~PrunersMet' => p = w
<1> USE DEF HistoryInv
<1>1. w \in Writers /\ w \notin dead
  BY DEF Working
<1>2. /\ writer' \in [Writers -> WriterState] /\ writer'[w] = x
      /\ \A v \in Writers : v # w => writer'[v] = writer[v]
  BY <1>1, OneStep
<1>3. \A v \in Writers : writer'[v].op = writer[v].op
  BY <1>1, <1>2
<1>4. (\A v \in Writers : Met(v) <=> Met(v)') /\ (PrunersMet <=> PrunersMet')
  BY <1>3 DEF Met, Clashed, PrunersMet
<1>5. \A v \in Writers : writer[v].op = "append" => writer'[v] = writer[v]
  BY <1>2
<1>6. Appended' = Appended
  <2>1. \A v \in Writers : v \in Appended' <=> v \in Appended
    BY <1>2 DEF Appended
  <2> QED
    BY <2>1 DEF Appended
<1>7. Together'
  BY <1>1, <1>2, StillTogether
<1>8. ASSUME NEW p \in Working', writer'[p].op = "prune", p # w PROVE PrunersMet
  <2>1. p \in Working /\ writer[p].op = "prune"
    BY <1>8, <1>2 DEF Working
  <2> QED
    BY <2>1, <1>8, AtWork
<1> QED
  BY <1>1, <1>2, <1>3, <1>4, <1>5, <1>6, <1>7, <1>8

LEMMA TruncateKept ==
  ASSUME HistoryInv, NEW w \in Writers, Truncate(w)
  PROVE  HistoryInv'
<1> USE DEF HistoryInv
<1>1. PICK f \in Files :
        /\ IF tmp # 0 THEN f = tmp
           ELSE f # file /\ content[f] = Blank /\ \A v \in Writers : writer[v].open # f
        /\ tmp' = f
        /\ content' = [content EXCEPT ![f] = Blank]
        /\ writer' = [writer EXCEPT ![w].pc = "write", ![w].open = f]
  BY DEF Truncate
<1> DEFINE x == [writer[w] EXCEPT !.pc = "write", !.open = f]
<1>2. UNCHANGED <<file, dead, clash>> /\ writer[w].pc = "truncate" /\ w \notin dead
  BY DEF Truncate, At
<1>3. writer' = [writer EXCEPT ![w] = x]
  BY <1>1 DEF Shapes
<1>4. writer[w].op = "prune" /\ w \in Working
  BY <1>2 DEF Shapes, PruneLabels, Working
<1>5. /\ x \in WriterState /\ x.pc = "write" /\ x.open = f /\ x.op = "prune"
      /\ x.kept = writer[w].kept
  <2> DEFINE y == [writer[w] EXCEPT !.pc = "write"]
  <2>1. y \in WriterState /\ y.pc = "write" /\ y.op = "prune" /\ y.kept = writer[w].kept
    BY <1>4, WriterFields DEF WriterState, PruneLabels
  <2> HIDE DEF y
  <2>2. LET z == [y EXCEPT !.open = f] IN
          /\ z \in WriterState /\ z.pc = "write" /\ z.open = f /\ z.op = "prune"
          /\ z.kept = writer[w].kept
    BY <2>1, <1>1 DEF WriterState
  <2> QED
    BY <2>2 DEF y
<1> HIDE DEF x
<1>6. /\ writer' \in [Writers -> WriterState] /\ writer'[w] = x
      /\ \A v \in Writers : v # w => writer'[v] = writer[v]
      /\ \A v \in Writers : writer'[v].op = writer[v].op
      /\ \A v \in Writers : writer[v].op = "append" => writer'[v] = writer[v]
      /\ \A v \in Writers : Met(v) <=> Met(v)'
      /\ PrunersMet <=> PrunersMet'
      /\ Appended' = Appended
      /\ Together'
      /\ \A p \in Working' : writer'[p].op = "prune" /\ ~PrunersMet' => p = w
  BY <1>2, <1>3, <1>4, <1>5, PruneStep
\* Nobody appends to the file that is emptied.
<1>7. f # file /\ \A v \in Writers : writer[v].op = "append" => writer[v].open # f
  BY <1>1, FilesNumbers DEF TmpApart
<1>8. /\ content' \in [Files -> Content] /\ content'[f].half = {}
      /\ \A g \in Files : g # f => content'[g] = content[g]
  BY <1>1 DEF Shapes, Content, Blank
<1>9. \A v \in Appended : v \in Writers /\ (Spoilt(v) => Spoilt(v)')
  BY <1>6, <1>7, <1>8 DEF Spoilt, Appended
<1>10. Shapes'
  <2>1. \A v \in Writers : /\ writer'[v].pc \in AppendLabels => writer'[v].op = "append"
                           /\ writer'[v].pc \in PruneLabels => writer'[v].op = "prune"
                           /\ writer'[v].pc \in {"write", "replace"} => writer'[v].open # 0
    BY <1>5, <1>6, FilesNumbers DEF Shapes, AppendLabels
  <2> QED
    BY <2>1, <1>1, <1>2, <1>6, <1>8 DEF Shapes
<1>11. TmpApart'
  BY <1>1, <1>2, <1>6, <1>7 DEF TmpApart
<1>12. Halves'
  <2>1. ASSUME NEW g \in Files, g # f, NEW v \in content[g].half
        PROVE  v \in Writers /\ writer'[v] = writer[v]
    BY <2>1, <1>6, HalfOf
  <2>2. ASSUME NEW g \in Files, NEW v \in content'[g].half
        PROVE  /\ v \in Writers /\ writer'[v].op = "append" /\ writer'[v].open = g
               /\ writer'[v].pc \in {"half", "unlock", "done"}
    <3>1. g # f /\ v \in content[g].half
      BY <2>2, <1>8
    <3> QED
      BY <3>1, <2>1, HalfOf
  <2>3. ASSUME NEW g \in Files
        PROVE  \/ content'[g].half = {}
               \/ \E v \in Writers : content'[g].half = {v} /\ writer'[v].pc = "half"
               \/ \E v \in content'[g].half : v \in dead' \/ Met(v)'
    <3>1. CASE g = f
      BY <3>1, <1>8
    <3>2. CASE g # f
      <4>1. content'[g] = content[g]
        BY <3>2, <1>8
      <4>2. ASSUME NEW v \in Writers, content[g].half = {v}, writer[v].pc = "half"
            PROVE  writer'[v].pc = "half"
        BY <4>2, <3>2, <2>1
      <4>3. ASSUME NEW v \in content[g].half, v \in dead \/ Met(v)
            PROVE  v \in dead' \/ Met(v)'
        BY <4>3, <3>2, <2>1, <1>2, <1>6
      <4> QED
        BY <4>1, <4>2, <4>3 DEF Halves
    <3> QED
      BY <3>1, <3>2
  <2> QED
    BY <2>2, <2>3 DEF Halves
<1>13. AtHalf'
  <2>1. ASSUME NEW v \in Writers, writer'[v].pc = "half"
        PROVE  /\ writer'[v].open \in Files
               /\ v \in content'[writer'[v].open].half
               /\ writer'[v].open = file' \/ v \in dead' \/ Met(v)'
    <3>1. v # w /\ writer'[v] = writer[v]
      BY <2>1, <1>5, <1>6
    <3>2. writer[v].op = "append"
      BY <3>1, <2>1 DEF Shapes, AppendLabels
    <3> QED
      BY <3>1, <3>2, <2>1, <1>2, <1>6, <1>7, <1>8 DEF AtHalf
  <2> QED
    BY <2>1 DEF AtHalf
<1>14. LinesKept'
  <2>1. content'[file].lines = content[file].lines
    BY <1>7, <1>8 DEF Shapes
  <2> QED
    BY <2>1, <1>2, <1>6, <1>9 DEF LinesKept
<1>15. PruningKeeps'
  <2>1. ASSUME ~PrunersMet
        PROVE  \A v \in Appended : Met(v) \/ Spoilt(v) \/ v \in writer[w].kept
    BY <2>1, <1>2, <1>4 DEF PruningKeeps
  <2> QED
    BY <2>1, <1>1, <1>5, <1>6, <1>9 DEF PruningKeeps
<1> QED
  BY <1>6, <1>10, <1>11, <1>12, <1>13, <1>14, <1>15

LEMMA WriteKeptKept ==
  ASSUME HistoryInv, NEW w \in Writers, WriteKept(w)
  PROVE  HistoryInv'
<1> DEFINE x == [writer[w] EXCEPT !.pc = "replace"]
           f == writer[w].open
<1> USE DEF HistoryInv
<1>1. /\ writer' = [writer EXCEPT ![w] = x]
      /\ content' = [content EXCEPT ![f].lines = @ \cup writer[w].kept]
      /\ UNCHANGED <<file, tmp, dead, clash>> /\ writer[w].pc = "write" /\ w \notin dead
  BY DEF WriteKept, At, To, Shapes
<1>2. writer[w].op = "prune" /\ w \in Working /\ f \in Files /\ writer[w].kept \subseteq Writers
  BY <1>1, WriterFields DEF Shapes, PruneLabels, Working
<1>3. x \in WriterState /\ x.pc = "replace" /\ x.open = f /\ x.op = "prune"
      /\ x.kept = writer[w].kept
  BY <1>2, WriterFields DEF WriterState, PruneLabels
<1> HIDE DEF x
<1>4. /\ writer' \in [Writers -> WriterState] /\ writer'[w] = x
      /\ \A v \in Writers : v # w => writer'[v] = writer[v]
      /\ \A v \in Writers : writer'[v].op = writer[v].op
      /\ \A v \in Writers : writer[v].op = "append" => writer'[v] = writer[v]
      /\ \A v \in Writers : Met(v) <=> Met(v)'
      /\ PrunersMet <=> PrunersMet'
      /\ Appended' = Appended
      /\ Together'
      /\ \A p \in Working' : writer'[p].op = "prune" /\ ~PrunersMet' => p = w
  BY <1>1, <1>2, <1>3, PruneStep
<1>5. /\ content' \in [Files -> Content]
      /\ \A g \in Files :
           /\ content'[g].half = content[g].half
           /\ content'[g].lines = IF g = f THEN content[g].lines \cup writer[w].kept
                                  ELSE content[g].lines
  BY <1>1, <1>2 DEF Shapes, Content
<1>6. \A v \in Writers : writer'[v].open = writer[v].open
  BY <1>3, <1>4
<1> HIDE DEF f
<1>7. \A v \in Appended : v \in Writers /\ (Spoilt(v) <=> Spoilt(v)')
  BY <1>5, <1>6 DEF Spoilt, Appended
<1>8. Shapes'
  <2>1. \A v \in Writers : /\ writer'[v].pc \in AppendLabels => writer'[v].op = "append"
                           /\ writer'[v].pc \in PruneLabels => writer'[v].op = "prune"
                           /\ writer'[v].pc \in {"write", "replace"} => writer'[v].open # 0
    BY <1>2, <1>3, <1>4, FilesNumbers DEF Shapes, AppendLabels
  <2> QED
    BY <2>1, <1>1, <1>4, <1>5 DEF Shapes
<1>9. TmpApart'
  BY <1>1, <1>4, <1>6 DEF TmpApart
<1>10. Halves'
  <2>1. ASSUME NEW g \in Files, NEW v \in content[g].half
        PROVE  v \in Writers /\ writer'[v] = writer[v]
    BY <1>4, HalfOf
  <2>2. ASSUME NEW g \in Files, NEW v \in content'[g].half
        PROVE  /\ v \in Writers /\ writer'[v].op = "append" /\ writer'[v].open = g
               /\ writer'[v].pc \in {"half", "unlock", "done"}
    <3>1. v \in content[g].half
      BY <2>2, <1>5
    <3> QED
      BY <3>1, <2>1, HalfOf
  <2>3. ASSUME NEW g \in Files
        PROVE  \/ content'[g].half = {}
               \/ \E v \in Writers : content'[g].half = {v} /\ writer'[v].pc = "half"
               \/ \E v \in content'[g].half : v \in dead' \/ Met(v)'
    <3>1. content'[g].half = content[g].half
      BY <1>5
    <3>2. ASSUME NEW v \in Writers, content[g].half = {v}, writer[v].pc = "half"
          PROVE  writer'[v].pc = "half"
      BY <3>2, <2>1
    <3>3. ASSUME NEW v \in content[g].half, v \in dead \/ Met(v)
          PROVE  v \in dead' \/ Met(v)'
      BY <3>3, <2>1, <1>1, <1>4
    <3> QED
      BY <3>1, <3>2, <3>3 DEF Halves
  <2> QED
    BY <2>2, <2>3 DEF Halves
<1>11. AtHalf'
  BY <1>1, <1>3, <1>4, <1>5 DEF AtHalf
<1>12. LinesKept'
  <2>1. content[file].lines \subseteq content'[file].lines
    BY <1>5 DEF Shapes
  <2> QED
    BY <2>1, <1>1, <1>4, <1>7 DEF LinesKept
<1>13. PruningKeeps'
  <2>1. ASSUME ~PrunersMet
        PROVE  /\ \A v \in Appended : Met(v) \/ Spoilt(v) \/ v \in writer[w].kept
               /\ f = tmp
    BY <2>1, <1>1, <1>2 DEF PruningKeeps, f
  <2>2. f = tmp => writer[w].kept \subseteq content'[tmp].lines
    BY <1>2, <1>5
  <2> QED
    BY <2>1, <2>2, <1>1, <1>3, <1>4, <1>7 DEF PruningKeeps
<1> QED
  BY <1>4, <1>8, <1>9, <1>10, <1>11, <1>12, <1>13

LEMMA ReplaceKept ==
  ASSUME HistoryInv, NEW w \in Writers, ReplaceFile(w)
  PROVE  HistoryInv'
<1> DEFINE x == [writer[w] EXCEPT !.pc = "unlock"]
<1> USE DEF HistoryInv
<1>1. /\ writer' = [writer EXCEPT ![w] = x]
      /\ file' = IF tmp # 0 THEN tmp ELSE file
      /\ tmp' = 0
      /\ UNCHANGED <<content, dead, clash>> /\ writer[w].pc = "replace" /\ w \notin dead
  BY DEF ReplaceFile, At, To, Shapes
<1>2. writer[w].op = "prune" /\ w \in Working
  BY <1>1 DEF Shapes, PruneLabels, Working
<1>3. x \in WriterState /\ x.pc = "unlock" /\ x.op = "prune"
  BY <1>2, WriterFields DEF WriterState
<1> HIDE DEF x
<1>4. /\ writer' \in [Writers -> WriterState] /\ writer'[w] = x
      /\ \A v \in Writers : v # w => writer'[v] = writer[v]
      /\ \A v \in Writers : writer'[v].op = writer[v].op
      /\ \A v \in Writers : writer[v].op = "append" => writer'[v] = writer[v]
      /\ \A v \in Writers : Met(v) <=> Met(v)'
      /\ PrunersMet <=> PrunersMet'
      /\ Appended' = Appended
      /\ Together'
      /\ \A p \in Working' : writer'[p].op = "prune" /\ ~PrunersMet' => p = w
  BY <1>1, <1>2, <1>3, PruneStep
<1>5. \A v \in Appended : v \in Writers /\ (Spoilt(v) <=> Spoilt(v)')
  BY <1>1, <1>4 DEF Spoilt, Appended
<1>6. Shapes'
  <2>1. file' \in Files /\ tmp' \in Files \cup {0}
    BY <1>1 DEF Shapes
  <2>2. \A v \in Writers : /\ writer'[v].pc \in AppendLabels => writer'[v].op = "append"
                           /\ writer'[v].pc \in PruneLabels => writer'[v].op = "prune"
                           /\ writer'[v].pc \in {"write", "replace"} => writer'[v].open # 0
    BY <1>3, <1>4 DEF Shapes, AppendLabels, PruneLabels
  <2> QED
    BY <2>1, <2>2, <1>1, <1>4 DEF Shapes
<1>7. TmpApart'
  BY <1>1 DEF TmpApart
<1>8. Halves'
  <2>1. ASSUME NEW g \in Files, NEW v \in content[g].half
        PROVE  v \in Writers /\ writer'[v] = writer[v]
    BY <1>4, HalfOf
  <2>2. ASSUME NEW g \in Files, NEW v \in content'[g].half
        PROVE  /\ v \in Writers /\ writer'[v].op = "append" /\ writer'[v].open = g
               /\ writer'[v].pc \in {"half", "unlock", "done"}
    BY <2>1, <1>1, HalfOf
  <2>3. ASSUME NEW g \in Files
        PROVE  \/ content'[g].half = {}
               \/ \E v \in Writers : content'[g].half = {v} /\ writer'[v].pc = "half"
               \/ \E v \in content'[g].half : v \in dead' \/ Met(v)'
    <3>1. ASSUME NEW v \in Writers, content[g].half = {v}, writer[v].pc = "half"
          PROVE  writer'[v].pc = "half"
      BY <3>1, <2>1
    <3>2. ASSUME NEW v \in content[g].half, v \in dead \/ Met(v)
          PROVE  v \in dead' \/ Met(v)'
      BY <3>2, <2>1, <1>1, <1>4
    <3> QED
      BY <3>1, <3>2, <1>1 DEF Halves
  <2> QED
    BY <2>2, <2>3 DEF Halves
<1>9. AtHalf'
  <2>1. ASSUME NEW v \in Writers, writer'[v].pc = "half"
        PROVE  /\ writer'[v].open \in Files
               /\ v \in content'[writer'[v].open].half
               /\ writer'[v].open = file' \/ v \in dead' \/ Met(v)'
    <3>1. v # w /\ writer'[v] = writer[v]
      BY <2>1, <1>3, <1>4
    <3>2. v \in dead \/ v \in Working
      BY <3>1, <2>1, WorkingIs DEF AppendLabels
    <3>3. v \in dead \/ Met(v)
      BY <3>1, <3>2, <1>2, AtWork
    <3> QED
      BY <3>1, <3>3, <2>1, <1>1, <1>4 DEF AtHalf
  <2> QED
    BY <2>1 DEF AtHalf
<1>10. LinesKept'
  <2>1. ASSUME NEW v \in Appended PROVE Met(v) \/ PrunersMet \/ Spoilt(v) \/ v \in content[file'].lines
    <3>1. CASE PrunersMet
      BY <3>1
    <3>2. CASE ~PrunersMet
      <4>1. /\ Met(v) \/ Spoilt(v) \/ v \in writer[w].kept
            /\ writer[w].open = tmp /\ writer[w].kept \subseteq content[tmp].lines
        BY <3>2, <1>1, <1>2 DEF PruningKeeps
      <4>2. file' = tmp
        BY <4>1, <1>1 DEF Shapes
      <4> QED
        BY <4>1, <4>2
    <3> QED
      BY <3>1, <3>2
  <2> QED
    BY <2>1, <1>1, <1>4, <1>5 DEF LinesKept
<1>11. PruningKeeps'
  BY <1>3, <1>4 DEF PruningKeeps
<1> QED
  BY <1>4, <1>6, <1>7, <1>8, <1>9, <1>10, <1>11

LEMMA DiesKept ==
  ASSUME HistoryInv, NEW w \in Writers, WriterDies(w)
  PROVE  HistoryInv'
<1> USE DEF HistoryInv
<1>1. UNCHANGED <<writer, file, tmp, content, clash>> /\ dead' = dead \cup {w}
  BY DEF WriterDies
<1>2. Working' \subseteq Working
  BY <1>1 DEF Working
<1>3. /\ \A v \in Writers : Met(v) <=> Met(v)'
      /\ PrunersMet <=> PrunersMet'
      /\ \A v \in Writers : Spoilt(v) <=> Spoilt(v)'
      /\ Appended' = Appended /\ Appended \subseteq Writers
  BY <1>1 DEF Met, Clashed, PrunersMet, Spoilt, Appended
<1>4. Shapes' /\ TmpApart'
  BY <1>1 DEF Shapes, TmpApart
<1>5. Together'
  BY <1>1, <1>2, TogetherKept
<1>6. Halves'
  <2>1. \A f \in Files : \A v \in content[f].half : v \in Writers
    BY HalfOf
  <2> QED
    BY <2>1, <1>1, <1>3 DEF Halves
<1>7. AtHalf'
  BY <1>1, <1>3 DEF AtHalf
<1>8. LinesKept'
  BY <1>1, <1>3 DEF LinesKept
<1>9. PruningKeeps'
  BY <1>1, <1>2, <1>3 DEF PruningKeeps
<1> QED
  BY <1>4, <1>5, <1>6, <1>7, <1>8, <1>9

LEMMA NextHistory == HistoryInv /\ [HistoryNext]_historyVars => HistoryInv'
<1> SUFFICES ASSUME HistoryInv, [HistoryNext]_historyVars PROVE HistoryInv'
  OBVIOUS
<1>1. ASSUME NEW w \in Writers, Take(w) \/ GiveUp(w) PROVE HistoryInv'
  BY <1>1, EnterKept DEF Take, GiveUp
<1>2. ASSUME NEW w \in Writers, Unlock(w) PROVE HistoryInv'
  BY <1>2, UnlockKept
<1>3. ASSUME NEW w \in Writers, OpenAppend(w) PROVE HistoryInv'
  BY <1>3, OpenKept
<1>4. ASSUME NEW w \in Writers, CloseAppend(w) PROVE HistoryInv'
  BY <1>4, CloseKept
<1>5. ASSUME NEW w \in Writers, ReadAll(w) PROVE HistoryInv'
  BY <1>5, ReadKeptLines
<1>6. ASSUME NEW w \in Writers, Truncate(w) PROVE HistoryInv'
  BY <1>6, TruncateKept
<1>7. ASSUME NEW w \in Writers, WriteKept(w) PROVE HistoryInv'
  BY <1>7, WriteKeptKept
<1>8. ASSUME NEW w \in Writers, ReplaceFile(w) PROVE HistoryInv'
  BY <1>8, ReplaceKept
<1>9. ASSUME NEW w \in Writers, WriterDies(w) PROVE HistoryInv'
  BY <1>9, DiesKept
<1>10. CASE UNCHANGED historyVars
  <2>1. UNCHANGED <<writer, file, tmp, content, dead, clash>>
    BY <1>10 DEF historyVars
  <2>2. /\ \A v \in Writers : Met(v) <=> Met(v)'
        /\ PrunersMet <=> PrunersMet'
        /\ \A v \in Writers : Spoilt(v) <=> Spoilt(v)'
        /\ Appended' = Appended /\ Appended \subseteq Writers
        /\ Working' = Working
    BY <2>1 DEF Met, Clashed, PrunersMet, Spoilt, Appended, Working
  <2>3. Shapes' /\ TmpApart' /\ Together'
    BY <2>1, <2>2 DEF HistoryInv, Shapes, TmpApart, Together
  <2>4. Halves'
    <3>1. \A f \in Files : \A v \in content[f].half : v \in Writers
      BY HalfOf
    <3> QED
      BY <3>1, <2>1, <2>2 DEF HistoryInv, Halves
  <2>5. AtHalf' /\ LinesKept' /\ PruningKeeps'
    BY <2>1, <2>2 DEF HistoryInv, AtHalf, LinesKept, PruningKeeps
  <2> QED
    BY <2>3, <2>4, <2>5 DEF HistoryInv
<1> QED
  BY <1>1, <1>2, <1>3, <1>4, <1>5, <1>6, <1>7, <1>8, <1>9, <1>10 DEF HistoryNext

\* A line whose append has returned stays in the file, and the file can be read
\* when no append is at work, for any number of writers and deaths: but for the
\* meetings the lock was not waited for, and for a cut line.
THEOREM HistoryHolds == HistorySpec => []HistoryKept
<1>1. ASSUME HistoryInv PROVE HistoryKept
  <2> USE <1>1 DEF HistoryInv
  <2>1. ASSUME NEW w \in Appended
        PROVE  \/ w \in content[file].lines \/ Met(w) \/ PrunersMet
               \/ content[writer[w].open].half # {}
    BY DEF LinesKept, Spoilt
  <2>2. ASSUME ~Importable
        PROVE  \E w \in content[file].half : w \in Working \cup dead \/ Met(w)
    <3>1. content[file].half # {} /\ file \in Files
      BY <2>2 DEF Importable, Unread, Shapes
    <3>2. ASSUME NEW w \in Writers, content[file].half = {w}, writer[w].pc = "half"
          PROVE  w \in content[file].half /\ w \in Working \cup dead
      BY <3>2, WorkingIs DEF AppendLabels
    <3> QED
      BY <3>1, <3>2 DEF Halves
  <2> QED
    BY <2>1, <2>2 DEF HistoryKept, Met, PrunersMet, Appended
<1> QED
  BY InitHistory, NextHistory, <1>1, PTL DEF HistorySpec

-----------------------------------------------------------------------------
(* GraphWebhook                                                            *)
(*                                                                         *)
(* A handler inserts what it has just found missing: a second row takes a  *)
(* race. A row has the secret Graph has, so what Graph sends is refused    *)
(* only while no row is there.                                             *)

Nowhere == CHOOSE b \in Batches : TRUE

HandlerState == [pc     : {"idle", "check", "exists", "insert"},
                 batch  : Batches \cup {Nowhere},
                 item   : Nat,
                 answer : {"", "200", "403", "404", "500"}]

\* A request at work has no answer yet, and has seen to the items in front.
Works(h) ==
  handler[h].pc # "idle" =>
    /\ handler[h].batch \in Batches /\ handler[h].answer = ""
    /\ handler[h].item \in 1..Len(handler[h].batch)
    /\ \A j \in 1..handler[h].item - 1 : stored[handler[h].batch[j]] # 0

\* What a request is about to insert is still missing, but for a race.
Missing(h) ==
  handler[h].pc = "insert" /\ Item(h) \notin raced => stored[Item(h)] = 0

\* A row has the secret Graph has.
KnownSecrets == \A u \in Hooks : known[u] \in {"", secret[u]}

AllStored(b) == \A i \in 1..Len(b) : stored[b[i]] # 0

OneRowEach == \A n \in Notices : n \in Lifecycle \/ n \notin raced => stored[n] <= 1

HookInv ==
  /\ handler \in [Handlers -> HandlerState]
  /\ stored \in [Notices -> Nat] /\ secret = [u \in Hooks |-> secret[u]]
  /\ known = [u \in Hooks |-> known[u]]
  /\ KnownSecrets
  /\ \A h \in Handlers : Works(h) /\ Missing(h)
  /\ \A b \in accepted : b \in Batches /\ AllStored(b)
  /\ OneRowEach

LEMMA BatchFields ==
  ASSUME NEW b \in Batches
  PROVE  /\ Len(b) \in Nat /\ Len(b) >= 1
         /\ \A i \in 1..Len(b) : b[i] \in Notices
         /\ ToSet(b) = {b[i] : i \in 1..Len(b)}
<1>1. b \in Seq(Notices) /\ b # <<>>
  BY WebhookAssumption
<1>2. Len(b) \in Nat /\ DOMAIN b = 1..Len(b) /\ \A i \in 1..Len(b) : b[i] \in Notices
  BY <1>1
<1>3. Len(b) # 0
  BY <1>1
<1> QED
  BY <1>2, <1>3 DEF ToSet

LEMMA Places ==
  ASSUME NEW b \in Batches, NEW i \in 1..Len(b)
  PROVE  /\ i \in Nat /\ i + 1 \in Nat
         /\ \A j \in 1..i - 1 : j \in 1..Len(b)
         /\ \A j \in 1..i : j \in 1..i - 1 \/ j = i
         /\ 1..(i + 1) - 1 = 1..i
         /\ i < Len(b) => i + 1 \in 1..Len(b)
         /\ ~(i < Len(b)) => 1..Len(b) = 1..i
<1>1. Len(b) \in Nat
  BY BatchFields
<1> QED
  BY <1>1

LEMMA ItemIs ==
  ASSUME HookInv, NEW h \in Handlers, handler[h].pc # "idle"
  PROVE  Item(h) \in Notices
BY BatchFields DEF HookInv, Works, Item

LEMMA IdleState ==
  \A h \in Handlers : Idle[h] \in HandlerState /\ Idle[h].pc = "idle" /\ Idle[h].answer = ""
BY DEF Idle, HandlerState, Nowhere

\* One request moves: the others are where they were.
LEMMA HandlerStep ==
  ASSUME HookInv, NEW h \in Handlers, NEW x \in HandlerState, handler' = [handler EXCEPT ![h] = x]
  PROVE  /\ handler' \in [Handlers -> HandlerState] /\ handler'[h] = x
         /\ \A g \in Handlers : g # h => handler'[g] = handler[g]
BY DEF HookInv

LEMMA NextState ==
  ASSUME NEW q \in HandlerState, NEW k \in Nat
  PROVE  LET x == [q EXCEPT !.pc = "check", !.item = k] IN
           /\ x \in HandlerState /\ x.pc = "check" /\ x.item = k
           /\ x.batch = q.batch /\ x.answer = q.answer
<1> DEFINE y == [q EXCEPT !.pc = "check"]
<1>1. y \in HandlerState /\ y.pc = "check" /\ y.batch = q.batch /\ y.answer = q.answer
  BY DEF HandlerState
<1> HIDE DEF y
<1>2. LET x == [y EXCEPT !.item = k] IN
        /\ x \in HandlerState /\ x.pc = "check" /\ x.item = k
        /\ x.batch = q.batch /\ x.answer = q.answer
  BY <1>1 DEF HandlerState
<1> QED
  BY <1>2 DEF y

LEMMA SameHandler ==
  ASSUME HookInv, NEW g \in Handlers, handler'[g] = handler[g], UNCHANGED <<stored, raced>>
  PROVE  Works(g)' /\ Missing(g)'
BY DEF HookInv, Works, Missing, Item

\* A request moves and leaves the rows alone.
LEMMA QuietKept ==
  ASSUME HookInv, NEW h \in Handlers, NEW x \in HandlerState, handler' = [handler EXCEPT ![h] = x],
         UNCHANGED <<stored, accepted, raced, secret, known>>,
         Works(h)', Missing(h)'
  PROVE  HookInv'
<1>1. /\ handler' \in [Handlers -> HandlerState]
      /\ \A g \in Handlers : g # h => handler'[g] = handler[g]
  BY HandlerStep
<1>2. ASSUME NEW g \in Handlers PROVE Works(g)' /\ Missing(g)'
  BY <1>1, SameHandler
<1> QED
  BY <1>1, <1>2 DEF HookInv, KnownSecrets, AllStored, OneRowEach

LEMMA AnswerKept ==
  ASSUME HookInv, NEW h \in Handlers, NEW code \in {"403", "404", "500"}, AnswerPost(h, code),
         UNCHANGED <<stored, accepted, raced, secret, known>>
  PROVE  HookInv'
<1> DEFINE x == [Idle[h] EXCEPT !.answer = code]
<1>1. x \in HandlerState /\ x.pc = "idle"
  BY IdleState DEF HandlerState
<1>2. handler' = [handler EXCEPT ![h] = x]
  BY DEF AnswerPost
<1> HIDE DEF x
<1>3. handler'[h] = x
  BY <1>1, <1>2, HandlerStep
<1>4. Works(h)' /\ Missing(h)'
  BY <1>1, <1>3 DEF Works, Missing
<1> QED
  BY <1>1, <1>2, <1>4, QuietKept

LEMMA GoKept ==
  ASSUME HookInv, NEW h \in Handlers, NEW label \in {"exists", "insert"}, Go(h, label),
         handler[h].pc # "idle", label = "insert" => stored[Item(h)] = 0,
         UNCHANGED <<stored, accepted, raced, secret, known>>
  PROVE  HookInv'
<1> DEFINE x == [handler[h] EXCEPT !.pc = label]
<1>1. handler' = [handler EXCEPT ![h] = x]
  BY DEF Go, HookInv
<1>2. /\ x \in HandlerState /\ x.pc = label /\ x.batch = handler[h].batch
      /\ x.item = handler[h].item /\ x.answer = handler[h].answer
  BY DEF HookInv, HandlerState
<1> HIDE DEF x
<1>3. handler'[h] = x
  BY <1>1, <1>2, HandlerStep
<1>4. Works(h)'
  BY <1>2, <1>3 DEF HookInv, Works
<1>5. Missing(h)'
  BY <1>2, <1>3 DEF Missing, Item
<1> QED
  BY <1>1, <1>2, <1>4, <1>5, QuietKept

\* The item has its row, and the request goes on to the next one or answers.
LEMMA NextItemKept ==
  ASSUME HookInv, NEW h \in Handlers, handler[h].pc # "idle", NextItem(h),
         stored' \in [Notices -> Nat], stored'[Item(h)] # 0,
         \A n \in Notices : stored[n] # 0 => stored'[n] # 0,
         \A g \in Handlers : g # h /\ handler[g].pc = "insert" /\ Item(g) \notin raced'
                               => stored'[Item(g)] = stored[Item(g)],
         raced \subseteq raced', OneRowEach', UNCHANGED <<secret, known>>
  PROVE  HookInv'
<1>0. PICK b, i : b = handler[h].batch /\ i = handler[h].item
  OBVIOUS
<1>1. /\ b \in Batches /\ i \in 1..Len(b) /\ \A j \in 1..i - 1 : stored[b[j]] # 0
      /\ handler[h].answer = "" /\ Len(b) \in Nat /\ \A j \in 1..Len(b) : b[j] \in Notices
      /\ i \in Nat /\ Item(h) = b[i]
  <2>1. b \in Batches /\ i \in 1..Len(b)
    BY <1>0 DEF HookInv, Works
  <2>2. handler[h].answer = "" /\ \A j \in 1..i - 1 : stored[b[j]] # 0
    BY <1>0 DEF HookInv, Works
  <2>3. Item(h) = b[i]
    BY <1>0 DEF Item
  <2> QED
    BY <2>1, <2>2, <2>3, BatchFields, Places
<1>2. \A j \in 1..i : stored'[b[j]] # 0
  <2>1. ASSUME NEW j \in 1..i PROVE stored'[b[j]] # 0
    <3>1. j \in 1..i - 1 \/ j = i
      BY <1>1, Places
    <3>2. j \in 1..i - 1 => b[j] \in Notices /\ stored[b[j]] # 0
      BY <1>1, Places
    <3> QED
      BY <3>1, <3>2, <1>1
  <2> QED
    BY <2>1
<1>3. ASSUME NEW g \in Handlers, g # h, handler'[g] = handler[g] PROVE Works(g)' /\ Missing(g)'
  <2>1. Works(g)'
    <3>1. SUFFICES ASSUME handler[g].pc # "idle"
                   PROVE  /\ handler[g].batch \in Batches /\ handler[g].answer = ""
                          /\ handler[g].item \in 1..Len(handler[g].batch)
                          /\ \A j \in 1..handler[g].item - 1 : stored'[handler[g].batch[j]] # 0
      BY <1>3 DEF Works
    <3>2. /\ handler[g].batch \in Batches /\ handler[g].answer = ""
          /\ handler[g].item \in 1..Len(handler[g].batch)
          /\ \A j \in 1..handler[g].item - 1 : stored[handler[g].batch[j]] # 0
      BY <3>1 DEF HookInv, Works
    <3>3. \A j \in 1..handler[g].item - 1 : handler[g].batch[j] \in Notices
      <4>1. \A j \in 1..handler[g].item - 1 : j \in 1..Len(handler[g].batch)
        BY <3>2, Places
      <4> QED
        BY <3>2, <4>1, BatchFields
    <3> QED
      BY <3>2, <3>3
  <2>2. Missing(g)'
    BY <1>3 DEF HookInv, Missing, Item
  <2> QED
    BY <2>1, <2>2
<1>4. \A c \in accepted : c \in Batches /\ AllStored(c)'
  <2>1. ASSUME NEW c \in accepted PROVE c \in Batches /\ AllStored(c)'
    <3>1. c \in Batches /\ AllStored(c)
      BY DEF HookInv
    <3> QED
      BY <3>1, BatchFields DEF AllStored
  <2> QED
    BY <2>1
<1>5. ASSUME NEW x \in HandlerState, handler' = [handler EXCEPT ![h] = x], Works(h)', Missing(h)',
             \A c \in accepted' : c \in Batches /\ AllStored(c)'
      PROVE  HookInv'
  <2>1. /\ handler' \in [Handlers -> HandlerState]
        /\ \A g \in Handlers : g # h => handler'[g] = handler[g]
    BY <1>5, HandlerStep
  <2>2. ASSUME NEW g \in Handlers PROVE Works(g)' /\ Missing(g)'
    BY <2>1, <1>3, <1>5
  <2> QED
    BY <2>1, <2>2, <1>5 DEF HookInv, KnownSecrets
<1>6. CASE i < Len(b)
  <2> DEFINE x == [handler[h] EXCEPT !.pc = "check", !.item = i + 1]
  <2>1. handler' = [handler EXCEPT ![h] = x] /\ accepted' = accepted
    BY <1>0, <1>6 DEF NextItem, HookInv
  <2>2. i + 1 \in Nat /\ handler[h] \in HandlerState
    BY <1>1, Places DEF HookInv
  <2>3. x \in HandlerState /\ x.pc = "check" /\ x.batch = b /\ x.item = i + 1 /\ x.answer = ""
    <3>1. /\ x \in HandlerState /\ x.pc = "check" /\ x.item = i + 1
          /\ x.batch = handler[h].batch /\ x.answer = handler[h].answer
      BY <2>2, NextState
    <3> HIDE DEF x
    <3> QED
      BY <3>1, <1>0, <1>1
  <2> HIDE DEF x
  <2>4. handler'[h] = x
    BY <2>1, <2>3, HandlerStep
  <2>5. i + 1 \in 1..Len(b) /\ 1..(i + 1) - 1 = 1..i
    BY <1>1, <1>6, Places
  <2>6. Works(h)'
    BY <2>3, <2>4, <2>5, <1>1, <1>2 DEF Works
  <2>7. Missing(h)'
    BY <2>3, <2>4 DEF Missing
  <2> QED
    BY <2>1, <2>3, <2>6, <2>7, <1>4, <1>5
<1>7. CASE ~(i < Len(b))
  <2> DEFINE x == [Idle[h] EXCEPT !.answer = "200"]
  <2>1. handler' = [handler EXCEPT ![h] = x] /\ accepted' = accepted \cup {b}
    BY <1>0, <1>7 DEF NextItem, AnswerPost
  <2>2. x \in HandlerState /\ x.pc = "idle"
    BY IdleState DEF HandlerState
  <2> HIDE DEF x
  <2>3. handler'[h] = x
    BY <2>1, <2>2, HandlerStep
  <2>4. Works(h)' /\ Missing(h)'
    BY <2>2, <2>3 DEF Works, Missing
  <2>5. 1..Len(b) = 1..i
    BY <1>1, <1>7, Places
  <2>6. AllStored(b)'
    BY <2>5, <1>2 DEF AllStored
  <2> QED
    BY <2>1, <2>2, <2>4, <2>6, <1>1, <1>4, <1>5
<1> QED
  BY <1>6, <1>7

LEMMA InsertKept ==
  ASSUME HookInv, NEW h \in Handlers, InsertNotice(h)
  PROVE  HookInv'
<1> DEFINE n == Item(h)
<1>1. /\ handler[h].pc = "insert" /\ UNCHANGED <<secret, known>>
      /\ raced' = IF \E g \in Handlers \ {h} : handler[g].pc = "insert" /\ Item(g) = n
                    THEN raced \cup {n} ELSE raced
  BY DEF InsertNotice
<1>2. n \in Notices /\ stored \in [Notices -> Nat] /\ raced \subseteq raced'
  BY <1>1, ItemIs DEF HookInv
<1>3. CASE n \in Lifecycle /\ stored[n] # 0
  <2>1. AnswerPost(h, "500") /\ UNCHANGED <<stored, accepted>>
    BY <1>3 DEF InsertNotice
  <2> DEFINE x == [Idle[h] EXCEPT !.answer = "500"]
  <2>2. x \in HandlerState /\ x.pc = "idle" /\ handler' = [handler EXCEPT ![h] = x]
    BY <2>1, IdleState DEF HandlerState, AnswerPost
  <2> HIDE DEF x
  <2>3. /\ handler' \in [Handlers -> HandlerState] /\ handler'[h] = x
        /\ \A g \in Handlers : g # h => handler'[g] = handler[g]
    BY <2>2, HandlerStep
  <2>4. ASSUME NEW g \in Handlers PROVE Works(g)' /\ Missing(g)'
    <3>1. CASE g = h
      BY <3>1, <2>2, <2>3 DEF Works, Missing
    <3>2. CASE g # h
      <4>1. handler'[g] = handler[g]
        BY <3>2, <2>3
      <4> QED
        BY <4>1, <2>1, <1>2 DEF HookInv, Works, Missing, Item
    <3> QED
      BY <3>1, <3>2
  <2> HIDE DEF n
  <2> QED
    BY <2>1, <2>3, <2>4, <1>1, <1>2 DEF HookInv, KnownSecrets, AllStored, OneRowEach
<1>4. CASE ~(n \in Lifecycle /\ stored[n] # 0)
  <2>1. NextItem(h) /\ stored' = [stored EXCEPT ![n] = @ + 1]
    BY <1>4 DEF InsertNotice
  <2>2. /\ stored' \in [Notices -> Nat] /\ stored'[n] = stored[n] + 1
        /\ \A m \in Notices : m # n => stored'[m] = stored[m]
    BY <2>1, <1>2
  <2>3. \A m \in Notices : stored[m] # 0 => stored'[m] # 0
    BY <2>2, <1>2
  <2>4. ASSUME NEW g \in Handlers, g # h, handler[g].pc = "insert", Item(g) \notin raced'
        PROVE  stored'[Item(g)] = stored[Item(g)]
    <3>1. Item(g) # n /\ Item(g) \in Notices
      BY <2>4, <1>1, ItemIs
    <3> QED
      BY <3>1, <2>2
  <2>5. OneRowEach'
    <3>1. ASSUME NEW m \in Notices, m \in Lifecycle \/ m \notin raced' PROVE stored'[m] <= 1
      <4>1. CASE m = n
        <5>1. stored[n] = 0
          BY <3>1, <4>1, <1>1, <1>2, <1>4 DEF HookInv, Missing
        <5> QED
          BY <5>1, <4>1, <2>2
      <4>2. CASE m # n
        BY <4>2, <3>1, <2>2, <1>2 DEF HookInv, OneRowEach
      <4> QED
        BY <4>1, <4>2
    <3> QED
      BY <3>1 DEF OneRowEach
  <2>6. stored'[Item(h)] # 0
    BY <2>2, <1>2
  <2> QED
    BY <2>1, <2>2, <2>3, <2>4, <2>5, <2>6, <1>1, <1>2, NextItemKept
<1> QED
  BY <1>3, <1>4

LEMMA PostKept ==
  ASSUME HookInv, NEW h \in Handlers, NEW b \in Batches, Post(h, b)
  PROVE  HookInv'
<1> DEFINE x == [pc |-> "check", batch |-> b, item |-> 1, answer |-> ""]
<1>1. x \in HandlerState
  BY DEF HandlerState
<1>2. handler' = [handler EXCEPT ![h] = x] /\ UNCHANGED <<stored, accepted, raced, secret, known>>
  BY DEF Post
<1>3. handler'[h] = x
  BY <1>1, <1>2, HandlerStep
<1>4. Works(h)' /\ Missing(h)'
  <2>1. 1 \in 1..Len(b) /\ \A j \in 1..1 - 1 : FALSE
    BY BatchFields
  <2>2. x.pc = "check" /\ x.batch = b /\ x.item = 1 /\ x.answer = ""
    OBVIOUS
  <2> HIDE DEF x
  <2> QED
    BY <2>1, <2>2, <1>3 DEF Works, Missing
<1> QED
  BY <1>1, <1>2, <1>4, QuietKept

LEMMA PruneKept ==
  ASSUME HookInv, PruneNotices
  PROVE  HookInv'
<1> DEFINE young == UNION {ToSet(handler[h].batch) :
                             h \in {g \in Handlers : handler[g].pc # "idle"}}
           old == {n \in Notices \ young : stored[n] # 0}
<1>1. /\ stored' = [n \in Notices |-> IF n \in old THEN 0 ELSE stored[n]]
      /\ accepted' = {b \in accepted : ToSet(b) \cap old = {}}
      /\ UNCHANGED <<known, secret, handler, raced>>
  BY DEF PruneNotices
<1>2. stored \in [Notices -> Nat]
  BY DEF HookInv
<1>3. ASSUME NEW h \in Handlers, handler[h].pc # "idle", NEW j \in 1..Len(handler[h].batch)
      PROVE  stored'[handler[h].batch[j]] = stored[handler[h].batch[j]]
  <2>1. handler[h].batch \in Batches
    BY <1>3 DEF HookInv, Works
  <2>2. handler[h].batch[j] \in ToSet(handler[h].batch) /\ handler[h].batch[j] \in Notices
    BY <2>1, BatchFields
  <2>3. handler[h].batch[j] \in young
    BY <2>2, <1>3
  <2> QED
    BY <2>2, <2>3, <1>1
<1>4. ASSUME NEW b \in accepted, ToSet(b) \cap old = {} PROVE b \in Batches /\ AllStored(b)'
  <2>1. b \in Batches /\ AllStored(b)
    BY DEF HookInv
  <2>2. ASSUME NEW i \in 1..Len(b) PROVE stored'[b[i]] # 0
    <3>1. b[i] \in Notices /\ b[i] \in ToSet(b) /\ stored[b[i]] # 0
      BY <2>1, BatchFields DEF AllStored
    <3>2. b[i] \notin old
      BY <3>1, <1>4
    <3> QED
      BY <3>1, <3>2, <1>1
  <2> QED
    BY <2>1, <2>2 DEF AllStored
<1> HIDE DEF young, old
<1>5. stored' \in [Notices -> Nat] /\ \A n \in Notices : stored'[n] <= stored[n]
  BY <1>1, <1>2
<1>6. OneRowEach'
  <2>1. ASSUME NEW n \in Notices, n \in Lifecycle \/ n \notin raced PROVE stored'[n] <= 1
    <3>1. stored[n] <= 1 /\ stored'[n] <= stored[n] /\ stored[n] \in Nat /\ stored'[n] \in Nat
      BY <2>1, <1>2, <1>5 DEF HookInv, OneRowEach
    <3> QED
      BY <3>1
  <2> QED
    BY <2>1, <1>1 DEF OneRowEach
<1>7. ASSUME NEW h \in Handlers PROVE Works(h)' /\ Missing(h)'
  <2>1. ASSUME handler[h].pc # "idle"
        PROVE  /\ handler[h].batch \in Batches /\ handler[h].answer = ""
               /\ handler[h].item \in 1..Len(handler[h].batch) /\ Len(handler[h].batch) \in Nat
               /\ \A j \in 1..handler[h].item - 1 : stored[handler[h].batch[j]] # 0
    BY <2>1, BatchFields DEF HookInv, Works
  <2>2. ASSUME handler[h].pc # "idle", NEW j \in 1..handler[h].item - 1
        PROVE  stored'[handler[h].batch[j]] # 0
    <3>1. handler[h].batch \in Batches /\ handler[h].item \in 1..Len(handler[h].batch)
      BY <2>1, <2>2
    <3>2. j \in 1..Len(handler[h].batch)
      BY <3>1, Places
    <3> QED
      BY <3>2, <2>1, <2>2, <1>3
  <2>3. handler[h].pc = "insert" => stored'[Item(h)] = stored[Item(h)]
    BY <2>1, <1>3 DEF Item
  <2>4. Works(h)'
    BY <2>1, <2>2, <1>1 DEF Works
  <2>5. Missing(h)'
    BY <2>3, <1>1 DEF HookInv, Missing, Item
  <2> QED
    BY <2>4, <2>5
<1> QED
  BY <1>1, <1>4, <1>5, <1>6, <1>7 DEF HookInv, KnownSecrets

LEMMA InitHook == HookInit => HookInv
<1> SUFFICES ASSUME HookInit PROVE HookInv
  OBVIOUS
<1>1. handler \in [Handlers -> HandlerState] /\ \A h \in Handlers : handler[h].pc = "idle"
  BY IdleState DEF HookInit, Idle
<1>2. stored = [n \in Notices |-> 0]
  BY DEF HookInit
<1>3. stored \in [Notices -> Nat] /\ \A n \in Notices : stored[n] <= 1
  BY <1>2
<1> QED
  BY <1>1, <1>3 DEF HookInit, HookInv, KnownSecrets, Works, Missing, OneRowEach

LEMMA SameKept ==
  ASSUME HookInv, UNCHANGED <<handler, stored, accepted, raced>>, KnownSecrets',
         secret' = [u \in Hooks |-> secret'[u]], known' = [u \in Hooks |-> known'[u]]
  PROVE  HookInv'
<1>1. \A h \in Handlers : Works(h)' /\ Missing(h)'
  BY SameHandler
<1> QED
  BY <1>1 DEF HookInv, AllStored, OneRowEach

LEMMA HooksKept ==
  ASSUME HookInv, NEW u \in Hooks, MakeHook(u) \/ SaveHook(u) \/ DeleteHook(u)
  PROVE  HookInv'
<1> USE DEF HookInv
<1>1. CASE MakeHook(u)
  <2>1. secret' = [secret EXCEPT ![u] = global] /\ secret[u] = ""
        /\ UNCHANGED <<known, handler, stored, accepted, raced>>
    BY <1>1 DEF MakeHook
  <2>2. secret' = [v \in Hooks |-> secret'[v]]
    BY <2>1
  <2>3. KnownSecrets'
    BY <2>1 DEF KnownSecrets
  <2> QED
    BY <2>1, <2>2, <2>3, SameKept
<1>2. CASE SaveHook(u)
  <2>1. known' = [known EXCEPT ![u] = secret[u]]
        /\ UNCHANGED <<secret, handler, stored, accepted, raced>>
    BY <1>2 DEF SaveHook
  <2>2. known' = [v \in Hooks |-> known'[v]]
    BY <2>1
  <2>3. KnownSecrets'
    BY <2>1 DEF KnownSecrets
  <2> QED
    BY <2>1, <2>2, <2>3, SameKept
<1>3. CASE DeleteHook(u)
  <2>1. known' = [known EXCEPT ![u] = ""]
        /\ UNCHANGED <<secret, handler, stored, accepted, raced>>
    BY <1>3 DEF DeleteHook
  <2>2. known' = [v \in Hooks |-> known'[v]]
    BY <2>1
  <2>3. KnownSecrets'
    BY <2>1 DEF KnownSecrets
  <2> QED
    BY <2>1, <2>2, <2>3, SameKept
<1> QED
  BY <1>1, <1>2, <1>3

LEMMA RotateKept ==
  ASSUME HookInv, Rotate
  PROVE  HookInv'
<1>1. handler' = Idle /\ UNCHANGED <<secret, known, stored, accepted, raced>>
  BY DEF Rotate
<1>2. handler' \in [Handlers -> HandlerState] /\ \A h \in Handlers : handler'[h].pc = "idle"
  BY <1>1, IdleState DEF Idle
<1>3. \A h \in Handlers : Works(h)' /\ Missing(h)'
  BY <1>2 DEF Works, Missing
<1> QED
  BY <1>1, <1>2, <1>3 DEF HookInv, KnownSecrets, AllStored, OneRowEach

\* What a request under check is answered: 403 and 404 mean that there is no row.
Refused ==
  \A h \in Handlers :
    handler[h].pc = "check" /\ handler'[h].answer \in {"403", "404"}
      => known[HookOf[Item(h)]] = ""

LEMMA OthersNotRefused ==
  ASSUME HookInv, NEW h \in Handlers, handler[h].pc # "check",
         \A g \in Handlers : g # h => handler'[g] = handler[g]
  PROVE  Refused
BY DEF Refused, HookInv, Works

LEMMA NextHook ==
  ASSUME HookInv, [HookNext]_hookVars
  PROVE  HookInv' /\ Refused
<1>0. ASSUME handler' = handler PROVE Refused
  BY <1>0 DEF Refused, HookInv, Works
<1>1. ASSUME NEW u \in Hooks, MakeHook(u) \/ SaveHook(u) \/ DeleteHook(u)
      PROVE  HookInv' /\ Refused
  <2>1. handler' = handler
    BY <1>1 DEF MakeHook, SaveHook, DeleteHook
  <2> QED
    BY <2>1, <1>0, <1>1, HooksKept
<1>2. CASE Rotate
  <2>1. Refused
    BY <1>2, IdleState DEF Rotate, Refused
  <2> QED
    BY <2>1, <1>2, RotateKept
<1>3. CASE PruneNotices
  <2>1. handler' = handler
    BY <1>3 DEF PruneNotices
  <2> QED
    BY <2>1, <1>0, <1>3, PruneKept
<1>4. ASSUME NEW h \in Handlers, NEW b \in Batches, Post(h, b) PROVE HookInv' /\ Refused
  <2>1. handler[h].pc # "check" /\ \A g \in Handlers : g # h => handler'[g] = handler[g]
    BY <1>4 DEF Post, HookInv
  <2> QED
    BY <2>1, <1>4, PostKept, OthersNotRefused
<1>5. ASSUME NEW h \in Handlers, Check(h) PROVE HookInv' /\ Refused
  <2> DEFINE u == HookOf[Item(h)]
  <2>1. handler[h].pc = "check" /\ UNCHANGED <<secret, known, stored, accepted, raced>>
    BY <1>5 DEF Check
  <2>2. u \in Hooks
    BY <2>1, ItemIs, WebhookAssumption
  <2>3. \A g \in Handlers : g # h => handler'[g] = handler[g]
    BY <1>5 DEF Check, AnswerPost, Go, HookInv
  <2>4. ASSUME known[u] = "" \/ Go(h, "exists") PROVE Refused
    <3>1. ASSUME Go(h, "exists") PROVE handler'[h].answer = ""
      BY <3>1, <2>1 DEF Go, HookInv, Works, HandlerState
    <3> QED
      BY <3>1, <2>3, <2>4 DEF Refused, HookInv, Works
  <2>5. CASE secret[u] \notin Expected(u)
    <3>1. AnswerPost(h, "403")
      BY <1>5, <2>5 DEF Check
    <3>2. known[u] = ""
      BY <2>2, <2>5 DEF HookInv, KnownSecrets, Expected
    <3> QED
      BY <3>1, <3>2, <2>1, <2>4, AnswerKept
  <2>6. CASE secret[u] \in Expected(u) /\ strict /\ known[u] = ""
    <3>1. AnswerPost(h, "404")
      BY <1>5, <2>6 DEF Check
    <3> QED
      BY <3>1, <2>1, <2>4, <2>6, AnswerKept
  <2>7. CASE secret[u] \in Expected(u) /\ ~(strict /\ known[u] = "")
    <3>1. Go(h, "exists")
      BY <1>5, <2>7 DEF Check
    <3> QED
      BY <3>1, <2>1, <2>4, GoKept
  <2> QED
    BY <2>5, <2>6, <2>7
<1>6. ASSUME NEW h \in Handlers, Exists(h) PROVE HookInv' /\ Refused
  <2>1. handler[h].pc = "exists" /\ UNCHANGED <<secret, known, stored, raced>>
    BY <1>6 DEF Exists
  <2>2. \A g \in Handlers : g # h => handler'[g] = handler[g]
    BY <1>6 DEF Exists, NextItem, AnswerPost, Go, HookInv
  <2>3. CASE stored[Item(h)] # 0
    <3>1. NextItem(h)
      BY <1>6, <2>3 DEF Exists
    <3>2. OneRowEach' /\ stored' \in [Notices -> Nat]
      BY <2>1 DEF HookInv, OneRowEach
    <3>3. HookInv'
      BY <3>1, <3>2, <2>1, <2>3, NextItemKept
    <3> QED
      BY <3>3, <2>1, <2>2, OthersNotRefused
  <2>4. CASE ~(stored[Item(h)] # 0)
    <3>1. Go(h, "insert") /\ accepted' = accepted
      BY <1>6, <2>4 DEF Exists
    <3> QED
      BY <3>1, <2>1, <2>2, <2>4, GoKept, OthersNotRefused
  <2> QED
    BY <2>3, <2>4
<1>7. ASSUME NEW h \in Handlers, InsertNotice(h) PROVE HookInv' /\ Refused
  <2>1. handler[h].pc # "check" /\ \A g \in Handlers : g # h => handler'[g] = handler[g]
    BY <1>7 DEF InsertNotice, NextItem, AnswerPost, HookInv
  <2> QED
    BY <2>1, <1>7, InsertKept, OthersNotRefused
<1>8. CASE UNCHANGED hookVars
  <2>1. UNCHANGED <<handler, stored, accepted, raced, secret, known>>
    BY <1>8 DEF hookVars
  <2>2. HookInv'
    BY <2>1, SameKept DEF HookInv, KnownSecrets
  <2> QED
    BY <2>1, <2>2, <1>0
<1> QED
  BY <1>1, <1>2, <1>3, <1>4, <1>5, <1>6, <1>7, <1>8 DEF HookNext

\* What was answered 200 is stored, and once, whatever is posted again, refused,
\* pruned or raced, for any batches and requests.
THEOREM StoredOnceHolds == HookSpec => []StoredOnce
<1>1. ASSUME HookInv PROVE StoredOnce
  BY <1>1, BatchFields DEF HookInv, StoredOnce, AllStored, OneRowEach
<1>2. HookInv /\ [HookNext]_hookVars => HookInv'
  BY NextHook
<1> QED
  BY InitHook, <1>1, <1>2, PTL DEF HookSpec

\* No rotation of the secret makes a subscription with a row refused.
THEOREM RefusedHolds == HookSpec => RefusedOnlyUnknown
<1>1. HookInv /\ [HookNext]_hookVars => HookInv' /\ [Refused]_hookVars
  BY NextHook
<1>2. HookSpec => [][Refused]_hookVars
  BY InitHook, <1>1, PTL DEF HookSpec
<1> QED
  BY <1>2 DEF RefusedOnlyUnknown, Refused

-----------------------------------------------------------------------------
(* RateLimit                                                               *)
(*                                                                         *)
(* What Redis admitted is still in the set, or was trimmed by a request of *)
(* a window later: the set a request counts holds all that its window      *)
(* admitted. The window of a worker is the end of all it let in, and what  *)
(* is before it is a window old.                                           *)

\* What Redis admitted is still in the set, or was trimmed by a request of a
\* whole window later.
Remembered ==
  \A a \in admitted : a \in members \/ \E m \in members : a <= m - Window

\* b is what s ends with.
EndOf(b, s) ==
  Len(b) <= Len(s) /\ \A i \in 1..Len(b) : b[i] = s[Len(s) - Len(b) + i]

\* The rest of s is a window old.
OldBefore(b, s, t) == \A i \in 1..(Len(s) - Len(b)) : s[i] <= t - Window

\* The window of a worker is the end of what it let in, and what is before it
\* is a window old.
Own(w) ==
  /\ bucket[w] \in Seq(Ticks) /\ served[w] \in Seq(Ticks)
  /\ EndOf(bucket[w], served[w]) /\ OldBefore(bucket[w], served[w], tick)

OwnBoundOf(w) ==
  \A i \in 1..(Len(served[w]) - MaxRequests) : served[w][i + MaxRequests] >= served[w][i] + Window

OwnInv ==
  /\ tick \in Ticks
  /\ bucket = [w \in Workers |-> bucket[w]] /\ served = [w \in Workers |-> served[w]]
  /\ \A w \in Workers : Own(w) /\ OwnBoundOf(w)

RateInv ==
  /\ tick \in Ticks /\ stamp \in [Workers -> Ticks \cup {0}]
  /\ members \subseteq Ticks /\ admitted \subseteq Ticks
  /\ Remembered
  /\ SharedBound

LEMMA RateNumbers ==
  /\ Window \in Nat /\ Window > 0 /\ MaxRequests \in Nat /\ MaxRequests > 0 /\ MaxTick \in Nat
  /\ MaxTick > 0 /\ IsFiniteSet(Ticks) /\ Ticks \subseteq Nat /\ 1 \in Ticks
<1>1. Window \in Nat /\ Window > 0 /\ MaxRequests \in Nat /\ MaxRequests > 0 /\ MaxTick \in Nat
      /\ MaxTick > 0
  BY RateAssumption
<1>2. IsFiniteSet(Ticks)
  BY <1>1, FS_Interval DEF Ticks
<1> QED
  BY <1>1, <1>2 DEF Ticks

LEMMA AtMost ==
  ASSUME NEW S \in SUBSET Ticks, NEW R \in SUBSET S, Cardinality(S) <= MaxRequests
  PROVE  Cardinality(R) <= MaxRequests
<1>1. IsFiniteSet(S)
  BY RateNumbers, FS_Subset
<1>2. Cardinality(R) <= Cardinality(S) /\ Cardinality(S) \in Nat /\ Cardinality(R) \in Nat
  BY <1>1, FS_Subset, FS_CardinalityType
<1> QED
  BY <1>2, RateNumbers

\* Nothing is forgotten by the trimming of a request.
LEMMA CountedRemembers ==
  ASSUME RateInv, NEW now \in Ticks, NEW a \in admitted
  PROVE  a \in Counted(now) \/ \E m \in Counted(now) : a <= m - Window
<1>1. a \in Nat /\ now \in Nat /\ Window \in Nat /\ members \subseteq Nat
  BY RateNumbers DEF RateInv
<1>2. now \in Counted(now)
  BY DEF Counted
<1>3. CASE a \in members
  BY <1>1, <1>2, <1>3 DEF Counted
<1>4. ASSUME NEW m \in members, a <= m - Window
      PROVE  m \in Counted(now) \/ a <= now - Window
  BY <1>1, <1>4 DEF Counted
<1> QED
  BY <1>2, <1>3, <1>4 DEF RateInv, Remembered

LEMMA RedisKept ==
  ASSUME RateInv, NEW w \in Workers, stamp[w] # 0, members' = Counted(stamp[w]),
         \/ admitted' = admitted
         \/ admitted' = admitted \cup {stamp[w]} /\ Cardinality(Counted(stamp[w])) <= MaxRequests,
         overtaken' = IF \E m \in members : m > stamp[w] THEN overtaken \cup {stamp[w]}
                      ELSE overtaken,
         tick' = tick, stamp' = [stamp EXCEPT ![w] = 0]
  PROVE  RateInv'
<1> USE DEF RateInv
<1>0. PICK now \in Ticks : now = stamp[w]
  OBVIOUS
<1>1. /\ now \in Nat /\ Window \in Nat /\ Window > 0
      /\ members \subseteq Nat /\ admitted \subseteq Nat
      /\ Ticks \subseteq Nat
  BY RateNumbers
<1>2. Counted(now) \subseteq Ticks /\ now \in Counted(now)
  BY DEF Counted
<1>3. admitted' \subseteq Ticks
  BY <1>0
<1>4. Remembered'
  <2>1. ASSUME NEW a \in admitted' PROVE a \in members' \/ \E m \in members' : a <= m - Window
    <3>1. CASE a \in admitted
      BY <3>1, <1>0, CountedRemembers
    <3>2. CASE a = now
      BY <3>2, <1>0, <1>2
    <3> QED
      BY <3>1, <3>2, <1>0
  <2> QED
    BY <2>1 DEF Remembered
<1>5. SharedBound'
  <2>1. ASSUME NEW t \in Ticks
        PROVE  Cardinality(InWindow(admitted' \ overtaken', t)) <= MaxRequests
    <3> DEFINE before == InWindow(admitted \ overtaken, t)
               after  == InWindow(admitted' \ overtaken', t)
    <3>1. before \subseteq Ticks /\ Cardinality(before) <= MaxRequests
      BY DEF InWindow, SharedBound
    <3>2. CASE now \notin after
      <4>1. after \subseteq before
        BY <3>2, <1>0 DEF InWindow
      <4> QED
        BY <4>1, <3>1, AtMost
    <3>3. CASE now \in after /\ now \in before
      <4>1. after \subseteq before
        BY <3>3, <1>0 DEF InWindow
      <4> QED
        BY <4>1, <3>1, AtMost
    <3>4. CASE now \in after /\ now \notin before
      <4>1. now \notin overtaken' /\ now \notin admitted /\ t - Window < now /\ now <= t
        BY <3>4, <1>0 DEF InWindow
      <4>2. \A m \in members : m <= now
        BY <4>1, <1>0, <1>1
      <4>3. ASSUME NEW a \in after PROVE a \in Counted(now)
        <5>1. CASE a = now
          BY <5>1, <1>2
        <5>2. CASE a # now
          <6>1. a \in admitted /\ t - Window < a /\ a \in Nat /\ t \in Nat
            BY <5>2, <4>3, <1>0, <1>1 DEF InWindow
          <6>2. ~ \E m \in members : a <= m - Window
            BY <6>1, <4>1, <4>2, <1>1
          <6>3. a \in members
            BY <6>1, <6>2 DEF Remembered
          <6>4. a > now - Window
            BY <6>1, <4>1, <1>1
          <6> QED
            BY <6>3, <6>4 DEF Counted
        <5> QED
          BY <5>1, <5>2
      <4>4. Cardinality(Counted(now)) <= MaxRequests
        BY <4>1, <3>4, <1>0 DEF InWindow
      <4> QED
        BY <4>3, <4>4, <1>2, AtMost
    <3> QED
      BY <3>2, <3>3, <3>4
  <2> QED
    BY <2>1 DEF SharedBound
<1> QED
  BY <1>0, <1>2, <1>3, <1>4, <1>5

LEMMA NextRate == RateInv /\ [RateNext]_rateVars => RateInv'
<1> SUFFICES ASSUME RateInv, [RateNext]_rateVars PROVE RateInv'
  OBVIOUS
<1> USE DEF RateInv
<1>1. CASE Tick
  <2>1. tick' \in Ticks
    BY <1>1, RateNumbers DEF Tick, Ticks
  <2> QED
    BY <1>1, <2>1 DEF Tick, Remembered, SharedBound
<1>2. ASSUME NEW w \in Workers, ReadClock(w) PROVE RateInv'
  BY <1>2 DEF ReadClock, Remembered, SharedBound
<1>3. ASSUME NEW w \in Workers, AllowRedis(w) PROVE RateInv'
  BY <1>3, RedisKept DEF AllowRedis
<1>4. ASSUME NEW w \in Workers, ServeLocally(w) PROVE RateInv'
  BY <1>4 DEF ServeLocally, Remembered, SharedBound
<1>5. ASSUME NEW w \in Workers, NEW done \in BOOLEAN, RedisFails(w, done) PROVE RateInv'
  <2>1. CASE done
    BY <1>5, <2>1, RedisKept DEF RedisFails
  <2>2. CASE ~done
    BY <1>5, <2>2 DEF RedisFails, Remembered, SharedBound
  <2> QED
    BY <2>1, <2>2
<1>6. CASE UNCHANGED rateVars
  BY <1>6 DEF rateVars, Remembered, SharedBound
<1> QED
  BY <1>1, <1>2, <1>3, <1>4, <1>5, <1>6 DEF RateNext

LEMMA InitRate == RateInit => RateInv
<1> SUFFICES ASSUME RateInit PROVE RateInv
  OBVIOUS
<1>1. SharedBound
  <2>1. \A t \in Ticks : InWindow(admitted \ overtaken, t) = {}
    BY DEF RateInit, InWindow
  <2> QED
    BY <2>1, FS_EmptySet, RateNumbers DEF SharedBound
<1> QED
  BY <1>1, RateNumbers DEF RateInit, RateInv, Remembered

LEMMA SharedHolds == RateSpec => []SharedBound
<1>1. RateInv => SharedBound
  BY DEF RateInv
<1> QED
  BY InitRate, NextRate, <1>1, PTL DEF RateSpec

\* A window from which the old have been dropped leaves the rest as it was.
LEMMA WindowSlides ==
  ASSUME NEW b \in Seq(Ticks), NEW s \in Seq(Ticks), NEW k \in 0..Len(b),
         EndOf(b, s), OldBefore(b, s, tick), Expired(b, k)
  PROVE  LET young == SubSeq(b, k + 1, Len(b)) IN
         /\ young \in Seq(Ticks) /\ Len(young) = Len(b) - k
         /\ EndOf(young, s) /\ OldBefore(young, s, tick)
<1>1. Len(b) \in Nat /\ Len(s) \in Nat /\ k \in Nat /\ k <= Len(b)
  OBVIOUS
<1>2. PICK young : young = SubSeq(b, k + 1, Len(b))
  OBVIOUS
<1>3. young \in Seq(Ticks)
  BY <1>1, <1>2
<1>4. Len(young) = Len(b) - k /\ Len(young) \in Nat
  BY <1>1, <1>2
<1>5. \A i \in 1..Len(young) : young[i] = b[k + i]
  BY <1>1, <1>2
<1>6. Len(b) <= Len(s)
  BY DEF EndOf
<1>7. ASSUME NEW i \in 1..Len(young) PROVE young[i] = s[Len(s) - Len(young) + i]
  <2>1. i \in Nat /\ k + i \in 1..Len(b) /\ Len(s) - Len(b) + (k + i) = Len(s) - Len(young) + i
    BY <1>1, <1>4
  <2>2. young[i] = b[k + i]
    BY <1>5
  <2>3. b[k + i] = s[Len(s) - Len(b) + (k + i)]
    BY <2>1 DEF EndOf
  <2> QED
    BY <2>1, <2>2, <2>3
<1>8. ASSUME NEW i \in 1..(Len(s) - Len(young)) PROVE s[i] <= tick - Window
  <2>1. CASE i <= Len(s) - Len(b)
    <3>1. i \in 1..(Len(s) - Len(b))
      BY <2>1, <1>1, <1>4
    <3> QED
      BY <3>1 DEF OldBefore
  <2>2. CASE i > Len(s) - Len(b)
    <3>0. i - (Len(s) - Len(b)) \in 1..k /\ i = Len(s) - Len(b) + (i - (Len(s) - Len(b)))
      BY <2>2, <1>1, <1>4, <1>6
    <3>1. PICK j \in 1..k : i = Len(s) - Len(b) + j
      BY <3>0, Zenon
    <3>2. j \in 1..Len(b) /\ b[j] <= tick - Window
      BY <3>1, <1>1 DEF Expired
    <3>3. b[j] = s[i]
      BY <3>1, <3>2 DEF EndOf
    <3> QED
      BY <3>2, <3>3
  <2> QED
    BY <2>1, <2>2, <1>1, <1>4
<1>9. Len(young) <= Len(s)
  BY <1>1, <1>4, <1>6
<1>10. EndOf(young, s) /\ OldBefore(young, s, tick)
  BY <1>7, <1>8, <1>9 DEF EndOf, OldBefore
<1> QED
  BY <1>2, <1>3, <1>4, <1>10

LEMMA OwnKept ==
  ASSUME OwnInv, NEW w \in Workers, Local(w), tick' = tick
  PROVE  OwnInv'
<1>1. tick \in Ticks /\ tick \in Nat /\ Ticks \subseteq Nat /\ Window \in Nat /\ Window > 0
      /\ MaxRequests \in Nat /\ MaxRequests > 0
  BY RateNumbers DEF OwnInv
<1>2. Own(w) /\ OwnBoundOf(w)
  BY DEF OwnInv
<1>3. PICK k \in 0..Len(bucket[w]) :
        LET young == SubSeq(bucket[w], k + 1, Len(bucket[w])) IN
        /\ Expired(bucket[w], k)
        /\ \/ /\ Len(young) >= MaxRequests
              /\ bucket' = [bucket EXCEPT ![w] = young]
              /\ UNCHANGED served
           \/ /\ Len(young) < MaxRequests
              /\ bucket' = [bucket EXCEPT ![w] = Append(young, tick)]
              /\ served' = [served EXCEPT ![w] = Append(@, tick)]
  BY DEF Local
<1> DEFINE young == SubSeq(bucket[w], k + 1, Len(bucket[w]))
<1>4. /\ young \in Seq(Ticks) /\ Len(young) = Len(bucket[w]) - k
      /\ EndOf(young, served[w]) /\ OldBefore(young, served[w], tick)
  <2>1. Expired(bucket[w], k)
    BY <1>3
  <2>2. /\ bucket[w] \in Seq(Ticks) /\ served[w] \in Seq(Ticks)
        /\ EndOf(bucket[w], served[w]) /\ OldBefore(bucket[w], served[w], tick)
    BY <1>2 DEF Own
  <2> QED
    BY <2>1, <2>2, WindowSlides
<1>5. young \in Seq(Ticks) /\ served[w] \in Seq(Ticks)
  BY <1>2, <1>4 DEF Own
<1>6. \/ /\ bucket' = [bucket EXCEPT ![w] = young]
         /\ UNCHANGED served
      \/ /\ Len(young) < MaxRequests
         /\ bucket' = [bucket EXCEPT ![w] = Append(young, tick)]
         /\ served' = [served EXCEPT ![w] = Append(@, tick)]
  BY <1>3
<1> HIDE DEF young
<1>7. /\ bucket' = [v \in Workers |-> bucket'[v]] /\ served' = [v \in Workers |-> served'[v]]
      /\ \A v \in Workers \ {w} : bucket'[v] = bucket[v] /\ served'[v] = served[v]
  BY <1>6 DEF OwnInv
<1>8. Own(w)' /\ OwnBoundOf(w)'
  <2>1. CASE bucket' = [bucket EXCEPT ![w] = young] /\ UNCHANGED served
    <3>1. bucket'[w] = young /\ served'[w] = served[w]
      BY <2>1 DEF OwnInv
    <3> QED
      BY <3>1, <1>1, <1>2, <1>4, <1>5 DEF Own, OwnBoundOf
  <2>2. CASE /\ Len(young) < MaxRequests
             /\ bucket' = [bucket EXCEPT ![w] = Append(young, tick)]
             /\ served' = [served EXCEPT ![w] = Append(@, tick)]
    <3> DEFINE s == served[w]
               b == Append(young, tick)
               n == Append(s, tick)
    <3>1. bucket'[w] = b /\ served'[w] = n
      BY <2>2 DEF OwnInv
    <3>2. /\ b \in Seq(Ticks) /\ Len(b) = Len(young) + 1 /\ b[Len(b)] = tick
          /\ \A i \in 1..Len(young) : b[i] = young[i]
      BY <1>5, <1>1
    <3>3. /\ n \in Seq(Ticks) /\ Len(n) = Len(s) + 1 /\ n[Len(n)] = tick
          /\ \A i \in 1..Len(s) : n[i] = s[i]
      BY <1>5, <1>1
    <3>4. Len(s) \in Nat /\ Len(young) \in Nat /\ Len(young) <= Len(s)
      BY <1>4, <1>5 DEF EndOf
    <3>5. /\ \A i \in 1..Len(young) : young[i] = s[Len(s) - Len(young) + i]
          /\ \A i \in 1..(Len(s) - Len(young)) : s[i] <= tick - Window
          /\ \A i \in 1..(Len(s) - MaxRequests) : s[i + MaxRequests] >= s[i] + Window
      BY <1>4, <1>2 DEF OwnBoundOf, EndOf, OldBefore
    <3>0. s \in Seq(Ticks)
      BY <1>5
    <3> HIDE DEF s, b, n
    <3>6. \A i \in 1..Len(b) : b[i] = n[Len(n) - Len(b) + i]
      <4> SUFFICES ASSUME NEW i \in 1..Len(b) PROVE b[i] = n[Len(n) - Len(b) + i]
        OBVIOUS
      <4>1. CASE i = Len(b)
        BY <4>1, <3>2, <3>3, <3>4
      <4>2. CASE i # Len(b)
        <5>1. i \in 1..Len(young) /\ Len(n) - Len(b) + i = Len(s) - Len(young) + i
              /\ Len(s) - Len(young) + i \in 1..Len(s)
          BY <4>2, <3>2, <3>3, <3>4
        <5> QED
          BY <5>1, <3>2, <3>3, <3>5
      <4> QED
        BY <4>1, <4>2
    <3>7. \A i \in 1..(Len(n) - Len(b)) : n[i] <= tick - Window
      <4> SUFFICES ASSUME NEW i \in 1..(Len(n) - Len(b)) PROVE n[i] <= tick - Window
        OBVIOUS
      <4>1. i \in 1..(Len(s) - Len(young)) /\ i \in 1..Len(s)
        BY <3>2, <3>3, <3>4
      <4> QED
        BY <4>1, <3>3, <3>5
    <3>8. \A i \in 1..(Len(n) - MaxRequests) : n[i + MaxRequests] >= n[i] + Window
      <4> SUFFICES ASSUME NEW i \in 1..(Len(n) - MaxRequests)
                   PROVE  n[i + MaxRequests] >= n[i] + Window
        OBVIOUS
      <4>1. CASE i + MaxRequests = Len(n)
        <5>1. i \in 1..(Len(s) - Len(young)) /\ i \in 1..Len(s)
          BY <4>1, <2>2, <3>3, <3>4, <1>1
        <5>0. s[i] \in Ticks
          BY <5>1, <3>0
        <5>2. s[i] \in Nat
          BY <5>0, RateNumbers
        <5>3. n[i + MaxRequests] = tick /\ n[i] = s[i] /\ s[i] <= tick - Window
          BY <5>1, <4>1, <3>3, <3>5
        <5> QED
          BY <5>2, <5>3, <1>1
      <4>2. CASE i + MaxRequests # Len(n)
        <5>1. i \in 1..(Len(s) - MaxRequests) /\ i \in 1..Len(s) /\ i + MaxRequests \in 1..Len(s)
          BY <4>2, <3>3, <3>4, <1>1
        <5> QED
          BY <5>1, <3>3, <3>5
      <4> QED
        BY <4>1, <4>2
    <3>9. Len(b) <= Len(n)
      BY <3>2, <3>3, <3>4
    <3> QED
      BY <3>1, <3>2, <3>3, <3>6, <3>7, <3>8, <3>9 DEF Own, OwnBoundOf, EndOf, OldBefore
  <2> QED
    BY <2>1, <2>2, <1>6
<1>9. ASSUME NEW v \in Workers PROVE Own(v)' /\ OwnBoundOf(v)'
  <2>1. CASE v = w
    BY <2>1, <1>8
  <2>2. CASE v # w
    <3>1. Own(v) /\ OwnBoundOf(v) /\ bucket'[v] = bucket[v] /\ served'[v] = served[v]
      BY <2>2, <1>7 DEF OwnInv
    <3> QED
      BY <3>1 DEF Own, OwnBoundOf
  <2> QED
    BY <2>1, <2>2
<1> QED
  BY <1>1, <1>7, <1>9 DEF OwnInv

LEMMA NextOwn == OwnInv /\ [RateNext]_rateVars => OwnInv'
<1> SUFFICES ASSUME OwnInv, [RateNext]_rateVars PROVE OwnInv'
  OBVIOUS
<1>1. CASE Tick
  <2>1. tick' \in Ticks /\ tick' \in Nat /\ tick \in Nat /\ tick <= tick' /\ Window \in Nat
        /\ UNCHANGED <<bucket, served>>
    BY <1>1, RateNumbers DEF Tick, Ticks, OwnInv
  <2>2. ASSUME NEW w \in Workers PROVE Own(w)' /\ OwnBoundOf(w)'
    <3>1. Own(w) /\ OwnBoundOf(w)
      BY DEF OwnInv
    <3>2. OwnBoundOf(w)'
      BY <3>1, <2>1 DEF OwnBoundOf
    <3>3. ASSUME NEW i \in 1..(Len(served[w]) - Len(bucket[w]))
          PROVE  served[w][i] <= tick' - Window
      <4>1. served[w] \in Seq(Ticks) /\ bucket[w] \in Seq(Ticks)
        BY <3>1 DEF Own
      <4>2. Len(served[w]) \in Nat /\ Len(bucket[w]) \in Nat
        BY <4>1
      <4>3. i \in 1..Len(served[w])
        BY <4>2
      <4>4. served[w][i] \in Ticks
        BY <4>1, <4>3
      <4>5. served[w][i] \in Nat
        BY <4>4, RateNumbers
      <4>6. served[w][i] <= tick - Window
        BY <3>1 DEF Own, OldBefore
      <4>7. tick \in Nat /\ tick' \in Nat /\ tick <= tick' /\ Window \in Nat
        BY <2>1
      <4> QED
        BY <4>5, <4>6, <4>7
    <3> QED
      BY <3>1, <3>2, <3>3, <2>1 DEF Own, OldBefore
  <2> QED
    BY <2>1, <2>2 DEF OwnInv
<1>2. ASSUME NEW w \in Workers, ReadClock(w) \/ AllowRedis(w) PROVE OwnInv'
  BY <1>2 DEF ReadClock, AllowRedis, OwnInv, Own, OwnBoundOf
<1>3. ASSUME NEW w \in Workers, ServeLocally(w) PROVE OwnInv'
  BY <1>3, OwnKept DEF ServeLocally
<1>4. ASSUME NEW w \in Workers, NEW done \in BOOLEAN, RedisFails(w, done) PROVE OwnInv'
  BY <1>4, OwnKept DEF RedisFails
<1>5. CASE UNCHANGED rateVars
  BY <1>5 DEF rateVars, OwnInv, Own, OwnBoundOf
<1> QED
  BY <1>1, <1>2, <1>3, <1>4, <1>5 DEF RateNext

LEMMA OwnHolds == RateSpec => []OwnBound
<1>1. RateInit => OwnInv
  <2> SUFFICES ASSUME RateInit PROVE OwnInv
    OBVIOUS
  <2>1. \A w \in Workers : bucket[w] = <<>> /\ served[w] = <<>>
    BY DEF RateInit
  <2>2. bucket = [w \in Workers |-> bucket[w]] /\ served = [w \in Workers |-> served[w]]
    BY DEF RateInit
  <2>3. tick \in Ticks
    BY RateNumbers DEF RateInit
  <2>4. ASSUME NEW w \in Workers PROVE Own(w) /\ OwnBoundOf(w)
    <3>1. <<>> \in Seq(Ticks) /\ Len(<<>>) = 0
      OBVIOUS
    <3>2. bucket[w] = <<>> /\ served[w] = <<>>
      BY <2>1
    <3>3. /\ bucket[w] \in Seq(Ticks) /\ Len(bucket[w]) = 0
          /\ served[w] \in Seq(Ticks) /\ Len(served[w]) = 0
      BY <3>1, <3>2, Zenon
    <3> QED
      BY <3>3, RateNumbers DEF Own, OwnBoundOf, EndOf, OldBefore
  <2> QED
    BY <2>2, <2>3, <2>4 DEF OwnInv
<1>2. OwnInv => OwnBound
  BY DEF OwnInv, OwnBound, OwnBoundOf
<1> QED
  BY <1>1, <1>2, NextOwn, PTL DEF RateSpec

\* However many workers share the window, whatever of them fails, and whatever
\* the limits: what Redis admits in a window stays within the limit, and so does
\* what a worker lets in on its own.
THEOREM WindowHolds == RateSpec => []WindowBound
BY SharedHolds, OwnHolds, PTL DEF WindowBound

-----------------------------------------------------------------------------
(* Documents                                                               *)
(*                                                                         *)
(* What the tables hold has passed the validator, which looks at the       *)
(* places the loader comes to, and at more in each but the options. A      *)
(* block below parallel would be a child of it, and the validator refuses  *)
(* a child that is a block.                                                *)

\* A scenario holds no step that is not valid.
Accepted == scenario # NoRow => \A s \in AllOf(scenario) : Tree(s) /\ Valid(s)

\* A slot that no import wrote is a window of times, and one whose start and
\* end were checked together is not empty.
Checked ==
  slot # NoRow /\ ~imported =>
    /\ slot.days /\ IsTime(slot.start) /\ IsTime(slot.end)
    /\ ~halved => Ordered(slot)

DocumentInv == DocumentTypeOK /\ Accepted /\ Checked

\* What is below a place follows the lists of the one at it.
LEMMA NextBelow ==
  ASSUME NEW s, Tree(s), NEW p \in Reached(s), NEW q \in Reached(s), Under(q, p), q # p
  PROVE  /\ SubSeq(q, 1, Len(p) + 1) \in Reached(s)
         /\ Under(SubSeq(q, 1, Len(p) + 1), p)
         /\ Len(SubSeq(q, 1, Len(p) + 1)) = Len(p) + 1
         /\ q[Len(p) + 1].key \in Followed(s[p].type)
<1> DEFINE k == SubSeq(q, 1, Len(p) + 1)
           E == [key : STRING, at : Nat]
<1>1. p \in Seq(E) /\ q \in Seq(E)
  BY DEF Tree, Reached
<1>2. Len(p) \in Nat /\ Len(q) \in Nat /\ Len(p) <= Len(q)
  BY <1>1 DEF Under
<1>3. Len(p) # Len(q)
  <2> SUFFICES ASSUME Len(p) = Len(q) PROVE FALSE
    OBVIOUS
  <2>1. SubSeq(q, 1, Len(q)) = q
    BY <1>1
  <2> QED
    BY <2>1 DEF Under
<1>4. Len(p) + 1 \in 1..Len(q)
  BY <1>2, <1>3
<1>5. k \in Seq(E) /\ Len(k) = Len(p) + 1 /\ \A i \in 1..Len(p) + 1 : k[i] = q[i]
  <2>1. \A i \in 1..Len(p) + 1 : q[i] \in E
    <3>1. \A i \in 1..Len(q) : q[i] \in E
      <4> HIDE DEF E
      <4> QED
        BY <1>1
    <3>2. 1..Len(p) + 1 \subseteq 1..Len(q)
      BY <1>2, <1>4
    <3> QED
      BY <3>1, <3>2
  <2>2. Len(p) + 1 \in Nat /\ k = [i \in 1..Len(p) + 1 |-> q[i]]
    BY <1>1, <1>2, <1>4
  <2> QED
    BY <2>1, <2>2
<1>6. \A n \in 1..Len(k) : Up(k, n) = Up(q, n)
  BY <1>1, <1>4, <1>5 DEF Up
<1>7. k \in DOMAIN s
  <2>1. CASE Len(p) + 1 = Len(q)
    <3>1. k = q
      BY <1>1, <2>1
    <3> QED
      BY <3>1 DEF Reached
  <2>2. CASE Len(p) + 1 # Len(q)
    <3>1. Len(p) + 2 \in 1..Len(q) /\ Len(p) + 2 - 1 = Len(p) + 1
      BY <1>2, <1>4, <2>2
    <3>2. Up(q, Len(p) + 2) \in DOMAIN s
      BY <3>1 DEF Tree, Reached
    <3> QED
      BY <3>1, <3>2 DEF Up
  <2> QED
    BY <2>1, <2>2
<1>8. \A n \in 1..Len(k) : k[n].key \in Followed(s[Up(k, n)].type)
  <2> TAKE n \in 1..Len(k)
  <2>1. n \in 1..Len(q) /\ n \in 1..Len(p) + 1
    BY <1>2, <1>4, <1>5
  <2> QED
    BY <2>1, <1>5, <1>6 DEF Reached
<1>9. k \in Reached(s)
  BY <1>7, <1>8 DEF Reached
<1>10. SubSeq(k, 1, Len(p)) = SubSeq(q, 1, Len(p))
  BY <1>1, <1>2, <1>4
<1>11. Under(k, p)
  BY <1>2, <1>5, <1>10 DEF Under
<1>12. Up(q, Len(p) + 1) = p
  BY <1>2 DEF Up, Under
<1>13. q[Len(p) + 1].key \in Followed(s[p].type)
  BY <1>4, <1>12 DEF Reached
<1> QED
  BY <1>5, <1>9, <1>11, <1>13

\* A valid parallel has nothing below it but steps without lists of their own,
\* and none of them needs a browser.
LEMMA NoBrowserBelow ==
  ASSUME NEW s, Tree(s), Valid(s), NEW p \in Reached(s), NEW q \in Reached(s),
         s[p].type = "parallel", Under(q, p)
  PROVE  s[q].type \notin Browser
<1> DEFINE k == SubSeq(q, 1, Len(p) + 1)
           E == [key : STRING, at : Nat]
<1>1. CASE q = p
  BY <1>1 DEF Browser
<1>2. CASE q # p
  <2>1. k \in Reached(s) /\ Under(k, p) /\ Len(k) = Len(p) + 1
    BY <1>2, NextBelow
  <2>2. s[k].type \in ParallelSafe
    BY <2>1 DEF Valid, SafeKids, Kids
  <2>3. Followed(s[k].type) = {}
    BY <2>2 DEF Followed, ParallelSafe, Nesting
  <2>4. p \in Seq(E) /\ q \in Seq(E)
    BY DEF Tree, Reached
  <2>5. Len(p) \in Nat /\ Len(q) \in Nat /\ Len(p) <= Len(q)
    BY <2>4 DEF Under
  <2>6. q = k
    <3> SUFFICES ASSUME q # k PROVE FALSE
      OBVIOUS
    <3>1. Len(k) <= Len(q)
      <4>1. Len(p) # Len(q)
        <5> SUFFICES ASSUME Len(p) = Len(q) PROVE FALSE
          OBVIOUS
        <5>1. SubSeq(q, 1, Len(q)) = q
          BY <2>4
        <5> QED
          BY <5>1, <1>2 DEF Under
      <4> QED
        BY <4>1, <2>1, <2>5
    <3>2. Under(q, k)
      BY <3>1, <2>1 DEF Under
    <3>3. q[Len(k) + 1].key \in Followed(s[k].type)
      BY <2>1, <3>2, NextBelow
    <3> QED
      BY <2>3, <3>3
  <2> QED
    BY <2>2, <2>6 DEF ParallelSafe, Browser
<1> QED
  BY <1>1, <1>2

\* Of steps that are valid the loader judges the options.
LEMMA LoaderAsks ==
  ASSUME NEW s, Valid(s)
  PROVE  Buildable(s) <=> \A p \in Reached(s) : s[p].options
BY DEF Valid, Buildable

\* The two functions that look for a step that needs the network agree.
LEMMA SameNetwork == ASSUME NEW s PROVE NeedsNetwork(s) <=> ShownNetwork(s)
<1>1. \A type, key : key \in Followed(type) <=>
                        \/ (type \in Nesting /\ key = "steps")
                        \/ (type = "try" /\ key \in TryLists)
  <2> TAKE type, key
  <2>1. CASE type \in Nesting
    <3>1. type # "try" /\ Followed(type) = {"steps"}
      BY <2>1 DEF Followed, Nesting
    <3> QED
      BY <2>1, <3>1
  <2>2. CASE type = "try"
    BY <2>2 DEF Followed, Nesting
  <2>3. CASE type \notin Nesting /\ type # "try"
    BY <2>3 DEF Followed
  <2> QED
    BY <2>1, <2>2, <2>3
<1> QED
  BY <1>1 DEF NeedsNetwork, ShownNetwork, Reached

LEMMA SimpleIsTree == Tree(Simple("sleep", TRUE, TRUE))
<1> DEFINE s == Simple("sleep", TRUE, TRUE)
<1>1. DOMAIN s = {<<>>}
  BY DEF Simple
<1>2. <<>> \in Seq([key : STRING, at : Nat]) /\ Len(<<>>) = 0
  OBVIOUS
<1>3. 1..Len(<<>>) = {}
  BY <1>2
<1> QED
  BY <1>1, <1>2, <1>3, Zenon DEF Tree

LEMMA WrittenTrees == \A s \in Submitted : Tree(s)
BY SimpleIsTree, DocumentAssumption DEF Submitted

\* The document a request leaves has the steps it gives.
LEMMA SingleIs ==
  ASSUME NEW c \in Collections, NEW s \in Submitted
  PROVE  /\ AllOf(Single(c, s)) = {s}
         /\ Single(c, s) \in Definitions
<1>1. \A i \in Collections : [Empty EXCEPT ![c] = {s}][i] = IF i = c THEN {s} ELSE {}
  BY DEF Empty
<1>2. AllOf(Single(c, s)) = {s}
  BY <1>1 DEF AllOf, Single
<1>3. Single(c, s) \in Definitions
  BY DEF Definitions
<1> QED
  BY <1>2, <1>3

LEMMA NoStep == AllOf(Empty) = {}
BY DEF AllOf, Empty

LEMMA SavedIsValid ==
  ASSUME DocumentInv, NEW d, \A s \in AllOf(d) : Tree(s), SaveDefinition(d),
         d \in {Empty} \cup Definitions
  PROVE  DocumentInv'
<1>1. DocumentTypeOK'
  BY DEF DocumentInv, DocumentTypeOK, SaveDefinition
<1>2. Accepted'
  BY DEF DocumentInv, Accepted, SaveDefinition
<1>3. Checked'
  BY DEF DocumentInv, Checked, SaveDefinition
<1> QED
  BY <1>1, <1>2, <1>3 DEF DocumentInv

LEMMA ImportKeeps ==
  ASSUME DocumentInv, NEW s \in Submitted, NEW w, ImportDocument(s, w),
         w \in [start : Clocks, end : Clocks, days : BOOLEAN] \cup {NoRow}
  PROVE  DocumentInv'
<1>1. CASE Valid(s)
  <2>1. "steps" \in Collections
    BY DocumentAssumption
  <2>2. scenario' = Single("steps", s) /\ slot' = w /\ imported' = (w # NoRow)
        /\ halved' = FALSE /\ settings' = settings
    BY <1>1 DEF ImportDocument
  <2>3. DocumentTypeOK'
    BY <2>1, <2>2, SingleIs DEF DocumentInv, DocumentTypeOK
  <2>4. AllOf(scenario') = {s}
    BY <2>1, <2>2, SingleIs
  <2>5. Accepted'
    BY <1>1, <2>4, WrittenTrees DEF Accepted
  <2>6. Checked'
    BY <2>2 DEF Checked
  <2> QED
    BY <2>3, <2>5, <2>6 DEF DocumentInv
<1>2. CASE ~Valid(s)
  <2>1. UNCHANGED documentVars
    BY <1>2 DEF ImportDocument, documentVars
  <2> QED
    BY <2>1 DEF DocumentInv, DocumentTypeOK, Accepted, Checked, documentVars
<1> QED
  BY <1>1, <1>2

LEMMA PatchKeeps ==
  ASSUME DocumentInv, NEW a \in Clocks \cup {NoRow}, NEW b \in Clocks \cup {NoRow},
         NEW days \in BOOLEAN, PatchSlot(a, b, days)
  PROVE  DocumentInv'
<1> DEFINE from == IF a = NoRow THEN slot.start ELSE a
           to   == IF b = NoRow THEN slot.end ELSE b
<1>1. slot # NoRow /\ slot \in [start : Clocks, end : Clocks, days : BOOLEAN]
  BY DEF DocumentInv, DocumentTypeOK, PatchSlot
<1>2. from \in Clocks /\ to \in Clocks
  BY <1>1
<1>3. slot' = [start |-> from, end |-> to, days |-> slot.days \/ days]
  BY DEF PatchSlot, SlotWindow
<1>4. slot'.start = from /\ slot'.end = to /\ (slot'.days <=> slot.days \/ days)
  BY <1>3
<1>5. DocumentTypeOK'
  <2>1. slot' \in [start : Clocks, end : Clocks, days : BOOLEAN]
    BY <1>1, <1>2, <1>3
  <2>2. imported' \in BOOLEAN /\ halved' \in BOOLEAN /\ UNCHANGED <<scenario, settings>>
    BY DEF PatchSlot, DocumentInv, DocumentTypeOK
  <2> QED
    BY <2>1, <2>2 DEF DocumentInv, DocumentTypeOK
<1>6. Accepted'
  BY DEF PatchSlot, DocumentInv, Accepted
<1>7. /\ a # NoRow => IsTime(a)
      /\ b # NoRow => IsTime(b)
      /\ a # NoRow /\ b # NoRow => a < b
  BY DEF PatchSlot, PatchOk
<1>8. ASSUME ~imported'
      PROVE  slot'.days /\ IsTime(slot'.start) /\ IsTime(slot'.end)
  <2>1. ~imported \/ (a # NoRow /\ b # NoRow /\ days)
    BY <1>8 DEF PatchSlot
  <2>2. ~imported => slot.days /\ IsTime(slot.start) /\ IsTime(slot.end)
    BY <1>1 DEF DocumentInv, Checked
  <2> QED
    BY <1>4, <1>7, <2>1, <2>2
<1>9. ASSUME ~imported', ~halved'
      PROVE  Ordered(slot')
  <2>1. CASE a # NoRow /\ b # NoRow
    BY <1>4, <1>7, <2>1 DEF Ordered
  <2>2. CASE a = NoRow \/ b = NoRow
    <3>1. ~imported /\ ~halved /\ a = NoRow /\ b = NoRow
      BY <1>9, <2>2 DEF PatchSlot, DocumentInv, DocumentTypeOK
    <3>2. Ordered(slot)
      BY <1>1, <3>1 DEF DocumentInv, Checked
    <3> QED
      BY <1>4, <3>1, <3>2 DEF Ordered
  <2> QED
    BY <2>1, <2>2
<1>10. Checked'
  BY <1>8, <1>9 DEF Checked
<1> QED
  BY <1>5, <1>6, <1>10 DEF DocumentInv

LEMMA DocumentsKept == DocumentInv /\ [DocumentNext]_documentVars => DocumentInv'
<1> SUFFICES ASSUME DocumentInv, [DocumentNext]_documentVars PROVE DocumentInv'
  OBVIOUS
<1>1. ASSUME NEW c \in Collections, NEW s \in Steps, PutDefinition(c, s) PROVE DocumentInv'
  <2>1. s \in Submitted /\ Tree(s)
    BY WrittenTrees DEF Submitted
  <2> QED
    BY <1>1, <2>1, SingleIs, SavedIsValid DEF PutDefinition
<1>2. ASSUME NEW s \in Steps, ImportDocument(s, NoRow) PROVE DocumentInv'
  BY <1>2, ImportKeeps DEF Submitted
<1>3. ASSUME NEW a \in Clocks, NEW b \in Clocks, NEW days \in BOOLEAN,
             ImportDocument(Simple("sleep", TRUE, TRUE), SlotWindow(a, b, days))
      PROVE  DocumentInv'
  <2>1. SlotWindow(a, b, days) \in [start : Clocks, end : Clocks, days : BOOLEAN]
    BY DEF SlotWindow
  <2> QED
    BY <1>3, <2>1, ImportKeeps DEF Submitted
<1>4. ASSUME DropStep PROVE DocumentInv'
  BY <1>4, NoStep, SavedIsValid DEF DropStep
<1>5. ASSUME DropScenario PROVE DocumentInv'
  BY <1>5 DEF DropScenario, DocumentInv, DocumentTypeOK, Accepted, Checked
<1>6. ASSUME RemoveSlot PROVE DocumentInv'
  BY <1>6 DEF RemoveSlot, DocumentInv, DocumentTypeOK, Accepted, Checked
<1>7. ASSUME NEW a \in Clocks, NEW b \in Clocks, CreateSlot(a, b) PROVE DocumentInv'
  <2>1. slot' = [start |-> a, end |-> b, days |-> TRUE] /\ imported' = FALSE /\ halved' = FALSE
        /\ IsTime(a) /\ IsTime(b) /\ a < b /\ UNCHANGED <<scenario, settings>>
    BY <1>7 DEF CreateSlot, SlotWindow
  <2>2. DocumentTypeOK'
    BY <2>1 DEF DocumentInv, DocumentTypeOK
  <2>3. Accepted' /\ Checked'
    BY <2>1 DEF DocumentInv, Accepted, Checked, Ordered
  <2> QED
    BY <2>2, <2>3 DEF DocumentInv
<1>8. ASSUME NEW a \in Clocks \cup {NoRow}, NEW b \in Clocks \cup {NoRow}, NEW days \in BOOLEAN,
             PatchSlot(a, b, days)
      PROVE  DocumentInv'
  BY <1>8, PatchKeeps
<1>9. ASSUME NEW given \in {"", "masked", "full"}, NEW network \in {"full", "bare"},
             PutConfig(given, network)
      PROVE  DocumentInv'
  <2>1. settings' \in [pushover : {"", "bare", "full"}, network : {"full", "bare"}]
    BY <1>9 DEF PutConfig, NewPushover
  <2> QED
    BY <1>9, <2>1 DEF PutConfig, DocumentInv, DocumentTypeOK, Accepted, Checked
<1>10. ASSUME UNCHANGED documentVars PROVE DocumentInv'
  BY <1>10 DEF documentVars, DocumentInv, DocumentTypeOK, Accepted, Checked
<1> QED
  BY <1>1, <1>2, <1>3, <1>4, <1>5, <1>6, <1>7, <1>8, <1>9, <1>10 DEF DocumentNext

LEMMA InitDocument == DocumentInit => DocumentInv
<1> SUFFICES ASSUME DocumentInit PROVE DocumentInv
  OBVIOUS
<1>1. settings \in [pushover : {"", "bare", "full"}, network : {"full", "bare"}]
  BY DEF DocumentInit
<1> QED
  BY <1>1 DEF DocumentInit, DocumentInv, DocumentTypeOK, Accepted, Checked

LEMMA RunnableFollows == DocumentInv => StoredIsRunnable
<1> SUFFICES ASSUME DocumentInv PROVE StoredIsRunnable
  OBVIOUS
<1>1. ASSUME scenario # NoRow
      PROVE  /\ CatalogLoads <=> \A s \in AllOf(scenario) : \A p \in Reached(s) : s[p].options
             /\ \A s \in AllOf(scenario) : \A p, q \in Reached(s) :
                  s[p].type = "parallel" /\ Under(q, p) => s[q].type \notin Browser
             /\ \A s \in AllOf(scenario) : NeedsNetwork(s) <=> ShownNetwork(s)
  <2>1. \A s \in AllOf(scenario) : Tree(s) /\ Valid(s)
    BY <1>1 DEF DocumentInv, Accepted
  <2>2. CatalogLoads <=> \A s \in AllOf(scenario) : \A p \in Reached(s) : s[p].options
    BY <1>1, <2>1, LoaderAsks DEF CatalogLoads
  <2>3. \A s \in AllOf(scenario) : \A p, q \in Reached(s) :
          s[p].type = "parallel" /\ Under(q, p) => s[q].type \notin Browser
    BY <2>1, NoBrowserBelow
  <2> QED
    BY <2>2, <2>3, SameNetwork
<1>2. Loads <=> CatalogLoads /\ "bare" \notin {settings.pushover, settings.network}
  BY DEF Loads, DataLoads
<1>3. slot # NoRow /\ ~Plannable(slot) => imported \/ halved
  BY DEF DocumentInv, Checked, Plannable
<1> QED
  BY <1>1, <1>2, <1>3 DEF StoredIsRunnable

\* What the catalog holds can be loaded but for an option nobody validates, has
\* no browser below a parallel, and shows the flag the scheduler goes by; a slot
\* without an instant to run at came with an import or by patches of one end,
\* whatever steps are nested in whatever way.
THEOREM StoredHolds == DocumentSpec => []StoredIsRunnable
BY InitDocument, DocumentsKept, RunnableFollows, PTL DEF DocumentSpec

-----------------------------------------------------------------------------
(* Types                                                                   *)
(*                                                                         *)
(* The services whose invariants leave fields out, then the composition:   *)
(* a behaviour of ServicesSpec is one of each module.                      *)

LEMMA HistoryTyped == HistorySpec => []HistoryTypeOK
<1> DEFINE Small == holder \in SUBSET Writers /\ Cardinality(holder) <= 1
           Rest  == Small /\ dead \in SUBSET Writers /\ clash \in SUBSET SUBSET Writers
<1>1. HistoryInit => Rest
  BY FS_EmptySet DEF HistoryInit
<1>2. ASSUME NEW w \in Writers PROVE {w} \in SUBSET Writers /\ Cardinality({w}) <= 1
  BY FS_Singleton
<1>3. ASSUME NEW S \in SUBSET Writers, Cardinality(S) <= 1, NEW w
      PROVE  Cardinality(S \ {w}) <= 1
  <2>1. IsFiniteSet(S) /\ S \ {w} \subseteq S
    BY WritersAssumption, FS_Subset
  <2>2. Cardinality(S \ {w}) <= Cardinality(S)
    BY <2>1, FS_Subset
  <2>3. Cardinality(S) \in Nat /\ Cardinality(S \ {w}) \in Nat
    BY <2>1, FS_Subset, FS_CardinalityType
  <2> QED
    BY <1>3, <2>2, <2>3
<1>4. Rest /\ [HistoryNext]_historyVars => Rest'
  <2> SUFFICES ASSUME Rest, [HistoryNext]_historyVars PROVE Rest'
    OBVIOUS
  <2>1. ASSUME NEW w \in Writers, Enter(w)
        PROVE  (dead \in SUBSET Writers /\ clash \in SUBSET SUBSET Writers)'
    <3>1. \A v \in Working : {w, v} \in SUBSET Writers
      BY DEF Working
    <3> QED
      BY <2>1, <3>1 DEF Enter
  <2>2. ASSUME NEW w \in Writers, Take(w) PROVE Rest'
    BY <2>1, <2>2, <1>2 DEF Take
  <2>3. ASSUME NEW w \in Writers, GiveUp(w) PROVE Rest'
    BY <2>1, <2>3 DEF GiveUp
  <2>4. ASSUME NEW w \in Writers, Unlock(w) PROVE Rest'
    BY <2>4, <1>3 DEF Unlock
  <2>5. ASSUME NEW w \in Writers, WriterDies(w) PROVE Rest'
    BY <2>5 DEF WriterDies
  <2>6. ASSUME UNCHANGED <<holder, dead, clash>> PROVE Rest'
    BY <2>6
  <2>7. ASSUME NEW w \in Writers,
               \/ OpenAppend(w) \/ CloseAppend(w) \/ ReadAll(w) \/ Truncate(w) \/ WriteKept(w)
               \/ ReplaceFile(w)
        PROVE  Rest'
    BY <2>6, <2>7 DEF OpenAppend, CloseAppend, ReadAll, Truncate, WriteKept, ReplaceFile
  <2>8. CASE UNCHANGED historyVars
    BY <2>6, <2>8 DEF historyVars
  <2> QED
    BY <2>2, <2>3, <2>4, <2>5, <2>7, <2>8 DEF HistoryNext
<1>5. HistoryInv /\ Rest => HistoryTypeOK
  BY DEF HistoryInv, Shapes, WriterState, HistoryTypeOK
<1> QED
  BY InitHistory, NextHistory, <1>1, <1>4, <1>5, PTL DEF HistorySpec

LEMMA RateTyped == RateSpec => []RateTypeOK
<1>1. RateInit => RateTypeOK
  <2> SUFFICES ASSUME RateInit PROVE RateTypeOK
    OBVIOUS
  <2>1. <<>> \in Seq(Ticks)
    OBVIOUS
  <2>2. bucket \in [Workers -> Seq(Ticks)] /\ served \in [Workers -> Seq(Ticks)]
    BY <2>1, Zenon DEF RateInit
  <2>3. 0 \in 0..(MaxTick + Recovery)
    BY RateAssumption
  <2> QED
    BY <2>2, <2>3, RateNumbers DEF RateInit, RateTypeOK
<1>2. RateTypeOK /\ [RateNext]_rateVars => RateTypeOK'
  <2> SUFFICES ASSUME RateTypeOK, [RateNext]_rateVars PROVE RateTypeOK'
    OBVIOUS
  <2>0. MaxTick \in Nat /\ Recovery \in Nat /\ tick \in 1..MaxTick
    BY RateAssumption DEF RateTypeOK, Ticks
  <2>1. ASSUME NEW now \in Ticks PROVE Counted(now) \in SUBSET Ticks
    BY DEF Counted, RateTypeOK
  <2>2. ASSUME NEW w \in Workers, Local(w)
        PROVE  (bucket \in [Workers -> Seq(Ticks)] /\ served \in [Workers -> Seq(Ticks)])'
    <3>1. PICK k \in 0..Len(bucket[w]) :
            \/ /\ bucket' = [bucket EXCEPT ![w] = SubSeq(bucket[w], k + 1, Len(bucket[w]))]
               /\ UNCHANGED served
            \/ /\ bucket' = [bucket EXCEPT ![w] =
                               Append(SubSeq(bucket[w], k + 1, Len(bucket[w])), tick)]
               /\ served' = [served EXCEPT ![w] = Append(@, tick)]
      BY <2>2 DEF Local
    <3> DEFINE young == SubSeq(bucket[w], k + 1, Len(bucket[w]))
    <3>2. bucket[w] \in Seq(Ticks) /\ served[w] \in Seq(Ticks) /\ tick \in Ticks
      BY DEF RateTypeOK
    <3>3. \A S : \A q \in Seq(S) : \A j \in 0..Len(q) : SubSeq(q, j + 1, Len(q)) \in Seq(S)
      OBVIOUS
    <3>4. \A S : \A q \in Seq(S) : \A x \in S : Append(q, x) \in Seq(S)
      OBVIOUS
    <3>5. young \in Seq(Ticks)
      BY <3>2, <3>3
    <3>6. Append(young, tick) \in Seq(Ticks) /\ Append(served[w], tick) \in Seq(Ticks)
      BY <3>2, <3>4, <3>5
    <3> HIDE DEF young
    <3>7. \/ bucket' = [bucket EXCEPT ![w] = young] /\ UNCHANGED served
          \/ /\ bucket' = [bucket EXCEPT ![w] = Append(young, tick)]
             /\ served' = [served EXCEPT ![w] = Append(served[w], tick)]
      BY <3>1, Zenon DEF young
    <3> QED
      BY <3>5, <3>6, <3>7, Zenon DEF RateTypeOK
  <2>3. CASE Tick
    BY <2>0, <2>3 DEF Tick, RateTypeOK, Ticks
  <2>4. ASSUME NEW w \in Workers, ReadClock(w) PROVE RateTypeOK'
    BY <2>4 DEF ReadClock, RateTypeOK
  <2>5. ASSUME NEW w \in Workers, AllowRedis(w) PROVE RateTypeOK'
    <3>1. stamp[w] \in Ticks
      BY <2>5 DEF AllowRedis, RateTypeOK
    <3>2. Counted(stamp[w]) \in SUBSET Ticks
      BY <2>1, <3>1
    <3> QED
      BY <2>5, <3>1, <3>2 DEF AllowRedis, RateTypeOK
  <2>6. ASSUME NEW w \in Workers, ServeLocally(w) PROVE RateTypeOK'
    BY <2>2, <2>6 DEF ServeLocally, RateTypeOK
  <2>7. ASSUME NEW w \in Workers, NEW done \in BOOLEAN, RedisFails(w, done) PROVE RateTypeOK'
    <3>1. stamp[w] \in Ticks
      BY <2>7 DEF RedisFails, RateTypeOK
    <3>2. Counted(stamp[w]) \in SUBSET Ticks
      BY <2>1, <3>1
    <3>3. tick + Recovery \in 0..(MaxTick + Recovery)
      BY <2>0
    <3>4. members' \in SUBSET Ticks /\ overtaken' \in SUBSET Ticks
      BY <2>7, <3>1, <3>2 DEF RedisFails, RateTypeOK
    <3>5. disabled' \in [Workers -> 0..(MaxTick + Recovery)]
          /\ stamp' \in [Workers -> Ticks \cup {0}]
      BY <2>7, <3>3 DEF RedisFails, RateTypeOK
    <3> QED
      BY <2>2, <2>7, <3>4, <3>5 DEF RedisFails, RateTypeOK
  <2>8. CASE UNCHANGED rateVars
    BY <2>8 DEF rateVars, RateTypeOK
  <2> QED
    BY <2>3, <2>4, <2>5, <2>6, <2>7, <2>8 DEF RateNext
<1> QED
  BY <1>1, <1>2, PTL DEF RateSpec

LEMMA HookTyped == HookSpec => []HookTypeOK
<1> DEFINE Fields == /\ strict \in BOOLEAN
                     /\ global \in Secrets
                     /\ secret \in [Hooks -> Secrets \cup {""}]
                     /\ known \in [Hooks -> Secrets \cup {""}]
                     /\ saving \in SUBSET Hooks
                     /\ \A h \in Handlers : /\ handler[h].batch \in Batches
                                            /\ handler[h].pc = "idle" => handler[h].item = 1
                     /\ raced \in SUBSET Notices
                     /\ posts \in 0..MaxPosts
<1>0. PICK b0 \in Batches :
        Idle = [h \in Handlers |-> [pc |-> "idle", batch |-> b0, item |-> 1, answer |-> ""]]
  BY WebhookAssumption DEF Idle
<1>a. MaxPosts \in Nat
  BY WebhookAssumption, Zenon
<1>b. 0 \in 0..MaxPosts /\ \A k \in 0..MaxPosts : k < MaxPosts => k + 1 \in 0..MaxPosts
  BY <1>a
<1>c. \A n \in Nat : \A k : k = 1 \/ k \in 1..n => k \in 1..n + 1
  <2>1. ASSUME NEW n \in Nat PROVE 1 \in 1..n + 1
    OBVIOUS
  <2>2. ASSUME NEW n \in Nat, NEW k \in 1..n PROVE k \in 1..n + 1
    OBVIOUS
  <2> QED
    BY <2>1, <2>2, Zenon
<1>1. HookInit => Fields
  <2> SUFFICES ASSUME HookInit PROVE Fields
    OBVIOUS
  <2>1. \A h \in Handlers : handler[h].batch \in Batches /\ handler[h].item = 1
    BY <1>0 DEF HookInit
  <2>2. posts \in 0..MaxPosts
    BY <1>b DEF HookInit
  <2> QED
    BY <2>1, <2>2 DEF HookInit, Secrets
<1>2. HookInv /\ Fields /\ [HookNext]_hookVars => Fields'
  <2> SUFFICES ASSUME HookInv, Fields, [HookNext]_hookVars PROVE Fields'
    OBVIOUS
  <2>0. handler \in [Handlers -> HandlerState] /\ \A h \in Handlers : Works(h)
    BY DEF HookInv
  <2> DEFINE Held == \A h \in Handlers : /\ handler[h].batch \in Batches
                                         /\ handler[h].pc = "idle" => handler[h].item = 1
  <2>1. ASSUME NEW h \in Handlers, NEW code, AnswerPost(h, code) PROVE Held'
    BY <2>0, <2>1, <1>0 DEF AnswerPost, HandlerState
  <2>2. ASSUME NEW h \in Handlers, NEW label, label # "idle", Go(h, label) PROVE Held'
    BY <2>0, <2>2 DEF Go, HandlerState
  <2>3. ASSUME NEW h \in Handlers, NextItem(h) PROVE Held'
    <3>1. CASE AnswerPost(h, "200")
      BY <2>1, <3>1
    <3>2. CASE handler' = [handler EXCEPT ![h].pc = "check", ![h].item = @ + 1]
      <4>1. \A g \in Handlers : g # h => handler'[g] = handler[g]
        BY <2>0, <3>2
      <4>2. handler[h] \in HandlerState /\ handler[h].item \in Nat
        BY <2>0 DEF HandlerState
      <4>3. handler'[h] = [handler[h] EXCEPT !.pc = "check", !.item = handler[h].item + 1]
        BY <2>0, <3>2
      <4>4. handler'[h].pc = "check" /\ handler'[h].batch = handler[h].batch
        <5> DEFINE y == [handler[h] EXCEPT !.pc = "check"]
        <5>1. y \in HandlerState /\ y.pc = "check" /\ y.batch = handler[h].batch
          BY <4>2 DEF HandlerState
        <5>2. handler'[h] = [y EXCEPT !.item = handler[h].item + 1]
          BY <4>3
        <5> HIDE DEF y
        <5> QED
          BY <5>1, <5>2 DEF HandlerState
      <4> QED
        BY <4>1, <4>4
    <3> QED
      BY <2>3, <3>1, <3>2 DEF NextItem
  <2>4. ASSUME NEW h \in Handlers, Item(h) \in Notices, InsertNotice(h) PROVE Fields'
    <3>1. Held'
      BY <2>1, <2>3, <2>4 DEF InsertNotice
    <3> QED
      BY <2>4, <3>1 DEF InsertNotice
  <2>5. ASSUME NEW h \in Handlers, handler[h].pc # "idle" PROVE Item(h) \in Notices
    <3>1. handler[h].batch \in Batches /\ handler[h].item \in 1..Len(handler[h].batch)
      BY <2>0, <2>5 DEF Works
    <3> QED
      BY <3>1, BatchFields DEF Item
  <2>6. ASSUME NEW h \in Handlers, InsertNotice(h) PROVE Fields'
    BY <2>4, <2>5, <2>6 DEF InsertNotice
  <2>7. ASSUME NEW h \in Handlers, Check(h) \/ Exists(h) PROVE Fields'
    <3>1. Held'
      BY <2>1, <2>2, <2>3, <2>7 DEF Check, Exists
    <3> QED
      BY <2>7, <3>1 DEF Check, Exists
  <2>8. ASSUME NEW h \in Handlers, NEW b \in Batches, Post(h, b) PROVE Fields'
    <3>1. Held'
      BY <2>0, <2>8 DEF Post, HandlerState
    <3>2. posts < MaxPosts /\ posts' = posts + 1
      BY <2>8 DEF Post
    <3>3. posts' \in 0..MaxPosts
      BY <1>b, <3>2
    <3> QED
      BY <2>8, <3>1, <3>3 DEF Post
  <2>9. ASSUME NEW u \in Hooks, MakeHook(u) \/ SaveHook(u) \/ DeleteHook(u) PROVE Fields'
    BY <2>9 DEF MakeHook, SaveHook, DeleteHook
  <2>10. CASE Rotate
    BY <2>10, <1>0 DEF Rotate, Secrets
  <2>11. CASE PruneNotices
    BY <2>11 DEF PruneNotices
  <2>12. CASE UNCHANGED hookVars
    BY <2>12 DEF hookVars
  <2> QED
    BY <2>6, <2>7, <2>8, <2>9, <2>10, <2>11, <2>12 DEF HookNext
<1>3. HookInv /\ Fields => HookTypeOK
  <2> SUFFICES ASSUME HookInv, Fields PROVE HookTypeOK
    OBVIOUS
  <2>1. ASSUME NEW h \in Handlers
        PROVE  /\ handler[h].item \in 1..Len(handler[h].batch) + 1
               /\ handler[h].pc \in {"idle", "check", "exists", "insert"}
               /\ handler[h].answer \in {"", "200", "403", "404", "500"}
    <3>1. handler[h] \in HandlerState /\ Works(h) /\ handler[h].batch \in Batches
      BY DEF HookInv
    <3> DEFINE n == Len(handler[h].batch)
    <3>3. handler[h].item = 1 \/ handler[h].item \in 1..n
      BY <3>1 DEF Works
    <3>2. n \in Nat
      BY <3>1, BatchFields
    <3> HIDE DEF n
    <3>4. \A k : k = 1 \/ k \in 1..n => k \in 1..n + 1
      BY <1>c, <3>2, Zenon
    <3>5. handler[h].item \in 1..n + 1
      BY <3>3, <3>4, Zenon
    <3> QED
      BY <3>1, <3>5 DEF HandlerState, n
  <2>2. stored \in [Notices -> Nat] /\ accepted \in SUBSET Batches
    BY DEF HookInv
  <2> QED
    BY <2>1, <2>2 DEF HookTypeOK
<1> QED
  BY InitHook, NextHook, <1>1, <1>2, <1>3, PTL DEF HookSpec

-----------------------------------------------------------------------------
(* Access: who was answered what                                           *)

AskedFor        == Reads \cup Writes \cup {"create", "none"}
Codes      == {200, 403, 404, 409, 500}
AnswerType == [by : Users, op : AskedFor, on : SUBSET Scenarios, scoped : BOOLEAN, code : Codes]

LEMMA CodesAre ==
  /\ \A u, n : CodeFor(u, n) \in {200, 404} /\ OwnerCode(u, n) \in {200, 403, 404}
  /\ \A u, w : InScope(u, w) \in BOOLEAN
BY DEF CodeFor, OwnerCode, InScope

LEMMA ReplyTyped ==
  ASSUME NEW u \in Users, NEW op \in AskedFor, NEW on \in SUBSET Scenarios, NEW scoped \in BOOLEAN,
         NEW code \in Codes, Reply(u, op, on, scoped, code)
  PROVE  answered' \in AnswerType
BY DEF Reply, AnswerType

LEMMA AnswersTyped ==
  ASSUME Sound, AccessNext
  PROVE  answered' \in AnswerType
<1> DEFINE T == answered' \in AnswerType
<1>1. \A op \in {"read", "read slot", "filter", "plan", "create", "edit", "rename", "give",
                 "duplicate", "delete", "share", "unshare", "create slot", "move slot",
                 "delete slot"} : op \in AskedFor
  BY DEF AskedFor, Reads, Writes
<1>2. ASSUME NEW u \in Users, NEW op \in {"read", "read slot", "filter", "plan", "create",
                 "edit", "rename", "give", "duplicate", "delete", "share", "unshare",
                 "create slot", "move slot", "delete slot"},
             NEW on \in SUBSET Scenarios, NEW scoped \in BOOLEAN, NEW code \in Codes,
             Reply(u, op, on, scoped, code)
      PROVE  T
  BY <1>1, <1>2, ReplyTyped
<1>3. ASSUME NEW s \in SlotIds, slotOf[s] # Nobody PROVE slotOf[s] \in Scenarios
  BY <1>3 DEF Sound, Rows
<1>4. ASSUME NEW u \in Users, NEW w \in Users, NEW n \in Scenarios,
             ReadScenario(u, w, n) \/ FilterHistory(u, w, n) \/ EditScenario(u, w, n)
      PROVE  T
  <2> DEFINE read == IF InScope(u, w) THEN CodeFor(u, n) ELSE 403
             edit == IF InScope(u, w) THEN OwnerCode(u, n) ELSE 403
             past == IF ~InScope(u, w) THEN 403
                     ELSE IF ~Super(u) /\ n \notin Listed(u) THEN 404 ELSE 200
  <2>1. \/ Reply(u, "read", {n}, InScope(u, w), read)
        \/ Reply(u, "filter", {n}, InScope(u, w), past)
        \/ Reply(u, "edit", {n}, InScope(u, w), edit)
    BY <1>4, Zenon DEF ReadScenario, FilterHistory, EditScenario
  <2>2. read \in Codes /\ edit \in Codes /\ past \in Codes /\ InScope(u, w) \in BOOLEAN
    BY CodesAre DEF Codes
  <2> HIDE DEF read, edit, past
  <2> QED
    BY <1>2, <2>1, <2>2
<1>5. ASSUME NEW u \in Users, NEW w \in Users,
             ReadPlan(u, w)
      PROVE  T
  <2> DEFINE code == IF ~InScope(u, w) THEN 403 ELSE IF Listed(u) = {} THEN 404 ELSE 200
  <2>1. Reply(u, "plan", {}, InScope(u, w), code)
    BY <1>5, Zenon DEF ReadPlan
  <2>2. code \in Codes /\ InScope(u, w) \in BOOLEAN
    BY CodesAre DEF Codes
  <2> HIDE DEF code
  <2> QED
    BY <1>2, <2>1, <2>2
<1>6. ASSUME NEW u \in Users, NEW w \in Users, NEW n \in Scenarios,
             CreateScenario(u, w, n) \/ GiveScenario(u, n, w)
      PROVE  T
  <2> DEFINE make == IF ~InScope(u, w) THEN 403 ELSE IF owner[n] # Nobody THEN 409 ELSE 200
             give == IF OwnerCode(u, n) # 200 THEN OwnerCode(u, n)
                     ELSE IF InScope(u, w) THEN 200 ELSE 403
  <2>1. \/ Reply(u, "create", {n}, InScope(u, w), make)
        \/ Reply(u, "give", {n}, InScope(u, w), give)
    BY <1>6, Zenon DEF CreateScenario, GiveScenario
  <2>2. make \in Codes /\ give \in Codes /\ InScope(u, w) \in BOOLEAN
    BY CodesAre DEF Codes
  <2> HIDE DEF make, give
  <2> QED
    BY <1>2, <2>1, <2>2
<1>7. ASSUME NEW u \in Users, NEW w \in Users, NEW n \in Scenarios,
             ShareScenario(u, n, w) \/ UnshareScenario(u, n, w)
      PROVE  T
  <2> DEFINE code == OwnerCode(u, n)
  <2>1. \/ Reply(u, "share", {n}, TRUE, code)
        \/ Reply(u, "unshare", {n}, TRUE, code)
    BY <1>7, Zenon DEF ShareScenario, UnshareScenario
  <2>2. code \in Codes
    BY CodesAre DEF Codes
  <2> HIDE DEF code
  <2> QED
    BY <1>2, <2>1, <2>2
<1>8. ASSUME NEW u \in Users, NEW n \in Scenarios,
             FilterSlots(u, n) \/ DeleteScenario(u, n)
      PROVE  T
  <2> DEFINE some == IF {s \in ListedSlots(u) : slotOf[s] = n} = {} /\ ~Super(u) THEN CodeFor(u, n)
                     ELSE 200
             drop == IF OwnerCode(u, n) # 200 THEN OwnerCode(u, n)
                     ELSE IF \E s \in SlotIds : slotOf[s] = n THEN 409 ELSE 200
  <2>1. \/ Reply(u, "filter", {n}, TRUE, some)
        \/ Reply(u, "delete", {n}, TRUE, drop)
    BY <1>8, Zenon DEF FilterSlots, DeleteScenario
  <2>2. some \in Codes /\ drop \in Codes
    BY CodesAre DEF Codes
  <2> HIDE DEF some, drop
  <2> QED
    BY <1>2, <2>1, <2>2
<1>9. ASSUME NEW u \in Users, NEW n \in Scenarios, NEW m \in Scenarios,
             RenameScenario(u, n, m) \/ DuplicateScenario(u, n, m)
      PROVE  T
  <2> DEFINE name == IF OwnerCode(u, n) # 200 THEN OwnerCode(u, n)
                     ELSE IF owner[m] # Nobody THEN 409
                     ELSE IF \E share \in shares : share[1] = n THEN 500 ELSE 200
             copy == IF OwnerCode(u, n) # 200 THEN OwnerCode(u, n)
                     ELSE IF owner[m] # Nobody THEN 409 ELSE 200
  <2>1. \/ Reply(u, "rename", {n}, TRUE, name)
        \/ Reply(u, "duplicate", {n}, TRUE, copy)
    BY <1>9, Zenon DEF RenameScenario, DuplicateScenario
  <2>2. name \in Codes /\ copy \in Codes
    BY CodesAre DEF Codes
  <2> HIDE DEF name, copy
  <2> QED
    BY <1>2, <2>1, <2>2
<1>10. ASSUME NEW u \in Users, NEW n \in Scenarios, NEW s \in SlotIds,
             MakeSlot(u, s, n)
      PROVE  T
  <2> DEFINE code == IF OwnerCode(u, n) # 200 THEN OwnerCode(u, n)
                     ELSE IF slotOf[s] # Nobody THEN 409 ELSE 200
  <2>1. Reply(u, "create slot", {n}, TRUE, code)
    BY <1>10, Zenon DEF MakeSlot
  <2>2. code \in Codes
    BY CodesAre DEF Codes
  <2> HIDE DEF code
  <2> QED
    BY <1>2, <2>1, <2>2
<1>11. ASSUME NEW u \in Users, NEW n \in Scenarios, NEW s \in SlotIds, MoveSlot(u, s, n) PROVE T
  <2> DEFINE missing == 404
  <2>0. missing \in Codes /\ {} \in SUBSET Scenarios
    BY DEF Codes
  <2>1. CASE slotOf[s] = Nobody
    <3>1. Reply(u, "move slot", {}, TRUE, missing)
      BY <1>11, <2>1, Zenon DEF MoveSlot
    <3> HIDE DEF missing
    <3> QED
      BY <1>2, <2>0, <3>1
  <2>2. CASE slotOf[s] # Nobody
    <3>1. Reply(u, "move slot", {slotOf[s], n}, TRUE, MoveCode(u, s, n))
      BY <1>11, <2>2, Zenon DEF MoveSlot
    <3>2. {slotOf[s], n} \in SUBSET Scenarios /\ MoveCode(u, s, n) \in Codes
      BY <1>3, <2>2, CodesAre DEF MoveCode, Codes
    <3> QED
      BY <1>2, <3>1, <3>2
  <2> QED
    BY <2>1, <2>2
<1>12. ASSUME NEW u \in Users, NEW s \in SlotIds, ReadSlot(u, s) \/ DropSlot(u, s) PROVE T
  <2> DEFINE missing == 404
  <2>0. missing \in Codes /\ {} \in SUBSET Scenarios
    BY DEF Codes
  <2>1. CASE slotOf[s] = Nobody
    <3>1. Reply(u, "read slot", {}, TRUE, missing) \/ Reply(u, "delete slot", {}, TRUE, missing)
      BY <1>12, <2>1, Zenon DEF ReadSlot, DropSlot
    <3> HIDE DEF missing
    <3> QED
      BY <1>2, <2>0, <3>1
  <2>2. CASE slotOf[s] # Nobody
    <3> DEFINE read == CodeFor(u, slotOf[s])
               drop == OwnerCode(u, slotOf[s])
    <3>1. \/ Reply(u, "read slot", {slotOf[s]}, TRUE, read)
          \/ Reply(u, "delete slot", {slotOf[s]}, TRUE, drop)
      BY <1>12, <2>2, Zenon DEF ReadSlot, DropSlot
    <3>2. {slotOf[s]} \in SUBSET Scenarios /\ read \in Codes /\ drop \in Codes
      BY <1>3, <2>2, CodesAre DEF Codes
    <3> HIDE DEF read, drop
    <3> QED
      BY <1>2, <3>1, <3>2
  <2> QED
    BY <2>1, <2>2
<1> HIDE DEF T
<1>13. PICK u \in Users :
        \/ \E w \in Users :
             \/ ReadPlan(u, w)
             \/ \E n \in Scenarios :
                  \/ ReadScenario(u, w, n) \/ FilterHistory(u, w, n) \/ CreateScenario(u, w, n)
                  \/ EditScenario(u, w, n) \/ GiveScenario(u, n, w)
                  \/ ShareScenario(u, n, w) \/ UnshareScenario(u, n, w)
        \/ \E n \in Scenarios :
             \/ FilterSlots(u, n) \/ DeleteScenario(u, n)
             \/ \E m \in Scenarios : RenameScenario(u, n, m) \/ DuplicateScenario(u, n, m)
             \/ \E s \in SlotIds : MakeSlot(u, s, n) \/ MoveSlot(u, s, n)
        \/ \E s \in SlotIds : ReadSlot(u, s) \/ DropSlot(u, s)
  BY DEF AccessNext
<1>14. T
  BY <1>4, <1>5, <1>6, <1>7, <1>8, <1>9, <1>10, <1>11, <1>12, <1>13
<1> QED
  BY <1>14 DEF T

LEMMA AccessTyped == AccessSpec => []AccessTypeOK
<1> DEFINE A == answered \in AnswerType
<1>1. AccessInit => A
  <2> SUFFICES ASSUME AccessInit PROVE A
    OBVIOUS
  <2>1. PICK u \in Users :
          answered = [by |-> u, op |-> "none", on |-> {}, scoped |-> TRUE, code |-> 200]
    BY AccessAssumption DEF AccessInit
  <2> QED
    BY <2>1 DEF AnswerType, AskedFor, Codes
<1>2. Sound /\ A /\ [AccessNext]_accessVars => Sound' /\ A'
  <2>1. ASSUME Sound, A, AccessNext PROVE Sound' /\ A'
    BY <2>1, NextRight, AnswersTyped DEF RightStep
  <2>2. ASSUME Sound, A, UNCHANGED accessVars PROVE Sound' /\ A'
    BY <2>2 DEF accessVars, Sound, Rows
  <2> QED
    BY <2>1, <2>2
<1>3. Sound /\ A => AccessTypeOK
  BY DEF Sound, Rows, AnswerType, AskedFor, Codes, AccessTypeOK
<1> QED
  BY InitSound, <1>1, <1>2, <1>3, PTL DEF AccessSpec

-----------------------------------------------------------------------------
(* The composition                                                          *)

LEMMA EachStarts ==
  ServicesInit => /\ Init /\ SubsInit /\ HookInit /\ HistoryInit /\ AccountInit /\ PushInit
                  /\ RateInit /\ StatusInit /\ AccessInit /\ DocumentInit
BY DEF ServicesInit

\* A step of the composition is one of one part, and nothing for the others.
LEMMA EachSteps ==
  ASSUME [ServicesNext]_servicesVars
  PROVE  /\ [Next]_vars /\ [SubsNext]_subsVars /\ [HookNext]_hookVars
         /\ [HistoryNext]_historyVars /\ [AccountNext]_accountVars /\ [PushNext]_pushVars
         /\ [RateNext]_rateVars /\ [StatusNext]_statusVars /\ [AccessNext]_accessVars
         /\ [DocumentNext]_documentVars
         /\ part' = part
<1>1. CASE ServicesNext
  BY <1>1, Zenon DEF ServicesNext
<1>2. CASE UNCHANGED servicesVars
  BY <1>2, Zenon DEF servicesVars
<1> QED
  BY <1>1, <1>2

Composed == {"keys", "subscriptions", "webhook", "history", "accounts", "targets", "rate",
             "status", "access", "documents"}

LEMMA EachBehaves ==
  ServicesSpec => /\ Spec /\ SubsSpec /\ HookSpec /\ HistorySpec /\ AccountSpec /\ PushSpec
                  /\ RateSpec /\ StatusSpec /\ AccessSpec /\ DocumentSpec
                  /\ [](part \in Composed)
<1>1. ServicesInit => part \in Composed
  BY DEF ServicesInit, Composed
<1>2. part \in Composed /\ [ServicesNext]_servicesVars => (part \in Composed)'
  BY EachSteps
<1> QED
  BY EachStarts, EachSteps, <1>1, <1>2, PTL
  DEF ServicesSpec, Spec, SubsSpec, HookSpec, HistorySpec, AccountSpec, PushSpec, RateSpec,
      StatusSpec, AccessSpec, DocumentSpec

\* Every state of every service is typed: whoever reads a variable finds in it
\* one of the values the code tells apart.
THEOREM ServicesTyped == ServicesSpec => []ServicesTypeOK
<1>1. KeyInv => TypeOK
  BY DEF KeyInv, AnswerInv
<1>2. LapseInv => SubsTypeOK
  BY DEF LapseInv
<1>3. AccountInv => AccountTypeOK
  BY DEF AccountInv
<1>4. PushInv => PushTypeOK
  BY DEF PushInv
<1>5. StatusInv => StatusTypeOK
  BY DEF StatusInv
<1>6. DocumentInv => DocumentTypeOK
  BY DEF DocumentInv
<1>7. ASSUME TypeOK, SubsTypeOK, HookTypeOK, HistoryTypeOK, AccountTypeOK, PushTypeOK, RateTypeOK,
             StatusTypeOK, AccessTypeOK, DocumentTypeOK, part \in Composed
      PROVE  ServicesTypeOK
  <2>1. \/ part = "keys" \/ part = "subscriptions" \/ part = "webhook" \/ part = "history"
        \/ part = "accounts" \/ part = "targets" \/ part = "rate" \/ part = "status"
        \/ part = "access" \/ part = "documents"
    BY <1>7 DEF Composed
  <2> QED
    BY <1>7, <2>1 DEF ServicesTypeOK
<1> QED
  BY EachBehaves, InitKey, NextKey, <1>1, InitLapse, NextLapse, <1>2, HookTyped, HistoryTyped,
     InitAccount, NextAccount, <1>3, InitPush, NextPush, <1>4, RateTyped, InitStatus, NextStatus,
     <1>5, AccessTyped, InitDocument, DocumentsKept, <1>6, <1>7, PTL
  DEF Spec, SubsSpec, AccountSpec, PushSpec, StatusSpec, DocumentSpec

\* What each of the services guarantees it guarantees beside the others.
THEOREM ServicesHold ==
  ServicesSpec => /\ []AnswersAreReal /\ []OneResourcePerKey /\ []NeverLapses
                  /\ []StoredOnce /\ RefusedOnlyUnknown /\ []HistoryKept /\ []ColumnsKept
                  /\ []OneDefault /\ []WindowBound /\ []StatusIsTrue /\ ShownIsAllowed
                  /\ []StoredIsRunnable
BY EachBehaves, AnswersHold, OneResourceHolds, NothingLapses, StoredOnceHolds, RefusedHolds,
   HistoryHolds, ColumnsHold, OneDefaultHolds, WindowHolds, StatusHolds,
   ShownHolds, StoredHolds, PTL

=============================================================================
