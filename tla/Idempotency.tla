----------------------------- MODULE Idempotency -----------------------------
(***************************************************************************)
(* Idempotency-Key on the endpoints that create something                  *)
(* (foxrunner/idempotency.py, with its callers in ops/api.py and           *)
(* catalog/api.py): look the key up, create, store the answer under the    *)
(* key. The three steps are three transactions, calls overlap, and the     *)
(* process that serves a call may die between any two of them, which is    *)
(* when a client calls again with the same key.                            *)
(*                                                                         *)
(* All calls are of one user: the keys of different users never meet.      *)
(***************************************************************************)
EXTENDS Naturals

CONSTANTS
  Calls,      \* HTTP calls; each is served once
  Keys,       \* Idempotency-Key values
  NoKey,      \* the header is absent
  Payloads,   \* request bodies, as told apart by their fingerprint
  Named,      \* those of POST /scenarios and /slots, which name the resource;
              \* the others are of POST .../jobs, which makes a new id
  None,       \* null value
  MaxDeaths   \* bound: calls whose process dies

Ids    == Calls \cup Named
Record == [fingerprint : Payloads, response : Ids]

ASSUME CallAssumption ==
  /\ NoKey \notin Keys
  /\ Named \subseteq Payloads
  /\ None \notin Calls \cup Payloads \cup Record
  /\ MaxDeaths \in Nat

VARIABLES
  call,       \* the calls: where they are, what they carry, what they answered
  store,      \* the idempotency_keys table
  resources,  \* what was created: its id, its body and the call that made it
  excused,    \* history: keys two calls of which overlapped or one of which died
  deaths      \* how many calls have died (bounded by MaxDeaths)

vars == <<call, store, resources, excused, deaths>>

\* answer: the id of the resource (201, 202), or 409.
CallState == [pc      : {"new", "get", "create", "store", "done"},
              key     : Keys \cup {NoKey},
              payload : Payloads \cup {None},
              id      : Ids \cup {None},
              answer  : Ids \cup {None, "409"}]
Resource == [id : Ids, payload : Payloads, by : Calls]

TypeOK ==
  /\ call \in [Calls -> CallState]
  /\ store \in [Keys -> Record \cup {None}]
  /\ resources \in SUBSET Resource
  /\ excused \in SUBSET Keys
  /\ deaths \in 0..MaxDeaths

Init ==
  /\ call = [c \in Calls |-> [pc |-> "new", key |-> NoKey, payload |-> None,
                              id |-> None, answer |-> None]]
  /\ store = [k \in Keys |-> None]
  /\ resources = {}
  /\ excused = {}
  /\ deaths = 0

-----------------------------------------------------------------------------
Goto(c, label)   == call' = [call EXCEPT ![c].pc = label]
Answer(c, answer) == call' = [call EXCEPT ![c].pc = "done", ![c].answer = answer]

\* The calls that have seen their key free and not stored their answer yet.
InFlight(k) == {c \in Calls : call[c].key = k /\ call[c].pc \in {"create", "store"}}

Receive(c, k, p) ==
  /\ call[c].pc = "new"
  /\ call' = [call EXCEPT ![c] = [@ EXCEPT !.pc = "get", !.key = k, !.payload = p]]
  /\ UNCHANGED <<store, resources, excused, deaths>>

BadGet(c) ==  \* the fingerprint is not compared
  LET k == call[c].key IN
  /\ call[c].pc = "get"
  /\ IF k # NoKey /\ store[k] # None
       THEN Answer(c, store[k].response)
       ELSE Goto(c, "create")
  /\ excused' = IF k # NoKey /\ store[k] = None /\ InFlight(k) # {}
                  THEN excused \cup {k} ELSE excused
  /\ UNCHANGED <<store, resources, deaths>>

\* get_idempotent_response: no header, no record, another body, or a replay.
Get(c) ==
  LET k == call[c].key IN
  /\ call[c].pc = "get"
  /\ \/ /\ k = NoKey
        /\ Goto(c, "create")
        /\ UNCHANGED excused
     \/ /\ k # NoKey /\ store[k] = None
        /\ Goto(c, "create")
        /\ excused' = IF InFlight(k) # {} THEN excused \cup {k} ELSE excused
     \/ /\ k # NoKey /\ store[k] # None
        /\ Answer(c, IF store[k].fingerprint = call[c].payload
                       THEN store[k].response ELSE "409")
        /\ UNCHANGED excused
  /\ UNCHANGED <<store, resources, deaths>>

NewId(c) == IF call[c].payload \in Named THEN call[c].payload ELSE c

BadCreate(c) ==  \* a name that is taken is not an error, there is just no resource
  LET id == NewId(c)
      free == \A x \in resources : x.id # id
  IN
  /\ call[c].pc = "create"
  /\ resources' = IF free
       THEN resources \cup {[id |-> id, payload |-> call[c].payload, by |-> c]}
       ELSE resources
  /\ call' = [call EXCEPT ![c] = [@ EXCEPT !.pc = "store", !.id = IF free THEN id ELSE None]]
  /\ UNCHANGED <<store, excused, deaths>>

\* enqueue_scenario_job makes a new id; create_owned_scenario and
\* create_owned_slot answer 409 when the name is taken.
Create(c) ==
  LET id == NewId(c) IN
  /\ call[c].pc = "create"
  /\ \/ /\ \A x \in resources : x.id # id
        /\ resources' = resources \cup {[id |-> id, payload |-> call[c].payload, by |-> c]}
        /\ call' = [call EXCEPT ![c] = [@ EXCEPT !.pc = "store", !.id = id]]
     \/ /\ \E x \in resources : x.id = id
        /\ Answer(c, "409")
        /\ UNCHANGED resources
  /\ UNCHANGED <<store, excused, deaths>>

BadStore(c) ==  \* the record is only written for a key that is there already
  LET k == call[c].key IN
  /\ call[c].pc = "store"
  /\ store' = IF k # NoKey /\ store[k] # None
                THEN [store EXCEPT ![k].response = call[c].id] ELSE store
  /\ Answer(c, call[c].id)
  /\ UNCHANGED <<resources, excused, deaths>>

\* store_idempotent_response: the unique constraint lets one insert win. The
\* loser answers with its own result when the bodies agree, 409 when not.
Store(c) ==
  LET k == call[c].key IN
  /\ call[c].pc = "store"
  /\ \/ /\ k = NoKey
        /\ Answer(c, call[c].id)
        /\ UNCHANGED store
     \/ /\ k # NoKey /\ store[k] = None
        /\ store' = [store EXCEPT ![k] = [fingerprint |-> call[c].payload,
                                          response |-> call[c].id]]
        /\ Answer(c, call[c].id)
     \/ /\ k # NoKey /\ store[k] # None
        /\ Answer(c, IF store[k].fingerprint = call[c].payload
                       THEN call[c].id ELSE "409")
        /\ UNCHANGED store
  /\ UNCHANGED <<resources, excused, deaths>>

\* The process dies, or a statement fails with a 500: no answer.
Dies(c) ==
  /\ call[c].pc \in {"get", "create", "store"}
  /\ deaths < MaxDeaths
  /\ deaths' = deaths + 1
  /\ Answer(c, None)
  /\ excused' = excused \cup ({call[c].key} \ {NoKey})
  /\ UNCHANGED <<store, resources>>

Next ==
  \E c \in Calls :
    \/ \E k \in Keys \cup {NoKey}, p \in Payloads : Receive(c, k, p)
    \/ Get(c) \/ Create(c) \/ Store(c) \/ Dies(c)

Spec == Init /\ [][Next]_vars

-----------------------------------------------------------------------------
(* Properties                                                              *)

\* Every id that is answered, by the call that created the resource or as a
\* replay, stands for a resource that was made from the body of that call;
\* so a key used again with another body is never answered with the first one.
AnswersAreReal ==
  \A c \in Calls : call[c].answer \notin {None, "409"} =>
    \E x \in resources : x.id = call[c].answer /\ x.payload = call[c].payload

\* A key creates one resource, however many calls bear it and whatever their
\* bodies: two are only possible when two calls were between the lookup and
\* the insert at once, or one died there.
OneResourcePerKey ==
  \A x, y \in resources :
    LET k == call[x.by].key IN
      k # NoKey /\ k = call[y.by].key /\ k \notin excused => x = y

=============================================================================
