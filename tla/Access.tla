-------------------------------- MODULE Access --------------------------------
(***************************************************************************)
(* Who may see and change what in the catalog: the endpoints of            *)
(* catalog/api.py with the checks of catalog/permissions.py,               *)
(* accounts/permissions.py and catalog/services.py. The lists are SQL      *)
(* queries (accessible_scenarios_queryset, accessible_slots_queryset), the *)
(* other endpoints ask get_scenario_for_user and require_scenario_owner,   *)
(* and a client shows its buttons by scenario_role: three places that must *)
(* agree while scenarios are made, given away, shared, renamed and         *)
(* deleted and slots move between them.                                    *)
(*                                                                         *)
(* A request is one step: how the transactions of two requests overlap is  *)
(* the subject of Catalog. What a definition or a slot contains is left    *)
(* out, and so is a share with a user that does not exist.                 *)
(***************************************************************************)
EXTENDS Naturals

CONSTANTS
  Users,      \* accounts
  Superusers, \* those with is_superuser
  Scenarios,  \* scenario_id
  SlotIds,    \* slot_id
  Nobody      \* null value

ASSUME AccessAssumption ==
  /\ Users # {} /\ Superusers \subseteq Users
  /\ Nobody \notin Users \cup Scenarios

VARIABLES
  owner,      \* Scenario.owner; Nobody: no such scenario
  shares,     \* ScenarioShare, <<scenario, user>>
  slotOf,     \* Slot.scenario; Nobody: no such slot
  answered    \* the last request: who asked, what for, about which scenarios,
              \* and what it was answered

accessVars == <<owner, shares, slotOf, answered>>
catalog    == <<owner, shares, slotOf>>

Reads   == {"read", "read slot", "filter", "plan"}
Writes  == {"edit", "rename", "give", "duplicate", "delete", "share", "unshare",
            "create slot", "move slot", "delete slot"}

AccessTypeOK ==
  /\ owner \in [Scenarios -> Users \cup {Nobody}]
  /\ shares \subseteq {n \in Scenarios : owner[n] # Nobody} \X Users
  /\ \A s \in SlotIds : slotOf[s] \in {Nobody} \cup {n \in Scenarios : owner[n] # Nobody}
  /\ answered \in [by : Users, op : Reads \cup Writes \cup {"create", "none"},
                   on : SUBSET Scenarios, scoped : BOOLEAN, code : {200, 403, 404, 409, 500}]

AccessInit ==
  /\ owner = [n \in Scenarios |-> Nobody]
  /\ shares = {}
  /\ slotOf = [s \in SlotIds |-> Nobody]
  /\ answered = [by |-> CHOOSE u \in Users : TRUE, op |-> "none", on |-> {}, scoped |-> TRUE,
                 code |-> 200]

-----------------------------------------------------------------------------
(* The three places                                                        *)

Super(u) == u \in Superusers
Rows     == {n \in Scenarios : owner[n] # Nobody}

\* accessible_scenarios_queryset
Listed(u) ==
  IF Super(u) THEN Rows
  ELSE {n \in Rows : owner[n] = u} \cup {share[1] : share \in {x \in shares : x[2] = u}}

\* accessible_slots_queryset
ListedSlots(u) ==
  {s \in SlotIds : slotOf[s] # Nobody /\
     (Super(u) \/ owner[slotOf[s]] = u \/ <<slotOf[s], u>> \in shares)}

\* scenario_role: the flag writable of the summary of a scenario u is shown.
Writable(u, n) == Super(u) \/ owner[n] = u

\* get_scenario_for_user
CodeFor(u, n) ==
  IF owner[n] # Nobody /\ (Super(u) \/ owner[n] = u \/ <<n, u>> \in shares) THEN 200 ELSE 404

\* the same, then require_scenario_owner
OwnerCode(u, n) ==
  IF CodeFor(u, n) = 404 THEN 404 ELSE IF Super(u) \/ owner[n] = u THEN 200 ELSE 403

\* require_user_scope, of the user_id in the path
InScope(u, w) == Super(u) \/ u = w

Reply(u, op, on, scoped, code) ==
  answered' = [by |-> u, op |-> op, on |-> on, scoped |-> scoped, code |-> code]

-----------------------------------------------------------------------------
(* Reading                                                                 *)

\* GET of a scenario, its shares, its step collections and their steps, and
\* the run endpoint; w is the user_id of those under /users.
ReadScenario(u, w, n) ==
  /\ Reply(u, "read", {n}, InScope(u, w), IF InScope(u, w) THEN CodeFor(u, n) ELSE 403)
  /\ UNCHANGED catalog

ReadSlot(u, s) ==
  /\ IF slotOf[s] = Nobody THEN Reply(u, "read slot", {}, TRUE, 404)
     ELSE Reply(u, "read slot", {slotOf[s]}, TRUE, CodeFor(u, slotOf[s]))
  /\ UNCHANGED catalog

\* list_slots_endpoint with a scenario_id: an empty answer is looked into.
FilterSlots(u, n) ==
  LET found == {s \in ListedSlots(u) : slotOf[s] = n} IN
  /\ Reply(u, "filter", {n}, TRUE, IF found = {} /\ ~Super(u) THEN CodeFor(u, n) ELSE 200)
  /\ UNCHANGED catalog

\* user_history_endpoint with a scenario_id
FilterHistory(u, w, n) ==
  /\ Reply(u, "filter", {n}, InScope(u, w),
           IF ~InScope(u, w) THEN 403 ELSE IF ~Super(u) /\ n \notin Listed(u) THEN 404 ELSE 200)
  /\ UNCHANGED catalog

\* The plan, run-next and scenario-data endpoints.
ReadPlan(u, w) ==
  /\ Reply(u, "plan", {}, InScope(u, w),
           IF ~InScope(u, w) THEN 403 ELSE IF Listed(u) = {} THEN 404 ELSE 200)
  /\ UNCHANGED catalog

-----------------------------------------------------------------------------
(* Changing                                                                *)

\* create_owned_scenario
CreateScenario(u, w, n) ==
  LET code == IF ~InScope(u, w) THEN 403 ELSE IF owner[n] # Nobody THEN 409 ELSE 200 IN
  /\ Reply(u, "create", {n}, InScope(u, w), code)
  /\ owner' = IF code = 200 THEN [owner EXCEPT ![n] = w] ELSE owner
  /\ UNCHANGED <<shares, slotOf>>

\* create_step, update_step, delete_step, and update_owned_scenario when
\* only the definition changes.
EditScenario(u, w, n) ==
  /\ Reply(u, "edit", {n}, InScope(u, w), IF InScope(u, w) THEN OwnerCode(u, n) ELSE 403)
  /\ UNCHANGED catalog

\* update_owned_scenario with a new name: the slots follow, the shares do not,
\* and the commit fails on their foreign key.
RenameScenario(u, n, m) ==
  LET code == IF OwnerCode(u, n) # 200 THEN OwnerCode(u, n)
              ELSE IF owner[m] # Nobody THEN 409
              ELSE IF \E share \in shares : share[1] = n THEN 500 ELSE 200
  IN
  /\ n # m
  /\ Reply(u, "rename", {n}, TRUE, code)
  /\ IF code = 200
       THEN /\ owner' = [owner EXCEPT ![n] = Nobody, ![m] = owner[n]]
            /\ slotOf' = [s \in SlotIds |-> IF slotOf[s] = n THEN m ELSE slotOf[s]]
       ELSE UNCHANGED <<owner, slotOf>>
  /\ UNCHANGED shares

\* update_owned_scenario with an owner: it is the user's own to take, and a
\* superuser's to give.
GiveScenario(u, n, w) ==
  LET code == IF OwnerCode(u, n) # 200 THEN OwnerCode(u, n)
              ELSE IF InScope(u, w) THEN 200 ELSE 403 IN
  /\ Reply(u, "give", {n}, InScope(u, w), code)
  /\ owner' = IF code = 200 THEN [owner EXCEPT ![n] = w] ELSE owner
  /\ UNCHANGED <<shares, slotOf>>

\* duplicate_owned_scenario: the copy has the owner of the source.
DuplicateScenario(u, n, m) ==
  LET code == IF OwnerCode(u, n) # 200 THEN OwnerCode(u, n)
              ELSE IF owner[m] # Nobody THEN 409 ELSE 200 IN
  /\ Reply(u, "duplicate", {n}, TRUE, code)
  /\ owner' = IF code = 200 THEN [owner EXCEPT ![m] = owner[n]] ELSE owner
  /\ UNCHANGED <<shares, slotOf>>

\* delete_owned_scenario: not with slots; the shares go with it.
DeleteScenario(u, n) ==
  LET code == IF OwnerCode(u, n) # 200 THEN OwnerCode(u, n)
              ELSE IF \E s \in SlotIds : slotOf[s] = n THEN 409 ELSE 200 IN
  /\ Reply(u, "delete", {n}, TRUE, code)
  /\ owner' = IF code = 200 THEN [owner EXCEPT ![n] = Nobody] ELSE owner
  /\ shares' = IF code = 200 THEN {x \in shares : x[1] # n} ELSE shares
  /\ UNCHANGED slotOf

\* share_owned_scenario, unshare_owned_scenario
ShareScenario(u, n, w) ==
  /\ Reply(u, "share", {n}, TRUE, OwnerCode(u, n))
  /\ shares' = IF OwnerCode(u, n) = 200 THEN shares \cup {<<n, w>>} ELSE shares
  /\ UNCHANGED <<owner, slotOf>>

UnshareScenario(u, n, w) ==
  /\ Reply(u, "unshare", {n}, TRUE, OwnerCode(u, n))
  /\ shares' = IF OwnerCode(u, n) = 200 THEN shares \ {<<n, w>>} ELSE shares
  /\ UNCHANGED <<owner, slotOf>>

\* create_owned_slot
MakeSlot(u, s, n) ==
  LET code == IF OwnerCode(u, n) # 200 THEN OwnerCode(u, n)
              ELSE IF slotOf[s] # Nobody THEN 409 ELSE 200 IN
  /\ Reply(u, "create slot", {n}, TRUE, code)
  /\ slotOf' = IF code = 200 THEN [slotOf EXCEPT ![s] = n] ELSE slotOf
  /\ UNCHANGED <<owner, shares>>

BadMoveCode(u, s, n) ==  \* whoever owns the slot may hang it anywhere he sees
  IF OwnerCode(u, slotOf[s]) # 200 THEN OwnerCode(u, slotOf[s]) ELSE CodeFor(u, n)

\* update_owned_slot asks for the scenario of the slot, then for the other one.
MoveCode(u, s, n) ==
  IF OwnerCode(u, slotOf[s]) # 200 THEN OwnerCode(u, slotOf[s]) ELSE OwnerCode(u, n)

MoveSlot(u, s, n) ==
  /\ IF slotOf[s] = Nobody
       THEN Reply(u, "move slot", {}, TRUE, 404) /\ UNCHANGED slotOf
       ELSE /\ Reply(u, "move slot", {slotOf[s], n}, TRUE, MoveCode(u, s, n))
            /\ slotOf' = IF MoveCode(u, s, n) = 200 THEN [slotOf EXCEPT ![s] = n] ELSE slotOf
  /\ UNCHANGED <<owner, shares>>

\* delete_owned_slot
DropSlot(u, s) ==
  /\ IF slotOf[s] = Nobody
       THEN Reply(u, "delete slot", {}, TRUE, 404) /\ UNCHANGED slotOf
       ELSE LET code == OwnerCode(u, slotOf[s]) IN
            /\ Reply(u, "delete slot", {slotOf[s]}, TRUE, code)
            /\ slotOf' = IF code = 200 THEN [slotOf EXCEPT ![s] = Nobody] ELSE slotOf
  /\ UNCHANGED <<owner, shares>>

AccessNext ==
  \E u \in Users :
    \/ \E w \in Users :
         \/ ReadPlan(u, w)
         \/ \E n \in Scenarios :
              \/ ReadScenario(u, w, n) \/ FilterHistory(u, w, n) \/ CreateScenario(u, w, n)
              \/ EditScenario(u, w, n) \/ GiveScenario(u, n, w)
              \/ ShareScenario(u, n, w) \/ UnshareScenario(u, n, w)
    \/ \E n \in Scenarios :
         \/ FilterSlots(u, n) \/ DeleteScenario(u, n)
         \/ \E m \in Scenarios : RenameScenario(u, n, m) \/ DuplicateScenario(u, n, m)
         \/ \E s \in SlotIds : MakeSlot(u, s, n) \/ MoveSlot(u, s, n)
    \/ \E s \in SlotIds : ReadSlot(u, s) \/ DropSlot(u, s)

AccessSpec == AccessInit /\ [][AccessNext]_accessVars

-----------------------------------------------------------------------------
(* Properties                                                              *)

Touched == {n \in Scenarios :
  \/ owner'[n] # owner[n]
  \/ \E u \in Users : <<n, u>> \in (shares' \ shares) \cup (shares \ shares')
  \/ \E s \in SlotIds : slotOf'[s] # slotOf[s] /\ n \in {slotOf[s], slotOf'[s]}}

Shown(u, on) == on \subseteq Listed(u)
Mine(u, on)  == Shown(u, on) /\ \A n \in on : Writable(u, n)

RightAnswer(q) ==
  /\ \A s \in SlotIds : s \in ListedSlots(q.by) <=> slotOf[s] \in Listed(q.by)
  /\ q.scoped =>
       /\ q.op = "plan" => (q.code = 200 <=> Listed(q.by) # {})
       /\ q.op = "filter" => (q.code = 200 <=> Shown(q.by, q.on) \/ Super(q.by))
       /\ q.op \in {"read", "read slot"} => (q.code = 200 <=> Shown(q.by, q.on) /\ q.on # {})
       /\ q.op \in Writes =>
            /\ q.code \in {200, 409, 500} <=> Mine(q.by, q.on) /\ q.on # {}
            /\ q.code = 404 => ~Shown(q.by, q.on) \/ q.on = {}
            /\ q.code = 403 => \E n \in q.on \cap Listed(q.by) : ~Writable(q.by, n)

Permitted(u) == Touched \subseteq {n \in Scenarios : owner[n] = Nobody \/ Writable(u, n)}

\* What a user is shown decides what he is answered: the scenarios and slots
\* of his lists, and no others, can be opened; for those marked writable, and
\* no others, a change is accepted or in conflict; 403 is for those he is
\* shown read-only, 404 for those he is not shown. And a request changes what
\* belongs to a scenario - its row, shares and slots - only if it was marked
\* writable or did not exist.
ShownIsAllowed ==
  [][RightAnswer(answered') /\ Permitted(answered'.by)]_accessVars

=============================================================================
