------------------------------ MODULE Documents ------------------------------
(***************************************************************************)
(* What the catalog accepts and what the runner makes of it. The API       *)
(* checks a body by its pydantic schema (catalog/schemas.py), the writer   *)
(* of scenarios.json validates the document (validate_scenarios_document   *)
(* in scenarios/loader.py), an import validates without the schemas, and   *)
(* later every run builds all scenarios, slots and the configuration from  *)
(* the tables (build_service_from_db), with checks of its own: one row it  *)
(* cannot build stops the runs of all.                                     *)
(*                                                                         *)
(* A step is a tree, the places of its JSON text, each with its type, the  *)
(* step lists it has, and whether the keys its type requires are there and *)
(* its options (retry, retry_delay_seconds, retry_backoff_seconds,         *)
(* timeout_seconds, when) can be used. The code that walks through it      *)
(* calls itself for the children of a block; here that is a formula about  *)
(* the places such a walk reaches. One scenario, one slot, one pushover    *)
(* and one network are followed. Writes are one step: how they overlap is  *)
(* the subject of Catalog.                                                 *)
(***************************************************************************)
EXTENDS Naturals, Sequences

CONSTANTS
  Steps,       \* the steps that are submitted
  Collections, \* STEP_COLLECTIONS
  Clocks,      \* times of day of the form dd:dd, by their number of hours
  NoRow        \* null value

\* A step without anything below it. times: 0 stands for a step without the
\* key too; lists: the lists it has, those without an element included.
Simple(type, keys, options) ==
  [p \in {<<>>} |-> [type |-> type, keys |-> keys, options |-> options, times |-> 1, lists |-> {}]]

\* A place is the way to it: at each block that is entered the key of a list
\* and a position in that list. The step itself is <<>>.
Up(p, n) == SubSeq(p, 1, n - 1)

Tree(s) ==
  /\ <<>> \in DOMAIN s
  /\ \A p \in DOMAIN s :
       /\ p \in Seq([key : STRING, at : Nat])
       /\ \A n \in 1..Len(p) : Up(p, n) \in DOMAIN s /\ p[n].key \in s[Up(p, n)].lists

ASSUME DocumentAssumption ==
  /\ \A s \in Steps : Tree(s)
  /\ "steps" \in Collections
  /\ Clocks \subseteq Nat
  /\ NoRow \notin Clocks

VARIABLES
  scenario,  \* Scenario.definition: the steps of each collection
  slot,      \* Slot: start, end and whether days has an element
  settings,  \* CatalogConfig, and the data of scenarios.json: the entry of the
             \* pushover and of the network: "": none, "full", or "bare", with a
             \* key missing; for the network "" and "full" make no difference
  imported,  \* history: the slot has values of an import
  halved     \* history: start and end of the slot were not checked against
             \* each other since they last changed

documentVars == <<scenario, slot, settings, imported, halved>>

Empty == [c \in Collections |-> {}]

\* A scenario with one step, which is one that is submitted or the sleep of an
\* import that is about slots.
Single(c, s) == [Empty EXCEPT ![c] = {s}]
Submitted       == Steps \cup {Simple("sleep", TRUE, TRUE)}
Definitions   == {Single(c, s) : c \in Collections, s \in Submitted}

DocumentTypeOK ==
  /\ scenario \in {NoRow, Empty} \cup Definitions
  /\ slot \in [start : Clocks, end : Clocks, days : BOOLEAN] \cup {NoRow}
  /\ settings \in [pushover : {"", "bare", "full"}, network : {"full", "bare"}]
  /\ imported \in BOOLEAN
  /\ halved \in BOOLEAN

DocumentInit ==
  /\ scenario = NoRow
  /\ slot = NoRow
  /\ settings = [pushover |-> "", network |-> "full"]
  /\ imported = FALSE
  /\ halved = FALSE

-----------------------------------------------------------------------------
(* scenarios/loader.py on steps                                            *)

Nesting      == {"group", "parallel", "repeat"}
TryLists     == {"try_steps", "catch_steps", "finally_steps"}
ParallelSafe == {"sleep", "sleep_random", "notify", "http_request", "require_enterprise_network",
                 "set_context", "format_context"}
Browser      == {"open_url", "click", "wait_for_element", "input_text", "assert_text",
                 "assert_attribute", "extract_text_to_context", "extract_attribute_to_context",
                 "screenshot", "select_option", "wait_until_url_contains",
                 "wait_until_title_contains", "close_browser"}
Extracting   == {"extract_text_to_context", "extract_attribute_to_context"}
Supported    == ParallelSafe \cup Browser \cup Nesting \cup {"try"}

\* The lists of a step that the functions below go through.
Followed(type) == CASE type \in Nesting -> {"steps"}
                    [] type = "try"     -> TryLists
                    [] OTHER            -> {}

HasLists(node) == /\ node.type \in Nesting => "steps" \in node.lists
                  /\ node.type = "try" => "try_steps" \in node.lists

\* The places they come to. q is at or below p.
Reached(s)  == {p \in DOMAIN s : \A n \in 1..Len(p) : p[n].key \in Followed(s[Up(p, n)].type)}
Under(q, p) == Len(p) <= Len(q) /\ SubSeq(q, 1, Len(p)) = p
Kids(s, p)  == {q \in Reached(s) : Under(q, p) /\ Len(q) = Len(p) + 1}

BadSafeKids(s, p) == \A k \in Kids(s, p) : s[k].type \in ParallelSafe \cup Nesting  \* or any block

\* The children of parallel.
SafeKids(s, p) == \A k \in Kids(s, p) : s[k].type \in ParallelSafe

\* _validate_step_document, _validate_step_payload_document
Valid(s) ==
  \A p \in Reached(s) :
    /\ s[p].type \in Supported
    /\ HasLists(s[p])
    /\ s[p].keys
    /\ s[p].type = "repeat" => s[p].times > 0
    /\ s[p].type = "parallel" => SafeKids(s, p)

\* _build_step, _build_step_payload: other checks, and fewer.
Buildable(s) ==
  \A p \in Reached(s) :
    /\ s[p].type \in Supported
    /\ HasLists(s[p])
    /\ s[p].type \in Extracting => s[p].keys
    /\ s[p].type = "repeat" => s[p].times > 0
    /\ s[p].options

\* _step_requires_enterprise_network of the loader, on steps that were built.
NeedsNetwork(s) == \E p \in Reached(s) : s[p].type = "require_enterprise_network"

\* and of the catalog, on the definition.
ShownNetwork(s) ==
  \E p \in DOMAIN s :
    /\ s[p].type = "require_enterprise_network"
    /\ \A n \in 1..Len(p) :
         \/ (s[Up(p, n)].type \in Nesting /\ p[n].key = "steps")
         \/ (s[Up(p, n)].type = "try" /\ p[n].key \in TryLists)

AllOf(d) == UNION {d[c] : c \in Collections}

-----------------------------------------------------------------------------
(* Writing scenarios                                                       *)

\* save_scenario_definition: a document that is not valid is answered 422 and
\* leaves the row as it was.
SaveDefinition(d) ==
  /\ scenario' = IF \A s \in AllOf(d) : Valid(s) THEN d ELSE scenario
  /\ UNCHANGED <<slot, settings, imported, halved>>

\* create_owned_scenario, update_owned_scenario with a definition, and
\* create_step and update_step, which give a definition with one step too.
PutDefinition(c, s) == SaveDefinition(Single(c, s))

\* delete_step
DropStep ==
  /\ scenario \notin {NoRow, Empty}
  /\ SaveDefinition(Empty)

\* delete_owned_scenario refuses a scenario with slots.
DropScenario ==
  /\ scenario # NoRow /\ slot = NoRow
  /\ scenario' = NoRow
  /\ UNCHANGED <<slot, settings, imported, halved>>

-----------------------------------------------------------------------------
(* Writing slots                                                           *)

\* _validate_time takes "25:10", of the form the import asks for, as no time.
IsTime(t)     == t <= 23
Ordered(w)    == w.start < w.end
SlotWindow(a, b, days) == [start |-> a, end |-> b, days |-> days]

\* SlotIn, create_owned_slot
CreateSlot(a, b) ==
  /\ scenario # NoRow /\ slot = NoRow
  /\ IsTime(a) /\ IsTime(b) /\ a < b
  /\ slot' = SlotWindow(a, b, TRUE)
  /\ imported' = FALSE /\ halved' = FALSE
  /\ UNCHANGED <<scenario, settings>>

\* SlotPatchIn: start and end are compared when the body has both.
PatchOk(a, b) ==
  /\ \A t \in {a, b} \ {NoRow} : IsTime(t)
  /\ a # NoRow /\ b # NoRow => a < b

\* update_owned_slot: the values the body has replace those of the row, one by
\* one; NoRow stands for a value the body has not. Days it has are not empty.
PatchSlot(a, b, days) ==
  /\ slot # NoRow
  /\ PatchOk(a, b)
  /\ slot' = SlotWindow(IF a = NoRow THEN slot.start ELSE a, IF b = NoRow THEN slot.end ELSE b,
                    slot.days \/ days)
  /\ imported' = (imported /\ ~(a # NoRow /\ b # NoRow /\ days))
  /\ halved' = ((halved \/ (a = NoRow) # (b = NoRow)) /\ (a = NoRow \/ b = NoRow))
  /\ UNCHANGED <<scenario, settings>>

RemoveSlot ==
  /\ slot # NoRow
  /\ slot' = NoRow
  /\ imported' = FALSE /\ halved' = FALSE
  /\ UNCHANGED <<scenario, settings>>

\* import_catalog: the document is validated as a file is, its slots by the
\* JSON schema only, and none of the checks of the API is made. A document
\* without schema_version and data, as export_catalog makes it, changes nothing.
ImportDocument(s, w) ==
  /\ IF Valid(s)
       THEN /\ scenario' = Single("steps", s)
            /\ slot' = w
            /\ imported' = (w # NoRow) /\ halved' = FALSE
       ELSE UNCHANGED <<scenario, slot, imported, halved>>
  /\ UNCHANGED settings

-----------------------------------------------------------------------------
(* Writing the configuration                                               *)

\* update_catalog_config: a secret that is blank or masked keeps its value,
\* and is left out of an entry that has none. given: "", no entry; "masked";
\* "full", with secrets. The names of the defaults are left out.
NewPushover(given) ==
  IF given # "masked" THEN given ELSE IF settings.pushover = "full" THEN "full" ELSE "bare"

PutConfig(given, network) ==
  /\ settings' = [pushover |-> NewPushover(given), network |-> network]
  /\ UNCHANGED <<scenario, slot, imported, halved>>

-----------------------------------------------------------------------------
(* Reading                                                                 *)

\* load_scheduler_catalog; the numbers of a slot are read and not judged.
CatalogLoads == scenario # NoRow => \A s \in AllOf(scenario) : Buildable(s)

\* load_scenario_data: _load_pushover_map, _load_network_map. A default that
\* is not set is the entry itself (_resolve_default_key, validate_data_defaults).
DataLoads == settings.pushover # "bare" /\ settings.network # "bare"

\* build_service_from_db, build_runtime_services_from_catalog
Loads == CatalogLoads /\ DataLoads

\* random_datetime_in_slot finds an instant on some day: make_dt refuses an
\* hour above 23, and a window that closes before it opens has none.
Plannable(w) == w.days /\ IsTime(w.start) /\ IsTime(w.end) /\ Ordered(w)

DocumentNext ==
  \/ \E s \in Steps :
       \/ \E c \in Collections : PutDefinition(c, s)
       \/ ImportDocument(s, NoRow)
  \/ DropStep \/ DropScenario \/ RemoveSlot
  \/ \E a, b \in Clocks :
       \/ CreateSlot(a, b)
       \/ \E days \in BOOLEAN :
            ImportDocument(Simple("sleep", TRUE, TRUE), SlotWindow(a, b, days))
  \/ \E a, b \in Clocks \cup {NoRow}, days \in BOOLEAN : PatchSlot(a, b, days)
  \/ \E given \in {"", "masked", "full"}, network \in {"full", "bare"} :
       PutConfig(given, network)

DocumentSpec == DocumentInit /\ [][DocumentNext]_documentVars

-----------------------------------------------------------------------------
(* Properties                                                              *)

\* What was accepted can be run. The catalog in the tables fails to load only
\* for an option the document validator does not look at, or a configuration
\* with a key missing, which update_catalog_config does not look for. No step
\* that needs a browser is below a parallel, which runs without one; the flag
\* the API shows is the flag the scheduler waits for the network by. And a
\* slot with no instant to run at comes from an import, or from patches that
\* moved its start and its end apart.
StoredIsRunnable ==
  /\ scenario # NoRow =>
       /\ CatalogLoads <=> \A s \in AllOf(scenario) : \A p \in Reached(s) : s[p].options
       /\ \A s \in AllOf(scenario) : \A p, q \in Reached(s) :
            s[p].type = "parallel" /\ Under(q, p) => s[q].type \notin Browser
       /\ \A s \in AllOf(scenario) : NeedsNetwork(s) <=> ShownNetwork(s)
  /\ Loads <=> CatalogLoads /\ "bare" \notin {settings.pushover, settings.network}
  /\ slot # NoRow /\ ~Plannable(slot) => imported \/ halved

=============================================================================
