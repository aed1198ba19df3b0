------------------------- MODULE GraphSubscriptions -------------------------
(***************************************************************************)
(* The subscriptions the server holds at Microsoft Graph: the rows of      *)
(* graph_subscriptions beside what Graph keeps (ops/services.py,           *)
(* ops/graph.py), changed by the requests of administrators and by the     *)
(* renewal task (ops/tasks.py). A request or the task reads or lists rows, *)
(* calls Graph, and writes the row, and any of them may overlap or die in  *)
(* between.                                                                *)
(*                                                                         *)
(* Time is counted in intervals of the beat entry of the task (an hour).   *)
(***************************************************************************)
EXTENDS Integers

CONSTANTS
  Subs,       \* subscription ids, each made by Graph once
  Admins,     \* requests of administrators in flight at once
  Before,     \* GRAPH_SUBSCRIPTION_RENEW_BEFORE_HOURS
  Extension,  \* GRAPH_SUBSCRIPTION_RENEW_EXTENSION_HOURS
  MinAsk,     \* an administrator asks for MinAsk..MaxAsk hours
  MaxAsk,
  MaxMisses,  \* bound: consecutive hours without a full run of the task
  MaxHour     \* bound: hours that pass

\* 24 and 48 hours with an entry every hour leave the task 22 misses.
ASSUME RenewalAssumption ==
  /\ Subs # {}
  /\ {Before, Extension, MinAsk, MaxAsk, MaxMisses} \subseteq Nat
  /\ MaxHour \in Nat \ {0}
  /\ MaxMisses + 2 <= Before
  /\ Before <= Extension
  /\ MaxMisses + 3 <= MinAsk

VARIABLES
  hour,       \* the time
  remote,     \* Graph: the hour each subscription ends; 0: not made yet
  row,        \* the table: its expiration_datetime; 0: no row
  admin,      \* the requests: where they are, which id, the expiry Graph gave,
              \* whether the hour has changed since they began
  task,       \* the task: its records still to do, the one it has renewed
  ran,        \* this hour's run: "no", "clean" or "failed"
  misses,     \* the hours since the last clean run
  disturbed   \* history: ids whose calls overlapped, were cut, or deleted

subsVars == <<hour, remote, row, admin, task, ran, misses, disturbed>>

Hours == 0..(MaxHour + MaxAsk + Extension)
Labels == {"idle", "save", "patch", "drop", "erase"}

SubsTypeOK ==
  /\ hour \in 1..MaxHour
  /\ remote \in [Subs -> Hours]
  /\ row \in [Subs -> Hours]
  /\ admin \in [Admins -> [pc : Labels, sub : Subs, expiry : Hours, late : BOOLEAN]]
  /\ task \in [todo : SUBSET Subs, renewed : SUBSET Subs]
  /\ ran \in {"no", "clean", "failed"}
  /\ misses \in 0..MaxMisses
  /\ disturbed \in SUBSET Subs

Ended == [pc |-> "idle", sub |-> CHOOSE s \in Subs : TRUE, expiry |-> 0, late |-> FALSE]

SubsInit ==
  /\ hour = 1
  /\ remote = [s \in Subs |-> 0]
  /\ row = [s \in Subs |-> 0]
  /\ admin = [a \in Admins |-> Ended]
  /\ task = [todo |-> {}, renewed |-> {}]
  /\ ran = "no"
  /\ misses = 0
  /\ disturbed = {}

-----------------------------------------------------------------------------
Alive(s) == remote[s] > hour

\* Somebody has had an answer of Graph about s and not written the row yet.
Unwritten(s) ==
  s \in task.renewed \/ \E a \in Admins : admin[a].sub = s /\ admin[a].pc \in {"save", "erase"}

Disturb(s) == disturbed' = IF Unwritten(s) THEN disturbed \cup {s} ELSE disturbed

Return(a) == admin' = [admin EXCEPT ![a] = Ended]

\* _get_graph_subscription: 404, and nothing happens, without a row.
Fetch(a, s, label) ==
  /\ admin[a].pc = "idle"
  /\ row[s] # 0
  /\ admin' = [admin EXCEPT ![a] = [pc |-> label, sub |-> s, expiry |-> 0, late |-> FALSE]]
  /\ UNCHANGED <<hour, remote, row, task, ran, misses, disturbed>>

\* POST /subscriptions: Graph makes a new id.
PostSubscription(a, s, ask) ==
  /\ admin[a].pc = "idle"
  /\ remote[s] = 0
  /\ remote' = [remote EXCEPT ![s] = hour + ask]
  /\ admin' = [admin EXCEPT ![a] = [pc |-> "save", sub |-> s, expiry |-> hour + ask,
                              late |-> FALSE]]
  /\ UNCHANGED <<hour, row, task, ran, misses, disturbed>>

\* PATCH /subscriptions/{id} of a request. raise_for_status: when Graph has it
\* no more, the request ends with an error.
PatchSubscription(a, ask) ==
  LET s == admin[a].sub IN
  /\ admin[a].pc = "patch"
  /\ IF Alive(s)
       THEN /\ remote' = [remote EXCEPT ![s] = hour + ask]
            /\ admin' = [admin EXCEPT ![a].pc = "save", ![a].expiry = hour + ask]
            /\ Disturb(s)
       ELSE /\ Return(a)
            /\ UNCHANGED <<remote, disturbed>>
  /\ UNCHANGED <<hour, row, task, ran, misses>>

\* record.save(), of a new record and of one read before the PATCH: a row that
\* was deleted meanwhile is inserted again.
SaveSubscription(a) ==
  /\ admin[a].pc = "save"
  /\ row' = [row EXCEPT ![admin[a].sub] = admin[a].expiry]
  /\ Return(a)
  /\ UNCHANGED <<hour, remote, task, ran, misses, disturbed>>

\* DELETE /subscriptions/{id}: an error too when Graph has it no more, so the
\* row of a subscription that is gone cannot be deleted.
DropRemote(a) ==
  LET s == admin[a].sub IN
  /\ admin[a].pc = "drop"
  /\ IF Alive(s)
       THEN /\ remote' = [remote EXCEPT ![s] = hour]
            /\ admin' = [admin EXCEPT ![a].pc = "erase"]
            /\ disturbed' = disturbed \cup {s}
       ELSE /\ Return(a)
            /\ UNCHANGED <<remote, disturbed>>
  /\ UNCHANGED <<hour, row, task, ran, misses>>

EraseRow(a) ==
  /\ admin[a].pc = "erase"
  /\ row' = [row EXCEPT ![admin[a].sub] = 0]
  /\ Return(a)
  /\ UNCHANGED <<hour, remote, task, ran, misses, disturbed>>

\* The answer of Graph is lost, or the process dies before it writes the row.
CutAdmin(a) ==
  /\ admin[a].pc \in {"save", "erase"}
  /\ disturbed' = disturbed \cup {admin[a].sub}
  /\ Return(a)
  /\ UNCHANGED <<hour, remote, row, task, ran, misses>>

-----------------------------------------------------------------------------
(* renew_graph_subscriptions_task                                          *)

\* expiration_datetime < now + the window, and not null.
Due(s) == row[s] < hour + Before

ListDue ==
  /\ ran = "no"
  /\ task' = [task EXCEPT !.todo = {s \in Subs : row[s] # 0 /\ Due(s)}]
  /\ ran' = "clean"
  /\ UNCHANGED <<hour, remote, row, admin, misses, disturbed>>

BadRenewDue(s) ==  \* an error of one record ends the loop
  /\ s \in task.todo /\ task.renewed = {}
  /\ IF Alive(s)
       THEN /\ remote' = [remote EXCEPT ![s] = hour + Extension]
            /\ task' = [task EXCEPT !.renewed = {s}]
            /\ Disturb(s)
       ELSE /\ task' = [task EXCEPT !.todo = {}]
            /\ UNCHANGED <<remote, disturbed>>
  /\ UNCHANGED <<hour, row, admin, ran, misses>>

\* PATCH of one record; an error goes to the list of errors, and the loop on.
RenewDue(s) ==
  /\ s \in task.todo /\ task.renewed = {}
  /\ IF Alive(s)
       THEN /\ remote' = [remote EXCEPT ![s] = hour + Extension]
            /\ task' = [task EXCEPT !.renewed = {s}]
            /\ Disturb(s)
       ELSE /\ task' = [task EXCEPT !.todo = @ \ {s}]
            /\ UNCHANGED <<remote, disturbed>>
  /\ UNCHANGED <<hour, row, admin, ran, misses>>

\* save(update_fields=...): without its row an error, and nothing is inserted.
SaveDue(s) ==
  /\ s \in task.renewed
  /\ row' = IF row[s] # 0 THEN [row EXCEPT ![s] = hour + Extension] ELSE row
  /\ task' = [todo |-> task.todo \ {s}, renewed |-> {}]
  /\ UNCHANGED <<hour, remote, admin, ran, misses, disturbed>>

\* Graph cannot be reached for one record, or its answer is lost.
MissDue(s) ==
  /\ s \in task.todo
  /\ misses < MaxMisses
  /\ task' = [todo |-> task.todo \ {s}, renewed |-> task.renewed \ {s}]
  /\ ran' = "failed"
  /\ disturbed' = disturbed \cup (task.renewed \cap {s})
  /\ UNCHANGED <<hour, remote, row, admin, misses>>

\* The worker dies in the task.
CutTask ==
  /\ task.todo # {}
  /\ misses < MaxMisses
  /\ task' = [todo |-> {}, renewed |-> {}]
  /\ ran' = "failed"
  /\ disturbed' = disturbed \cup task.renewed
  /\ UNCHANGED <<hour, remote, row, admin, misses>>

\* An hour passes; the task may not have run (the worker was busy or down).
\* With timeouts of 20 seconds neither the task nor a request takes an hour.
HourPasses ==
  /\ hour < MaxHour
  /\ task.todo = {}
  /\ \A a \in Admins : admin[a].pc # "idle" => ~admin[a].late
  /\ ran # "clean" => misses < MaxMisses
  /\ admin' = [a \in Admins |-> [admin[a] EXCEPT !.late = admin[a].pc # "idle"]]
  /\ hour' = hour + 1
  /\ ran' = "no"
  /\ misses' = IF ran = "clean" THEN 0 ELSE misses + 1
  /\ UNCHANGED <<remote, row, task, disturbed>>

SubsNext ==
  \/ \E a \in Admins :
       \/ \E s \in Subs, label \in {"patch", "drop"} : Fetch(a, s, label)
       \/ \E s \in Subs, ask \in MinAsk..MaxAsk : PostSubscription(a, s, ask)
       \/ \E ask \in MinAsk..MaxAsk : PatchSubscription(a, ask)
       \/ SaveSubscription(a) \/ DropRemote(a) \/ EraseRow(a) \/ CutAdmin(a)
  \/ ListDue
  \/ \E s \in Subs : RenewDue(s) \/ SaveDue(s) \/ MissDue(s)
  \/ CutTask
  \/ HourPasses

SubsSpec == SubsInit /\ [][SubsNext]_subsVars

-----------------------------------------------------------------------------
(* Properties                                                              *)

\* A subscription with a row never lapses at Graph, however many errors the
\* other rows give and whatever administrators ask for: unless its own calls
\* overlapped or were cut, or the task fails for Before - 1 hours on end.
NeverLapses == \A s \in Subs : row[s] # 0 /\ s \notin disturbed => Alive(s)

=============================================================================
