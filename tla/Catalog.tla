------------------------------- MODULE Catalog -------------------------------
(***************************************************************************)
(* The catalog (catalog/services.py): scenarios, slots, shares and the     *)
(* configuration in the database, mirrored to scenarios.json and           *)
(* slots.json, which the command line reads.                               *)
(*                                                                         *)
(* A request is one transaction. One action is one SQL statement, or the   *)
(* acquisition of a thread lock, or the writing of the temporary file, or  *)
(* its renaming. The database is PostgreSQL at its default level: a        *)
(* statement sees what is committed and what its own transaction wrote, a  *)
(* row another transaction has written is waited for, and foreign keys are *)
(* checked at the commit, after the file was replaced.                     *)
(*                                                                         *)
(* The tables are one function, db, from primary keys to rows. A scenario  *)
(* is its name and the edits its definition contains (an edit is the       *)
(* request that made it); a slot or a share is the name it refers to. Only *)
(* enabled slots are modelled; the two audit statements only matter for    *)
(* the failure they may add.                                               *)
(***************************************************************************)
EXTENDS Naturals

CONSTANTS
  Names,      \* scenario_id
  Seeds,      \* primary keys of the scenarios a behaviour starts with
  Slots,      \* slots
  Shares,     \* shares, each <<scenario_id, user>>
  Config,     \* the singleton CatalogConfig
  Requests,   \* HTTP requests; each runs one operation, once
  Processes,  \* web processes; the locks are those of one process
  Catalogs,   \* the tables a behaviour may start with
  SlotsLock,  \* _SLOTS_FILE_LOCK
  None,       \* null value
  MaxFaults   \* bound: requests that fail for a reason of their own

\* A request inserts at most one scenario: it names its primary key.
Pks      == Seeds \cup Requests
Children == Slots \cup Shares
Keys     == Pks \cup Children \cup {Config}
Files    == {"scenarios", "slots"}
Row      == [name : Names, edits : SUBSET Requests]

VARIABLES
  db,      \* the committed tables
  file,    \* the two files
  tmp,     \* their temporary files, one name each; None is no file
  req,     \* the requests
  own,     \* the uncommitted rows of each request
  stale,   \* history: the file was left behind, by a cause named in Leaves
  raced,   \* history: a request wrote over a row that changed since it read it
  faults   \* number of failures (bounded by MaxFaults)

vars == <<db, file, tmp, req, own, stale, raced, faults>>
disk == <<file, tmp>>

Absent(v)  == {k \in DOMAIN v : v[k] = None}
Present(v) == {p \in Pks : v[p] # None}
Named(v, n) == {p \in Present(v) : v[p].name = n}

\* _build_scenarios_document, and the document of sync_slots_file.
Document(f, v) ==
  IF f = "scenarios" THEN [scenarios |-> {v[p] : p \in Present(v)}, data |-> v[Config]]
  ELSE [slots |-> {<<c, v[c]>> : c \in {c \in Slots : v[c] # None}}]

ScenarioOps == {"create", "duplicate", "edit", "rename", "delete", "config"}
SlotOps     == {"slot create", "slot update", "slot delete"}
ShareOps    == {"share", "unshare"}
Ops         == ScenarioOps \cup SlotOps \cup ShareOps \cup {"import"}

\* row: the scenario it works on, with the name it was read under; child: the
\* slot or the share; to: the new name, or the new value of the child; seen,
\* slots: the row and the slots as read; key: the lock it takes; alone: nobody
\* else has had uncommitted rows since it wrote the temporary file.
Request == [pc : {"new", "insert", "cascade", "delete", "child", "import", "lock", "save",
                  "write", "replace", "commit", "done", "failed"},
            op : Ops \cup {None}, proc : Processes \cup {None}, row : Pks \cup {Config, None},
            name : Names \cup {None}, child : Children \cup {None}, to : Names \cup {None},
            seen : Row \cup Names \cup {None}, slots : SUBSET Slots,
            key : Names \cup {Config, SlotsLock, None}, alone : BOOLEAN]

New == [pc |-> "new", op |-> None, proc |-> None, row |-> None, name |-> None, child |-> None,
        to |-> None, seen |-> None, slots |-> {}, key |-> None, alone |-> FALSE]

NoRows == [k \in {} |-> None]

Table(v) ==
  /\ \A p \in Pks \cap DOMAIN v : v[p] \in Row \cup {None}
  /\ \A c \in Slots \cap DOMAIN v : v[c] \in Names \cup {None}
  /\ \A c \in Shares \cap DOMAIN v : v[c] \in {c[1], None}
  /\ Config \in DOMAIN v => v[Config] \in Requests \cup {None}

\* Names are unique, and slots and shares refer to a scenario.
Sound(v) ==
  /\ \A p, q \in Present(v) : v[p].name = v[q].name => p = q
  /\ \A c \in Children : v[c] # None => Named(v, v[c]) # {}

\* Primary keys of different tables are different.
ASSUME CatalogAssumption ==
  /\ None \notin Keys \cup Names \cup Row \cup Ops
  /\ Seeds \cap Requests = {} /\ Slots \cap Shares = {} /\ Pks \cap Children = {}
  /\ Config \notin Pks \cup Children
  /\ MaxFaults \in Nat

\* A behaviour starts with tables that keep their constraints.
ASSUME TablesAssumption ==
  \A v \in Catalogs :
    /\ DOMAIN v = Keys /\ Table(v) /\ Sound(v)
    /\ \A r \in Requests : v[r] = None

TypeOK ==
  /\ DOMAIN db = Keys /\ Table(db) /\ Sound(db)
  /\ req \in [Requests -> Request]
  /\ DOMAIN own = Requests
  /\ \A r \in Requests : DOMAIN own[r] \subseteq Keys /\ Table(own[r])
  /\ stale \in [Files -> BOOLEAN]
  /\ raced \in BOOLEAN
  /\ faults \in 0..MaxFaults

Init ==
  /\ db \in Catalogs
  /\ file \in {[f \in Files |-> Document(f, db)], [f \in Files |-> None]}
  /\ tmp = file  \* a crash may have left them; nobody reads one it has not written
  /\ req = [r \in Requests |-> New]
  /\ own = [r \in Requests |-> NoRows]
  /\ stale = [f \in Files |-> file[f] = None]
  /\ raced = FALSE
  /\ faults = 0

-----------------------------------------------------------------------------
(* Transactions and locks                                                  *)

\* What a statement of r sees.
View(r) == [k \in Keys |-> IF k \in DOMAIN own[r] THEN own[r][k] ELSE db[k]]

Others(r)  == Requests \ {r}
Pending(r) == DOMAIN own[r]
Free(r, S) == \A q \in Others(r) : Pending(q) \cap S = {}

\* No other transaction is about to give a scenario the name n.
FreeName(r, n) ==
  \A q \in Others(r) : \A p \in Pending(q) \cap Pks : own[q][p] # None => own[q][p].name # n

One(k, row) == [i \in {k} |-> row]

Under(rows, old) ==
  [k \in DOMAIN rows \cup DOMAIN old |-> IF k \in DOMAIN rows THEN rows[k] ELSE old[k]]

Active(r) == req[r].pc \notin {"new", "done", "failed"}
Target(r) == IF req[r].op \in SlotOps THEN "slots" ELSE "scenarios"

BadHolds(r) ==  \* a lock that is acquired and not released
  req[r].key # None /\ req[r].pc \in {"save", "write", "replace", "commit", "done"}

\* r is inside the with statement of its lock.
Holds(r) == req[r].key # None /\ req[r].pc \in {"save", "write", "replace"}

\* What a statement of r will write: the slots under the old name; the scenario
\* of a name with all that refers to it; everything there is.
Bearers(r) == {c \in Slots : View(r)[c] = req[r].name}
Doomed(r)  == Named(View(r), req[r].name) \cup {c \in Children : View(r)[c] = req[r].name}
Old        == Present(db) \cup {c \in Children : db[c] # None}

\* The rows the next statement of r writes or finds in the unique index.
Wanted(r) ==
  CASE req[r].pc = "cascade" -> Bearers(r)
    [] req[r].pc = "delete"  -> Doomed(r)
    [] req[r].pc = "child"   -> {req[r].child}
    [] req[r].pc = "import"  -> Old
    [] req[r].pc = "save"    -> {req[r].row} \cup Named(db, req[r].to)
    [] OTHER                 -> {}

\* The names the slots and shares it has written refer to.
Parents(r) == {View(r)[c] : c \in Pending(r) \cap Children} \ {None}

\* r need not wait: for the thread lock of its key in its process, for a row or
\* a name another transaction has written, or, when its foreign keys are
\* checked, for whoever is changing a name it refers to.
Granted(r) ==
  /\ req[r].pc = "lock" => \A q \in Others(r) :
       ~(Holds(q) /\ req[q].key = req[r].key /\ req[q].proc = req[r].proc)
  /\ Free(r, Wanted(r))
  /\ req[r].pc \in {"insert", "import", "save"} /\ req[r].op # "config" => FreeName(r, req[r].to)
  /\ req[r].pc = "commit" => \A q \in Others(r), p \in Pks :
       p \in Pending(q) /\ db[p] # None /\ db[p].name \in Parents(r)
         => own[q][p] # None /\ own[q][p].name = db[p].name

Goto(r, pc) == req' = [req EXCEPT ![r].pc = pc] /\ UNCHANGED own

\* A statement of r has written rows and goes on at pc.
Statement(r, rows, pc) ==
  /\ own' = [own EXCEPT ![r] = Under(rows, @)]
  /\ req' = [q \in Requests |->
               IF q = r THEN [req[r] EXCEPT !.pc = pc] ELSE [req[q] EXCEPT !.alone = FALSE]]

\* An exception leaves the function: the transaction is rolled back and the
\* lock released; a file that was replaced stays.
Rollback(r) ==
  /\ req' = [req EXCEPT ![r].pc = "failed"]
  /\ own' = [own EXCEPT ![r] = NoRows]
  /\ stale' = IF req[r].pc = "commit" /\ req[r].op \notin ShareOps \cup {"import"}
                THEN [stale EXCEPT ![Target(r)] = TRUE] ELSE stale

-----------------------------------------------------------------------------
(* What a request reads before it takes any lock. A request that is        *)
(* answered 404, 403, or 409 here changes nothing and is left out.         *)

Start(r, q) ==
  /\ req[r].pc = "new"
  /\ \E w \in Processes : req' = [req EXCEPT ![r] = [q EXCEPT !.proc = w]]
  /\ UNCHANGED <<db, disk, own, stale, raced, faults>>

\* create_owned_scenario
StartCreate(r, n) ==
  /\ Named(db, n) = {}
  /\ Start(r, [New EXCEPT !.pc = "insert", !.op = "create", !.row = r, !.to = n, !.key = n,
                         !.seen = [name |-> n, edits |-> {}]])

\* duplicate_owned_scenario
StartDuplicate(r, p, n) ==
  /\ db[p] # None /\ Named(db, n) = {}
  /\ Start(r, [New EXCEPT !.pc = "insert", !.op = "duplicate", !.row = r, !.to = n, !.key = n,
                         !.seen = [db[p] EXCEPT !.name = n]])

\* create_step, update_step, delete_step, and update_owned_scenario without a
\* new name: the definition is read here.
StartEdit(r, p) ==
  /\ db[p] # None
  /\ Start(r, [New EXCEPT !.pc = "lock", !.op = "edit", !.row = p, !.name = db[p].name,
                       !.to = db[p].name, !.key = db[p].name, !.seen = db[p]])

\* update_owned_scenario with a new name: the lock is that of the new name.
StartRename(r, p, n) ==
  /\ db[p] # None /\ Named(db, n) = {}
  /\ Start(r, [New EXCEPT !.pc = "cascade", !.op = "rename", !.row = p, !.name = db[p].name,
                          !.to = n, !.key = n, !.seen = db[p]])

BadStartDelete(r, p) ==  \* a scenario with slots is deleted
  /\ db[p] # None
  /\ Start(r, [New EXCEPT !.pc = "delete", !.op = "delete", !.row = p, !.name = db[p].name,
                         !.slots = {c \in Slots : db[c] = db[p].name}])

\* delete_owned_scenario refuses a scenario with slots.
StartDelete(r, p) ==
  /\ db[p] # None
  /\ \A c \in Slots : db[c] # db[p].name
  /\ Start(r, [New EXCEPT !.pc = "delete", !.op = "delete", !.row = p, !.name = db[p].name])

\* update_catalog_config
StartConfig(r) ==
  Start(r, [New EXCEPT !.pc = "lock", !.op = "config", !.row = Config, !.key = Config])

\* create_owned_slot
StartCreateSlot(r, c, n) ==
  /\ Named(db, n) # {}
  /\ Start(r, [New EXCEPT !.pc = "child", !.op = "slot create", !.child = c, !.to = n,
                         !.key = SlotsLock])

\* share_owned_scenario
StartShare(r, c) ==
  /\ Named(db, c[1]) # {}
  /\ Start(r, [New EXCEPT !.pc = "child", !.op = "share", !.child = c, !.to = c[1]])

\* update_owned_slot: the slot keeps its scenario or gets another.
StartUpdateSlot(r, c, n) ==
  /\ db[c] # None /\ Named(db, n) # {}
  /\ Start(r, [New EXCEPT !.pc = "child", !.op = "slot update", !.child = c, !.to = n,
                         !.seen = db[c], !.key = SlotsLock])

\* delete_owned_slot
StartDeleteSlot(r, c) ==
  /\ db[c] # None
  /\ Start(r, [New EXCEPT !.pc = "child", !.op = "slot delete", !.child = c, !.key = SlotsLock])

\* unshare_owned_scenario
StartUnshare(r, c) ==
  /\ Named(db, c[1]) # {}
  /\ Start(r, [New EXCEPT !.pc = "child", !.op = "unshare", !.child = c])

\* import_catalog, after its validation: a catalog of one scenario.
StartImport(r, n) == Start(r, [New EXCEPT !.pc = "import", !.op = "import", !.to = n])

-----------------------------------------------------------------------------
(* The statements before the lock                                          *)

\* create_scenario: the exists() and the insert, which waits for another
\* insert of the name; save() then needs the lock of the new name.
Insert(r) ==
  /\ req[r].pc = "insert" /\ Granted(r)
  /\ \/ /\ Named(View(r), req[r].to) # {}
        /\ Rollback(r)
     \/ /\ Named(View(r), req[r].to) = {}
        /\ Statement(r, One(r, req[r].seen), "lock")
        /\ UNCHANGED stale
  /\ UNCHANGED <<db, disk, raced, faults>>

\* update_owned_scenario: the slots that bear the old name get the new one.
Cascade(r) ==
  /\ req[r].pc = "cascade" /\ Granted(r)
  /\ Statement(r, [c \in Bearers(r) |-> req[r].to], "lock")
  /\ UNCHANGED <<db, disk, stale, raced, faults>>

\* delete_scenario reads the scenario again by its name, then deletes it with
\* its shares and with any slot it has got since it was checked.
Delete(r) ==
  LET rows == Named(View(r), req[r].name) IN
  /\ req[r].pc = "delete" /\ Granted(r)
  /\ \/ /\ rows = {}
        /\ Rollback(r)
        /\ UNCHANGED raced
     \/ /\ rows # {}
        /\ Statement(r, [k \in Doomed(r) |-> None], "write")
        /\ raced' = (raced \/ rows # {req[r].row} \/ Doomed(r) \cap Slots # req[r].slots)
        /\ UNCHANGED stale
  /\ UNCHANGED <<db, disk, faults>>

\* The statement on a slot or a share. save() writes the whole row as it was
\* read, and inserts it when it is gone; a share that exists is left alone.
Child(r) ==
  LET c == req[r].child
      next == IF c \in Slots THEN "lock" ELSE "commit" IN
  /\ req[r].pc = "child" /\ Granted(r)
  /\ \/ /\ req[r].op = "slot create" /\ View(r)[c] # None
        /\ Rollback(r)
        /\ UNCHANGED raced
     \/ /\ req[r].op = "share" /\ View(r)[c] # None
        /\ Goto(r, next)
        /\ UNCHANGED <<stale, raced>>
     \/ /\ req[r].op \in {"slot create", "share"} => View(r)[c] = None
        /\ Statement(r, One(c, req[r].to), next)
        /\ raced' = (raced \/ (req[r].op = "slot update" /\ View(r)[c] # req[r].seen))
        /\ UNCHANGED stale
  /\ UNCHANGED <<db, disk, faults>>

\* _apply_catalog_import: all rows are replaced; no file is written.
Import(r) ==
  /\ req[r].pc = "import" /\ Granted(r)
  /\ Statement(r, [k \in Old \cup {r} |->
                     IF k = r THEN [name |-> req[r].to, edits |-> {}] ELSE None], "commit")
  /\ UNCHANGED <<db, disk, stale, raced, faults>>

-----------------------------------------------------------------------------
(* Under the lock, and the commit                                          *)

\* with _lock_for(...), _CATALOG_CONFIG_LOCK, _SLOTS_FILE_LOCK: the requests
\* of one process exclude each other by key.
Lock(r) ==
  /\ req[r].pc = "lock" /\ Granted(r)
  /\ Goto(r, IF req[r].op \in SlotOps THEN "write" ELSE "save")
  /\ UNCHANGED <<db, disk, stale, raced, faults>>

BadSaved(r) == [name |-> req[r].to, edits |-> {r}]  \* built from the payload alone

\* The row save() writes: the definition as read, changed.
Saved(r) == [name |-> req[r].to, edits |-> req[r].seen.edits \cup {r}]

\* scenario.save() writes all columns as the request read or changed them; a
\* row that is gone is inserted again, a name that is taken is refused.
Save(r) ==
  LET p == req[r].row IN
  /\ req[r].pc = "save" /\ Granted(r)
  /\ \/ /\ req[r].op = "config"
        /\ Statement(r, One(Config, r), "write")
        /\ UNCHANGED <<stale, raced>>
     \/ /\ req[r].op # "config"
        /\ \/ /\ ~(Named(View(r), req[r].to) \subseteq {p})
              /\ Rollback(r)
              /\ UNCHANGED raced
           \/ /\ Named(View(r), req[r].to) \subseteq {p}
              /\ Statement(r, One(p, Saved(r)), "write")
              /\ raced' = (raced \/ View(r)[p] # req[r].seen)
              /\ UNCHANGED stale
  /\ UNCHANGED <<db, disk, faults>>

BadWrite(r) ==  \* the document is built from what is committed
  /\ req[r].pc = "write"
  /\ tmp' = [tmp EXCEPT ![Target(r)] = Document(Target(r), db)]
  /\ req' = [req EXCEPT ![r] = [@ EXCEPT !.pc = "replace",
                                         !.alone = \A q \in Others(r) : Pending(q) = {}]]
  /\ UNCHANGED <<db, file, own, stale, raced, faults>>

\* _write_scenarios_file, sync_slots_file: the document is what this
\* transaction sees.
Write(r) ==
  /\ req[r].pc = "write"
  /\ tmp' = [tmp EXCEPT ![Target(r)] = Document(Target(r), View(r))]
  /\ req' = [req EXCEPT ![r] = [@ EXCEPT !.pc = "replace",
                                         !.alone = \A q \in Others(r) : Pending(q) = {}]]
  /\ UNCHANGED <<db, file, own, stale, raced, faults>>

BadReplace(r) ==  \* a temporary file that is gone is waited for
  /\ req[r].pc = "replace"
  /\ tmp[Target(r)] # None
  /\ file' = [file EXCEPT ![Target(r)] = tmp[Target(r)]]
  /\ tmp' = [tmp EXCEPT ![Target(r)] = None]
  /\ Goto(r, "commit")
  /\ UNCHANGED <<db, stale, raced, faults>>

\* os.replace fails when another request has renamed the temporary file.
Replace(r) ==
  /\ req[r].pc = "replace"
  /\ \/ /\ tmp[Target(r)] # None
        /\ file' = [file EXCEPT ![Target(r)] = tmp[Target(r)]]
        /\ tmp' = [tmp EXCEPT ![Target(r)] = None]
        /\ Goto(r, "commit")
        /\ UNCHANGED stale
     \/ /\ tmp[Target(r)] = None
        /\ Rollback(r)
        /\ UNCHANGED disk
  /\ UNCHANGED <<db, raced, faults>>

\* The files r leaves behind the tables when it commits: its own, when others
\* wrote meanwhile; slots.json, which neither a new name nor the deletion of
\* a slot with its scenario updates; both after an import.
Leaves(r) ==
  [f \in Files |->
     \/ req[r].op = "import"
     \/ f = "slots" /\ req[r].op \in {"rename", "delete"} /\ Pending(r) \cap Slots # {}
     \/ f = Target(r) /\ req[r].op \notin ShareOps /\ ~req[r].alone
     \/ (f # Target(r) \/ req[r].op \in ShareOps) /\ stale[f]]

BadCommit(r) ==  \* foreign keys are not checked
  /\ req[r].pc = "commit"
  /\ db' = View(r) /\ stale' = Leaves(r)
  /\ req' = [req EXCEPT ![r].pc = "done"]
  /\ own' = [own EXCEPT ![r] = NoRows]
  /\ UNCHANGED <<disk, raced, faults>>

\* The foreign keys of the rows it wrote are checked now. The check of a slot
\* or a share waits for whoever is changing the name it refers to.
Commit(r) ==
  /\ req[r].pc = "commit" /\ Granted(r)
  /\ \/ /\ Sound(View(r))
        /\ db' = View(r) /\ stale' = Leaves(r)
        /\ req' = [req EXCEPT ![r].pc = "done"]
        /\ own' = [own EXCEPT ![r] = NoRows]
     \/ /\ ~Sound(View(r))
        /\ Rollback(r)
        /\ UNCHANGED db
  /\ UNCHANGED <<disk, raced, faults>>

\* Anything else goes wrong: a document that is refused (422), the audit
\* statement, or the death of the process.
Fails(r) ==
  /\ Active(r)
  /\ faults < MaxFaults
  /\ faults' = faults + 1
  /\ Rollback(r)
  /\ UNCHANGED <<db, disk, raced>>

StartAny(r) ==
  \/ StartConfig(r)
  \/ \E n \in Names : StartCreate(r, n) \/ StartImport(r, n)
  \/ \E p \in Pks : StartEdit(r, p) \/ StartDelete(r, p)
  \/ \E p \in Pks, n \in Names : StartDuplicate(r, p, n) \/ StartRename(r, p, n)
  \/ \E c \in Slots : StartDeleteSlot(r, c)
  \/ \E c \in Slots, n \in Names : StartCreateSlot(r, c, n) \/ StartUpdateSlot(r, c, n)
  \/ \E c \in Shares : StartShare(r, c) \/ StartUnshare(r, c)

Step(r) ==
  \/ Insert(r) \/ Cascade(r) \/ Delete(r) \/ Child(r) \/ Import(r)
  \/ Lock(r) \/ Save(r) \/ Write(r) \/ Replace(r) \/ Commit(r)

Next == \E r \in Requests : StartAny(r) \/ Step(r) \/ Fails(r)

Spec == Init /\ [][Next]_vars

\* A request that is not waiting goes on.
FairSpec == Spec /\ \A r \in Requests : WF_vars(Step(r))

-----------------------------------------------------------------------------
(* Properties                                                              *)

\* When nobody is at work the files say what the tables say, unless the last
\* one to commit was disturbed, or failed after it had replaced the file, or
\* did one of the things Leaves names. So one undisturbed write repairs
\* whatever an earlier failure, crash or race has left in a file or beside it.
FilesMirrorTables ==
  (\A r \in Requests : Pending(r) = {}) =>
    \A f \in Files : file[f] = Document(f, db) \/ stale[f]

\* An edit that was answered with success is in its scenario as long as this
\* exists, through renames, edits of other scenarios and failed requests,
\* unless somebody saved a row that had changed since it read it.
EditsSurvive ==
  \A r \in Requests :
    req[r].pc = "done" /\ req[r].op \in {"create", "duplicate", "edit", "rename"} =>
      \/ db[req[r].row] # None /\ r \in db[req[r].row].edits
      \/ \E q \in Requests :
           /\ req[q].pc = "done"
           /\ req[q].op = "import" \/ (req[q].op = "delete" /\ req[q].row = req[r].row)
      \/ raced

\* A slot disappears by its own deletion or by an import, never with its
\* scenario, unless it was added after delete_owned_scenario had looked.
SlotsStay ==
  [][\A c \in Slots : db[c] # None /\ db'[c] = None =>
       \/ \E r \in Requests : Commit(r) /\ req[r].op \in {"slot delete", "import"}
       \/ raced]_vars

\* Two requests of one process wait for each other, one for a lock and one
\* for a row: a scenario is inserted under a name before the lock of the name
\* is taken, and another scenario gets the same name.
Embraced(r) ==
  \E q \in Others(r) :
    /\ req[q].proc = req[r].proc /\ req[q].key = req[r].key
    /\ {req[q].pc, req[r].pc} = {"lock", "save"}
    /\ \E x \in {q, r} : req[x].op \in {"create", "duplicate"} /\ req[x].pc = "lock"

\* Whatever the requests wait for, somebody goes on: the locks of the rows, of
\* the names and of the threads never close a circle, but for the one above.
SomeoneGoesOn ==
  (\E r \in Requests : Active(r))
    => \E r \in Requests : Active(r) /\ (Granted(r) \/ Embraced(r))

\* Every request ends: the thread locks, the row locks and the waits for a
\* name never block anybody for ever, but for the one case above.
RequestsEnd == \A r \in Requests : Active(r) ~> (~Active(r) \/ Embraced(r))

=============================================================================
