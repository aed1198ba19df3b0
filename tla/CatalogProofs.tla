---------------------------- MODULE CatalogProofs ----------------------------
(***************************************************************************)
(* Why the files say what the tables say, why an edit that was answered    *)
(* stays, why no slot goes with its scenario, and why the requests never   *)
(* wait in a circle, for any tables, requests and processes. A transaction *)
(* has its rows and its names for itself until it ends, and writes only    *)
(* rows its operation can reach: so what it has read or written of them is *)
(* still true when it commits, and it waits only for requests that are     *)
(* further on than itself.                                                 *)
(***************************************************************************)
EXTENDS Catalog, TLAPS

Pc      == {"new", "insert", "cascade", "delete", "child", "import", "lock", "save",
            "write", "replace", "commit", "done", "failed"}
Inserts == {"create", "duplicate"}
SaveOps == Inserts \cup {"edit", "rename"}
FileOps == ScenarioOps \cup SlotOps

\* What a request of each operation works on.
Works(q) ==
  /\ q.op \in SaveOps => q.row \in Pks /\ q.to \in Names /\ q.seen \in Row /\ q.key = q.to
  /\ q.op \in Inserts => q.seen.name = q.to
  /\ q.op = "config" => q.row = Config
  /\ q.op = "delete" => q.row \in Pks /\ q.slots = {}
  /\ q.op \in SlotOps => q.child \in Slots
  /\ q.op \in ShareOps => q.child \in Shares
  /\ q.op \in {"slot create", "slot update", "import"} => q.to \in Names
  /\ q.op \in {"slot delete", "unshare"} => q.to = None
  /\ q.op = "share" => q.to = q.child[1]

\* Which steps it takes.
Steps(q) ==
  /\ q.pc = "new" <=> q.op = None
  /\ q.pc = "insert" => q.op \in Inserts
  /\ q.pc = "cascade" => q.op = "rename"
  /\ q.pc = "delete" => q.op = "delete"
  /\ q.pc = "child" => q.op \in SlotOps \cup ShareOps
  /\ q.pc = "import" => q.op = "import"
  /\ q.pc = "lock" => q.op \in SaveOps \cup {"config"} \cup SlotOps
  /\ q.pc = "save" => q.op \in SaveOps \cup {"config"}
  /\ q.pc \in {"write", "replace"} => q.op \in FileOps
  /\ q.alone => q.op \in FileOps /\ q.pc \in {"replace", "commit", "done", "failed"}

Fits(q) == Works(q) /\ Steps(q)

Roles == \A r \in Requests : Fits(req[r])

\* A step does not change what a request is about.
Same(p, q) ==
  /\ p.op = q.op /\ p.row = q.row /\ p.name = q.name /\ p.child = q.child
  /\ p.to = q.to /\ p.seen = q.seen /\ p.slots = q.slots /\ p.key = q.key

LEMMA Apart3 ==
  /\ Pks \cap Slots = {} /\ Pks \cap Shares = {} /\ Slots \cap Shares = {}
  /\ Config \notin Pks /\ Config \notin Slots /\ Config \notin Shares
  /\ None \notin Names /\ None \notin Row /\ None \notin Pks /\ None # Config
  /\ None \notin Ops
  /\ Requests \subseteq Pks /\ Requests \cap Seeds = {}
BY CatalogAssumption DEF Pks, Children, Keys

LEMMA PcFields ==
  ASSUME NEW q \in Request, NEW pc \in Pc, NEW z, z = [q EXCEPT !.pc = pc]
  PROVE  z \in Request /\ Same(z, q) /\ z.pc = pc /\ z.alone = q.alone
BY DEF Request, Same, Pc

LEMMA AloneFields ==
  ASSUME NEW q \in Request, NEW b \in BOOLEAN, NEW z, z = [q EXCEPT !.alone = b]
  PROVE  z \in Request /\ Same(z, q) /\ z.pc = q.pc /\ z.alone = b
BY DEF Request, Same

LEMMA NewFields ==
  /\ New \in Request /\ New.pc = "new" /\ New.op = None /\ New.alone = FALSE
  /\ New.row = None /\ New.slots = {}
BY DEF New, Request

LEMMA UnderIs ==
  ASSUME NEW rows, NEW old
  PROVE  /\ DOMAIN Under(rows, old) = DOMAIN rows \cup DOMAIN old
         /\ \A k \in DOMAIN rows : Under(rows, old)[k] = rows[k]
         /\ \A k \in DOMAIN old \ DOMAIN rows : Under(rows, old)[k] = old[k]
         /\ Table(rows) /\ Table(old) => Table(Under(rows, old))
BY DEF Under, Table

LEMMA OneIs ==
  ASSUME NEW k, NEW x PROVE DOMAIN One(k, x) = {k} /\ One(k, x)[k] = x
BY DEF One

LEMMA ViewIs ==
  ASSUME TypeOK, NEW r \in Requests
  PROVE  /\ DOMAIN View(r) = Keys /\ Table(View(r))
         /\ \A k \in Pending(r) : View(r)[k] = own[r][k]
         /\ \A k \in Keys \ Pending(r) : View(r)[k] = db[k]
         /\ Pending(r) \subseteq Keys
BY DEF View, TypeOK, Table, Pending

LEMMA StatementEnds ==
  ASSUME TypeOK, NEW r \in Requests, NEW rows, DOMAIN rows \subseteq Keys, Table(rows),
         NEW pc \in Pc, Statement(r, rows, pc)
  PROVE  /\ req' \in [Requests -> Request]
         /\ req'[r] = [req[r] EXCEPT !.pc = pc]
         /\ \A q \in Others(r) : req'[q] = [req[q] EXCEPT !.alone = FALSE] /\ own'[q] = own[q]
         /\ own'[r] = Under(rows, own[r])
         /\ DOMAIN own' = Requests
         /\ \A q \in Requests : DOMAIN own'[q] \subseteq Keys /\ Table(own'[q])
<1> DEFINE To(q) == IF q = r THEN [req[r] EXCEPT !.pc = pc] ELSE [req[q] EXCEPT !.alone = FALSE]
<1>1. req' = [q \in Requests |-> To(q)]
  BY DEF Statement
<1>2. \A q \in Requests : To(q) \in Request
  <2> SUFFICES ASSUME NEW q \in Requests PROVE To(q) \in Request
    OBVIOUS
  <2>1. req[q] \in Request
    BY DEF TypeOK
  <2> QED
    BY <2>1, PcFields, AloneFields
<1>3. own' = [own EXCEPT ![r] = Under(rows, own[r])]
  BY DEF Statement
<1>4. DOMAIN own' = Requests /\ own'[r] = Under(rows, own[r])
      /\ \A q \in Others(r) : own'[q] = own[q]
  BY <1>3 DEF TypeOK, Others
<1>5. \A q \in Requests : DOMAIN own'[q] \subseteq Keys /\ Table(own'[q])
  <2>1. Table(own[r]) /\ DOMAIN own[r] \subseteq Keys
    BY DEF TypeOK
  <2>2. DOMAIN Under(rows, own[r]) = DOMAIN rows \cup DOMAIN own[r] /\ Table(Under(rows, own[r]))
    BY <2>1, UnderIs
  <2>3. DOMAIN own'[r] \subseteq Keys /\ Table(own'[r])
    BY <1>4, <2>1, <2>2
  <2> QED
    BY <1>4, <2>3 DEF TypeOK, Others
<1> QED
  BY <1>1, <1>2, <1>4, <1>5 DEF Others

LEMMA GotoEnds ==
  ASSUME TypeOK, NEW r \in Requests, NEW pc \in Pc, req' = [req EXCEPT ![r].pc = pc]
  PROVE  /\ req' \in [Requests -> Request]
         /\ req'[r] = [req[r] EXCEPT !.pc = pc]
         /\ \A q \in Others(r) : req'[q] = req[q]
<1>1. req[r] \in Request /\ req'[r] = [req[r] EXCEPT !.pc = pc]
  BY DEF TypeOK
<1>2. req'[r] \in Request
  BY <1>1, PcFields
<1> QED
  BY <1>1, <1>2 DEF TypeOK, Others

LEMMA EndEnds ==
  ASSUME TypeOK, NEW r \in Requests, own' = [own EXCEPT ![r] = NoRows]
  PROVE  /\ DOMAIN own' = Requests /\ DOMAIN own'[r] = {}
         /\ \A q \in Others(r) : own'[q] = own[q]
         /\ \A q \in Requests : DOMAIN own'[q] \subseteq Keys /\ Table(own'[q])
BY DEF TypeOK, NoRows, Others, Table

-----------------------------------------------------------------------------
(* What a step of r does to r and to the others                            *)

LEMMA StartIs ==
  ASSUME TypeOK, NEW r \in Requests, NEW q \in Request, Start(r, q)
  PROVE  /\ req[r].pc = "new"
         /\ req' \in [Requests -> Request]
         /\ Same(req'[r], q) /\ req'[r].pc = q.pc /\ req'[r].alone = q.alone
         /\ \A x \in Others(r) : req'[x] = req[x]
<1>1. PICK w \in Processes : req' = [req EXCEPT ![r] = [q EXCEPT !.proc = w]]
  BY DEF Start
<1>2. ASSUME NEW z, z = [q EXCEPT !.proc = w]
      PROVE  z \in Request /\ Same(z, q) /\ z.pc = q.pc /\ z.alone = q.alone
  BY <1>2 DEF Request, Same
<1>3. req'[r] = [q EXCEPT !.proc = w] /\ \A x \in Others(r) : req'[x] = req[x]
  BY <1>1 DEF TypeOK, Others
<1> QED
  BY <1>1, <1>2, <1>3 DEF Start, TypeOK, Others

\* How a request begins: with nothing written, and with a scenario it has
\* read or is going to insert.
Begins(r, q) ==
  /\ Fits(q) /\ ~q.alone
  /\ q.pc \in {"insert", "cascade", "delete", "child", "import", "lock"}
  /\ q.pc = "lock" => q.op \in {"edit", "config"}
  /\ q.op \in Inserts <=> q.pc = "insert"
  /\ q.op \in Inserts => q.row = r
  /\ q.row \in Pks /\ q.op \notin Inserts => db[q.row] # None

LEMMA BeginsSame ==
  ASSUME NEW r, NEW p, NEW q, Same(p, q), p.pc = q.pc, p.alone = q.alone, Begins(r, q)
  PROVE  Begins(r, p)
<1>1. Fits(p)
  BY DEF Same, Begins, Fits, Works, Steps
<1> QED
  BY <1>1 DEF Same, Begins

LEMMA StartEnds ==
  ASSUME TypeOK, NEW r \in Requests, StartAny(r)
  PROVE  /\ req[r].pc = "new"
         /\ req' \in [Requests -> Request]
         /\ Begins(r, req'[r])
         /\ \A q \in Others(r) : req'[q] = req[q]
         /\ UNCHANGED <<db, disk, own, stale, raced, faults>>
<1> DEFINE Goal == /\ req[r].pc = "new"
                   /\ req' \in [Requests -> Request]
                   /\ Begins(r, req'[r])
                   /\ \A q \in Others(r) : req'[q] = req[q]
<1> USE Apart3, NewFields
<1>1. \A p \in Pks : db[p] # None => db[p] \in Row
  BY DEF TypeOK, Table, Keys
<1>2. \A n : Named(db, n) # {} => n \in Names
  BY <1>1 DEF Named, Present, Row
<1>3. ASSUME StartConfig(r) PROVE Goal
  <2> DEFINE q == [New EXCEPT !.pc = "lock", !.op = "config", !.row = Config, !.key = Config]
  <2>1. q \in Request /\ q.pc = "lock" /\ q.op = "config" /\ q.row = Config /\ ~q.alone
    BY DEF New, Request, Ops, ScenarioOps
  <2>2. Start(r, q)
    BY <1>3 DEF StartConfig
  <2> HIDE DEF q
  <2>3. Begins(r, q)
    BY <2>1 DEF Begins, Fits, Works, Steps, SaveOps, Inserts, SlotOps, ShareOps, FileOps, Ops,
       ScenarioOps
  <2> QED
    BY <2>2, <2>1, <2>3, StartIs, BeginsSame
<1>4. ASSUME NEW n \in Names, StartCreate(r, n) PROVE Goal
  <2> DEFINE q == [New EXCEPT !.pc = "insert", !.op = "create", !.row = r, !.to = n, !.key = n,
                         !.seen = [name |-> n, edits |-> {}]]
  <2>1. q \in Request /\ ~q.alone /\ q.pc = "insert" /\ q.op = "create" /\ q.row = r
        /\ q.to \in Names /\ q.seen \in Row /\ q.key = q.to /\ q.seen.name = q.to
    BY DEF New, Request, Ops, ScenarioOps, Row
  <2>2. Start(r, q)
    BY <1>4 DEF StartCreate
  <2> HIDE DEF q
  <2>3. Begins(r, q)
    BY <2>1 DEF Begins, Fits, Works, Steps, SaveOps, Inserts, SlotOps, ShareOps, FileOps, Ops,
       ScenarioOps
  <2> QED
    BY <2>2, <2>1, <2>3, StartIs, BeginsSame
<1>5. ASSUME NEW p \in Pks, NEW n \in Names, StartDuplicate(r, p, n) PROVE Goal
  <2> DEFINE q == [New EXCEPT !.pc = "insert", !.op = "duplicate", !.row = r, !.to = n, !.key = n,
                         !.seen = [db[p] EXCEPT !.name = n]]
  <2>0. [db[p] EXCEPT !.name = n] \in Row /\ [db[p] EXCEPT !.name = n].name = n
    BY <1>1, <1>5 DEF StartDuplicate, Row
  <2>1. q \in Request /\ ~q.alone /\ q.pc = "insert" /\ q.op = "duplicate" /\ q.row = r
        /\ q.to \in Names /\ q.seen \in Row /\ q.key = q.to /\ q.seen.name = q.to
    BY <2>0 DEF New, Request, Ops, ScenarioOps
  <2>2. Start(r, q)
    BY <1>5 DEF StartDuplicate
  <2> HIDE DEF q
  <2>3. Begins(r, q)
    BY <2>1, <1>5 DEF Begins, Fits, Works, Steps, SaveOps, Inserts, SlotOps, ShareOps, FileOps,
       Ops, ScenarioOps, StartDuplicate
  <2> QED
    BY <2>2, <2>1, <2>3, StartIs, BeginsSame
<1>6. ASSUME NEW p \in Pks, StartEdit(r, p) PROVE Goal
  <2> DEFINE q == [New EXCEPT !.pc = "lock", !.op = "edit", !.row = p, !.name = db[p].name,
                         !.to = db[p].name, !.key = db[p].name, !.seen = db[p]]
  <2>1. q \in Request /\ ~q.alone /\ q.pc = "lock" /\ q.op = "edit" /\ q.row = p
        /\ q.to \in Names /\ q.seen \in Row /\ q.key = q.to
    BY <1>1, <1>6 DEF New, Request, Ops, ScenarioOps, StartEdit, Row
  <2>2. Start(r, q)
    BY <1>6 DEF StartEdit
  <2> HIDE DEF q
  <2>3. Begins(r, q)
    BY <2>1, <1>6 DEF Begins, Fits, Works, Steps, SaveOps, Inserts, SlotOps, ShareOps, FileOps,
       Ops, ScenarioOps, StartEdit
  <2> QED
    BY <2>2, <2>1, <2>3, StartIs, BeginsSame
<1>7. ASSUME NEW p \in Pks, NEW n \in Names, StartRename(r, p, n) PROVE Goal
  <2> DEFINE q == [New EXCEPT !.pc = "cascade", !.op = "rename", !.row = p, !.name = db[p].name,
                         !.to = n, !.key = n, !.seen = db[p]]
  <2>1. q \in Request /\ ~q.alone /\ q.pc = "cascade" /\ q.op = "rename" /\ q.row = p
        /\ q.to \in Names /\ q.seen \in Row /\ q.key = q.to
    BY <1>1, <1>7 DEF New, Request, Ops, ScenarioOps, StartRename, Row
  <2>2. Start(r, q)
    BY <1>7 DEF StartRename
  <2> HIDE DEF q
  <2>3. Begins(r, q)
    BY <2>1, <1>7 DEF Begins, Fits, Works, Steps, SaveOps, Inserts, SlotOps, ShareOps, FileOps,
       Ops, ScenarioOps, StartRename
  <2> QED
    BY <2>2, <2>1, <2>3, StartIs, BeginsSame
<1>8. ASSUME NEW p \in Pks, StartDelete(r, p) PROVE Goal
  <2> DEFINE q == [New EXCEPT !.pc = "delete", !.op = "delete", !.row = p, !.name = db[p].name]
  <2>1. q \in Request /\ ~q.alone /\ q.pc = "delete" /\ q.op = "delete" /\ q.row = p
        /\ q.slots = {}
    BY <1>1, <1>8 DEF New, Request, Ops, ScenarioOps, StartDelete, Row
  <2>2. Start(r, q)
    BY <1>8 DEF StartDelete
  <2> HIDE DEF q
  <2>3. Begins(r, q)
    BY <2>1, <1>8 DEF Begins, Fits, Works, Steps, SaveOps, Inserts, SlotOps, ShareOps, FileOps,
       Ops, ScenarioOps, StartDelete
  <2> QED
    BY <2>2, <2>1, <2>3, StartIs, BeginsSame
<1>9. ASSUME NEW c \in Slots, NEW n \in Names, StartCreateSlot(r, c, n) PROVE Goal
  <2> DEFINE q == [New EXCEPT !.pc = "child", !.op = "slot create", !.child = c, !.to = n,
                         !.key = SlotsLock]
  <2>1. q \in Request /\ ~q.alone /\ q.pc = "child" /\ q.op = "slot create" /\ q.child = c
        /\ q.to \in Names /\ q.row = None
    BY DEF New, Request, Ops, SlotOps, Children
  <2>2. Start(r, q)
    BY <1>9 DEF StartCreateSlot
  <2> HIDE DEF q
  <2>3. Begins(r, q)
    BY <2>1 DEF Begins, Fits, Works, Steps, SaveOps, Inserts, SlotOps, ShareOps, FileOps, Ops,
       ScenarioOps
  <2> QED
    BY <2>2, <2>1, <2>3, StartIs, BeginsSame
<1>10. ASSUME NEW c \in Slots, NEW n \in Names, StartUpdateSlot(r, c, n) PROVE Goal
  <2> DEFINE q == [New EXCEPT !.pc = "child", !.op = "slot update", !.child = c, !.to = n,
                         !.seen = db[c], !.key = SlotsLock]
  <2>0. db[c] \in Names
    BY <1>10 DEF StartUpdateSlot, TypeOK, Table, Keys, Children
  <2>1. q \in Request /\ ~q.alone /\ q.pc = "child" /\ q.op = "slot update" /\ q.child = c
        /\ q.to \in Names /\ q.row = None
    BY <2>0 DEF New, Request, Ops, SlotOps, Children
  <2>2. Start(r, q)
    BY <1>10 DEF StartUpdateSlot
  <2> HIDE DEF q
  <2>3. Begins(r, q)
    BY <2>1 DEF Begins, Fits, Works, Steps, SaveOps, Inserts, SlotOps, ShareOps, FileOps, Ops,
       ScenarioOps
  <2> QED
    BY <2>2, <2>1, <2>3, StartIs, BeginsSame
<1>11. ASSUME NEW c \in Slots, StartDeleteSlot(r, c) PROVE Goal
  <2> DEFINE q == [New EXCEPT !.pc = "child", !.op = "slot delete", !.child = c, !.key = SlotsLock]
  <2>1. q \in Request /\ ~q.alone /\ q.pc = "child" /\ q.op = "slot delete" /\ q.child = c
        /\ q.to = None /\ q.row = None
    BY DEF New, Request, Ops, SlotOps, Children
  <2>2. Start(r, q)
    BY <1>11 DEF StartDeleteSlot
  <2> HIDE DEF q
  <2>3. Begins(r, q)
    BY <2>1 DEF Begins, Fits, Works, Steps, SaveOps, Inserts, SlotOps, ShareOps, FileOps, Ops,
       ScenarioOps
  <2> QED
    BY <2>2, <2>1, <2>3, StartIs, BeginsSame
<1>12. ASSUME NEW c \in Shares, StartShare(r, c) PROVE Goal
  <2> DEFINE q == [New EXCEPT !.pc = "child", !.op = "share", !.child = c, !.to = c[1]]
  <2>0. c[1] \in Names
    BY <1>2, <1>12 DEF StartShare
  <2>1. q \in Request /\ ~q.alone /\ q.pc = "child" /\ q.op = "share" /\ q.child = c
        /\ q.to = c[1] /\ q.row = None
    BY <2>0 DEF New, Request, Ops, ShareOps, Children
  <2>2. Start(r, q)
    BY <1>12 DEF StartShare
  <2> HIDE DEF q
  <2>3. Begins(r, q)
    BY <2>1, <1>12 DEF Begins, Fits, Works, Steps, SaveOps, Inserts, SlotOps, ShareOps, FileOps,
       Ops, ScenarioOps
  <2> QED
    BY <2>2, <2>1, <2>3, StartIs, BeginsSame
<1>13. ASSUME NEW c \in Shares, StartUnshare(r, c) PROVE Goal
  <2> DEFINE q == [New EXCEPT !.pc = "child", !.op = "unshare", !.child = c]
  <2>1. q \in Request /\ ~q.alone /\ q.pc = "child" /\ q.op = "unshare" /\ q.child = c
        /\ q.to = None /\ q.row = None
    BY DEF New, Request, Ops, ShareOps, Children
  <2>2. Start(r, q)
    BY <1>13 DEF StartUnshare
  <2> HIDE DEF q
  <2>3. Begins(r, q)
    BY <2>1 DEF Begins, Fits, Works, Steps, SaveOps, Inserts, SlotOps, ShareOps, FileOps, Ops,
       ScenarioOps
  <2> QED
    BY <2>2, <2>1, <2>3, StartIs, BeginsSame
<1>14. ASSUME NEW n \in Names, StartImport(r, n) PROVE Goal
  <2> DEFINE q == [New EXCEPT !.pc = "import", !.op = "import", !.to = n]
  <2>1. q \in Request /\ ~q.alone /\ q.pc = "import" /\ q.op = "import"
        /\ q.to \in Names /\ q.row = None
    BY DEF New, Request, Ops, Children
  <2>2. Start(r, q)
    BY <1>14 DEF StartImport
  <2> HIDE DEF q
  <2>3. Begins(r, q)
    BY <2>1 DEF Begins, Fits, Works, Steps, SaveOps, Inserts, SlotOps, ShareOps, FileOps, Ops,
       ScenarioOps
  <2> QED
    BY <2>2, <2>1, <2>3, StartIs, BeginsSame
<1>15. Goal
  BY <1>3, <1>4, <1>5, <1>6, <1>7, <1>8, <1>9, <1>10, <1>11, <1>12, <1>13, <1>14 DEF StartAny
<1>16. UNCHANGED <<db, disk, own, stale, raced, faults>>
  BY DEF StartAny, StartConfig, StartCreate, StartDuplicate, StartEdit, StartRename, StartDelete,
     StartCreateSlot, StartUpdateSlot, StartDeleteSlot, StartShare, StartUnshare, StartImport, Start
<1> QED
  BY <1>15, <1>16

LEMMA RollbackEnds ==
  ASSUME TypeOK, NEW r \in Requests, Rollback(r)
  PROVE  /\ req' \in [Requests -> Request]
         /\ Same(req'[r], req[r]) /\ req'[r].pc = "failed" /\ req'[r].alone = req[r].alone
         /\ \A q \in Others(r) : req'[q] = req[q] /\ own'[q] = own[q]
         /\ DOMAIN own' = Requests /\ DOMAIN own'[r] = {}
         /\ \A q \in Requests : DOMAIN own'[q] \subseteq Keys /\ Table(own'[q])
         /\ stale' \in [Files -> BOOLEAN]
         /\ \A f \in Files : stale[f] => stale'[f]
         /\ \A f \in Files : f = Target(r) /\ req[r].pc = "commit" /\ req[r].op \in FileOps
                               => stale'[f]
<1>1. req[r] \in Request /\ "failed" \in Pc
  BY DEF TypeOK, Pc
<1>2. req'[r] = [req[r] EXCEPT !.pc = "failed"] /\ req' \in [Requests -> Request]
      /\ \A q \in Others(r) : req'[q] = req[q]
  BY <1>1, GotoEnds DEF Rollback
<1>3. Same(req'[r], req[r]) /\ req'[r].pc = "failed" /\ req'[r].alone = req[r].alone
  BY <1>1, <1>2, PcFields
<1>4. /\ DOMAIN own' = Requests /\ DOMAIN own'[r] = {}
      /\ \A q \in Others(r) : own'[q] = own[q]
      /\ \A q \in Requests : DOMAIN own'[q] \subseteq Keys /\ Table(own'[q])
  BY EndEnds DEF Rollback
<1>5. FileOps \cap (ShareOps \cup {"import"}) = {}
  BY DEF FileOps, ScenarioOps, SlotOps, ShareOps
<1>6. /\ stale' \in [Files -> BOOLEAN]
      /\ \A f \in Files : stale[f] => stale'[f]
      /\ \A f \in Files : f = Target(r) /\ req[r].pc = "commit" /\ req[r].op \in FileOps
                            => stale'[f]
  BY <1>5, Zenon DEF Rollback, TypeOK, Files, Target
<1> QED
  BY <1>2, <1>3, <1>4, <1>6

\* What a statement may write.
Rows(rows) == DOMAIN rows \subseteq Keys /\ Table(rows)

\* The requests after a step of r, which goes to pc.
Moved(r, pc) ==
  /\ req' \in [Requests -> Request]
  /\ Same(req'[r], req[r]) /\ req'[r].pc = pc
  /\ \A q \in Others(r) : /\ Same(req'[q], req[q]) /\ req'[q].pc = req[q].pc
                          /\ req'[q].alone => req[q].alone
                          /\ own'[q] = own[q]
  /\ DOMAIN own' = Requests
  /\ \A q \in Requests : DOMAIN own'[q] \subseteq Keys /\ Table(own'[q])

Lonely(r) == \A q \in Others(r) : ~req'[q].alone

\* One more statement of r, which wrote rows.
Stated(r, rows, pc) ==
  /\ Moved(r, pc) /\ Lonely(r) /\ req'[r].alone = req[r].alone
  /\ DOMAIN own'[r] = DOMAIN rows \cup Pending(r)
  /\ \A k \in DOMAIN rows : own'[r][k] = rows[k]
  /\ \A k \in Pending(r) \ DOMAIN rows : own'[r][k] = own[r][k]

LEMMA StatementMoves ==
  ASSUME TypeOK, NEW r \in Requests, NEW rows, Rows(rows), NEW pc \in Pc,
         Statement(r, rows, pc)
  PROVE  Stated(r, rows, pc)
<1>1. req \in [Requests -> Request]
  BY DEF TypeOK
<1>2. /\ req' \in [Requests -> Request]
      /\ req'[r] = [req[r] EXCEPT !.pc = pc]
      /\ \A q \in Others(r) : req'[q] = [req[q] EXCEPT !.alone = FALSE] /\ own'[q] = own[q]
      /\ own'[r] = Under(rows, own[r])
      /\ DOMAIN own' = Requests
      /\ \A q \in Requests : DOMAIN own'[q] \subseteq Keys /\ Table(own'[q])
  BY StatementEnds DEF Rows
<1>3. Same(req'[r], req[r]) /\ req'[r].pc = pc /\ req'[r].alone = req[r].alone
  BY <1>1, <1>2, PcFields
<1>4. \A q \in Others(r) : /\ Same(req'[q], req[q]) /\ req'[q].pc = req[q].pc
                           /\ req'[q].alone = FALSE
  <2> SUFFICES ASSUME NEW q \in Others(r)
               PROVE  Same(req'[q], req[q]) /\ req'[q].pc = req[q].pc /\ req'[q].alone = FALSE
    OBVIOUS
  <2>1. req[q] \in Request /\ req'[q] = [req[q] EXCEPT !.alone = FALSE]
    BY <1>1, <1>2 DEF Others
  <2> QED
    BY <2>1, AloneFields
<1>5. /\ DOMAIN Under(rows, own[r]) = DOMAIN rows \cup DOMAIN own[r]
      /\ \A k \in DOMAIN rows : Under(rows, own[r])[k] = rows[k]
      /\ \A k \in DOMAIN own[r] \ DOMAIN rows : Under(rows, own[r])[k] = own[r][k]
  BY UnderIs
<1> QED
  BY <1>2, <1>3, <1>4, <1>5 DEF Stated, Moved, Lonely, Pending

LEMMA StatedOne ==
  ASSUME NEW r \in Requests, NEW k, NEW x, NEW pc, Stated(r, One(k, x), pc)
  PROVE  /\ req'[r].pc = pc /\ DOMAIN own'[r] = {k} \cup Pending(r) /\ own'[r][k] = x
         /\ \A c \in Pending(r) \ {k} : own'[r][c] = own[r][c]
<1>1. DOMAIN One(k, x) = {k} /\ One(k, x)[k] = x
  BY OneIs
<1> QED
  BY <1>1 DEF Stated, Moved

LEMMA GotoMoves ==
  ASSUME TypeOK, NEW r \in Requests, NEW pc \in Pc, Goto(r, pc)
  PROVE  Moved(r, pc) /\ req'[r].alone = req[r].alone /\ own' = own
<1>1. req[r] \in Request
  BY DEF TypeOK
<1>2. req' \in [Requests -> Request] /\ req'[r] = [req[r] EXCEPT !.pc = pc]
      /\ (\A q \in Others(r) : req'[q] = req[q]) /\ own' = own
  BY GotoEnds DEF Goto
<1>3. Same(req'[r], req[r]) /\ req'[r].pc = pc /\ req'[r].alone = req[r].alone
  BY <1>1, <1>2, PcFields
<1> QED
  BY <1>2, <1>3 DEF Moved, Same, TypeOK

LEMMA RollbackMoves ==
  ASSUME TypeOK, NEW r \in Requests, Rollback(r)
  PROVE  Moved(r, "failed") /\ req'[r].alone = req[r].alone /\ DOMAIN own'[r] = {}
BY RollbackEnds DEF Moved, Same

\* The row a statement on one key writes.
LEMMA OneRow ==
  ASSUME NEW k \in Keys, NEW x,
         k \in Pks => x \in Row \cup {None},
         k \in Slots => x \in Names \cup {None},
         k \in Shares => x \in {k[1], None},
         k = Config => x \in Requests \cup {None}
  PROVE  Rows(One(k, x))
BY DEF One, Rows, Table

LEMMA ManyRows ==
  ASSUME NEW K \in SUBSET Keys PROVE Rows([k \in K |-> None])
BY DEF Rows, Table

LEMMA InsertEnds ==
  ASSUME TypeOK, Roles, NEW r \in Requests, Insert(r)
  PROVE  \/ Rollback(r)
         \/ Stated(r, One(r, req[r].seen), "lock") /\ UNCHANGED stale
<1>1. req[r].op \in Inserts /\ req[r].seen \in Row
  BY DEF Insert, Roles, Fits, Works, Steps, SaveOps
<1>2. Rows(One(r, req[r].seen))
  BY <1>1, Apart3, OneRow DEF Keys
<1> QED
  BY <1>2, StatementMoves DEF Insert, Pc

LEMMA CascadeEnds ==
  ASSUME TypeOK, Roles, NEW r \in Requests, Cascade(r)
  PROVE  Stated(r, [c \in Bearers(r) |-> req[r].to], "lock") /\ UNCHANGED stale
<1>1. req[r].to \in Names
  BY DEF Cascade, Roles, Fits, Works, Steps, SaveOps
<1>2. Rows([c \in Bearers(r) |-> req[r].to])
  BY <1>1, Apart3 DEF Rows, Table, Bearers, Keys, Children
<1> QED
  BY <1>2, StatementMoves DEF Cascade, Pc

LEMMA DeleteEnds ==
  ASSUME TypeOK, Roles, NEW r \in Requests, Delete(r)
  PROVE  \/ Rollback(r)
         \/ /\ Stated(r, [k \in Doomed(r) |-> None], "write") /\ UNCHANGED stale
            /\ Named(View(r), req[r].name) # {}
<1>1. Doomed(r) \subseteq Keys
  BY DEF Doomed, Named, Present, Keys
<1>2. Rows([k \in Doomed(r) |-> None])
  BY <1>1, ManyRows
<1> QED
  BY <1>2, StatementMoves DEF Delete, Pc

LEMMA ChildEnds ==
  ASSUME TypeOK, Roles, NEW r \in Requests, Child(r)
  PROVE  LET c == req[r].child
             pc == IF c \in Slots THEN "lock" ELSE "commit"
         IN  \/ Rollback(r)
             \/ req[r].op = "share" /\ Goto(r, pc) /\ UNCHANGED stale
             \/ Stated(r, One(c, req[r].to), pc) /\ UNCHANGED stale
<1> DEFINE c == req[r].child
           pc == IF c \in Slots THEN "lock" ELSE "commit"
<1>1. c \in Slots \/ (c \in Shares /\ c \notin Slots)
  <2>1. req[r].op \in SlotOps \cup ShareOps
    BY DEF Child, Roles, Fits, Works, Steps
  <2>2. c \in Slots \/ c \in Shares
    BY <2>1 DEF Roles, Fits, Works, Steps
  <2> QED
    BY <2>2
<1>2. c \in Slots => req[r].to \in Names \cup {None}
  BY DEF TypeOK, Request
<1>3. c \in Shares => req[r].to \in {c[1], None}
  BY Apart3 DEF Child, Roles, Fits, Works, Steps, SlotOps, ShareOps
<1>4. Rows(One(c, req[r].to))
  BY <1>1, <1>2, <1>3, Apart3, OneRow DEF Keys, Children
<1>5. pc \in Pc
  BY DEF Pc
<1>6. Rows(One(c, req[r].to)) /\ Statement(r, One(c, req[r].to), pc)
      => Stated(r, One(c, req[r].to), pc)
  BY <1>5, StatementMoves
<1> QED
  BY <1>4, <1>6 DEF Child

LEMMA ImportEnds ==
  ASSUME TypeOK, Roles, NEW r \in Requests, Import(r)
  PROVE  \E rows : /\ Stated(r, rows, "commit") /\ UNCHANGED stale
                   /\ DOMAIN rows = Old \cup {r}
                   /\ \A k \in Old \ {r} : rows[k] = None
                   /\ rows[r] # None
<1> DEFINE rows == [k \in Old \cup {r} |->
                     IF k = r THEN [name |-> req[r].to, edits |-> {}] ELSE None]
<1>1. [name |-> req[r].to, edits |-> {}] \in Row
  BY DEF Import, Roles, Fits, Works, Steps, Row
<1>2. Rows(rows)
  BY <1>1, Apart3 DEF Rows, Table, Old, Present, Keys
<1>3. Statement(r, rows, "commit") /\ UNCHANGED stale
  BY DEF Import
<1>4. Stated(r, rows, "commit")
  BY <1>2, <1>3, StatementMoves DEF Pc
<1> QED
  BY <1>1, <1>3, <1>4, Apart3

LEMMA LockEnds ==
  ASSUME TypeOK, Roles, NEW r \in Requests, Lock(r)
  PROVE  /\ Moved(r, IF req[r].op \in SlotOps THEN "write" ELSE "save")
         /\ req'[r].alone = req[r].alone /\ own' = own
BY GotoMoves DEF Lock, Pc

LEMMA SaveEnds ==
  ASSUME TypeOK, Roles, NEW r \in Requests, Save(r)
  PROVE  \/ Rollback(r)
         \/ req[r].op = "config" /\ Stated(r, One(Config, r), "write") /\ UNCHANGED stale
         \/ /\ req[r].op \in SaveOps /\ UNCHANGED stale
            /\ Stated(r, One(req[r].row, Saved(r)), "write")
<1>1. Rows(One(Config, r))
  BY Apart3, OneRow DEF Keys
<1>2. req[r].op = "config" \/ req[r].op \in SaveOps
  BY DEF Save, Roles, Fits, Works, Steps
<1>3. CASE req[r].op = "config"
  BY <1>1, <1>3, StatementMoves DEF Save, Pc
<1>4. CASE req[r].op \in SaveOps
  <2>1. req[r].row \in Pks /\ req[r].to \in Names /\ req[r].seen \in Row
    BY <1>4 DEF Roles, Fits, Works, Steps
  <2>2. Saved(r) \in Row
    BY <2>1 DEF Saved, Row
  <2>3. Rows(One(req[r].row, Saved(r)))
    BY <2>1, <2>2, Apart3, OneRow DEF Keys
  <2> QED
    BY <1>4, <2>3, StatementMoves DEF Save, Pc, SaveOps, Inserts
<1> QED
  BY <1>2, <1>3, <1>4

LEMMA WriteEnds ==
  ASSUME TypeOK, Roles, NEW r \in Requests, Write(r)
  PROVE  /\ Moved(r, "replace") /\ own' = own
         /\ req'[r].alone <=> \A q \in Others(r) : Pending(q) = {}
<1> DEFINE b == \A q \in Others(r) : Pending(q) = {}
<1>1. req[r] \in Request
  BY DEF TypeOK
<1>2. req' = [req EXCEPT ![r] = [req[r] EXCEPT !.pc = "replace", !.alone = b]] /\ own' = own
  BY DEF Write
<1>3. req'[r] = [req[r] EXCEPT !.pc = "replace", !.alone = b]
      /\ \A q \in Others(r) : req'[q] = req[q]
  BY <1>2 DEF TypeOK, Others
<1>b. b \in BOOLEAN
  OBVIOUS
<1> HIDE DEF b
<1>4. req'[r].pc = "replace" /\ Same(req'[r], req[r])
  BY <1>1, <1>3 DEF Request, Same
<1>7. req'[r].alone = b
  BY <1>1, <1>3 DEF Request
<1>8. req'[r] \in Request
  BY <1>1, <1>3, <1>b DEF Request
<1>5. req' \in [Requests -> Request]
  BY <1>2, <1>3, <1>8 DEF TypeOK
<1> QED
  BY <1>2, <1>3, <1>4, <1>5, <1>7 DEF Moved, Same, TypeOK, b

LEMMA ReplaceEnds ==
  ASSUME TypeOK, Roles, NEW r \in Requests, Replace(r)
  PROVE  \/ /\ Rollback(r) /\ UNCHANGED disk /\ tmp[Target(r)] = None
         \/ /\ Moved(r, "commit") /\ req'[r].alone = req[r].alone /\ own' = own
            /\ file' = [file EXCEPT ![Target(r)] = tmp[Target(r)]]
            /\ UNCHANGED stale /\ tmp[Target(r)] # None
BY GotoMoves DEF Replace, Pc

LEMMA CommitEnds ==
  ASSUME TypeOK, Roles, NEW r \in Requests, Commit(r)
  PROVE  \/ Rollback(r) /\ UNCHANGED db
         \/ /\ Moved(r, "done") /\ req'[r].alone = req[r].alone /\ DOMAIN own'[r] = {}
            /\ db' = View(r) /\ Sound(View(r)) /\ stale' = Leaves(r)
<1>1. CASE Sound(View(r))
  <2>1. req' = [req EXCEPT ![r].pc = "done"] /\ own' = [own EXCEPT ![r] = NoRows]
    BY <1>1 DEF Commit
  <2>2. req[r] \in Request /\ "done" \in Pc
    BY DEF TypeOK, Pc
  <2>3. req' \in [Requests -> Request] /\ req'[r] = [req[r] EXCEPT !.pc = "done"]
        /\ \A q \in Others(r) : req'[q] = req[q]
    BY <2>1, <2>2, GotoEnds
  <2>4. Same(req'[r], req[r]) /\ req'[r].pc = "done" /\ req'[r].alone = req[r].alone
    BY <2>2, <2>3, PcFields
  <2>5. Moved(r, "done") /\ DOMAIN own'[r] = {}
    BY <2>1, <2>3, <2>4, EndEnds DEF Moved, Same
  <2> QED
    BY <1>1, <2>4, <2>5 DEF Commit
<1>2. CASE ~Sound(View(r))
  BY <1>2 DEF Commit
<1> QED
  BY <1>1, <1>2

-----------------------------------------------------------------------------
(* Types                                                                   *)

\* The requests after a step of r: nothing is lost, and r is where it may be.
Well(r) ==
  /\ req' \in [Requests -> Request]
  /\ \A q \in Others(r) : Same(req'[q], req[q]) /\ req'[q].pc = req[q].pc
                          /\ (req'[q].alone => req[q].alone)
  /\ Fits(req'[r])
  /\ DOMAIN own' = Requests
  /\ \A q \in Requests : DOMAIN own'[q] \subseteq Keys /\ Table(own'[q])

LEMMA WellKept ==
  ASSUME TypeOK, Roles, NEW r \in Requests, Well(r)
  PROVE  /\ Roles' /\ req' \in [Requests -> Request] /\ DOMAIN own' = Requests
         /\ \A q \in Requests : DOMAIN own'[q] \subseteq Keys /\ Table(own'[q])
<1>1. ASSUME NEW q \in Others(r) PROVE Fits(req'[q])
  <2>1. Fits(req[q]) /\ Same(req'[q], req[q]) /\ req'[q].pc = req[q].pc
        /\ (req'[q].alone => req[q].alone)
    BY DEF Roles, Well, Others
  <2>2. Works(req'[q])
    BY <2>1 DEF Fits, Works, Same
  <2>3. Steps(req'[q])
    BY <2>1 DEF Fits, Steps, Same
  <2> QED
    BY <2>2, <2>3 DEF Fits
<1> QED
  BY <1>1 DEF Well, Roles, Others

LEMMA MovedWell ==
  ASSUME TypeOK, Roles, NEW r \in Requests, NEW pc \in Pc, Moved(r, pc), Fits(req'[r])
  PROVE  Well(r)
<1>1. ASSUME NEW q \in Others(r)
      PROVE  Same(req'[q], req[q]) /\ req'[q].pc = req[q].pc /\ (req'[q].alone => req[q].alone)
  BY <1>1 DEF Moved
<1> QED
  BY <1>1 DEF Moved, Well

\* Where r may go next.
Follows(q, pc) ==
  \/ pc \in {"done", "failed"} /\ q.pc # "new"
  \/ q.pc \in {"insert", "cascade"} /\ pc = "lock"
  \/ q.pc = "delete" /\ pc = "write"
  \/ q.pc = "child" /\ pc = (IF q.child \in Slots THEN "lock" ELSE "commit")
  \/ q.pc = "import" /\ pc = "commit"
  \/ q.pc = "lock" /\ pc = (IF q.op \in SlotOps THEN "write" ELSE "save")
  \/ q.pc = "save" /\ pc = "write"
  \/ q.pc = "write" /\ pc = "replace"
  \/ q.pc = "replace" /\ pc = "commit"

LEMMA FollowsFits ==
  ASSUME TypeOK, Roles, NEW r \in Requests, NEW pc \in Pc, Moved(r, pc), Follows(req[r], pc),
         req'[r].alone => pc = "replace" \/ req[r].alone
  PROVE  Well(r)
<1> DEFINE q == req[r]
           p == req'[r]
<1>1. Fits(q) /\ q \in Request
  BY DEF Roles, TypeOK
<1>2. Same(p, q) /\ p.pc = pc
  BY DEF Moved
<1>3. q.alone => q.op \in FileOps /\ q.pc \in {"replace", "commit", "done", "failed"}
  BY <1>1 DEF Fits, Steps
<1>4. q.pc \in {"write", "replace"} => q.op \in FileOps
  BY <1>1 DEF Fits, Steps
<1>5. p.alone => q.op \in FileOps /\ pc \in {"replace", "commit", "done", "failed"}
  BY <1>3, <1>4 DEF Follows
<1>6. q.pc = "child" => q.op \in SlotOps \cup ShareOps /\ (q.child \in Slots <=> q.op \in SlotOps)
  BY <1>1, Apart3 DEF Fits, Works, Steps, SlotOps, ShareOps
<1> HIDE DEF q, p
<1>7. Works(p)
  BY <1>1, <1>2 DEF Fits, Works, Same
<1>8. p.op = q.op /\ p.pc = pc /\ Steps(q)
  BY <1>1, <1>2 DEF Fits, Same
<1>9. Follows(q, pc)
  BY DEF q
<1>10. q.op # None => q.op \in FileOps \cup ShareOps \cup {"import"}
  BY <1>1 DEF Request, Ops, FileOps
<1>11. Steps(p)
  <2>1. CASE pc \in {"done", "failed"}
    BY <2>1, <1>8, <1>9, <1>5 DEF Steps, Follows
  <2>2. CASE pc \in {"lock", "save"}
    BY <2>2, <1>8, <1>9, <1>5, <1>6 DEF Steps, Follows, SaveOps
  <2>3. CASE pc = "write"
    BY <2>3, <1>8, <1>9, <1>5 DEF Steps, Follows, SaveOps, Inserts, FileOps, ScenarioOps
  <2>4. CASE pc = "replace"
    BY <2>4, <1>8, <1>9, <1>5 DEF Steps, Follows
  <2>5. CASE pc = "commit"
    BY <2>5, <1>8, <1>9, <1>5, <1>6 DEF Steps, Follows, FileOps, ScenarioOps, SlotOps, ShareOps
  <2> QED
    BY <1>9, <2>1, <2>2, <2>3, <2>4, <2>5 DEF Follows
<1> QED
  BY <1>7, <1>11, MovedWell DEF p, Fits

LEMMA RollbackWell ==
  ASSUME TypeOK, Roles, NEW r \in Requests, req[r].pc # "new", Rollback(r)
  PROVE  Well(r) /\ stale' \in [Files -> BOOLEAN]
BY RollbackMoves, RollbackEnds, FollowsFits DEF Follows, Pc

LEMMA StepWell ==
  ASSUME TypeOK, Roles, NEW r \in Requests, Step(r) \/ Fails(r)
  PROVE  Well(r) /\ stale' \in [Files -> BOOLEAN]
<1> USE DEF Pc
<1>0. stale \in [Files -> BOOLEAN] /\ Roles /\ Fits(req[r])
  BY DEF TypeOK, Roles
<1>1. CASE Insert(r)
  BY <1>0, <1>1, InsertEnds, RollbackWell, FollowsFits DEF Insert, Stated, Follows
<1>2. CASE Cascade(r)
  BY <1>0, <1>2, CascadeEnds, FollowsFits DEF Cascade, Stated, Follows
<1>3. CASE Delete(r)
  BY <1>0, <1>3, DeleteEnds, RollbackWell, FollowsFits DEF Delete, Stated, Follows
<1>4. CASE Child(r)
  <2> DEFINE pc == IF req[r].child \in Slots THEN "lock" ELSE "commit"
  <2>1. req[r].pc = "child" /\ pc \in Pc /\ Follows(req[r], pc)
    BY <1>4 DEF Child, Follows
  <2>2. \/ Rollback(r)
        \/ Moved(r, pc) /\ (req'[r].alone = req[r].alone) /\ UNCHANGED stale
    BY <1>4, <2>1, ChildEnds, GotoMoves DEF Stated
  <2> HIDE DEF pc
  <2> QED
    BY <1>0, <2>1, <2>2, RollbackWell, FollowsFits
<1>5. CASE Import(r)
  BY <1>0, <1>5, ImportEnds, FollowsFits DEF Import, Stated, Follows
<1>6. CASE Lock(r)
  BY <1>0, <1>6, LockEnds, FollowsFits DEF Lock, Follows
<1>7. CASE Save(r)
  BY <1>0, <1>7, SaveEnds, RollbackWell, FollowsFits DEF Save, Stated, Follows
<1>8. CASE Write(r)
  BY <1>0, <1>8, WriteEnds, FollowsFits DEF Write, Follows
<1>9. CASE Replace(r)
  BY <1>0, <1>9, ReplaceEnds, RollbackWell, FollowsFits DEF Replace, Follows
<1>10. CASE Commit(r)
  <2>1. CASE Rollback(r)
    BY <1>10, <2>1, RollbackWell DEF Commit
  <2>2. CASE ~Rollback(r)
    <3>1. Moved(r, "done") /\ req'[r].alone = req[r].alone /\ stale' = Leaves(r)
          /\ req[r].pc = "commit"
      BY <1>10, <2>2, CommitEnds DEF Commit
    <3>2. Leaves(r) \in [Files -> BOOLEAN]
      BY <1>0 DEF Leaves
    <3> QED
      BY <1>0, <3>1, <3>2, FollowsFits DEF Follows
  <2> QED
    BY <2>1, <2>2
<1>11. CASE Fails(r)
  BY <1>11, RollbackWell DEF Fails, Active
<1> QED
  BY <1>1, <1>2, <1>3, <1>4, <1>5, <1>6, <1>7, <1>8, <1>9, <1>10, <1>11 DEF Step

LEMMA NextTyped == TypeOK /\ Roles /\ [Next]_vars => TypeOK' /\ Roles'
<1> SUFFICES ASSUME TypeOK, Roles, [Next]_vars PROVE TypeOK' /\ Roles'
  OBVIOUS
<1>1. ASSUME NEW r \in Requests, StartAny(r) PROVE TypeOK' /\ Roles'
  <2>1. req' \in [Requests -> Request] /\ Fits(req'[r])
        /\ (\A q \in Others(r) : req'[q] = req[q])
        /\ UNCHANGED <<db, own, stale, raced, faults>>
    BY <1>1, StartEnds DEF Begins
  <2>2. Roles'
    BY <2>1 DEF Roles, Others
  <2>3. Table(db)' /\ Sound(db)'
    BY <2>1 DEF TypeOK, Table, Sound, Present, Named
  <2> QED
    BY <2>1, <2>2, <2>3 DEF TypeOK, Table
<1>2. ASSUME NEW r \in Requests, Step(r) \/ Fails(r) PROVE TypeOK' /\ Roles'
  <2>1. Well(r) /\ stale' \in [Files -> BOOLEAN]
    BY <1>2, StepWell
  <2>2. db' = db \/ (db' = View(r) /\ Sound(View(r)))
    BY <1>2 DEF Step, Fails, Insert, Cascade, Delete, Child, Import, Lock, Save, Write, Replace,
       Commit
  <2>3. DOMAIN db' = Keys /\ Table(db')
    BY <2>2, ViewIs DEF TypeOK
  <2>4. Sound(db')
    BY <2>2 DEF TypeOK
  <2>5. raced' \in BOOLEAN
    BY <1>2, Zenon DEF TypeOK, Step, Fails, Insert, Cascade, Delete, Child, Import, Lock, Save,
       Write, Replace, Commit
  <2>7. faults \in 0..MaxFaults
    BY DEF TypeOK
  <2>8. faults' = faults \/ (faults < MaxFaults /\ faults' = faults + 1)
    BY <1>2, Zenon DEF Step, Fails, Insert, Cascade, Delete, Child, Import, Lock, Save, Write,
       Replace, Commit
  <2>6. faults' \in 0..MaxFaults
    BY <2>7, <2>8, CatalogAssumption
  <2> QED
    BY <2>1, <2>3, <2>4, <2>5, <2>6, WellKept DEF TypeOK
<1>3. CASE UNCHANGED vars
  BY <1>3 DEF vars, TypeOK, Roles, Table, Sound, Present, Named
<1> QED
  BY <1>1, <1>2, <1>3 DEF Next

LEMMA InitTyped == Init => TypeOK /\ Roles
<1> SUFFICES ASSUME Init PROVE TypeOK /\ Roles
  OBVIOUS
<1>1. req \in [Requests -> Request] /\ Roles
  <2>1. Fits(New)
    BY NewFields, Apart3 DEF Fits, Works, Steps, SaveOps, Inserts, SlotOps, ShareOps, ScenarioOps,
       Ops
  <2> QED
    BY <2>1, NewFields DEF Init, Roles
<1>2. DOMAIN own = Requests /\ \A r \in Requests : DOMAIN own[r] = {} /\ Table(own[r])
  BY DEF Init, NoRows, Table
<1>3. stale \in [Files -> BOOLEAN] /\ raced \in BOOLEAN /\ faults \in 0..MaxFaults
  <2>1. stale \in [Files -> BOOLEAN] /\ raced \in BOOLEAN
    BY Zenon DEF Init
  <2>2. faults \in 0..MaxFaults
    BY CatalogAssumption DEF Init
  <2> QED
    BY <2>1, <2>2
<1>4. DOMAIN db = Keys /\ Table(db) /\ Sound(db)
  BY TablesAssumption DEF Init
<1> QED
  BY <1>1, <1>2, <1>3, <1>4 DEF TypeOK

\* Type correctness: the tables keep their constraints, unique names and
\* foreign keys, and every request works on a row of the kind its operation
\* needs and only takes the steps of that operation.
THEOREM TypeCorrect == Spec => [](TypeOK /\ Roles)
<1>1. Init => TypeOK /\ Roles
  BY InitTyped
<1>2. TypeOK /\ Roles /\ [Next]_vars => (TypeOK /\ Roles)'
  BY NextTyped
<1> QED
  BY <1>1, <1>2, PTL DEF Spec

-----------------------------------------------------------------------------
(***************************************************************************)
(* What a transaction has written: only what its operation reaches, and    *)
(* something before it writes the file.                                    *)
(***************************************************************************)

Reach(q) ==
  IF q.op \in SlotOps \cup ShareOps THEN {q.child}
  ELSE IF q.op \in Inserts \cup {"edit", "config"} THEN {q.row}
  ELSE IF q.op = "rename" THEN {q.row} \cup Slots ELSE Keys

\* A request in the state q with uncommitted rows S.
Holding(q, S) ==
  /\ q.pc \in {"new", "done", "failed"} => S = {}
  /\ S \subseteq Reach(q)
  /\ q.pc \in {"write", "replace"} \/ (q.pc = "commit" /\ q.op \in FileOps) => S # {}
  /\ q.pc = "lock" /\ q.op \in SlotOps => S # {}

OwnInv == \A r \in Requests :
            Holding(req[r], Pending(r)) /\ (req[r].op \in Inserts => req[r].row = r)

LEMMA OpsApart ==
  /\ SlotOps \cap ShareOps = {} /\ SlotOps \cap ScenarioOps = {} /\ ShareOps \cap ScenarioOps = {}
  /\ "import" \notin FileOps \cup ShareOps
  /\ SaveOps \cup {"config", "delete"} = ScenarioOps
BY DEF SlotOps, ShareOps, ScenarioOps, FileOps, SaveOps, Inserts

LEMMA NextOwn ==
  ASSUME TypeOK, Roles, OwnInv, NEW r \in Requests, StartAny(r) \/ Step(r) \/ Fails(r)
  PROVE  OwnInv'
<1> DEFINE Good(x) == /\ Holding(req'[x], DOMAIN own'[x])
                      /\ req'[x].op \in Inserts => req'[x].row = x
<1> SUFFICES \A x \in Requests : Good(x)
  BY DEF OwnInv, Pending
<1> USE OpsApart
<1>0. /\ Holding(req[r], Pending(r)) /\ Fits(req[r])
      /\ req[r].op \in Inserts => req[r].row = r
  BY DEF OwnInv, Roles
<1>1. CASE StartAny(r)
  <2>1. Begins(r, req'[r]) /\ own' = own /\ req[r].pc = "new"
        /\ \A q \in Others(r) : req'[q] = req[q]
    BY <1>1, StartEnds
  <2>2. Pending(r) = {}
    BY <1>0, <2>1 DEF Holding
  <2>3. Good(r)
    BY <2>1, <2>2, Apart3 DEF Begins, Holding, Pending, SlotOps
  <2> QED
    BY <2>1, <2>3 DEF OwnInv, Others, Pending
<1>2. ASSUME NEW pc \in Pc, Moved(r, pc), Holding(req'[r], DOMAIN own'[r])
      PROVE  \A x \in Requests : Good(x)
  <2>1. Good(r)
    BY <1>0, <1>2 DEF Moved, Same
  <2>2. ASSUME NEW x \in Others(r) PROVE Good(x)
    <3>1. Same(req'[x], req[x]) /\ req'[x].pc = req[x].pc /\ own'[x] = own[x]
      BY <2>2, <1>2 DEF Moved
    <3>2. Holding(req[x], Pending(x)) /\ (req[x].op \in Inserts => req[x].row = x)
      BY <2>2 DEF OwnInv, Others
    <3> QED
      BY <3>1, <3>2 DEF Holding, Reach, Same, Pending
  <2> QED
    BY <2>1, <2>2 DEF Others
<1>3. ASSUME Rollback(r) PROVE \A x \in Requests : Good(x)
  <2>1. Moved(r, "failed") /\ DOMAIN own'[r] = {} /\ "failed" \in Pc
    BY <1>3, RollbackMoves DEF Pc
  <2>2. Holding(req'[r], DOMAIN own'[r])
    BY <2>1 DEF Holding, Moved
  <2> QED
    BY <1>2, <2>1, <2>2
<1>4. ASSUME NEW rows, NEW pc \in Pc, Stated(r, rows, pc), DOMAIN rows \subseteq Reach(req[r]),
             pc \in {"lock", "write", "commit"},
             DOMAIN rows # {} \/ (pc = "lock" /\ req[r].op \notin SlotOps),
             req[r].pc \notin {"new", "done", "failed"}
      PROVE  \A x \in Requests : Good(x)
  <2>1. Moved(r, pc) /\ DOMAIN own'[r] = DOMAIN rows \cup Pending(r)
    BY <1>4 DEF Stated
  <2>2. Reach(req'[r]) = Reach(req[r]) /\ req'[r].pc = pc /\ req'[r].op = req[r].op
    BY <2>1 DEF Moved, Same, Reach
  <2>3. Holding(req'[r], DOMAIN own'[r])
    BY <1>0, <1>4, <2>1, <2>2 DEF Holding
  <2> QED
    BY <1>2, <2>1, <2>3
<1> USE DEF Pc
<1>5. CASE Insert(r)
  <2>1. CASE Rollback(r)
    BY <2>1, <1>3
  <2>2. CASE Stated(r, One(r, req[r].seen), "lock")
    <3>1. req[r].pc = "insert" /\ req[r].op \in Inserts
      BY <1>5, <1>0 DEF Insert, Fits, Steps
    <3>2. Reach(req[r]) = {r} /\ DOMAIN One(r, req[r].seen) = {r}
      BY <3>1, <1>0, OneIs DEF Reach, Inserts, SlotOps, ShareOps
    <3> QED
      BY <2>2, <3>1, <3>2, <1>4
  <2> QED
    BY <1>5, <2>1, <2>2, InsertEnds
<1>6. CASE Cascade(r)
  <2>1. req[r].pc = "cascade" /\ req[r].op = "rename"
    BY <1>6, <1>0 DEF Cascade, Fits, Steps
  <2>2. Bearers(r) \subseteq Reach(req[r]) /\ req[r].op \notin SlotOps
    BY <2>1 DEF Reach, Bearers, Inserts, SlotOps, ShareOps
  <2> QED
    BY <1>6, <2>1, <2>2, <1>4, CascadeEnds
<1>7. CASE Delete(r)
  <2>1. CASE Rollback(r)
    BY <2>1, <1>3
  <2>2. CASE Stated(r, [k \in Doomed(r) |-> None], "write") /\ Named(View(r), req[r].name) # {}
    <3>1. req[r].pc = "delete" /\ req[r].op = "delete"
      BY <1>7, <1>0 DEF Delete, Fits, Steps
    <3>2. Doomed(r) \subseteq Reach(req[r]) /\ Doomed(r) # {}
      BY <3>1, <2>2 DEF Reach, Doomed, Named, Present, Keys, Inserts, SlotOps, ShareOps
    <3> QED
      BY <2>2, <3>1, <3>2, <1>4
  <2> QED
    BY <1>7, <2>1, <2>2, DeleteEnds
<1>8. CASE Child(r)
  <2> DEFINE c == req[r].child
             pc == IF c \in Slots THEN "lock" ELSE "commit"
  <2>1. req[r].pc = "child" /\ req[r].op \in SlotOps \cup ShareOps
    BY <1>8, <1>0 DEF Child, Fits, Steps
  <2>2. CASE Rollback(r)
    BY <2>2, <1>3
  <2>3. CASE req[r].op = "share" /\ Goto(r, pc)
    <3>1. pc = "commit"
      BY <2>3, <1>0, Apart3 DEF Fits, Works, ShareOps
    <3>2. Moved(r, pc) /\ own' = own
      BY <2>3, <3>1, GotoMoves
    <3>3. Holding(req'[r], DOMAIN own'[r])
      BY <1>0, <2>3, <3>1, <3>2 DEF Holding, Moved, Same, Reach, Pending, FileOps, ShareOps, Child
    <3> QED
      BY <1>2, <3>1, <3>2, <3>3
  <2>4. CASE Stated(r, One(c, req[r].to), pc)
    <3>1. Reach(req[r]) = {c} /\ DOMAIN One(c, req[r].to) = {c}
      BY <2>1, OneIs DEF Reach
    <3> QED
      BY <2>4, <3>1, <2>1, <1>4
  <2> QED
    BY <1>8, <2>2, <2>3, <2>4, ChildEnds
<1>9. CASE Import(r)
  <2>1. req[r].pc = "import" /\ req[r].op = "import"
    BY <1>9, <1>0 DEF Import, Fits, Steps
  <2>2. PICK rows : Stated(r, rows, "commit") /\ DOMAIN rows = Old \cup {r}
    BY <1>9, ImportEnds
  <2>3. Reach(req[r]) = Keys
    BY <2>1 DEF Reach, SlotOps, ShareOps, Inserts
  <2>4. Old \cup {r} \subseteq Keys
    BY Apart3 DEF Old, Present, Keys
  <2> QED
    BY <2>1, <2>2, <2>3, <2>4, <1>4
<1>10. CASE Lock(r)
  <2> DEFINE pc == IF req[r].op \in SlotOps THEN "write" ELSE "save"
  <2>1. req[r].pc = "lock" /\ Moved(r, pc) /\ own' = own
    BY <1>10, LockEnds DEF Lock
  <2>2. Holding(req'[r], DOMAIN own'[r])
    BY <1>0, <2>1 DEF Holding, Moved, Same, Reach, Pending
  <2> QED
    BY <1>2, <2>1, <2>2
<1>11. CASE Save(r)
  <2>1. /\ req[r].pc = "save" /\ req[r].op \in SaveOps \cup {"config"}
        /\ (req[r].op = "config" => req[r].row = Config)
    BY <1>11, <1>0 DEF Save, Fits, Works, Steps
  <2>2. CASE Rollback(r)
    BY <2>2, <1>3
  <2>3. req[r].row \in Reach(req[r]) /\ req[r].op \notin SlotOps
    BY <2>1 DEF Reach, SaveOps, Inserts, SlotOps, ShareOps
  <2>4. CASE req[r].op = "config" /\ Stated(r, One(Config, r), "write")
    <3>1. DOMAIN One(Config, r) = {Config} /\ req[r].row = Config
      BY <2>1, <2>4, OneIs
    <3> QED
      BY <2>4, <2>1, <2>3, <3>1, <1>4
  <2>5. CASE Stated(r, One(req[r].row, Saved(r)), "write")
    <3>1. DOMAIN One(req[r].row, Saved(r)) = {req[r].row}
      BY OneIs
    <3> QED
      BY <2>5, <2>1, <2>3, <3>1, <1>4
  <2> QED
    BY <1>11, <2>2, <2>4, <2>5, SaveEnds
<1>12. CASE Write(r)
  <2>1. req[r].pc = "write" /\ Moved(r, "replace") /\ own' = own
    BY <1>12, WriteEnds DEF Write
  <2>2. Holding(req'[r], DOMAIN own'[r])
    BY <1>0, <2>1 DEF Holding, Moved, Same, Reach, Pending
  <2> QED
    BY <1>2, <2>1, <2>2
<1>13. CASE Replace(r)
  <2>1. CASE Rollback(r)
    BY <2>1, <1>3
  <2>2. CASE Moved(r, "commit") /\ own' = own
    <3>1. req[r].pc = "replace"
      BY <1>13 DEF Replace
    <3>2. Holding(req'[r], DOMAIN own'[r])
      BY <1>0, <2>2, <3>1 DEF Holding, Moved, Same, Reach, Pending
    <3> QED
      BY <1>2, <2>2, <3>2
  <2> QED
    BY <1>13, <2>1, <2>2, ReplaceEnds
<1>14. CASE Commit(r)
  <2>1. CASE Rollback(r)
    BY <2>1, <1>3
  <2>2. CASE Moved(r, "done") /\ DOMAIN own'[r] = {}
    <3>1. Holding(req'[r], DOMAIN own'[r])
      BY <2>2 DEF Holding, Moved
    <3> QED
      BY <1>2, <2>2, <3>1
  <2> QED
    BY <1>14, <2>1, <2>2, CommitEnds
<1>15. CASE Fails(r)
  BY <1>15, <1>3 DEF Fails
<1> QED
  BY <1>1, <1>5, <1>6, <1>7, <1>8, <1>9, <1>10, <1>11, <1>12, <1>13, <1>14, <1>15 DEF Step

-----------------------------------------------------------------------------
(***************************************************************************)
(* The files: what a request has put into the temporary file, or into the  *)
(* file, is what the tables will say when it commits, as long as nobody    *)
(* else has written a row.                                                 *)
(***************************************************************************)

Replaced(r) == req[r].pc = "commit" /\ req[r].op \in FileOps

Undisturbed(r) ==
  req[r].alone /\ req[r].pc \in {"replace", "commit"} =>
    /\ \A q \in Others(r) : Pending(q) = {}
    /\ req[r].pc = "replace" => tmp[Target(r)] = Document(Target(r), View(r))
    /\ req[r].pc = "commit" => file[Target(r)] = Document(Target(r), View(r))

Accounted(f) ==
  \/ file[f] = Document(f, db)
  \/ stale[f]
  \/ \E r \in Requests : Replaced(r) /\ Target(r) = f

FileInv ==
  /\ DOMAIN file = Files /\ DOMAIN tmp = Files
  /\ \A r \in Requests : Undisturbed(r)
  /\ \A f \in Files : Accounted(f)

LEMMA DocumentSame ==
  ASSUME NEW v, NEW w, NEW f \in Files,
         f = "scenarios" => \A k \in Pks \cup {Config} : v[k] = w[k],
         f = "slots" => \A k \in Slots : v[k] = w[k]
  PROVE  Document(f, v) = Document(f, w)
<1>1. CASE f = "scenarios"
  BY <1>1 DEF Document, Present
<1>2. CASE f = "slots"
  <2>1. {c \in Slots : v[c] # None} = {c \in Slots : w[c] # None}
    BY <1>2
  <2> QED
    BY <1>2, <2>1 DEF Document
<1> QED
  BY <1>1, <1>2 DEF Files

LEMMA DocumentFor ==
  ASSUME NEW v, NEW w, NEW f \in Files, \A k \in Keys : v[k] = w[k]
  PROVE  Document(f, v) = Document(f, w)
BY DocumentSame DEF Keys, Children

\* When r has written no row, and what it does changes no file, the others
\* are where they were.
LEMMA OthersUndisturbed ==
  ASSUME TypeOK, Roles, FileInv, NEW r \in Requests, NEW x \in Others(r),
         Same(req'[x], req[x]), req'[x].pc = req[x].pc, req'[x].alone => req[x].alone,
         own'[x] = own[x], \A q \in Requests \ {r, x} : own'[q] = own[q],
         Pending(r) = {} => DOMAIN own'[r] = {} \/ ~req'[x].alone,
         Pending(r) = {} => UNCHANGED disk /\ \A k \in Keys : db'[k] = db[k]
  PROVE  Undisturbed(x)'
<1> SUFFICES ASSUME req'[x].alone, req'[x].pc \in {"replace", "commit"}
             PROVE  /\ \A q \in Others(x) : Pending(q)' = {}
                    /\ req'[x].pc = "replace" => tmp'[Target(x)'] = Document(Target(x)', View(x)')
                    /\ req'[x].pc = "commit" => file'[Target(x)'] = Document(Target(x)', View(x)')
  BY DEF Undisturbed, Others
<1>1. x \in Requests /\ r \in Others(x) /\ Undisturbed(x)
  BY DEF Others, FileInv
<1>2. /\ \A q \in Others(x) : Pending(q) = {}
      /\ req[x].pc = "replace" => tmp[Target(x)] = Document(Target(x), View(x))
      /\ req[x].pc = "commit" => file[Target(x)] = Document(Target(x), View(x))
  BY <1>1 DEF Undisturbed
<1>3. Pending(r) = {} /\ DOMAIN own'[r] = {} /\ UNCHANGED disk /\ \A k \in Keys : db'[k] = db[k]
  BY <1>1, <1>2
<1>4. \A q \in Others(x) : Pending(q)' = {}
  BY <1>2, <1>3 DEF Pending, Others
<1>5. Target(x)' = Target(x) /\ Target(x) \in Files
  BY DEF Target, Same, Files
<1>6. \A k \in Keys : View(x)'[k] = View(x)[k]
  BY <1>3 DEF View
<1>7. Document(Target(x), View(x)') = Document(Target(x), View(x))
  BY <1>5, <1>6, DocumentFor
<1> QED
  BY <1>2, <1>3, <1>4, <1>5, <1>7 DEF disk

\* r has not replaced a file, nor committed.
LEMMA AccountedKept ==
  ASSUME TypeOK, Roles, FileInv, NEW r \in Requests, NEW pc \in Pc, Moved(r, pc),
         req[r].pc # "commit", file' = file, db' = db,
         \A f \in Files : stale[f] => stale'[f],
         NEW f \in Files
  PROVE  Accounted(f)'
<1>1. Accounted(f)
  BY DEF FileInv
<1>2. CASE \E x \in Requests : Replaced(x) /\ Target(x) = f
  <2>1. PICK x \in Requests : Replaced(x) /\ Target(x) = f
    BY <1>2
  <2>2. x \in Others(r)
    BY <2>1 DEF Replaced, Others
  <2>3. Replaced(x)' /\ Target(x)' = f
    BY <2>1, <2>2 DEF Replaced, Target, Moved, Same
  <2> QED
    BY <2>3 DEF Accounted
<1>3. CASE file[f] = Document(f, db) \/ stale[f]
  BY <1>3 DEF Accounted
<1> QED
  BY <1>1, <1>2, <1>3 DEF Accounted

LEMMA NextFile ==
  ASSUME TypeOK, Roles, OwnInv, FileInv, NEW r \in Requests, StartAny(r) \/ Step(r) \/ Fails(r)
  PROVE  FileInv'
<1> USE OpsApart
<1>0. Holding(req[r], Pending(r)) /\ Steps(req[r]) /\ req[r] \in Request
  BY DEF OwnInv, Roles, Fits, TypeOK
<1> DEFINE Domains == DOMAIN file' = Files /\ DOMAIN tmp' = Files
           Goal == /\ Domains
                   /\ \A x \in Requests : Undisturbed(x)'
                   /\ \A f \in Files : Accounted(f)'
<1> SUFFICES Goal
  BY DEF FileInv
<1>d. UNCHANGED disk => Domains
  BY DEF FileInv, disk
<1>1. CASE StartAny(r)
  <2>1. /\ Begins(r, req'[r]) /\ req[r].pc = "new" /\ req' \in [Requests -> Request]
        /\ \A q \in Others(r) : req'[q] = req[q]
        /\ UNCHANGED <<db, disk, own, stale>>
    BY <1>1, StartEnds
  <2>2. Pending(r) = {}
    BY <1>0, <2>1 DEF Holding
  <2>3. Undisturbed(r)'
    BY <2>1 DEF Undisturbed, Begins
  <2>4. ASSUME NEW x \in Others(r) PROVE Undisturbed(x)'
    BY <2>1, <2>2, <2>4, OthersUndisturbed DEF Same, Pending
  <2>5. ASSUME NEW f \in Files PROVE Accounted(f)'
    <3>1. Accounted(f) /\ file' = file
      BY <2>1 DEF FileInv, disk
    <3>2. \A x \in Requests : Replaced(x) => Replaced(x)' /\ Target(x)' = Target(x)
      BY <2>1 DEF Replaced, Target, Others
    <3> QED
      BY <2>1, <3>1, <3>2 DEF Accounted
  <2> QED
    BY <1>d, <2>1, <2>3, <2>4, <2>5 DEF Others, disk
\* A statement of r wrote rows.
<1>2. ASSUME NEW rows, NEW pc \in {"lock", "write", "commit"}, Stated(r, rows, pc),
             UNCHANGED <<db, disk, stale>>,
             req[r].pc \in {"insert", "cascade", "delete", "child", "import", "save"}
      PROVE  Goal
  <2>1. Moved(r, pc) /\ Lonely(r) /\ req'[r].alone = req[r].alone
    BY <1>2 DEF Stated
  <2>2. ~req'[r].alone
    BY <1>0, <1>2, <2>1 DEF Steps
  <2>3. \A x \in Requests : Undisturbed(x)'
    BY <2>1, <2>2 DEF Undisturbed, Lonely, Others
  <2>4. \A f \in Files : Accounted(f)'
    BY <1>2, <2>1, AccountedKept DEF Pc, disk
  <2> QED
    BY <1>2, <1>d, <2>3, <2>4
\* r goes on without a statement or ends, having replaced nothing.
<1>3. ASSUME NEW pc \in {"commit", "write", "save", "failed"}, Moved(r, pc),
             req'[r].alone = req[r].alone, own' = own \/ DOMAIN own'[r] = {},
             UNCHANGED <<db, disk>>, \A f \in Files : stale[f] => stale'[f],
             req[r].pc \in {"child", "lock"} \/ pc = "failed", req[r].pc # "commit"
      PROVE  Goal
  <2>1. Undisturbed(r)'
    BY <1>0, <1>3 DEF Undisturbed, Moved, Steps
  <2>2. ASSUME NEW x \in Others(r) PROVE Undisturbed(x)'
    BY <1>3, <2>2, OthersUndisturbed DEF Moved, Others, Pending
  <2>3. \A f \in Files : Accounted(f)'
    BY <1>3, AccountedKept DEF Pc, disk
  <2> QED
    BY <1>3, <1>d, <2>1, <2>2, <2>3 DEF Others
<1>4. ASSUME Rollback(r), UNCHANGED <<db, disk>> PROVE Goal
  <2>1. Moved(r, "failed") /\ req'[r].alone = req[r].alone /\ DOMAIN own'[r] = {}
    BY <1>4, RollbackMoves
  <2>2. \A f \in Files : stale[f] => stale'[f]
    BY <1>4, RollbackEnds
  <2>3. CASE req[r].pc # "commit"
    BY <1>4, <2>1, <2>2, <2>3, <1>3
  <2>4. CASE req[r].pc = "commit"
    <3>1. \A x \in Others(r) : Undisturbed(x)'
      BY <1>4, <2>1, OthersUndisturbed DEF Moved, Others, Pending
    <3>2. Undisturbed(r)'
      BY <2>1 DEF Undisturbed, Moved
    <3>3. ASSUME NEW f \in Files PROVE Accounted(f)'
      <4>1. Accounted(f) /\ file' = file
        BY <1>4 DEF FileInv, disk
      <4>2. CASE Replaced(r) /\ Target(r) = f
        BY <4>2, <2>4, <1>4, RollbackEnds DEF Accounted, Replaced
      <4>3. \A x \in Others(r) : Replaced(x) => Replaced(x)' /\ Target(x)' = Target(x)
        BY <2>1 DEF Replaced, Target, Moved, Same
      <4> QED
        BY <1>4, <2>2, <4>1, <4>2, <4>3 DEF Accounted, Others
    <3> QED
      BY <1>4, <1>d, <3>1, <3>2, <3>3 DEF Others
  <2> QED
    BY <2>3, <2>4
<1>5. CASE Insert(r)
  BY <1>5, InsertEnds, <1>2, <1>4 DEF Insert
<1>6. CASE Cascade(r)
  BY <1>6, CascadeEnds, <1>2 DEF Cascade
<1>7. CASE Delete(r)
  BY <1>7, DeleteEnds, <1>2, <1>4 DEF Delete
<1>8. CASE Child(r)
  <2> DEFINE c == req[r].child
             pc == IF c \in Slots THEN "lock" ELSE "commit"
  <2>1. req[r].pc = "child" /\ UNCHANGED <<db, disk>>
    BY <1>8 DEF Child
  <2>2. CASE Rollback(r)
    BY <2>1, <2>2, <1>4
  <2>3. CASE req[r].op = "share" /\ Goto(r, pc) /\ UNCHANGED stale
    <3>1. pc = "commit"
      BY <2>3, Apart3 DEF Roles, Fits, Works, ShareOps
    <3>2. Moved(r, "commit") /\ own' = own /\ req'[r].alone = req[r].alone
      BY <2>3, <3>1, GotoMoves DEF Pc
    <3> QED
      BY <2>1, <2>3, <3>2, <1>3
  <2>4. CASE Stated(r, One(c, req[r].to), pc) /\ UNCHANGED stale
    BY <2>1, <2>4, <1>2
  <2> QED
    BY <1>8, <2>2, <2>3, <2>4, ChildEnds
<1>9. CASE Import(r)
  BY <1>9, ImportEnds, <1>2 DEF Import
<1>10. CASE Lock(r)
  <2>1. UNCHANGED <<db, disk, stale>> /\ req[r].pc = "lock"
    BY <1>10 DEF Lock
  <2> QED
    BY <1>10, <2>1, LockEnds, <1>3
<1>11. CASE Save(r)
  BY <1>11, SaveEnds, <1>2, <1>4 DEF Save
<1>12. CASE Write(r)
  <2>1. /\ Moved(r, "replace") /\ own' = own /\ db' = db /\ file' = file /\ stale' = stale
        /\ req'[r].alone <=> \A q \in Others(r) : Pending(q) = {}
        /\ tmp' = [tmp EXCEPT ![Target(r)] = Document(Target(r), View(r))]
        /\ req[r].pc = "write"
    BY <1>12, WriteEnds DEF Write
  <2>2. Target(r) \in Files /\ Target(r)' = Target(r) /\ View(r)' = View(r)
    BY <2>1 DEF Target, Files, Moved, Same, View
  <2>3. tmp'[Target(r)] = Document(Target(r), View(r))
    BY <2>1, <2>2 DEF FileInv
  <2>4. Undisturbed(r)'
    BY <2>1, <2>2, <2>3 DEF Undisturbed, Moved, Others, Pending
  <2>5. Pending(r) # {}
    BY <1>0, <2>1 DEF Holding
  <2>6. ASSUME NEW x \in Others(r) PROVE Undisturbed(x)'
    BY <2>1, <2>5, <2>6, OthersUndisturbed DEF Moved, Others
  <2>7. \A f \in Files : Accounted(f)'
    BY <2>1, AccountedKept DEF Pc
  <2> QED
    BY <2>1, <2>4, <2>6, <2>7 DEF Others, FileInv
<1>13. CASE Replace(r)
  <2>1. req[r].pc = "replace" /\ db' = db
    BY <1>13 DEF Replace
  <2>2. CASE Rollback(r) /\ UNCHANGED disk
    BY <2>1, <2>2, <1>4
  <2>3. CASE /\ Moved(r, "commit") /\ req'[r].alone = req[r].alone /\ own' = own /\ UNCHANGED stale
             /\ file' = [file EXCEPT ![Target(r)] = tmp[Target(r)]]
    <3>1. Target(r) \in Files /\ Target(r)' = Target(r) /\ View(r)' = View(r)
      BY <2>1, <2>3 DEF Target, Files, Moved, Same, View
    <3>2. file'[Target(r)] = tmp[Target(r)]
          /\ \A f \in Files \ {Target(r)} : file'[f] = file[f]
      BY <2>3, <3>1 DEF FileInv
    <3>3. Undisturbed(r)
      BY DEF FileInv
    <3>4. Undisturbed(r)'
      BY <2>1, <2>3, <3>1, <3>2, <3>3 DEF Undisturbed, Moved, Others, Pending
    <3>5. Pending(r) # {} /\ req[r].op \in FileOps
      BY <1>0, <2>1 DEF Holding, Steps
    <3>6. ASSUME NEW x \in Others(r) PROVE Undisturbed(x)'
      BY <2>3, <3>5, <3>6, OthersUndisturbed DEF Moved, Others
    <3>7. ASSUME NEW f \in Files PROVE Accounted(f)'
      <4>1. CASE f = Target(r)
        <5>1. Replaced(r)' /\ Target(r)' = f
          BY <2>3, <3>1, <3>5, <4>1 DEF Replaced, Moved, Same
        <5> QED
          BY <5>1 DEF Accounted
      <4>2. CASE f # Target(r)
        <5>1. Accounted(f) /\ file'[f] = file[f]
          BY <3>2, <4>2 DEF FileInv
        <5>2. \A x \in Requests : Replaced(x) => Replaced(x)' /\ Target(x)' = Target(x)
          BY <2>1, <2>3 DEF Replaced, Target, Moved, Same, Others
        <5> QED
          BY <2>1, <2>3, <5>1, <5>2 DEF Accounted
      <4> QED
        BY <4>1, <4>2
    <3>8. Domains
      BY <1>13 DEF FileInv, Replace, disk
    <3> QED
      BY <3>4, <3>6, <3>7, <3>8 DEF Others
  <2> QED
    BY <1>13, <2>2, <2>3, ReplaceEnds
<1>14. CASE Commit(r)
  <2>1. CASE Rollback(r) /\ UNCHANGED db
    BY <1>14, <2>1, <1>4 DEF Commit
  <2>2. CASE /\ Moved(r, "done") /\ DOMAIN own'[r] = {} /\ db' = View(r) /\ stale' = Leaves(r)
    <3>1. UNCHANGED disk /\ req[r].pc = "commit"
      BY <1>14 DEF Commit
    <3>2. Undisturbed(r)'
      BY <2>2 DEF Undisturbed, Moved
    <3>3. Pending(r) = {} => \A k \in Keys : db'[k] = db[k]
      BY <2>2, ViewIs
    <3>4. ASSUME NEW x \in Others(r) PROVE Undisturbed(x)'
      BY <2>2, <3>1, <3>3, <3>4, OthersUndisturbed DEF Moved, Others
    <3>5. ASSUME NEW f \in Files PROVE Accounted(f)'
      <4>1. Accounted(f) /\ file' = file
        BY <3>1 DEF FileInv, disk
      <4>2. ~stale'[f] =>
              /\ req[r].op # "import"
              /\ f = "slots" /\ req[r].op \in {"rename", "delete"} => Pending(r) \cap Slots = {}
              /\ f = Target(r) /\ req[r].op \notin ShareOps => req[r].alone
              /\ f # Target(r) \/ req[r].op \in ShareOps => ~stale[f]
        BY <2>2, Zenon DEF Leaves
      <4>3. CASE stale'[f]
        BY <4>3 DEF Accounted
      <4>4. CASE \E x \in Others(r) : Replaced(x) /\ Target(x) = f
        <5>1. \A x \in Others(r) : Replaced(x) => Replaced(x)' /\ Target(x)' = Target(x)
          BY <2>2 DEF Replaced, Target, Moved, Same
        <5> QED
          BY <4>4, <5>1 DEF Accounted, Others
      <4>5. CASE ~stale'[f] /\ f = Target(r) /\ req[r].op \notin ShareOps
        <5>2. req[r].alone /\ Undisturbed(r)
          BY <4>2, <4>5 DEF FileInv
        <5>1. file[f] = Document(f, View(r))
          BY <3>1, <4>5, <5>2 DEF Undisturbed
        <5> QED
          BY <2>2, <4>1, <5>1 DEF Accounted
      <4>6. CASE /\ ~stale'[f] /\ (f # Target(r) \/ req[r].op \in ShareOps)
                 /\ ~\E x \in Others(r) : Replaced(x) /\ Target(x) = f
        <5>1. file[f] = Document(f, db)
          BY <4>1, <4>2, <4>6 DEF Accounted, Replaced, Others, FileOps
        <5>2. Pending(r) \subseteq Reach(req[r])
          BY <1>0 DEF Holding
        <5>3. /\ \A k \in Pending(r) : View(r)[k] = own[r][k]
              /\ \A k \in Keys \ Pending(r) : View(r)[k] = db[k]
          BY ViewIs
        <5>4. req[r].op \in FileOps \cup ShareOps
          <6>1. req[r].op # "import" /\ req[r].op # None
            BY <1>0, <3>1, <4>2, <4>6 DEF Steps
          <6>2. req[r].op \in Ops \cup {None}
            BY <1>0 DEF Request
          <6> QED
            BY <6>1, <6>2 DEF Ops, FileOps
        <5>5. CASE req[r].op \in ShareOps
          <6>1. req[r].child \in Shares
            BY <5>5 DEF Roles, Fits, Works
          <6>2. Pending(r) \subseteq Shares
            BY <5>2, <5>5, <6>1 DEF Reach
          <6> QED
            BY <2>2, <4>1, <5>1, <5>3, <6>2, Apart3, DocumentSame DEF Accounted, Keys, Children
        <5>6. CASE req[r].op \in SlotOps
          <6>1. req[r].child \in Slots /\ f = "scenarios"
            BY <4>6, <5>6 DEF Roles, Fits, Works, Target, Files
          <6>2. Pending(r) \subseteq Slots
            BY <5>2, <5>6, <6>1 DEF Reach
          <6> QED
            BY <2>2, <4>1, <5>1, <5>3, <6>1, <6>2, Apart3, DocumentSame DEF Accounted, Keys,
               Children
        <5>7. CASE req[r].op \in ScenarioOps
          <6>1. f = "slots"
            BY <4>6, <5>7 DEF Target, Files
          <6>2. req[r].op \in Inserts \cup {"edit", "config"} => req[r].row \in Pks \cup {Config}
            BY DEF Roles, Fits, Works, SaveOps
          <6>3. Pending(r) \cap Slots = {}
            <7>1. CASE req[r].op \in {"rename", "delete"}
              BY <4>2, <4>6, <6>1, <7>1
            <7>2. CASE req[r].op \in Inserts \cup {"edit", "config"}
              BY <5>2, <5>7, <6>2, <7>2, Apart3 DEF Reach
            <7> QED
              BY <5>7, <7>1, <7>2 DEF ScenarioOps, Inserts
          <6> QED
            BY <2>2, <4>1, <5>1, <5>3, <6>1, <6>3, Apart3, DocumentSame DEF Accounted, Keys,
               Children
        <5> QED
          BY <5>4, <5>5, <5>6, <5>7 DEF FileOps
      <4> QED
        BY <4>3, <4>4, <4>5, <4>6
    <3> QED
      BY <1>d, <3>1, <3>2, <3>4, <3>5 DEF Others
  <2> QED
    BY <1>14, <2>1, <2>2, CommitEnds
<1>15. CASE Fails(r)
  BY <1>15, <1>4 DEF Fails
<1> QED
  BY <1>1, <1>5, <1>6, <1>7, <1>8, <1>9, <1>10, <1>11, <1>12, <1>13, <1>14, <1>15 DEF Step

LEMMA InitFile == Init => OwnInv /\ FileInv
<1> SUFFICES ASSUME Init PROVE OwnInv /\ FileInv
  OBVIOUS
<1>1. \A r \in Requests : req[r] = New /\ DOMAIN own[r] = {}
  BY DEF Init, NoRows
<1>2. OwnInv
  BY <1>1, NewFields, Apart3 DEF OwnInv, Holding, Pending, Inserts, Ops, ScenarioOps, SlotOps,
     FileOps
<1>3. \A r \in Requests : Undisturbed(r)
  BY <1>1, NewFields DEF Undisturbed
<1>4. \A f \in Files : Accounted(f)
  BY DEF Init, Accounted
<1> QED
  BY <1>2, <1>3, <1>4 DEF FileInv, Init

\* The files: when no request has uncommitted rows, each file says what the
\* tables say, or was left behind by one of the causes that Leaves names.
THEOREM FilesMirrorTablesHolds == Spec => []FilesMirrorTables
<1>1. Init => OwnInv /\ FileInv
  BY InitFile
<1>2. (TypeOK /\ Roles) /\ (OwnInv /\ FileInv) /\ [Next]_vars => (OwnInv /\ FileInv)'
  <2> SUFFICES ASSUME TypeOK, Roles, OwnInv, FileInv, [Next]_vars PROVE OwnInv' /\ FileInv'
    OBVIOUS
  <2>1. CASE Next
    BY <2>1, NextOwn, NextFile DEF Next
  <2>2. CASE UNCHANGED vars
    <3>1. OwnInv'
      BY <2>2 DEF vars, OwnInv, Pending
    <3>2. \A r \in Requests : Undisturbed(r)'
      BY <2>2 DEF vars, FileInv, Undisturbed, Pending, Others, Target, View
    <3>3. \A f \in Files : Accounted(f)'
      BY <2>2 DEF vars, FileInv, Accounted, Target, Replaced
    <3> QED
      BY <2>2, <3>1, <3>2, <3>3 DEF vars, FileInv
  <2> QED
    BY <2>1, <2>2
<1>3. OwnInv /\ FileInv => FilesMirrorTables
  BY DEF OwnInv, FileInv, FilesMirrorTables, Accounted, Replaced, Holding
<1> QED
  BY <1>1, <1>2, <1>3, TypeCorrect, PTL DEF Spec

-----------------------------------------------------------------------------
(***************************************************************************)
(* The rows: no two transactions have written the same row, and a scenario *)
(* nobody has committed yet is known to nobody but its creator.            *)
(***************************************************************************)

Exclusive == \A q, r \in Requests : q # r => Pending(q) \cap Pending(r) = {}

Newborn(r) ==
  \/ req[r].pc = "done"
  \/ db[r] = None /\ \A q \in Others(r) : r \notin Pending(q) /\ req[q].row # r

RowInv == Exclusive /\ \A r \in Requests : Newborn(r)

\* What a step of r may write: rows nobody else has written, and no scenario
\* of another that is still to come.
Claims(r, rows) ==
  /\ \A q \in Others(r) : Pending(q) \cap DOMAIN rows = {}
  /\ \A q \in Others(r) : req[q].pc # "done" => q \notin DOMAIN rows

\* A step of r either writes rows, or ends its transaction, or does neither.
Effect(r) ==
  \/ UNCHANGED <<db, own>>
  \/ DOMAIN own'[r] = {} /\ (db' = db \/ (db' = View(r) /\ req'[r].pc = "done"))
  \/ /\ db' = db
     /\ \E rows : DOMAIN own'[r] = DOMAIN rows \cup Pending(r) /\ Claims(r, rows)

LEMMA StepEffect ==
  ASSUME TypeOK, Roles, OwnInv, RowInv, NEW r \in Requests, Step(r) \/ Fails(r)
  PROVE  Effect(r)
<1> USE Apart3
<1>0. /\ Fits(req[r]) /\ Keys = Pks \cup Slots \cup Shares \cup {Config}
      /\ req[r].op \in Inserts => req[r].row = r
  BY DEF Roles, OwnInv, Keys, Children
<1>n. /\ \A q \in Others(r) : req[q].pc # "done" => db[q] = None /\ req[r].row # q
      /\ \A q \in Others(r) : req[q].pc # "done" => q \notin Pending(r)
      /\ req[r].pc # "done" => \A q \in Others(r) : r \notin Pending(q)
  BY DEF RowInv, Newborn, Others
<1>v. \A q \in Others(r) : req[q].pc # "done" => View(r)[q] = None
  BY <1>n, <1>0, ViewIs DEF Others
<1>a. ASSUME Rollback(r), UNCHANGED db PROVE Effect(r)
  BY <1>a, RollbackMoves DEF Effect
<1>b. ASSUME NEW rows, NEW pc, Stated(r, rows, pc), UNCHANGED db, Claims(r, rows) PROVE Effect(r)
  BY <1>b DEF Effect, Stated
<1>1. CASE Insert(r)
  <2>1. DOMAIN One(r, req[r].seen) = {r} /\ req[r].pc = "insert"
    BY <1>1, OneIs DEF Insert
  <2>2. Claims(r, One(r, req[r].seen))
    BY <2>1, <1>n DEF Claims, Others
  <2> QED
    BY <1>1, <2>2, <1>a, <1>b, InsertEnds DEF Insert
<1>2. CASE Cascade(r)
  <2>1. Claims(r, [c \in Bearers(r) |-> req[r].to])
    BY <1>2 DEF Claims, Cascade, Granted, Wanted, Free, Bearers, Others
  <2> QED
    BY <1>2, <2>1, <1>b, CascadeEnds DEF Cascade
<1>3. CASE Delete(r)
  <2>1. Claims(r, [k \in Doomed(r) |-> None])
    <3>1. Free(r, Doomed(r))
      BY <1>3 DEF Delete, Granted, Wanted
    <3>2. \A q \in Others(r) : req[q].pc # "done" => q \notin Doomed(r)
      BY <1>v DEF Doomed, Named, Present, Others, Children
    <3> QED
      BY <3>1, <3>2 DEF Claims, Free
  <2> QED
    BY <1>3, <2>1, <1>a, <1>b, DeleteEnds DEF Delete
<1>4. CASE Child(r)
  <2>1. DOMAIN One(req[r].child, req[r].to) = {req[r].child} /\ Free(r, {req[r].child})
    BY <1>4, OneIs DEF Child, Granted, Wanted
  <2>2. req[r].child \in Slots \cup Shares
    BY <1>0, <1>4 DEF Child, Fits, Works, Steps
  <2>3. Claims(r, One(req[r].child, req[r].to))
    BY <2>1, <2>2 DEF Claims, Free, Others
  <2> QED
    BY <1>4, <2>3, <1>a, <1>b, ChildEnds DEF Child, Goto, Effect
<1>5. CASE Import(r)
  <2>1. PICK rows : Stated(r, rows, "commit") /\ DOMAIN rows = Old \cup {r}
    BY <1>5, ImportEnds
  <2>2. req[r].pc = "import" /\ Free(r, Old) /\ UNCHANGED db
    BY <1>5 DEF Import, Granted, Wanted
  <2>3. \A q \in Others(r) : req[q].pc # "done" => q \notin Old
    BY <1>n DEF Old, Present, Others, Children
  <2>4. Claims(r, rows)
    BY <2>1, <2>2, <2>3, <1>n DEF Claims, Free, Others
  <2> QED
    BY <2>1, <2>2, <2>4, <1>b
<1>6. CASE Save(r)
  <2>1. Free(r, {req[r].row}) /\ UNCHANGED db /\ req[r].pc = "save"
    BY <1>6 DEF Save, Granted, Wanted, Free
  <2>2. DOMAIN One(Config, r) = {Config}
        /\ DOMAIN One(req[r].row, Saved(r)) = {req[r].row}
    BY OneIs
  <2>3. req[r].op = "config" => Claims(r, One(Config, r))
    BY <2>1, <2>2, <1>0 DEF Claims, Free, Others, Fits, Works
  <2>4. Claims(r, One(req[r].row, Saved(r)))
    BY <2>1, <2>2, <1>n DEF Claims, Free, Others
  <2> QED
    BY <1>6, <2>1, <2>3, <2>4, <1>a, <1>b, SaveEnds
<1>7. CASE Lock(r) \/ Write(r)
  BY <1>7 DEF Lock, Write, Goto, Effect
<1>8. CASE Replace(r)
  BY <1>8, <1>a DEF Replace, Goto, Effect
<1>9. CASE Commit(r)
  BY <1>9, <1>a, CommitEnds DEF Effect, Moved
<1>10. CASE Fails(r)
  BY <1>10, <1>a DEF Fails
<1> QED
  BY <1>1, <1>2, <1>3, <1>4, <1>5, <1>6, <1>7, <1>8, <1>9, <1>10 DEF Step

LEMMA StepFrom ==
  ASSUME NEW r \in Requests, Step(r) \/ Fails(r)
  PROVE  req[r].pc \notin {"new", "done", "failed"}
BY DEF Step, Fails, Insert, Cascade, Delete, Child, Import, Lock, Save, Write, Replace, Commit,
   Active

LEMMA StepSame ==
  ASSUME TypeOK, Roles, NEW r \in Requests, Step(r) \/ Fails(r)
  PROVE  /\ \A q \in Requests : Same(req'[q], req[q])
         /\ \A q \in Others(r) : req'[q].pc = req[q].pc /\ own'[q] = own[q]
<1>1. \E pc \in Pc : Moved(r, pc)
  <2> USE DEF Pc
  <2>1. CASE Insert(r)
    BY <2>1, InsertEnds, RollbackMoves DEF Stated
  <2>2. CASE Cascade(r)
    BY <2>2, CascadeEnds DEF Stated
  <2>3. CASE Delete(r)
    BY <2>3, DeleteEnds, RollbackMoves DEF Stated
  <2>4. CASE Child(r)
    BY <2>4, ChildEnds, RollbackMoves, GotoMoves DEF Stated
  <2>5. CASE Import(r)
    BY <2>5, ImportEnds DEF Stated
  <2>6. CASE Save(r)
    BY <2>6, SaveEnds, RollbackMoves DEF Stated
  <2>7. CASE Lock(r) \/ Write(r)
    BY <2>7, LockEnds, WriteEnds
  <2>8. CASE Replace(r) \/ Commit(r)
    BY <2>8, ReplaceEnds, CommitEnds, RollbackMoves
  <2>9. CASE Fails(r)
    BY <2>9, RollbackMoves DEF Fails
  <2> QED
    BY <2>1, <2>2, <2>3, <2>4, <2>5, <2>6, <2>7, <2>8, <2>9 DEF Step
<1> QED
  BY <1>1 DEF Moved, Others

LEMMA NextRow ==
  ASSUME TypeOK, Roles, OwnInv, RowInv, NEW r \in Requests, StartAny(r) \/ Step(r) \/ Fails(r)
  PROVE  RowInv'
<1>1. CASE StartAny(r)
  <2>1. /\ Begins(r, req'[r]) /\ req[r].pc = "new" /\ UNCHANGED <<db, own>>
        /\ \A q \in Others(r) : req'[q] = req[q]
    BY <1>1, StartEnds
  <2>2. Exclusive'
    BY <2>1 DEF RowInv, Exclusive, Pending
  <2>3. ASSUME NEW x \in Requests PROVE Newborn(x)'
    <3>1. CASE req[x].pc = "done"
      BY <2>1, <3>1 DEF Newborn, Others
    <3>2. CASE req[x].pc # "done"
      <4>1. db[x] = None /\ \A q \in Others(x) : x \notin Pending(q) /\ req[q].row # x
        BY <3>2 DEF RowInv, Newborn
      <4>2. x # r => req'[r].row # x
        BY <2>1, <4>1, Apart3 DEF Begins, Fits, Works, Inserts, SaveOps
      <4> QED
        BY <2>1, <4>1, <4>2 DEF Newborn, Others, Pending
    <3> QED
      BY <3>1, <3>2
  <2> QED
    BY <2>2, <2>3 DEF RowInv
<1>2. CASE Step(r) \/ Fails(r)
  <2>1. Effect(r) /\ req[r].pc # "done"
    BY <1>2, StepEffect, StepFrom
  <2>2. /\ \A q \in Requests : Same(req'[q], req[q])
        /\ \A q \in Others(r) : req'[q].pc = req[q].pc /\ own'[q] = own[q]
    BY <1>2, StepSame
  <2>3. \/ Pending(r)' \subseteq Pending(r)
        \/ \E rows : Pending(r)' = DOMAIN rows \cup Pending(r) /\ Claims(r, rows)
    BY <2>1 DEF Effect, Pending
  <2>4. Exclusive'
    <3> SUFFICES ASSUME NEW p \in Requests, NEW q \in Requests, p # q
                 PROVE  Pending(p)' \cap Pending(q)' = {}
      BY DEF Exclusive
    <3>1. Pending(p) \cap Pending(q) = {}
      BY DEF RowInv, Exclusive
    <3>2. \A x \in Others(r) : Pending(x)' = Pending(x)
      BY <2>2 DEF Pending
    <3> QED
      BY <2>3, <3>1, <3>2 DEF Claims, Others
  <2>5. ASSUME NEW x \in Requests PROVE Newborn(x)'
    <3>1. CASE req'[x].pc = "done"
      BY <3>1 DEF Newborn
    <3>2. CASE req'[x].pc # "done"
      <4>1. req[x].pc # "done"
        BY <2>1, <2>2, <3>2 DEF Others
      <4>2. db[x] = None /\ \A q \in Others(x) : x \notin Pending(q) /\ req[q].row # x
        BY <4>1 DEF RowInv, Newborn
      <4>3. ASSUME x # r PROVE x \notin Pending(r)'
        BY <2>3, <4>1, <4>2, <4>3 DEF Claims, Others
      <4>4. \A q \in Others(x) : x \notin Pending(q)' /\ req'[q].row # x
        BY <2>2, <4>2, <4>3 DEF Others, Pending, Same
      <4>5. db'[x] = None
        <5>1. x \in Keys
          BY Apart3 DEF Keys
        <5>2. x # r => View(r)[x] = db[x]
          BY <4>2, <5>1, ViewIs DEF Others
        <5> QED
          BY <2>1, <3>2, <4>2, <5>2 DEF Effect
      <4> QED
        BY <4>4, <4>5 DEF Newborn, Others
    <3> QED
      BY <3>1, <3>2
  <2> QED
    BY <2>4, <2>5 DEF RowInv
<1> QED
  BY <1>1, <1>2

-----------------------------------------------------------------------------
(***************************************************************************)
(* The edits: unless a row changed between its reading and its saving, the *)
(* row a request is about to commit is the committed one with one edit     *)
(* more.                                                                   *)
(***************************************************************************)

\* An edit that was answered is in its scenario, or this is gone.
Kept(r) ==
  req[r].pc = "done" /\ req[r].op \in SaveOps =>
    \/ db[req[r].row] # None /\ r \in db[req[r].row].edits
    \/ \E q \in Requests :
         /\ req[q].pc = "done"
         /\ req[q].op = "import" \/ (req[q].op = "delete" /\ req[q].row = req[r].row)

EditOf(r) ==
  LET p == req[r].row IN
  /\ req[r].op \in Inserts /\ req[r].pc \in {"lock", "save"} =>
       r \in Pending(r) /\ own[r][r] = req[r].seen
  /\ req[r].op \in SaveOps \ Inserts /\ req[r].pc \in {"cascade", "lock", "save"} =>
       p \notin Pending(r)
  /\ req[r].op \in SaveOps /\ req[r].pc \in {"write", "replace", "commit"} =>
       p \in Pending(r) /\ own[r][p] = Saved(r) /\ (db[p] = req[r].seen \/ p = r)
  /\ req[r].op = "delete" => Pending(r) \cap Pks \subseteq {p} /\ Pending(r) \cap Slots = {}
  /\ req[r].op \in {"slot create", "slot update", "rename"} =>
       \A c \in Pending(r) \cap Slots : own[r][c] # None
  /\ Kept(r)

EditInv == raced \/ \A r \in Requests : EditOf(r)

\* The scenarios a transaction has written.
LEMMA PksOf ==
  ASSUME TypeOK, Roles, OwnInv, NEW r \in Requests, EditOf(r), NEW p \in Pending(r) \cap Pks
  PROVE  \/ req[r].op = "import"
         \/ req[r].op \in SaveOps \cup {"delete"} /\ p = req[r].row
<1>1. Fits(req[r]) /\ Pending(r) \subseteq Reach(req[r]) /\ req[r].op \in Ops \cup {None}
  BY DEF Roles, OwnInv, Holding, TypeOK, Request
<1>2. Pending(r) # {} => req[r].op # None
  BY <1>1 DEF Fits, Steps, OwnInv, Holding
<1>3. req[r].op \in SlotOps \cup ShareOps => FALSE
  BY <1>1, Apart3 DEF Reach, Fits, Works
<1>4. req[r].op = "config" => FALSE
  BY <1>1, Apart3 DEF Reach, Fits, Works, SlotOps, ShareOps, Inserts
<1>5. req[r].op \in Inserts \cup {"edit", "rename"} => p = req[r].row
  BY <1>1, <1>3, Apart3 DEF Reach
<1>6. req[r].op = "delete" => p = req[r].row
  BY DEF EditOf
<1> QED
  BY <1>1, <1>2, <1>3, <1>4, <1>5, <1>6 DEF Ops, ScenarioOps, SaveOps, Inserts

\* A step of r does not disturb what x has read and written.
LEMMA OthersKept ==
  ASSUME TypeOK, Roles, OwnInv, RowInv, NEW r \in Requests, NEW x \in Others(r),
         \A q \in Requests : EditOf(q), Step(r) \/ Fails(r)
  PROVE  EditOf(x)'
<1>1. /\ x \in Requests /\ r \in Requests /\ x # r /\ EditOf(x) /\ EditOf(r)
      /\ Pending(x) \cap Pending(r) = {}
  BY DEF Others, RowInv, Exclusive
<1>2. /\ Same(req'[x], req[x]) /\ req'[x].pc = req[x].pc /\ own'[x] = own[x]
      /\ \A q \in Requests : Same(req'[q], req[q])
      /\ \A q \in Requests : req[q].pc = "done" => req'[q].pc = "done"
      /\ req[r].pc # "done"
  BY StepSame, StepFrom DEF Others
<1>3. Effect(r)
  BY StepEffect
<1>4. Pending(x)' = Pending(x) /\ Pending(x) \subseteq Keys
  BY <1>2, ViewIs DEF Pending, Others
<1>5. \A p \in Keys \ Pending(r) : db'[p] = db[p]
  BY <1>3, ViewIs DEF Effect
<1>6. req[x].op \in SaveOps => req[x].row \in Pks /\ req[x].row \in Keys
  BY DEF Roles, Fits, Works, Keys, Others
<1>7. Saved(x)' = Saved(x)
  BY <1>2 DEF Saved, Same
<1>8. Kept(x)'
  <2> SUFFICES ASSUME req[x].pc = "done", req[x].op \in SaveOps
               PROVE  \/ db'[req[x].row] # None /\ x \in db'[req[x].row].edits
                      \/ \E q \in Requests :
                           /\ req'[q].pc = "done"
                           /\ \/ req[q].op = "import"
                              \/ req[q].op = "delete" /\ req[q].row = req[x].row
    BY <1>2 DEF Kept, Same
  <2> DEFINE p == req[x].row
  <2>1. \/ db[p] # None /\ x \in db[p].edits
        \/ \E q \in Requests :
             /\ req[q].pc = "done"
             /\ req[q].op = "import" \/ (req[q].op = "delete" /\ req[q].row = p)
    BY <1>1 DEF EditOf, Kept
  <2>2. CASE \E q \in Requests :
             /\ req[q].pc = "done"
             /\ req[q].op = "import" \/ (req[q].op = "delete" /\ req[q].row = p)
    BY <1>2, <2>2
  <2>3. CASE db'[p] = db[p]
    BY <1>2, <2>1, <2>3
  <2>4. CASE db'[p] # db[p] /\ db[p] # None /\ x \in db[p].edits
    <3>1. p \in Pending(r) \cap Pks /\ p \in Keys
      BY <1>5, <1>6, <2>4
    <3>2. db' = View(r) /\ req'[r].pc = "done"
      BY <1>3, <2>4 DEF Effect
    <3>3. db'[p] = own[r][p]
      BY <3>1, <3>2, ViewIs
    <3>4. CASE req[r].op = "import" \/ (req[r].op = "delete" /\ p = req[r].row)
      BY <3>2, <3>4, <1>1
    <3>5. CASE req[r].op \in SaveOps /\ p = req[r].row
      <4>1. req[r].row # r
        BY <1>1, <1>2, <3>5 DEF RowInv, Newborn, Others
      <4>2. Commit(r)
        <5>1. req[r].pc = "commit" \/ db' = db
          BY DEF Step, Fails, Insert, Cascade, Delete, Child, Import, Lock, Save, Write, Replace,
             Commit
        <5> QED
          BY <5>1, <2>4 DEF Step, Fails, Insert, Cascade, Delete, Child, Import, Lock, Save,
             Write, Replace
      <4>3. own[r][p] = Saved(r) /\ db[p] = req[r].seen
        BY <1>1, <3>5, <4>1, <4>2 DEF EditOf, Commit
      <4>4. Saved(r) \in Row /\ req[r].seen.edits \subseteq Saved(r).edits
        BY <3>5 DEF Saved, Row, Roles, Fits, Works
      <4>5. x \in Saved(r).edits /\ Saved(r) # None
        BY <2>4, <4>3, <4>4, Apart3
      <4> QED
        BY <3>3, <4>3, <4>5
    <3> QED
      BY <1>1, <3>1, <3>4, <3>5, PksOf
  <2> QED
    BY <2>1, <2>2, <2>3, <2>4
<1>9. req[x].op \in SaveOps /\ req[x].pc \in {"write", "replace", "commit"} =>
        db'[req[x].row] = db[req[x].row]
  BY <1>1, <1>5, <1>6 DEF EditOf
<1>10. /\ req'[x].op = req[x].op /\ req'[x].row = req[x].row /\ req'[x].seen = req[x].seen
       /\ req'[x].pc = req[x].pc /\ own'[x] = own[x] /\ EditOf(x)
  BY <1>1, <1>2 DEF Same
<1>11. req'[x].op \in Inserts /\ req'[x].pc \in {"lock", "save"} =>
         x \in Pending(x)' /\ own'[x][x] = req'[x].seen
  BY <1>4, <1>10 DEF EditOf
<1>12. req'[x].op \in SaveOps \ Inserts /\ req'[x].pc \in {"cascade", "lock", "save"} =>
         req'[x].row \notin Pending(x)'
  BY <1>4, <1>10 DEF EditOf
<1>13. req'[x].op \in SaveOps /\ req'[x].pc \in {"write", "replace", "commit"} =>
         /\ req'[x].row \in Pending(x)' /\ own'[x][req'[x].row] = Saved(x)'
         /\ db'[req'[x].row] = req'[x].seen \/ req'[x].row = x
  BY <1>4, <1>7, <1>9, <1>10 DEF EditOf
<1>14. req'[x].op = "delete" =>
         Pending(x)' \cap Pks \subseteq {req'[x].row} /\ Pending(x)' \cap Slots = {}
  BY <1>4, <1>10 DEF EditOf
<1>15. req'[x].op \in {"slot create", "slot update", "rename"} =>
         \A c \in Pending(x)' \cap Slots : own'[x][c] # None
  BY <1>4, <1>10 DEF EditOf
<1> QED
  BY <1>8, <1>11, <1>12, <1>13, <1>14, <1>15 DEF EditOf

\* What r itself has read and written.
LEMMA SelfKept ==
  ASSUME TypeOK, Roles, OwnInv, NEW r \in Requests, EditOf(r), Step(r) \/ Fails(r), ~raced'
  PROVE  EditOf(r)'
<1> DEFINE q == req[r]
           p == q.row
           pc == req'[r].pc
           rows == own'[r]
           S == DOMAIN rows
           Read == /\ q.op \in Inserts /\ pc \in {"lock", "save"} => r \in S /\ rows[r] = q.seen
                   /\ q.op \in SaveOps \ Inserts /\ pc \in {"cascade", "lock", "save"} => p \notin S
           Wrote == q.op \in SaveOps /\ pc \in {"write", "replace", "commit"} =>
                      p \in S /\ rows[p] = Saved(r) /\ (db'[p] = q.seen \/ p = r)
           Removed == q.op = "delete" => S \cap Pks \subseteq {p} /\ S \cap Slots = {}
           Carried == q.op \in {"slot create", "slot update", "rename"} =>
                        \A c \in S \cap Slots : rows[c] # None
           Goal == Read /\ Wrote /\ Removed /\ Carried /\ Kept(r)'
<1>g. SUFFICES Goal
  <2>1. Same(req'[r], q)
    BY StepSame
  <2>2. req'[r].op = q.op /\ req'[r].row = p /\ req'[r].seen = q.seen /\ Saved(r)' = Saved(r)
    BY <2>1 DEF Same, Saved
  <2>3. Pending(r)' = S
    BY DEF Pending
  <2> HIDE DEF q, p, pc, rows, S
  <2> QED
    BY <2>2, <2>3 DEF EditOf, q, p, pc, rows, S
<1>0. /\ Fits(q) /\ q \in Request /\ EditOf(r) /\ Pending(r) \subseteq Reach(q)
      /\ q.pc \in {"new", "done", "failed"} => Pending(r) = {}
      /\ q.op \in Inserts => p = r
  BY DEF Roles, TypeOK, OwnInv, Holding
<1>k. pc # "done" => Kept(r)'
  BY DEF Kept
<1>a. ASSUME Rollback(r) PROVE Goal
  <2>1. pc = "failed" /\ S = {}
    BY <1>a, RollbackMoves DEF Moved
  <2> HIDE DEF q, p, pc, rows, S
  <2> QED
    BY <2>1, <1>k
<1> HIDE DEF Goal
<1>1. CASE Insert(r)
  <2>1. CASE Rollback(r)
    BY <2>1, <1>a
  <2>2. CASE Stated(r, One(r, q.seen), "lock")
    <3>1. q.op \in Inserts
      BY <1>0, <1>1 DEF Insert, Fits, Steps
    <3>2. pc = "lock" /\ r \in S /\ rows[r] = q.seen
      BY <2>2, OneIs DEF Stated, Moved
    <3> HIDE DEF q, p, pc, rows, S
    <3> QED
      BY <3>1, <3>2, <1>k DEF Goal, Inserts, SaveOps
  <2> QED
    BY <1>1, <2>1, <2>2, InsertEnds
<1>2. CASE Cascade(r)
  <2>1. q.op = "rename" /\ q.pc = "cascade" /\ p \in Pks /\ q.to # None
    BY <1>0, <1>2, Apart3 DEF Cascade, Fits, Works, Steps, SaveOps
  <2>2. /\ pc = "lock" /\ S = Bearers(r) \cup Pending(r)
        /\ \A c \in Bearers(r) : rows[c] = q.to
        /\ \A c \in Pending(r) \ Bearers(r) : rows[c] = own[r][c]
    BY <1>2, CascadeEnds DEF Stated, Moved
  <2>3. /\ p \notin Pending(r) /\ p \notin Bearers(r)
        /\ \A c \in Pending(r) \cap Slots : own[r][c] # None
    BY <1>0, <2>1, Apart3 DEF EditOf, Bearers, SaveOps, Inserts
  <2> HIDE DEF q, p, pc, rows, S
  <2> QED
    BY <2>1, <2>2, <2>3, <1>k DEF Goal, Inserts
<1>3. CASE Delete(r)
  <2>1. CASE Rollback(r)
    BY <2>1, <1>a
  <2>2. CASE Stated(r, [k \in Doomed(r) |-> None], "write") /\ ~Rollback(r)
    <3>1. q.op = "delete" /\ q.slots = {} /\ q.pc = "delete"
      BY <1>0, <1>3 DEF Delete, Fits, Works, Steps
    <3>2. Named(View(r), q.name) = {p} /\ Doomed(r) \cap Slots = {}
      BY <1>3, <2>2, <3>1 DEF Delete, Doomed
    <3>3. pc = "write" /\ S = Doomed(r) \cup Pending(r)
      BY <2>2 DEF Stated, Moved
    <3>4. Pending(r) \cap Pks \subseteq {p} /\ Pending(r) \cap Slots = {}
      BY <1>0, <3>1 DEF EditOf
    <3>5. Doomed(r) \cap Pks \subseteq {p}
      BY <3>2, Apart3 DEF Doomed, Children
    <3> HIDE DEF q, p, pc, rows, S
    <3> QED
      BY <3>1, <3>2, <3>3, <3>4, <3>5, <1>k DEF Goal, Inserts, SaveOps
  <2> QED
    BY <1>3, <2>1, <2>2, DeleteEnds
<1>4. CASE Child(r)
  <2>1. q.op \in SlotOps \cup ShareOps
    BY <1>0, <1>4 DEF Child, Fits, Steps
  <2>2. q.op \in {"slot create", "slot update"} => q.to # None
    BY <1>0, Apart3 DEF Fits, Works
  <2>3. q.op \in {"slot create", "slot update"} => \A c \in Pending(r) \cap Slots : own[r][c] # None
    BY <1>0 DEF EditOf
  <2>4. CASE Rollback(r)
    BY <2>4, <1>a
  <2>5. CASE pc \in {"lock", "commit"} /\ rows = own[r]
    <3> HIDE DEF q, p, pc, rows
    <3> QED
      BY <2>1, <2>3, <2>5, <1>k DEF Goal, Inserts, SaveOps, SlotOps, ShareOps, Pending
  <2>6. CASE /\ pc \in {"lock", "commit"} /\ S = {q.child} \cup Pending(r)
             /\ rows[q.child] = q.to
             /\ \A c \in Pending(r) \ {q.child} : rows[c] = own[r][c]
    <3> HIDE DEF q, p, pc, rows, S
    <3> QED
      BY <2>1, <2>2, <2>3, <2>6, <1>k DEF Goal, Inserts, SaveOps, SlotOps, ShareOps
  <2> DEFINE next == IF q.child \in Slots THEN "lock" ELSE "commit"
  <2>7. next \in {"lock", "commit"} /\ next \in Pc
    BY DEF Pc
  <2>8. CASE Goto(r, next)
    <3>1. req'[r].pc = next /\ own' = own
      BY <2>7, <2>8, GotoMoves DEF Moved
    <3> QED
      BY <2>5, <2>7, <3>1
  <2>9. CASE Stated(r, One(q.child, q.to), next)
    <3>1. /\ req'[r].pc = next /\ DOMAIN own'[r] = {q.child} \cup Pending(r)
          /\ own'[r][q.child] = q.to
          /\ \A c \in Pending(r) \ {q.child} : own'[r][c] = own[r][c]
      BY <2>9, StatedOne
    <3> QED
      BY <2>6, <2>7, <3>1
  <2>10. Rollback(r) \/ Goto(r, next) \/ Stated(r, One(q.child, q.to), next)
    BY <1>4, ChildEnds
  <2> QED
    BY <2>4, <2>8, <2>9, <2>10
<1>5. CASE Import(r)
  <2>1. q.op = "import" /\ pc = "commit"
    BY <1>0, <1>5, ImportEnds DEF Import, Fits, Steps, Stated, Moved
  <2> HIDE DEF q, p, pc, rows, S
  <2> QED
    BY <2>1, <1>k DEF Goal, Inserts, SaveOps
<1>6. CASE Lock(r)
  <2>1. /\ q.pc = "lock" /\ rows = own[r] /\ pc \in {"write", "save"}
        /\ pc = "write" => q.op \in SlotOps
    BY <1>6, LockEnds DEF Lock, Moved
  <2>2. S = Pending(r)
    BY <2>1 DEF Pending
  <2> HIDE DEF q, p, pc, rows, S
  <2> QED
    BY <1>0, <2>1, <2>2, <1>k DEF Goal, EditOf, Inserts, SaveOps, SlotOps, q, p
<1>7. CASE Save(r)
  <2>1. q.pc = "save" /\ db' = db
    BY <1>7 DEF Save
  <2>2. CASE Rollback(r)
    BY <2>2, <1>a
  <2>3. CASE q.op = "config" /\ Stated(r, One(Config, r), "write")
    <3>1. pc = "write"
      BY <2>3 DEF Stated, Moved
    <3> HIDE DEF q, p, pc, rows, S
    <3> QED
      BY <2>3, <3>1, <1>k DEF Goal, Inserts, SaveOps
  <2>4. CASE /\ q.op \in SaveOps /\ ~Rollback(r)
             /\ Stated(r, One(p, Saved(r)), "write")
    <3>1. /\ pc = "write" /\ S = {p} \cup Pending(r) /\ rows[p] = Saved(r)
          /\ \A k \in Pending(r) \ {p} : rows[k] = own[r][k]
      BY <2>4, StatedOne
    <3>2. View(r)[p] = q.seen
      BY <1>7, <2>4 DEF Save, SaveOps, Inserts
    <3>3. p \in Pks
      BY <1>0, <2>4 DEF Fits, Works
    <3>4. q.op \notin Inserts => db[p] = q.seen
      BY <1>0, <2>1, <2>4, <3>2, <3>3, ViewIs DEF EditOf, Keys
    <3>5. q.op = "rename" => \A c \in Pending(r) \cap Slots : own[r][c] # None
      BY <1>0 DEF EditOf
    <3> HIDE DEF q, p, pc, rows, S
    <3> QED
      BY <1>0, <2>1, <2>4, <3>1, <3>3, <3>4, <3>5, <1>k, Apart3 DEF Goal, SaveOps, Inserts
  <2> QED
    BY <1>7, <2>2, <2>3, <2>4, SaveEnds
<1>8. ASSUME q.pc \in {"write", "replace"}, pc \in {"replace", "commit"}, rows = own[r], db' = db
      PROVE  Goal
  <2>2. S = Pending(r)
    BY <1>8 DEF Pending
  <2> HIDE DEF q, p, pc, rows, S
  <2> QED
    BY <1>0, <1>8, <2>2, <1>k DEF Goal, EditOf, q, p
<1>9. CASE Write(r)
  BY <1>8, <1>9, WriteEnds DEF Write, Moved
<1>10. CASE Replace(r)
  BY <1>a, <1>8, <1>10, ReplaceEnds DEF Replace, Moved
<1>11. CASE Commit(r)
  <2>1. CASE Rollback(r)
    BY <2>1, <1>a
  <2>2. CASE pc = "done" /\ S = {} /\ db' = View(r)
    <3>1. Kept(r)'
      <4> SUFFICES ASSUME q.op \in SaveOps PROVE db'[p] # None /\ r \in db'[p].edits
        BY <1>11, StepSame DEF Kept, Same
      <4>1. p \in Pending(r) /\ own[r][p] = Saved(r)
        BY <1>0, <1>11 DEF EditOf, Commit
      <4>2. View(r)[p] = Saved(r)
        BY <4>1, ViewIs
      <4>3. Saved(r) \in Row /\ r \in Saved(r).edits
        BY <1>0 DEF Fits, Works, Saved, Row
      <4> QED
        BY <2>2, <4>2, <4>3, Apart3
    <3> HIDE DEF q, p, pc, rows, S
    <3> QED
      BY <2>2, <3>1 DEF Goal
  <2> QED
    BY <1>11, <2>1, <2>2, CommitEnds DEF Moved
<1>12. CASE Fails(r)
  BY <1>12, <1>a DEF Fails
<1> QED
  BY <1>1, <1>2, <1>3, <1>4, <1>5, <1>6, <1>7, <1>9, <1>10, <1>11, <1>12 DEF Step

LEMMA NextEdit ==
  TypeOK /\ Roles /\ OwnInv /\ RowInv /\ EditInv /\ [Next]_vars => EditInv'
<1> SUFFICES ASSUME TypeOK, Roles, OwnInv, RowInv, EditInv, [Next]_vars, ~raced'
             PROVE  \A x \in Requests : EditOf(x)'
  BY DEF EditInv
<1>1. CASE UNCHANGED vars
  BY <1>1 DEF vars, EditInv, EditOf, Kept, Pending, Saved
<1>2. ASSUME NEW r \in Requests, StartAny(r) PROVE \A x \in Requests : EditOf(x)'
  <2>1. /\ Begins(r, req'[r]) /\ req[r].pc = "new" /\ UNCHANGED <<db, own, raced>>
        /\ \A q \in Others(r) : req'[q] = req[q]
    BY <1>2, StartEnds
  <2>2. Pending(r) = {}
    BY <2>1 DEF OwnInv, Holding
  <2>3. EditOf(r)'
    BY <2>1, <2>2 DEF EditOf, Begins, Pending, Kept, SaveOps
  <2>4. ASSUME NEW x \in Others(r) PROVE EditOf(x)'
    <3>1. EditOf(x) /\ req'[x] = req[x] /\ x \in Requests
      BY <2>1 DEF EditInv, Others
    <3>2. \A q \in Requests : req[q].pc = "done" => req'[q] = req[q]
      BY <2>1 DEF Others
    <3>3. Kept(x)'
      BY <2>1, <3>1, <3>2 DEF EditOf, Kept
    <3> QED
      BY <2>1, <3>1, <3>3 DEF EditOf, Pending, Saved
  <2> QED
    BY <2>3, <2>4 DEF Others
<1>3. ASSUME NEW r \in Requests, Step(r) \/ Fails(r) PROVE \A x \in Requests : EditOf(x)'
  <2>1. ~raced
    BY <1>3, Zenon DEF Step, Fails, Insert, Cascade, Delete, Child, Import, Lock, Save, Write,
       Replace, Commit
  <2>2. \A x \in Requests : EditOf(x)
    BY <2>1 DEF EditInv
  <2>3. EditOf(r)'
    BY <1>3, <2>2, SelfKept
  <2> QED
    BY <1>3, <2>2, <2>3, OthersKept DEF Others
<1> QED
  BY <1>1, <1>2, <1>3 DEF Next

LEMMA InitRows == Init => RowInv /\ EditInv
<1> SUFFICES ASSUME Init PROVE RowInv /\ \A r \in Requests : EditOf(r)
  BY DEF EditInv
<1>1. \A r \in Requests : req[r] = New /\ Pending(r) = {} /\ db[r] = None
  BY TablesAssumption DEF Init, NoRows, Pending
<1>2. RowInv
  BY <1>1, NewFields, Apart3 DEF RowInv, Exclusive, Newborn, Others
<1>3. \A r \in Requests : EditOf(r)
  BY <1>1, NewFields, Apart3 DEF EditOf, Kept, SaveOps, Inserts, Ops, ScenarioOps, SlotOps
<1> QED
  BY <1>2, <1>3

\* The invariant behind both results: what the transactions hold, and what
\* they have read.
LEMMA RowsCorrect == Spec => [](TypeOK /\ Roles /\ OwnInv /\ RowInv /\ EditInv)
<1> DEFINE Rest == OwnInv /\ RowInv /\ EditInv
<1>1. Init => Rest
  BY InitFile, InitRows
<1>2. (TypeOK /\ Roles) /\ Rest /\ [Next]_vars => Rest'
  <2> SUFFICES ASSUME TypeOK, Roles, Rest, [Next]_vars PROVE Rest'
    OBVIOUS
  <2>1. EditInv'
    BY NextEdit
  <2>2. CASE Next
    BY <2>1, <2>2, NextOwn, NextRow DEF Next
  <2>3. CASE UNCHANGED vars
    <3>1. OwnInv'
      BY <2>3 DEF vars, OwnInv, Pending
    <3>2. RowInv'
      BY <2>3 DEF vars, RowInv, Exclusive, Newborn, Pending
    <3> QED
      BY <2>1, <3>1, <3>2
  <2> QED
    BY <2>2, <2>3
<1> QED
  BY <1>1, <1>2, TypeCorrect, PTL DEF Spec

\* An edit that was answered with success stays in its scenario until this
\* is deleted or the catalog imported, unless somebody saved a row that had
\* changed since it read it (save() writes the whole row).
THEOREM EditsSurviveHolds == Spec => []EditsSurvive
<1>1. EditInv => EditsSurvive
  BY DEF EditInv, EditOf, Kept, EditsSurvive, SaveOps, Inserts
<1> QED
  BY <1>1, RowsCorrect, PTL

\* A slot disappears by its own deletion or by an import: delete_owned_scenario
\* takes none with its scenario, unless it was added after the check.
THEOREM SlotsStayHolds == Spec => SlotsStay
<1> DEFINE Stay == \A c \in Slots : db[c] # None /\ db'[c] = None =>
                     \/ \E r \in Requests : Commit(r) /\ req[r].op \in {"slot delete", "import"}
                     \/ raced
<1>1. (TypeOK /\ Roles /\ OwnInv /\ RowInv /\ EditInv) /\ [Next]_vars => [Stay]_vars
  <2> SUFFICES ASSUME TypeOK, Roles, OwnInv, RowInv, EditInv, Next, ~raced,
                      NEW c \in Slots, db[c] # None, db'[c] = None
               PROVE  \E r \in Requests : Commit(r) /\ req[r].op \in {"slot delete", "import"}
    BY DEF vars
  <2>1. PICK r \in Requests : StartAny(r) \/ Step(r) \/ Fails(r)
    BY DEF Next
  <2>2. Commit(r)
    <3>1. ~StartAny(r)
      BY StartEnds
    <3> QED
      BY <2>1, <3>1 DEF Step, Fails, Insert, Cascade, Delete, Child, Import, Lock, Save, Write,
         Replace
  <2>3. db' = View(r)
    BY <2>2, CommitEnds
  <2>4. c \in Pending(r) /\ own[r][c] = None
    BY <2>3, ViewIs DEF Keys, Children
  <2>5. Fits(req[r]) /\ EditOf(r) /\ Pending(r) \subseteq Reach(req[r]) /\ req[r].op \in Ops
    BY <2>2 DEF Roles, EditInv, OwnInv, Holding, TypeOK, Request, Fits, Steps, Commit
  <2>6. req[r].op \notin {"slot create", "slot update", "rename", "delete"}
    BY <2>4, <2>5 DEF EditOf
  <2>7. req[r].op \notin Inserts \cup {"edit", "config"} \cup ShareOps
    <3>1. req[r].op \in ShareOps => c \in Shares
      BY <2>4, <2>5 DEF Reach, Fits, Works
    <3>2. req[r].op \in Inserts \cup {"edit", "config"} => c \in Pks \cup {Config}
      BY <2>4, <2>5 DEF Reach, Fits, Works, SaveOps, Inserts, SlotOps, ShareOps
    <3> QED
      BY <3>1, <3>2, Apart3
  <2> QED
    BY <2>2, <2>5, <2>6, <2>7 DEF Ops, ScenarioOps, SlotOps, Inserts
<1> QED
  BY <1>1, RowsCorrect, PTL DEF Spec, SlotsStay

-----------------------------------------------------------------------------
(***************************************************************************)
(* Who waits for whom: whoever writes a file waits for nobody; who commits *)
(* waits only for one who commits and waits for nobody, since it has the   *)
(* name it refers to for itself; who saves waits only for a name, and that *)
(* for one who has inserted it and waits for the lock of the same name;    *)
(* and for the lock one waits for a request that saves. What is left is    *)
(* the circle of Embraced. It takes no finite number of requests.          *)
(***************************************************************************)

Gives(r, p, n) == p \in Pending(r) /\ own[r][p] # None /\ own[r][p].name = n

\* What a request has written at each of its steps.
Writes(r) ==
  LET q == req[r] IN
  /\ q.pc \in {"insert", "cascade", "delete", "child", "import"} => Pending(r) = {}
  /\ q.pc \in {"lock", "save"} =>
       IF q.op \in Inserts THEN Gives(r, r, q.to) ELSE Pending(r) \cap (Pks \cup {Config}) = {}
  /\ q.pc \in {"write", "replace", "commit"} /\ q.op \in SaveOps => Gives(r, q.row, q.to)
  /\ \A c \in Pending(r) \cap Children :
       /\ q.op = "rename" => own[r][c] = q.to
       /\ q.op \in {"delete", "import"} => own[r][c] = None

\* No two transactions give one name, and whoever gives one has changed the
\* scenario that had it.
NamesApart ==
  \A q, r \in Requests : q # r =>
    \A k \in Pending(q) \cap Pks, p \in Pending(r) \cap Pks :
      own[q][k] # None /\ own[r][p] # None => own[q][k].name # own[r][p].name

NamesTaken ==
  \A r \in Requests : \A p \in Pending(r) \cap Pks :
    own[r][p] # None => Named(db, own[r][p].name) \subseteq Pending(r)

WaitInv == NamesApart /\ NamesTaken /\ \A r \in Requests : Writes(r)

\* A row that gives no name another transaction gives, and takes the name over.
Fresh(r, rows) ==
  \A p \in DOMAIN rows \cap Pks : rows[p] # None =>
    /\ FreeName(r, rows[p].name)
    /\ Named(db, rows[p].name) \subseteq Pending(r) \cup DOMAIN rows

\* What a step of r does to the rows and the names.
NameEffect(r) ==
  \/ UNCHANGED <<db, own>>
  \/ DOMAIN own'[r] = {} /\ (db' = db \/ db' = View(r))
  \/ /\ db' = db
     /\ \E rows, pc : Stated(r, rows, pc) /\ Fresh(r, rows)

LEMMA NoNames ==
  ASSUME NEW r, NEW rows, \A p \in DOMAIN rows \cap Pks : rows[p] = None
  PROVE  Fresh(r, rows)
BY DEF Fresh

LEMMA StepNames ==
  ASSUME TypeOK, Roles, OwnInv, RowInv, WaitInv, NEW r \in Requests, Step(r) \/ Fails(r)
  PROVE  NameEffect(r)
<1> USE Apart3
<1>0. /\ Fits(req[r]) /\ Keys = Pks \cup Slots \cup Shares \cup {Config} /\ Writes(r)
      /\ req[r].op \in Inserts => req[r].row = r
  BY DEF Roles, OwnInv, Keys, Children, WaitInv
<1>a. ASSUME Rollback(r), UNCHANGED db PROVE NameEffect(r)
  BY <1>a, RollbackMoves DEF NameEffect
<1>b. ASSUME NEW rows, NEW pc, Stated(r, rows, pc), UNCHANGED db, Fresh(r, rows)
      PROVE  NameEffect(r)
  BY <1>b DEF NameEffect
<1>t. ASSUME NEW p \in Pks, NEW n, Named(View(r), n) \subseteq {p}
      PROVE  Named(db, n) \subseteq Pending(r) \cup {p}
  BY <1>t, <1>0, ViewIs DEF Named, Present
<1>1. CASE Insert(r)
  <2> DEFINE rows == One(r, req[r].seen)
  <2>1. CASE Rollback(r)
    BY <1>1, <1>a, <2>1 DEF Insert
  <2>2. CASE ~Rollback(r)
    <3>0. /\ req[r].pc = "insert" /\ Granted(r) /\ UNCHANGED db
          /\ Named(View(r), req[r].to) = {}
      BY <1>1, <2>2 DEF Insert
    <3>a. req[r].op # "config"
      BY <1>0, <3>0 DEF Fits, Steps, Inserts
    <3>b. FreeName(r, req[r].to)
      BY <3>0, <3>a DEF Granted
    <3>1. /\ Stated(r, rows, "lock") /\ UNCHANGED db /\ FreeName(r, req[r].to)
          /\ Named(View(r), req[r].to) = {} /\ req[r].pc = "insert"
      BY <1>1, <2>2, <3>0, <3>b, InsertEnds
    <3>2. req[r].seen.name = req[r].to /\ r \in Pks
      BY <1>0, <3>1 DEF Fits, Works, Steps
    <3>3. DOMAIN rows = {r} /\ rows[r] = req[r].seen
      BY OneIs
    <3>4. Named(db, req[r].to) \subseteq Pending(r) \cup {r}
      BY <1>t, <3>1, <3>2
    <3>5. Fresh(r, rows)
      BY <3>1, <3>2, <3>3, <3>4 DEF Fresh
    <3> QED
      BY <1>b, <3>1, <3>5
  <2> QED
    BY <2>1, <2>2
<1>2. CASE Cascade(r)
  <2>1. Fresh(r, [c \in Bearers(r) |-> req[r].to])
    BY NoNames DEF Bearers
  <2> QED
    BY <1>2, <2>1, <1>b, CascadeEnds DEF Cascade
<1>3. CASE Delete(r)
  <2>1. Fresh(r, [k \in Doomed(r) |-> None])
    BY NoNames
  <2> QED
    BY <1>3, <2>1, <1>a, <1>b, DeleteEnds DEF Delete
<1>4. CASE Child(r)
  <2>1. DOMAIN One(req[r].child, req[r].to) = {req[r].child}
    BY OneIs
  <2>2. req[r].child \in Slots \cup Shares
    BY <1>0, <1>4 DEF Child, Fits, Works, Steps
  <2>3. Fresh(r, One(req[r].child, req[r].to))
    BY <2>1, <2>2, NoNames
  <2> QED
    BY <1>4, <2>3, <1>a, <1>b, ChildEnds DEF Child, Goto, NameEffect
<1>5. CASE Import(r)
  <2> DEFINE rows == [k \in Old \cup {r} |->
                        IF k = r THEN [name |-> req[r].to, edits |-> {}] ELSE None]
  <2>1. Statement(r, rows, "commit") /\ UNCHANGED db /\ FreeName(r, req[r].to)
        /\ req[r].pc = "import" /\ req[r].op = "import"
    BY <1>0, <1>5 DEF Import, Granted, Fits, Steps
  <2>2. [name |-> req[r].to, edits |-> {}] \in Row
    BY <1>0, <2>1 DEF Fits, Works, Row
  <2>3. Rows(rows)
    BY <2>2 DEF Rows, Table, Old, Present, Keys
  <2>4. Stated(r, rows, "commit")
    BY <2>1, <2>3, StatementMoves DEF Pc
  <2>5. Named(db, req[r].to) \subseteq DOMAIN rows
    BY DEF Named, Old
  <2>6. Fresh(r, rows)
    BY <2>1, <2>5 DEF Fresh
  <2> QED
    BY <1>b, <2>1, <2>4, <2>6
<1>6. CASE Save(r)
  <2> DEFINE p == req[r].row
  <2>1. CASE Rollback(r)
    BY <1>6, <1>a, <2>1 DEF Save
  <2>2. CASE req[r].op = "config" /\ ~Rollback(r)
    <3>1. Stated(r, One(Config, r), "write") /\ UNCHANGED db
      BY <1>6, <2>2, SaveEnds DEF Save, SaveOps, Inserts
    <3>a. DOMAIN One(Config, r) = {Config}
      BY OneIs
    <3>2. Fresh(r, One(Config, r))
      BY <3>a, NoNames
    <3> QED
      BY <1>b, <3>1, <3>2
  <2>3. CASE req[r].op # "config" /\ ~Rollback(r)
    <3>1. /\ Stated(r, One(p, Saved(r)), "write") /\ UNCHANGED db /\ FreeName(r, req[r].to)
          /\ Named(View(r), req[r].to) \subseteq {p} /\ req[r].op \in SaveOps
      BY <1>6, <2>3, SaveEnds DEF Save, Granted
    <3>2. DOMAIN One(p, Saved(r)) = {p} /\ One(p, Saved(r))[p] = Saved(r)
          /\ Saved(r).name = req[r].to /\ p \in Pks
      BY <1>0, <3>1, OneIs DEF Saved, Fits, Works
    <3>3. Named(db, req[r].to) \subseteq Pending(r) \cup {p}
      BY <1>t, <3>1, <3>2
    <3>4. Fresh(r, One(p, Saved(r)))
      BY <3>1, <3>2, <3>3 DEF Fresh
    <3> QED
      BY <1>b, <3>1, <3>4
  <2> QED
    BY <2>1, <2>2, <2>3
<1>7. CASE Lock(r) \/ Write(r)
  BY <1>7 DEF Lock, Write, Goto, NameEffect
<1>8. CASE Replace(r)
  BY <1>8, <1>a DEF Replace, Goto, NameEffect
<1>9. CASE Commit(r)
  BY <1>9, <1>a, CommitEnds DEF NameEffect
<1>10. CASE Fails(r)
  BY <1>10, <1>a DEF Fails
<1> QED
  BY <1>1, <1>2, <1>3, <1>4, <1>5, <1>6, <1>7, <1>8, <1>9, <1>10 DEF Step
\* The names are kept apart.
LEMMA NamesKept ==
  ASSUME TypeOK, NamesApart, NamesTaken, NEW r \in Requests, NameEffect(r),
         \A q \in Others(r) : own'[q] = own[q]
  PROVE  NamesApart' /\ NamesTaken'
<1>o. \A q \in Requests : q = r \/ (own'[q] = own[q] /\ Pending(q)' = Pending(q))
  BY DEF Others, Pending
<1>1. CASE UNCHANGED <<db, own>>
  BY <1>1 DEF NamesApart, NamesTaken, Pending, Named, Present
<1>2. CASE DOMAIN own'[r] = {} /\ (db' = db \/ db' = View(r))
  <2>1. Pending(r)' = {}
    BY <1>2 DEF Pending
  <2>2. NamesApart'
    BY <2>1, <1>o DEF NamesApart
  <2>3. ASSUME NEW x \in Requests, NEW p \in Pending(x)' \cap Pks, own'[x][p] # None,
               NEW k \in Named(db', own'[x][p].name)
        PROVE  k \in Pending(x)'
    <3>1. x # r /\ own'[x] = own[x] /\ Pending(x)' = Pending(x)
      BY <2>1, <2>3, <1>o
    <3>2. k \in Pks /\ db'[k] # None /\ db'[k].name = own[x][p].name
      BY <2>3, <3>1 DEF Named, Present
    <3>3. \/ db'[k] = db[k]
          \/ k \in Pending(r) /\ db'[k] = own[r][k]
      BY <1>2, <3>2, ViewIs DEF Keys
    <3>4. CASE db'[k] = db[k]
      <4>1. k \in Named(db, own[x][p].name)
        BY <3>2, <3>4 DEF Named, Present
      <4> QED
        BY <4>1, <3>1, <2>3 DEF NamesTaken
    <3>5. CASE k \in Pending(r) /\ db'[k] = own[r][k]
      BY <3>1, <3>2, <3>5, <2>3 DEF NamesApart
    <3> QED
      BY <3>3, <3>4, <3>5
  <2> QED
    BY <2>2, <2>3 DEF NamesTaken
<1>3. ASSUME db' = db, NEW rows, NEW pc, Stated(r, rows, pc), Fresh(r, rows)
      PROVE  NamesApart' /\ NamesTaken'
  <2>1. /\ Pending(r)' = DOMAIN rows \cup Pending(r)
        /\ \A k \in DOMAIN rows : own'[r][k] = rows[k]
        /\ \A k \in Pending(r) \ DOMAIN rows : own'[r][k] = own[r][k]
    BY <1>3 DEF Stated, Pending
  <2>2. ASSUME NEW p \in Pending(r)' \cap Pks, own'[r][p] # None
        PROVE  /\ FreeName(r, own'[r][p].name)
               /\ Named(db, own'[r][p].name) \subseteq Pending(r)'
    <3>1. CASE p \in DOMAIN rows
      BY <2>1, <2>2, <3>1, <1>3 DEF Fresh
    <3>2. CASE p \notin DOMAIN rows
      <4>1. p \in Pending(r) \cap Pks /\ own'[r][p] = own[r][p] /\ own[r][p] # None
        BY <2>1, <2>2, <3>2
      <4>2. FreeName(r, own[r][p].name)
        BY <4>1 DEF NamesApart, FreeName, Others
      <4>3. Named(db, own[r][p].name) \subseteq Pending(r)
        BY <4>1 DEF NamesTaken
      <4> QED
        BY <4>1, <4>2, <4>3, <2>1
    <3> QED
      BY <3>1, <3>2
  <2>3. NamesApart'
    <3> SUFFICES ASSUME NEW x \in Requests, NEW y \in Requests, x # y,
                        NEW k \in Pending(x)' \cap Pks, NEW p \in Pending(y)' \cap Pks,
                        own'[x][k] # None, own'[y][p] # None
                 PROVE  own'[x][k].name # own'[y][p].name
      BY DEF NamesApart
    <3>1. CASE x # r /\ y # r
      BY <3>1, <1>o DEF NamesApart
    <3>2. CASE x = r
      <4>1. y \in Others(r) /\ own'[y] = own[y] /\ p \in Pending(y) \cap Pks
        BY <3>2, <1>o DEF Others
      <4>2. FreeName(r, own'[r][k].name)
        BY <2>2, <3>2
      <4> QED
        BY <4>1, <4>2, <3>2 DEF FreeName
    <3>3. CASE y = r
      <4>1. x \in Others(r) /\ own'[x] = own[x] /\ k \in Pending(x) \cap Pks
        BY <3>3, <1>o DEF Others
      <4>2. FreeName(r, own'[r][p].name)
        BY <2>2, <3>3
      <4> QED
        BY <4>1, <4>2, <3>3 DEF FreeName
    <3> QED
      BY <3>1, <3>2, <3>3
  <2>4. \A n : Named(db', n) = Named(db, n)
    BY <1>3
  <2>5. NamesTaken'
    <3> SUFFICES ASSUME NEW x \in Requests, NEW p \in Pending(x)' \cap Pks, own'[x][p] # None
                 PROVE  Named(db', own'[x][p].name) \subseteq Pending(x)'
      BY DEF NamesTaken
    <3>1. CASE x = r
      BY <3>1, <2>2, <2>4
    <3>2. CASE x # r
      BY <3>2, <1>o, <2>4 DEF NamesTaken
    <3> QED
      BY <3>1, <3>2
  <2> QED
    BY <2>3, <2>5
<1> QED
  BY <1>1, <1>2, <1>3 DEF NameEffect


\* What r has written, after each of its steps.
LEMMA WritesKept ==
  ASSUME TypeOK, Roles, OwnInv, RowInv, WaitInv, NEW r \in Requests, Step(r) \/ Fails(r)
  PROVE  Writes(r)'
<1> USE Apart3
<1>0. /\ Fits(req[r]) /\ Writes(r) /\ Holding(req[r], Pending(r))
      /\ req[r].op \in Inserts => req[r].row = r
      /\ Same(req'[r], req[r])
  BY StepSame DEF Roles, OwnInv, WaitInv
<1>s. req'[r].op = req[r].op /\ req'[r].row = req[r].row /\ req'[r].to = req[r].to
  BY <1>0 DEF Same
<1>o. /\ SaveOps \cap {"config", "delete", "import"} = {}
      /\ SaveOps \cap SlotOps = {} /\ SaveOps \cap ShareOps = {}
      /\ Inserts \subseteq SaveOps
      /\ {"rename", "delete", "import"} \cap (Inserts \cup SlotOps \cup ShareOps) = {}
  BY DEF SaveOps, Inserts, SlotOps, ShareOps
<1>a. ASSUME Pending(r)' = {}, req'[r].pc \in {"done", "failed"} PROVE Writes(r)'
  BY <1>a DEF Writes
<1>b. ASSUME Rollback(r) PROVE Writes(r)'
  BY <1>a, <1>b, RollbackMoves DEF Moved, Pending
<1>1. CASE Insert(r)
  <2>1. req[r].pc = "insert" /\ req[r].op \in Inserts /\ Pending(r) = {}
    BY <1>0, <1>1 DEF Insert, Fits, Steps, Writes
  <2>2. req[r].seen \in Row /\ req[r].seen.name = req[r].to
    BY <1>0, <1>o, <2>1 DEF Fits, Works
  <2>3. ASSUME Stated(r, One(r, req[r].seen), "lock") PROVE Writes(r)'
    <3>1. req'[r].pc = "lock" /\ Pending(r)' = {r} /\ own'[r][r] = req[r].seen
      BY <2>1, <2>3, StatedOne DEF Pending
    <3>2. Gives(r, r, req[r].to)'
      BY <3>1, <2>2, <1>s DEF Gives
    <3>3. Pending(r)' \cap Children = {}
      BY <3>1 DEF Children
    <3> QED
      BY <3>1, <3>2, <3>3, <2>1, <1>s DEF Writes
  <2> QED
    BY <1>1, <1>b, <2>3, InsertEnds
<1>2. CASE Cascade(r)
  <2>1. req[r].pc = "cascade" /\ req[r].op = "rename" /\ Pending(r) = {}
    BY <1>0, <1>2 DEF Cascade, Fits, Steps, Writes
  <2>2. req'[r].pc = "lock" /\ Pending(r)' = Bearers(r)
        /\ \A c \in Bearers(r) : own'[r][c] = req[r].to
    BY <1>2, <2>1, CascadeEnds DEF Stated, Moved, Pending
  <2>3. Pending(r)' \cap (Pks \cup {Config}) = {}
    BY <2>2 DEF Bearers
  <2> QED
    BY <2>1, <2>2, <2>3, <1>s, <1>o DEF Writes
<1>3. CASE Delete(r)
  <2>1. req[r].pc = "delete" /\ req[r].op = "delete" /\ Pending(r) = {}
    BY <1>0, <1>3 DEF Delete, Fits, Steps, Writes
  <2>2. ASSUME Stated(r, [k \in Doomed(r) |-> None], "write") PROVE Writes(r)'
    <3>1. req'[r].pc = "write" /\ Pending(r)' = Doomed(r)
          /\ \A c \in Doomed(r) : own'[r][c] = None
      BY <2>1, <2>2 DEF Stated, Moved, Pending
    <3> QED
      BY <3>1, <2>1, <1>s, <1>o DEF Writes
  <2> QED
    BY <1>3, <1>b, <2>2, DeleteEnds
<1>4. CASE Child(r)
  <2> DEFINE c == req[r].child
             pc == IF c \in Slots THEN "lock" ELSE "commit"
  <2>1. req[r].pc = "child" /\ req[r].op \in SlotOps \cup ShareOps /\ Pending(r) = {}
        /\ c \in Slots \cup Shares
    BY <1>0, <1>4 DEF Child, Fits, Works, Steps, Writes
  <2>2. ASSUME req'[r].pc = pc, Pending(r)' \subseteq {c} PROVE Writes(r)'
    BY <2>1, <2>2, <1>s, <1>o DEF Writes
  <2>3. ASSUME Goto(r, pc) PROVE Writes(r)'
    <3>1. Moved(r, pc) /\ own' = own
      BY <2>3, GotoMoves DEF Pc
    <3> QED
      BY <3>1, <2>1, <2>2 DEF Moved, Pending
  <2>4. ASSUME Stated(r, One(c, req[r].to), pc) PROVE Writes(r)'
    BY <2>1, <2>2, <2>4, StatedOne DEF Pending
  <2> QED
    BY <1>4, <1>b, <2>3, <2>4, ChildEnds
<1>5. CASE Import(r)
  <2>1. req[r].pc = "import" /\ req[r].op = "import" /\ Pending(r) = {}
    BY <1>0, <1>5 DEF Import, Fits, Steps, Writes
  <2>2. PICK rows : /\ Stated(r, rows, "commit") /\ DOMAIN rows = Old \cup {r}
                    /\ \A k \in Old \ {r} : rows[k] = None
    BY <1>5, ImportEnds
  <2>3. req'[r].pc = "commit" /\ Pending(r)' = Old \cup {r}
        /\ \A k \in Old \ {r} : own'[r][k] = None
    BY <2>1, <2>2 DEF Stated, Moved, Pending
  <2> QED
    BY <2>1, <2>3, <1>s, <1>o DEF Writes, Children
<1>6. CASE Lock(r)
  <2>1. req[r].pc = "lock" /\ own' = own
        /\ req'[r].pc = IF req[r].op \in SlotOps THEN "write" ELSE "save"
    BY <1>6, LockEnds DEF Lock, Moved
  <2> QED
    BY <2>1, <1>0, <1>s, <1>o DEF Writes, Gives, Pending
<1>7. CASE Save(r)
  <2>1. req[r].pc = "save"
    BY <1>7 DEF Save
  <2>2. ASSUME req[r].op = "config", Stated(r, One(Config, r), "write") PROVE Writes(r)'
    BY <2>2, <1>s, <1>o, StatedOne DEF Writes
  <2>3. ASSUME req[r].op \in SaveOps, Stated(r, One(req[r].row, Saved(r)), "write")
        PROVE  Writes(r)'
    <3>1. req[r].row \in Pks /\ req[r].to \in Names /\ req[r].seen \in Row
      BY <1>0, <2>3 DEF Fits, Works
    <3>2. Saved(r) \in Row /\ Saved(r).name = req[r].to
      BY <3>1 DEF Saved, Row
    <3>3. /\ req'[r].pc = "write" /\ Pending(r)' = {req[r].row} \cup Pending(r)
          /\ own'[r][req[r].row] = Saved(r)
          /\ \A c \in Pending(r) \ {req[r].row} : own'[r][c] = own[r][c]
      BY <2>3, StatedOne DEF Pending
    <3>4. Gives(r, req[r].row, req[r].to)'
      BY <3>2, <3>3, <1>s DEF Gives
    <3> QED
      BY <3>1, <3>3, <3>4, <2>3, <1>0, <1>s, <1>o DEF Writes, Children
  <2> QED
    BY <1>7, <1>b, <2>2, <2>3, SaveEnds
<1>8. CASE Write(r) \/ Replace(r)
  <2>1. req[r].pc \in {"write", "replace"}
    BY <1>8 DEF Write, Replace
  <2>2. ASSUME own' = own, req'[r].pc \in {"replace", "commit"} PROVE Writes(r)'
    BY <2>1, <2>2, <1>0, <1>s DEF Writes, Gives, Pending
  <2> QED
    BY <1>8, <1>b, <2>2, WriteEnds, ReplaceEnds DEF Moved
<1>9. CASE Commit(r)
  BY <1>9, <1>a, <1>b, CommitEnds DEF Moved, Pending
<1>10. CASE Fails(r)
  BY <1>10, <1>b DEF Fails
<1> QED
  BY <1>1, <1>2, <1>3, <1>4, <1>5, <1>6, <1>7, <1>8, <1>9, <1>10 DEF Step

LEMMA NextWaits ==
  ASSUME TypeOK, Roles, OwnInv, RowInv, WaitInv, [Next]_vars
  PROVE  WaitInv'
<1>1. CASE UNCHANGED vars
  BY <1>1 DEF vars, WaitInv, NamesApart, NamesTaken, Writes, Gives, Pending, Named, Present
<1>2. ASSUME NEW r \in Requests, StartAny(r) PROVE WaitInv'
  <2>1. /\ Begins(r, req'[r]) /\ req[r].pc = "new" /\ UNCHANGED <<db, own>>
        /\ \A q \in Others(r) : req'[q] = req[q]
    BY <1>2, StartEnds
  <2>2. Pending(r) = {}
    BY <2>1 DEF OwnInv, Holding
  <2>3. Writes(r)'
    <3>1. Pending(r)' = {}
      BY <2>1, <2>2 DEF Pending
    <3>2. req'[r].pc = "lock" => req'[r].op \notin Inserts
      BY <2>1 DEF Begins
    <3>3. req'[r].pc \notin {"save", "write", "replace", "commit"}
      BY <2>1 DEF Begins
    <3> QED
      BY <3>1, <3>2, <3>3 DEF Writes
  <2>4. \A x \in Others(r) : Writes(x)'
    BY <2>1 DEF WaitInv, Writes, Gives, Pending, Others
  <2>5. NamesApart' /\ NamesTaken'
    BY <2>1 DEF WaitInv, NamesApart, NamesTaken, Pending, Named, Present
  <2> QED
    BY <2>3, <2>4, <2>5 DEF WaitInv, Others
<1>3. ASSUME NEW r \in Requests, Step(r) \/ Fails(r) PROVE WaitInv'
  <2>1. /\ \A q \in Requests : Same(req'[q], req[q])
        /\ \A q \in Others(r) : req'[q].pc = req[q].pc /\ own'[q] = own[q]
    BY <1>3, StepSame
  <2>2. Writes(r)'
    BY <1>3, WritesKept
  <2>3. ASSUME NEW x \in Others(r) PROVE Writes(x)'
    <3>1. /\ req'[x].pc = req[x].pc /\ own'[x] = own[x] /\ req'[x].op = req[x].op
          /\ req'[x].row = req[x].row /\ req'[x].to = req[x].to /\ Writes(x)
      BY <2>1 DEF Same, WaitInv, Others
    <3> QED
      BY <3>1 DEF Writes, Gives, Pending
  <2>4. NamesApart' /\ NamesTaken'
    BY <2>1, <1>3, StepNames, NamesKept DEF WaitInv
  <2> QED
    BY <2>2, <2>3, <2>4 DEF WaitInv, Others
<1> QED
  BY <1>1, <1>2, <1>3 DEF Next

LEMMA InitWaits == Init => WaitInv
<1> SUFFICES ASSUME Init PROVE WaitInv
  OBVIOUS
<1>1. \A r \in Requests : req[r] = New /\ Pending(r) = {}
  BY DEF Init, NoRows, Pending
<1> QED
  BY <1>1, NewFields DEF WaitInv, NamesApart, NamesTaken, Writes

LEMMA SomeoneFree == TypeOK /\ Roles /\ OwnInv /\ RowInv /\ WaitInv => SomeoneGoesOn
<1> SUFFICES ASSUME TypeOK, Roles, OwnInv, RowInv, WaitInv, NEW a \in Requests, Active(a),
                    \A r \in Requests : Active(r) => ~Granted(r) /\ ~Embraced(r)
             PROVE  FALSE
  BY DEF SomeoneGoesOn
<1> USE Apart3
<1>0. ASSUME NEW r \in Requests
      PROVE  /\ Fits(req[r]) /\ Writes(r) /\ Pending(r) \subseteq Reach(req[r])
             /\ req[r].op \in Inserts => req[r].row = r
             /\ Pending(r) # {} => Active(r)
             /\ req[r].pc \in Pc /\ req[r].op \in Ops \cup {None}
  BY <1>0 DEF Roles, WaitInv, OwnInv, Holding, Active, TypeOK, Request, Pc
\* Who inserts has written its own scenario, which nobody has committed.
<1>i. ASSUME NEW r \in Requests, req[r].op \in Inserts, req[r].pc # "done"
      PROVE  Pending(r) \subseteq {r} /\ db[r] = None
             /\ \A q \in Others(r) : req[q].row # r
  BY <1>0, <1>i DEF Reach, SlotOps, ShareOps, Inserts, RowInv, Newborn
\* Who waits for a lock, or saves, has written no scenario that others know.
<1>l. ASSUME NEW q \in Requests, req[q].pc \in {"lock", "save"},
             NEW p \in Pending(q) \cap (Pks \cup {Config})
      PROVE  /\ req[q].op \in Inserts /\ p = q /\ Gives(q, q, req[q].to) /\ db[p] = None
             /\ \A r \in Others(q) : req[r].row # p
  BY <1>0, <1>i, <1>l DEF Writes
\* The writing of a file waits for nobody.
<1>1. ASSUME NEW r \in Requests, req[r].pc \in {"write", "replace"} PROVE FALSE
  <2>1. Active(r) /\ Granted(r)
    BY <1>1 DEF Active, Granted, Wanted, Free
  <2> QED
    BY <2>1
<1>p. ASSUME NEW q \in Requests, NEW p \in Pending(q)
      PROVE  Active(q) /\ req[q].pc \in {"lock", "save", "commit"}
  BY <1>0, <1>1, <1>p DEF Writes, Active, Pc
\* A commit waits for one that waits for nobody.
<1>2. ASSUME NEW r \in Requests, req[r].pc = "commit" PROVE FALSE
  <2>1. ~Granted(r)
    BY <1>2 DEF Active
  <2>2. PICK q \in Others(r), p \in Pks :
           p \in Pending(q) /\ db[p] # None /\ db[p].name \in Parents(r)
    BY <1>2, <2>1 DEF Granted, Wanted, Free
  <2>3. q \in Requests /\ Active(q) /\ req[q].pc = "commit"
    BY <2>2, <1>l, <1>p DEF Others
  <2>4. Parents(q) = {} \/ (req[q].op = "rename" /\ Parents(q) \subseteq {req[q].to})
    <3>1. View(q) = [k \in Keys |-> IF k \in Pending(q) THEN own[q][k] ELSE db[k]]
      BY DEF View, Pending
    <3>2. \A c \in Pending(q) \cap Children : View(q)[c] = own[q][c]
      BY <2>3, ViewIs DEF Keys
    <3>3. req[q].op \notin Inserts \cup SlotOps \cup ShareOps \cup {"config"}
      <4>1. req[q].op \notin Inserts
        BY <2>2, <2>3, <1>i
      <4>0. p \in Reach(req[q]) /\ Works(req[q]) /\ p \in Pks
        BY <2>2, <2>3, <1>0 DEF Fits
      <4>2. req[q].op \notin SlotOps \cup ShareOps
        BY <4>0 DEF Reach, Works
      <4>3. req[q].op # "config"
        BY <4>0, <4>2, OpsApart DEF Reach, Works, Inserts
      <4> QED
        BY <4>1, <4>2, <4>3
    <3>4. req[q].op # None
      BY <2>3, <1>0 DEF Fits, Steps
    <3>5. req[q].op \in {"edit", "rename", "delete", "import"}
      BY <2>3, <3>3, <3>4, <1>0 DEF Ops, ScenarioOps, Inserts
    <3>6. CASE req[q].op = "edit"
      <4>1. Pending(q) \cap Children = {}
        BY <2>3, <3>6, <1>0 DEF Reach, Fits, Works, SaveOps, Inserts, SlotOps, ShareOps, Children
      <4> QED
        BY <4>1 DEF Parents
    <3>7. CASE req[q].op = "rename"
      BY <3>2, <3>7, <2>3, <1>0 DEF Parents, Writes
    <3>8. CASE req[q].op \in {"delete", "import"}
      BY <3>2, <3>8, <2>3, <1>0 DEF Parents, Writes
    <3> QED
      BY <3>5, <3>6, <3>7, <3>8
  <2>5. ASSUME NEW x \in Others(q), NEW k \in Pks, k \in Pending(x), db[k] # None,
               db[k].name \in Parents(q)
        PROVE  FALSE
    <3>1. req[q].op = "rename" /\ db[k].name = req[q].to
      BY <2>4, <2>5
    <3>2. Gives(q, req[q].row, req[q].to) /\ req[q].row \in Pks
      BY <3>1, <2>3, <1>0 DEF Writes, SaveOps, Fits, Works
    <3>3. Named(db, req[q].to) \subseteq Pending(q)
      BY <3>2, <2>3 DEF WaitInv, NamesTaken, Gives
    <3>4. k \in Pending(q)
      BY <3>1, <3>3, <2>5 DEF Named, Present
    <3> QED
      BY <3>4, <2>3, <2>5 DEF RowInv, Exclusive, Others
  <2>6. Granted(q)
    BY <2>3, <2>5 DEF Granted, Wanted, Free
  <2> QED
    BY <2>3, <2>6
\* A save waits for no row, and for no name its own transaction gives.
<1>f. ASSUME NEW r \in Requests, req[r].pc = "save" PROVE Free(r, Wanted(r))
  <2>1. Wanted(r) = {req[r].row} \cup Named(db, req[r].to)
    BY <1>f DEF Wanted
  <2>2. req[r].row \in Pks \cup {Config}
    BY <1>f, <1>0 DEF Fits, Works, Steps
  <2>3. ASSUME NEW q \in Others(r), NEW p \in Pending(q), p \in Wanted(r) PROVE FALSE
    <3>1. q \in Requests /\ req[q].pc \in {"lock", "save"} /\ p \in Pks \cup {Config}
      BY <2>1, <2>2, <2>3, <1>p, <1>2 DEF Others, Named, Present
    <3>2. db[p] = None /\ req[r].row # p
      BY <3>1, <1>l DEF Others
    <3> QED
      BY <3>2, <2>1, <2>3 DEF Named, Present
  <2> QED
    BY <2>3 DEF Free
<1>3. ASSUME NEW r \in Requests, req[r].pc = "save" PROVE FALSE
  <2>1. ~Granted(r)
    BY <1>3 DEF Active
  <2>2. req[r].op # "config" /\ ~FreeName(r, req[r].to)
    BY <2>1, <1>3, <1>f DEF Granted
  <2>3. PICK q \in Others(r), p \in Pks :
           p \in Pending(q) /\ own[q][p] # None /\ own[q][p].name = req[r].to
    BY <2>2 DEF FreeName
  <2>4. q \in Requests /\ req[q].pc \in {"lock", "save"} /\ Active(q)
    BY <2>3, <1>p, <1>2 DEF Others
  <2>5. req[q].op \in Inserts /\ p = q /\ Gives(q, q, req[q].to)
    BY <2>3, <2>4, <1>l
  <2>6. req[q].to = req[r].to
    BY <2>3, <2>5 DEF Gives
  <2>7. req[q].key = req[q].to /\ req[q].key # None
    <3>1. req[q].op \in SaveOps /\ Fits(req[q])
      BY <2>4, <2>5, <1>0 DEF SaveOps
    <3> QED
      BY <3>1 DEF Fits, Works
  <2>8. CASE req[q].pc = "save"
    <3>1. FreeName(q, req[q].to)
      BY <2>3, <2>4, <2>5 DEF FreeName, WaitInv, NamesApart, Gives, Others
    <3>2. Granted(q)
      BY <2>8, <3>1, <2>4, <1>f DEF Granted
    <3> QED
      BY <3>2, <2>4
  <2>9. CASE req[q].pc = "lock"
    <3>1. ~Granted(q) /\ ~Embraced(q)
      BY <2>4
    <3>2. PICK h \in Others(q) :
             Holds(h) /\ req[h].key = req[q].key /\ req[h].proc = req[q].proc
      BY <3>1, <2>9 DEF Granted, Wanted, Free
    <3>3. h \in Requests /\ req[h].pc = "save"
      BY <3>2, <1>1 DEF Holds, Others
    <3>4. Embraced(q)
      BY <3>2, <3>3, <2>5, <2>9 DEF Embraced, Inserts
    <3> QED
      BY <3>1, <3>4
  <2> QED
    BY <2>4, <2>8, <2>9
\* The locks are held by those who save or write.
<1>4. ASSUME NEW r \in Requests, req[r].pc = "lock" PROVE FALSE
  <2>1. ~Granted(r)
    BY <1>4 DEF Active
  <2>2. PICK h \in Others(r) : Holds(h)
    BY <1>4, <2>1 DEF Granted, Wanted, Free
  <2> QED
    BY <2>2, <1>1, <1>3 DEF Holds, Others
\* So nobody has written anything, and the rest need not wait.
<1>5. \A q \in Requests : Pending(q) = {}
  BY <1>2, <1>3, <1>4, <1>p
<1>6. req[a].pc \notin {"lock", "commit"}
  BY <1>2, <1>4
<1>7. Granted(a)
  BY <1>5, <1>6 DEF Granted, Free, FreeName, Others
<1> QED
  BY <1>7

\* Some request can always go on (nobody waits in a circle): for every set of
\* requests, processes and locks, but for the circle Embraced describes,
\* which create_owned_scenario makes by inserting before it locks.
THEOREM SomeoneGoesOnHolds == Spec => []SomeoneGoesOn
<1>1. Init => WaitInv
  BY InitWaits
<1>2. (TypeOK /\ Roles /\ OwnInv /\ RowInv /\ EditInv) /\ WaitInv /\ [Next]_vars => WaitInv'
  BY NextWaits
<1>3. (TypeOK /\ Roles /\ OwnInv /\ RowInv /\ EditInv) /\ WaitInv => SomeoneGoesOn
  BY SomeoneFree
<1> QED
  BY <1>1, <1>2, <1>3, RowsCorrect, PTL DEF Spec

=============================================================================
