----------------------- MODULE GraphSubscriptionProofs -----------------------
(***************************************************************************)
(* Why no subscription lapses unnoticed, for any number of subscriptions,  *)
(* requests and hours, and any windows the assumption admits: a row whose  *)
(* calls were not disturbed tells the time Graph keeps, except between an  *)
(* answer of Graph and the write of its only reader; and what is left of   *)
(* that time covers the misses that may still come.                        *)
(***************************************************************************)
EXTENDS GraphSubscriptions, TLAPS

Saves(a, s) == admin[a].pc = "save" /\ admin[a].sub = s
Saved(s)    == \A a \in Admins : ~Saves(a, s)
Left(s)     == remote[s] - hour

\* The task renews what it has listed, one at a time.
TaskOrder ==
  /\ task.renewed \subseteq task.todo
  /\ \A s, t \in task.renewed : s = t
  /\ task.todo # {} => ran # "no"

\* Before Graph has made a subscription nobody knows it.
Unborn(s) ==
  remote[s] = 0 => /\ row[s] = 0
                   /\ s \notin task.todo
                   /\ \A a \in Admins : admin[a].pc # "idle" => admin[a].sub # s

\* The row, or the one who will write it, has the time Graph keeps.
Told(s) ==
  /\ row[s] # 0 /\ s \notin task.renewed /\ Saved(s) => row[s] = remote[s]
  /\ s \in task.renewed => remote[s] = hour + Extension
  /\ \A a \in Admins : Saves(a, s) =>
       /\ admin[a].expiry = remote[s] /\ s \notin task.renewed
       /\ Left(s) >= MinAsk - 1
       /\ ~admin[a].late => Left(s) >= MinAsk
       /\ \A b \in Admins : Saves(b, s) => a = b

\* What is left of it lasts for the misses to come, and for one more hour and
\* all of them once the task has seen to it in this hour.
Lasts(s) ==
  row[s] # 0 \/ ~Saved(s) =>
    /\ Left(s) >= MaxMisses + 1 - misses
    /\ ran = "clean" /\ s \notin task.todo => Left(s) >= MaxMisses + 2

Erasing == \A a \in Admins : admin[a].pc = "erase" => admin[a].sub \in disturbed

LapseInv ==
  /\ SubsTypeOK /\ TaskOrder /\ Erasing
  /\ \A s \in Subs : Unborn(s) /\ (s \notin disturbed => Told(s) /\ Lasts(s))

-----------------------------------------------------------------------------
AdminState == [pc : Labels, sub : Subs, expiry : Hours, late : BOOLEAN]

LEMMA AdminFields ==
  ASSUME SubsTypeOK, NEW a \in Admins
  PROVE  /\ admin[a] \in AdminState
         /\ admin[a].pc \in Labels /\ admin[a].sub \in Subs
         /\ admin[a].expiry \in Hours /\ admin[a].late \in BOOLEAN
BY DEF SubsTypeOK, AdminState

LEMMA AdminRewritten ==
  ASSUME SubsTypeOK, NEW a \in Admins, NEW r \in AdminState, admin' = [admin EXCEPT ![a] = r]
  PROVE  /\ admin' \in [Admins -> AdminState]
         /\ admin'[a] = r
         /\ \A b \in Admins : b # a => admin'[b] = admin[b]
BY DEF SubsTypeOK, AdminState

LEMMA EndedType == Ended \in AdminState /\ Ended.pc = "idle"
BY RenewalAssumption DEF Ended, AdminState, Labels, Hours

LEMMA Arithmetic ==
  /\ Before \in Nat /\ Extension \in Nat /\ MinAsk \in Nat /\ MaxAsk \in Nat
  /\ MaxMisses \in Nat /\ MaxHour \in Nat
  /\ MaxMisses + 2 <= Before /\ Before <= Extension /\ MaxMisses + 3 <= MinAsk
  /\ \A h \in 1..MaxHour, n \in 0..MaxAsk : h + n \in Hours
  /\ \A h \in 1..MaxHour : h + Extension \in Hours /\ h \in Hours
  /\ 0 \in Hours /\ Hours \subseteq Nat
BY RenewalAssumption DEF Hours

LEMMA Asked ==
  ASSUME SubsTypeOK, NEW ask \in MinAsk..MaxAsk
  PROVE  /\ hour \in 1..MaxHour /\ hour + ask \in Hours /\ hour + ask # 0
         /\ ask \in Nat /\ ask >= MinAsk
<1>1. hour \in 1..MaxHour /\ ask \in Nat /\ ask >= MinAsk /\ ask \in 0..MaxAsk
  BY Arithmetic DEF SubsTypeOK
<1> QED
  BY <1>1, RenewalAssumption DEF Hours

LEMMA InitLapse == SubsInit => LapseInv
<1> SUFFICES ASSUME SubsInit PROVE LapseInv
  OBVIOUS
<1>1. SubsTypeOK
  BY RenewalAssumption, EndedType, Arithmetic DEF SubsInit, SubsTypeOK, AdminState
<1>2. TaskOrder /\ Erasing
  BY EndedType DEF SubsInit, TaskOrder, Erasing
<1>3. \A s \in Subs : Unborn(s) /\ Told(s) /\ Lasts(s)
  BY EndedType DEF SubsInit, Unborn, Told, Lasts, Saved, Saves
<1> QED
  BY <1>1, <1>2, <1>3 DEF LapseInv

\* What concerns t is as it was.
LEMMA Kept ==
  ASSUME LapseInv, NEW t \in Subs, t \notin disturbed,
         \A b \in Admins : Saves(b, t)' = Saves(b, t) /\ (Saves(b, t) => admin'[b] = admin[b]),
         remote'[t] = remote[t], row'[t] = row[t],
         t \in task'.todo <=> t \in task.todo, t \in task'.renewed <=> t \in task.renewed,
         ran' = "clean" => ran = "clean", UNCHANGED <<hour, misses>>
  PROVE  Told(t)' /\ Lasts(t)'
<1>1. Told(t) /\ Lasts(t)
  BY DEF LapseInv
<1>2. Saved(t)' = Saved(t) /\ Left(t)' = Left(t)
  BY DEF Saved, Left
<1> QED
  BY <1>1, <1>2 DEF Told, Lasts

\* A request that neither was nor is at "save" or "erase" tells nothing.
LEMMA Silent ==
  ASSUME LapseInv, NEW a \in Admins, NEW r \in AdminState, admin' = [admin EXCEPT ![a] = r],
         admin[a].pc \notin {"save", "erase"}, r.pc \notin {"save", "erase"},
         r.pc # "idle" => remote[r.sub] # 0,
         UNCHANGED <<hour, remote, row, task, ran, misses, disturbed>>
  PROVE  LapseInv'
<1> USE DEF LapseInv
<1>1. /\ admin' \in [Admins -> AdminState]
      /\ admin'[a] = r
      /\ \A b \in Admins : b # a => admin'[b] = admin[b]
  BY AdminRewritten
<1>2. SubsTypeOK' /\ TaskOrder' /\ Erasing'
  BY <1>1 DEF SubsTypeOK, TaskOrder, Erasing, AdminState
<1>3. \A b \in Admins, s \in Subs : Saves(b, s)' = Saves(b, s)
  BY <1>1 DEF Saves
<1>4. \A s \in Subs : Unborn(s)'
  BY <1>1 DEF Unborn
<1>5. ASSUME NEW s \in Subs, s \notin disturbed' PROVE Told(s)' /\ Lasts(s)'
  <2>1. \A b \in Admins : Saves(b, s) => admin'[b] = admin[b]
    BY <1>1 DEF Saves
  <2> QED
    BY <1>3, <1>5, <2>1, Kept
<1> QED
  BY <1>2, <1>4, <1>5

-----------------------------------------------------------------------------
(* The requests                                                             *)

LEMMA FetchLapse ==
  ASSUME LapseInv, NEW a \in Admins, NEW s \in Subs, NEW label \in {"patch", "drop"},
         Fetch(a, s, label)
  PROVE  LapseInv'
<1> DEFINE r == [pc |-> label, sub |-> s, expiry |-> 0, late |-> FALSE]
<1>1. r \in AdminState
  BY Arithmetic DEF AdminState, Labels
<1>2. remote[s] # 0
  BY DEF Fetch, LapseInv, Unborn
<1> QED
  BY <1>1, <1>2, Silent DEF Fetch

LEMMA PostLapse ==
  ASSUME LapseInv, NEW a \in Admins, NEW s \in Subs, NEW ask \in MinAsk..MaxAsk,
         PostSubscription(a, s, ask)
  PROVE  LapseInv'
<1> USE DEF LapseInv
<1> DEFINE r == [pc |-> "save", sub |-> s, expiry |-> hour + ask, late |-> FALSE]
<1>1. hour \in 1..MaxHour /\ hour + ask \in Hours /\ hour + ask # 0 /\ ask \in Nat /\ ask >= MinAsk
  BY Asked
<1>2. r \in AdminState
  BY <1>1 DEF AdminState, Labels
<1>3. /\ admin' \in [Admins -> AdminState]
      /\ admin'[a] = r
      /\ \A b \in Admins : b # a => admin'[b] = admin[b]
  BY <1>2, AdminRewritten DEF PostSubscription
<1>4. /\ admin[a].pc = "idle" /\ remote[s] = 0
      /\ remote' \in [Subs -> Hours] /\ remote'[s] = hour + ask
      /\ \A t \in Subs : t # s => remote'[t] = remote[t]
      /\ UNCHANGED <<hour, row, task, ran, misses, disturbed>>
  BY <1>1 DEF PostSubscription, SubsTypeOK
<1>5. /\ row[s] = 0 /\ s \notin task.todo /\ s \notin task.renewed
      /\ \A b \in Admins : admin[b].pc # "idle" => admin[b].sub # s
  BY <1>4 DEF Unborn, TaskOrder
<1> HIDE DEF r
<1>6. r.pc = "save" /\ r.sub = s /\ r.expiry = hour + ask /\ r.late = FALSE
  BY DEF r
<1>7. SubsTypeOK' /\ TaskOrder' /\ Erasing'
  BY <1>3, <1>4, <1>6 DEF SubsTypeOK, TaskOrder, Erasing, AdminState
<1>8. \A t \in Subs : Unborn(t)'
  BY <1>1, <1>3, <1>4, <1>6 DEF Unborn
<1>9. ASSUME NEW t \in Subs, t # s, t \notin disturbed' PROVE Told(t)' /\ Lasts(t)'
  <2>1. \A b \in Admins : /\ Saves(b, t)' = Saves(b, t)
                          /\ Saves(b, t) => admin'[b] = admin[b]
    BY <1>3, <1>4, <1>6, <1>9 DEF Saves
  <2> QED
    BY <1>4, <1>9, <2>1, Kept
<1>10. Told(s)' /\ Lasts(s)'
  <2>1. \A b \in Admins : Saves(b, s)' => b = a
    BY <1>3, <1>5 DEF Saves
  <2>2. Left(s)' = ask
    BY <1>1, <1>4 DEF Left
  <2>3. Told(s)'
    BY <1>1, <1>3, <1>4, <1>5, <1>6, <2>1, <2>2, Arithmetic DEF Told, Saved, Saves
  <2>4. Lasts(s)'
    BY <1>1, <1>4, <2>2, Arithmetic DEF Lasts, SubsTypeOK
  <2> QED
    BY <2>3, <2>4
<1> QED
  BY <1>7, <1>8, <1>9, <1>10

LEMMA PatchLapse ==
  ASSUME LapseInv, NEW a \in Admins, NEW ask \in MinAsk..MaxAsk, PatchSubscription(a, ask)
  PROVE  LapseInv'
<1> USE DEF LapseInv
<1> DEFINE r == [admin[a] EXCEPT !.pc = "save", !.expiry = hour + ask]
<1>0. PICK s \in Subs : s = admin[a].sub
  BY AdminFields
<1>1. CASE ~Alive(s)
  BY <1>0, <1>1, EndedType, Silent DEF PatchSubscription, Return
<1>2. CASE Alive(s)
  <2>1. /\ hour \in 1..MaxHour /\ hour + ask \in Hours /\ hour + ask # 0
        /\ ask \in Nat /\ ask >= MinAsk
    BY Asked
  <2>2. admin[a] \in AdminState /\ admin[a].pc = "patch"
    BY AdminFields DEF PatchSubscription
  <2>3. r \in AdminState /\ admin' = [admin EXCEPT ![a] = r]
    BY <1>0, <1>2, <2>1, <2>2 DEF AdminState, Labels, PatchSubscription, SubsTypeOK
  <2>4. /\ admin' \in [Admins -> AdminState]
        /\ admin'[a] = r
        /\ \A b \in Admins : b # a => admin'[b] = admin[b]
    BY <2>3, AdminRewritten
  <2>5. r.pc = "save" /\ r.sub = s /\ r.expiry = hour + ask
    BY <1>0, <2>2 DEF AdminState
  <2> HIDE DEF r
  <2>6. /\ remote' \in [Subs -> Hours] /\ remote'[s] = hour + ask
        /\ \A t \in Subs : t # s => remote'[t] = remote[t]
        /\ UNCHANGED <<hour, row, task, ran, misses>>
        /\ disturbed' \in SUBSET Subs /\ disturbed \subseteq disturbed'
        /\ s \notin disturbed' => ~Unwritten(s)
    BY <1>0, <1>2, <2>1, <2>2 DEF PatchSubscription, SubsTypeOK, Disturb
  <2>7. SubsTypeOK' /\ TaskOrder' /\ Erasing'
    BY <2>4, <2>5, <2>6 DEF SubsTypeOK, TaskOrder, Erasing, AdminState
  <2>8. \A t \in Subs : Unborn(t)'
    BY <2>1, <2>4, <2>5, <2>6 DEF Unborn
  <2>9. ASSUME NEW t \in Subs, t # s, t \notin disturbed' PROVE Told(t)' /\ Lasts(t)'
    <3>1. \A b \in Admins : /\ Saves(b, t)' = Saves(b, t)
                            /\ Saves(b, t) => admin'[b] = admin[b]
      BY <1>0, <2>2, <2>4, <2>5, <2>9 DEF Saves
    <3> QED
      BY <2>6, <2>9, <3>1, Kept
  <2>10. ASSUME s \notin disturbed' PROVE Told(s)' /\ Lasts(s)'
    <3>1. s \notin task.renewed /\ \A b \in Admins : ~Saves(b, s)
      BY <2>6, <2>10 DEF Unwritten, Saves
    <3>2. \A b \in Admins : Saves(b, s)' => b = a
      BY <2>2, <2>4, <2>5, <2>6, <3>1 DEF Saves
    <3>3. Left(s)' = ask
      BY <2>1, <2>6 DEF Left
    <3> QED
      BY <2>1, <2>4, <2>5, <2>6, <3>1, <3>2, <3>3, Arithmetic
      DEF Told, Lasts, Saved, Saves, SubsTypeOK
  <2> QED
    BY <2>7, <2>8, <2>9, <2>10
<1> QED
  BY <1>1, <1>2

LEMMA SaveLapse ==
  ASSUME LapseInv, NEW a \in Admins, SaveSubscription(a)
  PROVE  LapseInv'
<1> USE DEF LapseInv
<1>1. PICK s \in Subs : s = admin[a].sub
  BY AdminFields
<1>2. /\ admin' \in [Admins -> AdminState]
      /\ admin'[a] = Ended
      /\ \A b \in Admins : b # a => admin'[b] = admin[b]
  BY EndedType, AdminRewritten DEF SaveSubscription, Return
<1>3. /\ admin[a].pc = "save" /\ admin[a].expiry \in Hours
      /\ row' \in [Subs -> Hours] /\ row'[s] = admin[a].expiry
      /\ \A t \in Subs : t # s => row'[t] = row[t]
      /\ UNCHANGED <<hour, remote, task, ran, misses, disturbed>>
  BY <1>1, AdminFields DEF SaveSubscription, SubsTypeOK
<1>4. SubsTypeOK' /\ TaskOrder' /\ Erasing'
  BY <1>2, <1>3, EndedType DEF SubsTypeOK, TaskOrder, Erasing, AdminState
<1>5. \A t \in Subs : Unborn(t)'
  BY <1>1, <1>2, <1>3, EndedType DEF Unborn
<1>6. ASSUME NEW t \in Subs, t # s, t \notin disturbed' PROVE Told(t)' /\ Lasts(t)'
  <2>1. \A b \in Admins : /\ Saves(b, t)' = Saves(b, t)
                          /\ Saves(b, t) => admin'[b] = admin[b]
    BY <1>1, <1>2, <1>3, <1>6, EndedType DEF Saves
  <2> QED
    BY <1>3, <1>6, <2>1, Kept
<1>7. ASSUME s \notin disturbed' PROVE Told(s)' /\ Lasts(s)'
  <2>1. Told(s) /\ Lasts(s) /\ Saves(a, s)
    BY <1>1, <1>3, <1>7 DEF Saves
  <2>2. row'[s] = remote[s] /\ s \notin task.renewed
    BY <1>1, <1>3, <2>1 DEF Told
  <2>3. \A b \in Admins : ~Saves(b, s)'
    BY <1>2, <2>1, EndedType DEF Saves, Told
  <2>4. ~Saved(s) /\ Left(s)' = Left(s)
    BY <1>3, <2>1 DEF Saved, Left
  <2> QED
    BY <1>3, <2>1, <2>2, <2>3, <2>4 DEF Told, Lasts
<1> QED
  BY <1>4, <1>5, <1>6, <1>7

LEMMA DropLapse ==
  ASSUME LapseInv, NEW a \in Admins, DropRemote(a)
  PROVE  LapseInv'
<1> USE DEF LapseInv
<1> DEFINE r == [admin[a] EXCEPT !.pc = "erase"]
<1>1. PICK s \in Subs : s = admin[a].sub
  BY AdminFields
<1>2. CASE ~Alive(s)
  BY <1>1, <1>2, EndedType, Silent DEF DropRemote, Return
<1>3. CASE Alive(s)
  <2>1. admin[a] \in AdminState /\ admin[a].pc = "drop"
    BY AdminFields DEF DropRemote
  <2>2. r \in AdminState /\ r.pc = "erase" /\ r.sub = s
    BY <1>1, <2>1 DEF AdminState, Labels
  <2>3. /\ admin' \in [Admins -> AdminState]
        /\ admin'[a] = r
        /\ \A b \in Admins : b # a => admin'[b] = admin[b]
    BY <1>1, <1>3, <2>2, AdminRewritten DEF DropRemote
  <2> HIDE DEF r
  <2>4. /\ remote' = [remote EXCEPT ![s] = hour] /\ hour \in 1..MaxHour
        /\ disturbed' = disturbed \cup {s}
        /\ UNCHANGED <<hour, row, task, ran, misses>>
    BY <1>1, <1>3 DEF DropRemote, SubsTypeOK
  <2>5. SubsTypeOK' /\ TaskOrder' /\ Erasing'
    BY <2>2, <2>3, <2>4, Arithmetic DEF SubsTypeOK, TaskOrder, Erasing, AdminState
  <2>6. \A t \in Subs : Unborn(t)'
    BY <1>1, <2>1, <2>2, <2>3, <2>4 DEF Unborn, SubsTypeOK
  <2>7. ASSUME NEW t \in Subs, t \notin disturbed' PROVE Told(t)' /\ Lasts(t)'
    <3>1. t # s /\ t \notin disturbed
      BY <2>4, <2>7
    <3>2. \A b \in Admins : /\ Saves(b, t)' = Saves(b, t)
                            /\ Saves(b, t) => admin'[b] = admin[b]
      BY <1>1, <2>1, <2>2, <2>3 DEF Saves
    <3>3. remote'[t] = remote[t]
      BY <2>4, <3>1 DEF SubsTypeOK
    <3> QED
      BY <2>4, <3>1, <3>2, <3>3, Kept
  <2> QED
    BY <2>5, <2>6, <2>7
<1> QED
  BY <1>2, <1>3

LEMMA EraseLapse ==
  ASSUME LapseInv, NEW a \in Admins, EraseRow(a)
  PROVE  LapseInv'
<1> USE DEF LapseInv
<1>1. PICK s \in Subs : s = admin[a].sub
  BY AdminFields
<1>2. /\ admin' \in [Admins -> AdminState]
      /\ admin'[a] = Ended
      /\ \A b \in Admins : b # a => admin'[b] = admin[b]
  BY EndedType, AdminRewritten DEF EraseRow, Return
<1>3. /\ admin[a].pc = "erase" /\ s \in disturbed
      /\ row' \in [Subs -> Hours] /\ row'[s] = 0
      /\ \A t \in Subs : t # s => row'[t] = row[t]
      /\ UNCHANGED <<hour, remote, task, ran, misses, disturbed>>
  BY <1>1, Arithmetic DEF EraseRow, SubsTypeOK, Erasing
<1>4. SubsTypeOK' /\ TaskOrder' /\ Erasing'
  BY <1>2, <1>3, EndedType DEF SubsTypeOK, TaskOrder, Erasing, AdminState
<1>5. \A t \in Subs : Unborn(t)'
  BY <1>2, <1>3, EndedType DEF Unborn
<1>6. ASSUME NEW t \in Subs, t \notin disturbed' PROVE Told(t)' /\ Lasts(t)'
  <2>1. \A b \in Admins : /\ Saves(b, t)' = Saves(b, t)
                          /\ Saves(b, t) => admin'[b] = admin[b]
    BY <1>2, <1>3, EndedType DEF Saves
  <2> QED
    BY <1>3, <1>6, <2>1, Kept
<1> QED
  BY <1>4, <1>5, <1>6

LEMMA CutAdminLapse ==
  ASSUME LapseInv, NEW a \in Admins, CutAdmin(a)
  PROVE  LapseInv'
<1> USE DEF LapseInv
<1>1. PICK s \in Subs : s = admin[a].sub
  BY AdminFields
<1>2. /\ admin' \in [Admins -> AdminState]
      /\ admin'[a] = Ended
      /\ \A b \in Admins : b # a => admin'[b] = admin[b]
  BY EndedType, AdminRewritten DEF CutAdmin, Return
<1>3. /\ disturbed' = disturbed \cup {s}
      /\ UNCHANGED <<hour, remote, row, task, ran, misses>>
  BY <1>1 DEF CutAdmin
<1>4. SubsTypeOK' /\ TaskOrder' /\ Erasing'
  BY <1>2, <1>3, EndedType DEF SubsTypeOK, TaskOrder, Erasing, AdminState
<1>5. \A t \in Subs : Unborn(t)'
  BY <1>2, <1>3, EndedType DEF Unborn
<1>6. ASSUME NEW t \in Subs, t \notin disturbed' PROVE Told(t)' /\ Lasts(t)'
  <2>1. t # s /\ t \notin disturbed
    BY <1>3, <1>6
  <2>2. \A b \in Admins : /\ Saves(b, t)' = Saves(b, t)
                          /\ Saves(b, t) => admin'[b] = admin[b]
    BY <1>1, <1>2, <2>1, EndedType DEF Saves
  <2> QED
    BY <1>3, <2>1, <2>2, Kept
<1> QED
  BY <1>4, <1>5, <1>6

-----------------------------------------------------------------------------
(* The task and the time                                                    *)

\* A step that leaves the requests alone.
LEMMA RequestsRest ==
  ASSUME LapseInv, UNCHANGED admin
  PROVE  /\ \A a \in Admins, s \in Subs : Saves(a, s)' = Saves(a, s)
         /\ \A s \in Subs : Saved(s)' = Saved(s)
         /\ disturbed \subseteq disturbed' => Erasing'
BY DEF Saves, Saved, Erasing, LapseInv

LEMMA TimeLeft ==
  ASSUME LapseInv, NEW s \in Subs
  PROVE  /\ hour \in Nat /\ remote[s] \in Nat /\ row[s] \in Nat /\ misses \in Nat
         /\ Left(s) \in Int /\ remote[s] = hour + Left(s)
<1>1. hour \in 1..MaxHour /\ remote[s] \in Hours /\ row[s] \in Hours /\ misses \in 0..MaxMisses
  BY DEF LapseInv, SubsTypeOK
<1>2. remote[s] \in Nat /\ row[s] \in Nat
  BY <1>1, Arithmetic
<1>3. hour \in Nat /\ misses \in Nat
  BY <1>1, RenewalAssumption
<1> QED
  BY <1>2, <1>3 DEF Left

LEMMA ListLapse == LapseInv /\ ListDue => LapseInv'
<1> SUFFICES ASSUME LapseInv, ListDue PROVE LapseInv'
  OBVIOUS
<1> USE DEF LapseInv
<1>1. /\ ran = "no" /\ task.todo = {} /\ task.renewed = {}
      /\ task'.todo = {s \in Subs : row[s] # 0 /\ Due(s)} /\ task'.renewed = {}
      /\ task' \in [todo : SUBSET Subs, renewed : SUBSET Subs]
      /\ ran' = "clean"
      /\ UNCHANGED <<hour, remote, row, admin, misses, disturbed>>
  BY DEF ListDue, TaskOrder, SubsTypeOK
<1>2. SubsTypeOK' /\ TaskOrder' /\ Erasing'
  BY <1>1, RequestsRest DEF SubsTypeOK, TaskOrder
<1>3. \A s \in Subs : Unborn(s)'
  BY <1>1 DEF Unborn
<1>4. ASSUME NEW s \in Subs, s \notin disturbed' PROVE Told(s)' /\ Lasts(s)'
  <2>1. Told(s) /\ Lasts(s) /\ Left(s)' = Left(s) /\ Saved(s)' = Saved(s)
    BY <1>1, <1>4, RequestsRest DEF Left
  <2>2. Told(s)'
    BY <1>1, <2>1, RequestsRest DEF Told
  <2>3. SUFFICES ASSUME row[s] # 0 \/ ~Saved(s), s \notin task'.todo
                 PROVE  Left(s) >= MaxMisses + 2
    BY <1>1, <2>1, <2>2 DEF Lasts
  <2>4. CASE Saved(s)
    <3>1. row[s] = remote[s] /\ ~Due(s)
      BY <1>1, <2>1, <2>4, <2>3 DEF Told
    <3> QED
      BY <3>1, TimeLeft, Arithmetic DEF Due
  <2>5. CASE ~Saved(s)
    BY <2>1, <2>5, TimeLeft, Arithmetic DEF Told, Saved
  <2> QED
    BY <2>4, <2>5
<1> QED
  BY <1>2, <1>3, <1>4

LEMMA RenewLapse ==
  ASSUME LapseInv, NEW s \in Subs, RenewDue(s)
  PROVE  LapseInv'
<1> USE DEF LapseInv
<1>1. /\ s \in task.todo /\ task.renewed = {} /\ ran # "no"
      /\ UNCHANGED <<hour, row, admin, ran, misses>>
  BY DEF RenewDue, TaskOrder
<1>2. CASE Alive(s)
  <2>1. /\ task'.todo = task.todo /\ task'.renewed = {s}
        /\ task' \in [todo : SUBSET Subs, renewed : SUBSET Subs]
        /\ remote' \in [Subs -> Hours] /\ remote'[s] = hour + Extension
        /\ \A t \in Subs : t # s => remote'[t] = remote[t]
        /\ disturbed' \in SUBSET Subs /\ disturbed \subseteq disturbed'
        /\ s \notin disturbed' => ~Unwritten(s)
    BY <1>2, Arithmetic DEF RenewDue, SubsTypeOK, Disturb
  <2>2. SubsTypeOK' /\ TaskOrder' /\ Erasing'
    BY <1>1, <2>1, RequestsRest DEF SubsTypeOK, TaskOrder
  <2>3. \A t \in Subs : Unborn(t)'
    BY <1>1, <2>1, TimeLeft, Arithmetic DEF Unborn
  <2>4. ASSUME NEW t \in Subs, t # s, t \notin disturbed' PROVE Told(t)' /\ Lasts(t)'
    BY <1>1, <2>1, <2>4, RequestsRest, Kept
  <2>5. ASSUME s \notin disturbed' PROVE Told(s)' /\ Lasts(s)'
    <3>1. \A a \in Admins : ~Saves(a, s)'
      BY <1>1, <2>1, <2>5, RequestsRest DEF Unwritten, Saves
    <3>2. Left(s)' = Extension
      BY <1>1, <2>1, TimeLeft, Arithmetic DEF Left
    <3> QED
      BY <1>1, <2>1, <3>1, <3>2, TimeLeft, Arithmetic DEF Told, Lasts, Saved
  <2> QED
    BY <2>2, <2>3, <2>4, <2>5
<1>3. CASE ~Alive(s)
  <2>1. /\ task'.todo = task.todo \ {s} /\ task'.renewed = {}
        /\ task' \in [todo : SUBSET Subs, renewed : SUBSET Subs]
        /\ UNCHANGED <<remote, disturbed>>
    BY <1>1, <1>3 DEF RenewDue, SubsTypeOK
  <2>2. SubsTypeOK' /\ TaskOrder' /\ Erasing'
    BY <1>1, <2>1, RequestsRest DEF SubsTypeOK, TaskOrder
  <2>3. \A t \in Subs : Unborn(t)'
    BY <1>1, <2>1 DEF Unborn
  <2>4. ASSUME NEW t \in Subs, t # s, t \notin disturbed' PROVE Told(t)' /\ Lasts(t)'
    BY <1>1, <2>1, <2>4, RequestsRest, Kept
  <2>5. ASSUME s \notin disturbed' PROVE Told(s)' /\ Lasts(s)'
    <3>1. Told(s) /\ Lasts(s)
      BY <2>1, <2>5
    <3>2. row[s] = 0 /\ Saved(s)
      BY <1>3, <3>1, TimeLeft, Arithmetic DEF Lasts, Alive, SubsTypeOK
    <3> QED
      BY <1>1, <2>1, <3>1, <3>2, RequestsRest DEF Told, Lasts, Saved
  <2> QED
    BY <2>2, <2>3, <2>4, <2>5
<1> QED
  BY <1>2, <1>3

LEMMA SaveDueLapse ==
  ASSUME LapseInv, NEW s \in Subs, SaveDue(s)
  PROVE  LapseInv'
<1> USE DEF LapseInv
<1>1. /\ s \in task.renewed /\ task.renewed = {s} /\ s \in task.todo
      /\ task'.todo = task.todo \ {s} /\ task'.renewed = {}
      /\ task' \in [todo : SUBSET Subs, renewed : SUBSET Subs]
      /\ UNCHANGED <<hour, remote, admin, ran, misses, disturbed>>
  BY DEF SaveDue, TaskOrder, SubsTypeOK
<1>2. /\ row' \in [Subs -> Hours]
      /\ row'[s] = IF row[s] # 0 THEN hour + Extension ELSE 0
      /\ \A t \in Subs : t # s => row'[t] = row[t]
  BY Arithmetic DEF SaveDue, SubsTypeOK
<1>3. SubsTypeOK' /\ TaskOrder' /\ Erasing'
  BY <1>1, <1>2, RequestsRest DEF SubsTypeOK, TaskOrder
<1>4. \A t \in Subs : Unborn(t)'
  BY <1>1, <1>2 DEF Unborn
<1>5. ASSUME NEW t \in Subs, t # s, t \notin disturbed' PROVE Told(t)' /\ Lasts(t)'
  BY <1>1, <1>2, <1>5, RequestsRest, Kept
<1>6. ASSUME s \notin disturbed' PROVE Told(s)' /\ Lasts(s)'
  <2>1. Told(s) /\ Lasts(s) /\ Left(s)' = Left(s)
    BY <1>1, <1>6 DEF Left
  <2>2. remote[s] = hour + Extension /\ Left(s) = Extension /\ Saved(s)
    BY <1>1, <2>1, TimeLeft, Arithmetic DEF Told, Left, Saved
  <2> QED
    BY <1>1, <1>2, <2>1, <2>2, RequestsRest, Arithmetic DEF Told, Lasts, Saved
<1> QED
  BY <1>3, <1>4, <1>5, <1>6

LEMMA MissLapse ==
  ASSUME LapseInv, NEW s \in Subs, MissDue(s)
  PROVE  LapseInv'
<1> USE DEF LapseInv
<1>1. /\ s \in task.todo /\ task'.todo = task.todo \ {s} /\ task'.renewed = task.renewed \ {s}
      /\ task' \in [todo : SUBSET Subs, renewed : SUBSET Subs]
      /\ ran' = "failed"
      /\ disturbed' = disturbed \cup (task.renewed \cap {s}) /\ disturbed' \in SUBSET Subs
      /\ UNCHANGED <<hour, remote, row, admin, misses>>
  BY DEF MissDue, SubsTypeOK
<1>2. SubsTypeOK' /\ TaskOrder' /\ Erasing'
  BY <1>1, RequestsRest DEF SubsTypeOK, TaskOrder
<1>3. \A t \in Subs : Unborn(t)'
  BY <1>1 DEF Unborn
<1>4. ASSUME NEW t \in Subs, t \notin disturbed' PROVE Told(t)' /\ Lasts(t)'
  <2>1. Told(t) /\ Lasts(t) /\ Left(t)' = Left(t)
    BY <1>1, <1>4 DEF Left
  <2>2. t \in task'.renewed <=> t \in task.renewed
    BY <1>1, <1>4
  <2> QED
    BY <1>1, <2>1, <2>2, RequestsRest DEF Told, Lasts
<1> QED
  BY <1>2, <1>3, <1>4

LEMMA CutTaskLapse == LapseInv /\ CutTask => LapseInv'
<1> SUFFICES ASSUME LapseInv, CutTask PROVE LapseInv'
  OBVIOUS
<1> USE DEF LapseInv
<1>1. /\ task'.todo = {} /\ task'.renewed = {}
      /\ task' \in [todo : SUBSET Subs, renewed : SUBSET Subs]
      /\ ran' = "failed"
      /\ disturbed' = disturbed \cup task.renewed /\ disturbed' \in SUBSET Subs
      /\ UNCHANGED <<hour, remote, row, admin, misses>>
  BY DEF CutTask, SubsTypeOK
<1>2. SubsTypeOK' /\ TaskOrder' /\ Erasing'
  BY <1>1, RequestsRest DEF SubsTypeOK, TaskOrder
<1>3. \A t \in Subs : Unborn(t)'
  BY <1>1 DEF Unborn
<1>4. ASSUME NEW t \in Subs, t \notin disturbed' PROVE Told(t)' /\ Lasts(t)'
  <2>1. Told(t) /\ Lasts(t) /\ Left(t)' = Left(t) /\ t \notin task.renewed
    BY <1>1, <1>4 DEF Left
  <2> QED
    BY <1>1, <2>1, RequestsRest DEF Told, Lasts
<1> QED
  BY <1>2, <1>3, <1>4

LEMMA HourLapse == LapseInv /\ HourPasses => LapseInv'
<1> SUFFICES ASSUME LapseInv, HourPasses PROVE LapseInv'
  OBVIOUS
<1> USE DEF LapseInv
<1>1. /\ task.todo = {} /\ task.renewed = {}
      /\ hour' = hour + 1 /\ hour' \in 1..MaxHour /\ ran' = "no"
      /\ misses' = (IF ran = "clean" THEN 0 ELSE misses + 1) /\ misses' \in 0..MaxMisses
      /\ UNCHANGED <<remote, row, task, disturbed>>
  BY Arithmetic DEF HourPasses, TaskOrder, SubsTypeOK
<1>2. \A a \in Admins : /\ admin'[a] \in AdminState
                        /\ admin'[a].pc = admin[a].pc /\ admin'[a].sub = admin[a].sub
                        /\ admin'[a].expiry = admin[a].expiry
                        /\ admin'[a].late = (admin[a].pc # "idle")
                        /\ admin[a].pc # "idle" => ~admin[a].late
  BY AdminFields DEF HourPasses, AdminState
<1>3. SubsTypeOK' /\ TaskOrder' /\ Erasing'
  <2>1. admin' \in [Admins -> AdminState]
    BY <1>2 DEF HourPasses
  <2> QED
    BY <1>1, <1>2, <2>1 DEF SubsTypeOK, TaskOrder, Erasing, AdminState
<1>4. \A s \in Subs : Unborn(s)'
  BY <1>1, <1>2 DEF Unborn
<1>5. \A a \in Admins, s \in Subs : Saves(a, s)' = Saves(a, s)
  BY <1>2 DEF Saves
<1>6. ASSUME NEW s \in Subs, s \notin disturbed' PROVE Told(s)' /\ Lasts(s)'
  <2>1. Told(s) /\ Lasts(s) /\ Saved(s)' = Saved(s) /\ Left(s)' = Left(s) - 1
    BY <1>1, <1>5, <1>6, TimeLeft DEF Left, Saved
  <2>2. \A a \in Admins : Saves(a, s) => Left(s) >= MinAsk
    BY <1>2, <2>1 DEF Told, Saves
  <2>3. Told(s)'
    <3>1. ASSUME NEW a \in Admins, Saves(a, s)'
          PROVE  /\ admin'[a].expiry = remote'[s] /\ Left(s)' >= MinAsk - 1 /\ admin'[a].late
                 /\ \A b \in Admins : Saves(b, s)' => a = b
      <4>1. Saves(a, s)
        BY <1>5, <3>1
      <4>2. Left(s)' >= MinAsk - 1
        BY <2>1, <2>2, <4>1, TimeLeft, Arithmetic
      <4> QED
        BY <1>1, <1>2, <1>5, <2>1, <4>1, <4>2 DEF Told, Saves
    <3> QED
      BY <1>1, <2>1, <3>1 DEF Told
  <2>4. Lasts(s)'
    BY <1>1, <2>1, TimeLeft, Arithmetic DEF Lasts
  <2> QED
    BY <2>3, <2>4
<1> QED
  BY <1>3, <1>4, <1>6

-----------------------------------------------------------------------------
(* The theorem                                                              *)

LEMMA NextLapse == LapseInv /\ [SubsNext]_subsVars => LapseInv'
<1> SUFFICES ASSUME LapseInv, [SubsNext]_subsVars PROVE LapseInv'
  OBVIOUS
<1>1. ASSUME NEW a \in Admins, NEW s \in Subs, NEW label \in {"patch", "drop"}, Fetch(a, s, label)
      PROVE  LapseInv'
  BY <1>1, FetchLapse
<1>2. ASSUME NEW a \in Admins, NEW s \in Subs, NEW ask \in MinAsk..MaxAsk,
             PostSubscription(a, s, ask)
      PROVE  LapseInv'
  BY <1>2, PostLapse
<1>3. ASSUME NEW a \in Admins, NEW ask \in MinAsk..MaxAsk, PatchSubscription(a, ask)
      PROVE  LapseInv'
  BY <1>3, PatchLapse
<1>4. ASSUME NEW a \in Admins,
             SaveSubscription(a) \/ DropRemote(a) \/ EraseRow(a) \/ CutAdmin(a)
      PROVE  LapseInv'
  BY <1>4, SaveLapse, DropLapse, EraseLapse, CutAdminLapse
<1>5. ASSUME NEW s \in Subs, RenewDue(s) \/ SaveDue(s) \/ MissDue(s)
      PROVE  LapseInv'
  BY <1>5, RenewLapse, SaveDueLapse, MissLapse
<1>6. CASE ListDue \/ CutTask \/ HourPasses
  BY <1>6, ListLapse, CutTaskLapse, HourLapse
<1>7. CASE UNCHANGED subsVars
  BY <1>7
  DEF subsVars, LapseInv, SubsTypeOK, TaskOrder, Erasing, Unborn, Told, Lasts, Left, Saved,
              Saves
<1> QED
  BY <1>1, <1>2, <1>3, <1>4, <1>5, <1>6, <1>7 DEF SubsNext

\* A subscription with a row never lapses at Graph unless its own calls were
\* disturbed, for any number of subscriptions and requests, and any windows
\* that leave the task MaxMisses + 2 hours.
THEOREM NothingLapses == SubsSpec => []NeverLapses
<1>1. LapseInv => NeverLapses
  <2> SUFFICES ASSUME LapseInv, NEW s \in Subs, row[s] # 0, s \notin disturbed PROVE Alive(s)
    BY DEF NeverLapses
  <2>1. Lasts(s) /\ misses <= MaxMisses
    BY DEF LapseInv, SubsTypeOK
  <2> QED
    BY <2>1, TimeLeft, Arithmetic DEF Lasts, Alive
<1> QED
  BY InitLapse, NextLapse, <1>1, PTL DEF SubsSpec

=============================================================================
