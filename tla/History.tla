------------------------------- MODULE History -------------------------------
(***************************************************************************)
(* The execution history: a file of lines that runs append to and the      *)
(* command line prunes (HistoryStore of state/store.py), and that every    *)
(* request for the history imports into a table                            *)
(* (import_history_jsonl of ops/services.py). A writer tries ten times for *)
(* the process lock and then goes on without it. The thread lock is part   *)
(* of a store, and every service has a store of its own, so it never keeps *)
(* two writers apart.                                                      *)
(*                                                                         *)
(* A writer works on the file it has opened: a pruning that renames        *)
(* another file over it leaves the appender with a file nobody reads. The  *)
(* lock itself is ProcessLock; no writer takes the minute after which it   *)
(* would be taken from it.                                                 *)
(***************************************************************************)
EXTENDS Integers, FiniteSets

CONSTANTS
  Writers,    \* one append or one pruning each; a writer names its line too
  MaxCuts     \* bound: writers that die

ASSUME WritersAssumption == IsFiniteSet(Writers) /\ MaxCuts \in Nat

VARIABLES
  writer,     \* the writers: what they do, their statement, the file they have open
  holder,     \* who has the process lock: a set with at most one writer
  file,       \* the number of the file under the name of the history
  tmp,        \* the number of the file under the temporary name; 0: none
  content,    \* the lines of each file, and the writers with half a line in it
  dead,       \* writers whose process died
  clash       \* history: pairs of writers that were at work at once

historyVars == <<writer, holder, file, tmp, content, dead, clash>>

Files   == 1..Cardinality(Writers) + 1
Content == [lines : SUBSET Writers, half : SUBSET Writers]
Blank   == [lines |-> {}, half |-> {}]

AppendLabels == {"append", "half"}
PruneLabels  == {"read", "truncate", "write", "replace"}

HistoryTypeOK ==
  /\ writer \in [Writers -> [op   : {"append", "prune"},
                             pc   : {"lock", "unlock", "done"}
                                    \cup AppendLabels \cup PruneLabels,
                             open : Files \cup {0},
                             kept : SUBSET Writers]]
  /\ holder \in SUBSET Writers /\ Cardinality(holder) <= 1
  /\ file \in Files /\ tmp \in Files \cup {0}
  /\ content \in [Files -> Content]
  /\ dead \in SUBSET Writers
  /\ clash \in SUBSET SUBSET Writers

HistoryInit ==
  /\ \E appenders \in SUBSET Writers :
       writer = [w \in Writers |-> [op |-> IF w \in appenders THEN "append" ELSE "prune",
                                   pc |-> "lock", open |-> 0, kept |-> {}]]
  /\ holder = {}
  /\ file = 1
  /\ tmp = 0
  /\ content = [f \in Files |-> Blank]
  /\ dead = {}
  /\ clash = {}

-----------------------------------------------------------------------------
At(w, label) == w \notin dead /\ writer[w].pc = label
To(w, label) == writer' = [writer EXCEPT ![w].pc = label]

Working == {w \in Writers \ dead : writer[w].pc \in AppendLabels \cup PruneLabels}

Unread(f) == content[f].half # {}

\* The body of _write_lock, with the lock or without.
Enter(w) ==
  /\ To(w, IF writer[w].op = "append" THEN "append" ELSE "read")
  /\ clash' = clash \cup {{w, v} : v \in Working}
  /\ UNCHANGED <<file, tmp, content, dead>>

\* The lock is free, or its holder is dead.
Take(w) ==
  /\ At(w, "lock")
  /\ holder \subseteq dead
  /\ holder' = {w}
  /\ Enter(w)

\* The last try too was in vain: the writer goes on without the lock.
GiveUp(w) ==
  /\ At(w, "lock")
  /\ ~ holder \subseteq dead
  /\ Enter(w)
  /\ UNCHANGED holder

Unlock(w) ==
  /\ At(w, "unlock")
  /\ holder' = holder \ {w}
  /\ writer' = [writer EXCEPT ![w].pc = "done", ![w].kept = {}]
  /\ UNCHANGED <<file, tmp, content, dead, clash>>

-----------------------------------------------------------------------------
(* append                                                                  *)

\* Opens the file; a line longer than the buffer is written in two parts.
OpenAppend(w) ==
  /\ At(w, "append")
  /\ writer' = [writer EXCEPT ![w].pc = "half", ![w].open = file]
  /\ content' = [content EXCEPT ![file].half = @ \cup {w}]
  /\ UNCHANGED <<holder, file, tmp, dead, clash>>

\* The rest of it. Behind the half line of another writer both are spoilt.
CloseAppend(w) ==
  LET f == writer[w].open IN
  /\ At(w, "half")
  /\ content' = IF content[f].half = {w}
                  THEN [content EXCEPT ![f] = [lines |-> @.lines \cup {w}, half |-> {}]]
                  ELSE content
  /\ To(w, "unlock")
  /\ UNCHANGED <<holder, file, tmp, dead, clash>>

-----------------------------------------------------------------------------
(* prune: every line of a writer is young, and to be kept                  *)

\* A line that is no JSON makes json.loads raise, and the lock is released.
ReadAll(w) ==
  /\ At(w, "read")
  /\ writer' = IF Unread(file)
                 THEN [writer EXCEPT ![w].pc = "unlock"]
                 ELSE [writer EXCEPT ![w].pc = "truncate", ![w].kept = content[file].lines]
  /\ UNCHANGED <<holder, file, tmp, content, dead, clash>>

\* open("w"): a temporary file of another pruning is emptied.
Truncate(w) ==
  /\ At(w, "truncate")
  /\ \E f \in Files :
       /\ IF tmp # 0 THEN f = tmp
          ELSE f # file /\ content[f] = Blank /\ \A v \in Writers : writer[v].open # f
       /\ tmp' = f
       /\ content' = [content EXCEPT ![f] = Blank]
       /\ writer' = [writer EXCEPT ![w].pc = "write", ![w].open = f]
  /\ UNCHANGED <<holder, file, dead, clash>>

BadWriteKept(w) ==  \* the temporary file is renamed before it is flushed
  /\ At(w, "write")
  /\ To(w, "replace")
  /\ UNCHANGED <<holder, file, tmp, content, dead, clash>>

\* Two prunings write the same lines at the same place: the longer one shows.
WriteKept(w) ==
  /\ At(w, "write")
  /\ content' = [content EXCEPT ![writer[w].open].lines = @ \cup writer[w].kept]
  /\ To(w, "replace")
  /\ UNCHANGED <<holder, file, tmp, dead, clash>>

\* The rename; FileNotFoundError when another pruning has renamed it already.
ReplaceFile(w) ==
  /\ At(w, "replace")
  /\ file' = IF tmp # 0 THEN tmp ELSE file
  /\ tmp' = 0
  /\ To(w, "unlock")
  /\ UNCHANGED <<holder, content, dead, clash>>

-----------------------------------------------------------------------------
\* A request for the history imports the file first: one transaction, rolled
\* back at the first line that is no JSON.
Importable == ~ Unread(file)

WriterDies(w) ==
  /\ w \notin dead /\ writer[w].pc # "done"
  /\ Cardinality(dead) < MaxCuts
  /\ dead' = dead \cup {w}
  /\ UNCHANGED <<writer, holder, file, tmp, content, clash>>

HistoryNext ==
  \E w \in Writers :
    \/ Take(w) \/ GiveUp(w) \/ Unlock(w)
    \/ OpenAppend(w) \/ CloseAppend(w)
    \/ ReadAll(w) \/ Truncate(w) \/ WriteKept(w) \/ ReplaceFile(w)
    \/ WriterDies(w)

HistorySpec == HistoryInit /\ [][HistoryNext]_historyVars

-----------------------------------------------------------------------------
(* Properties                                                              *)

Clashed(w, op) == \E v \in Writers \ {w} : {w, v} \in clash /\ writer[v].op = op

\* A line whose append has returned is in the file for good, unless the append
\* met another writer, or two prunings met, because the lock was not waited for,
\* or it follows a line that was cut. And the file can be read whenever no append
\* is at work, unless an appender died in the middle of its line, or two met:
\* then no request for the history and no pruning succeeds any more.
HistoryKept ==
  LET appended   == {w \in Writers : writer[w].op = "append" /\ writer[w].pc \in {"unlock", "done"}}
      met(w)     == Clashed(w, "append") \/ Clashed(w, "prune")
      prunersMet == \E w \in Writers : writer[w].op = "prune" /\ Clashed(w, "prune")
  IN
  /\ \A w \in appended :
       w \in content[file].lines
         \/ met(w) \/ prunersMet \/ content[writer[w].open].half # {}
  /\ ~Importable => \E w \in content[file].half : w \in Working \cup dead \/ met(w)

=============================================================================
