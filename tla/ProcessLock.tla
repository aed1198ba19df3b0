----------------------------- MODULE ProcessLock -----------------------------
(***************************************************************************)
(* ProcessLock (state/store.py): the lock file that keeps a second         *)
(* scheduler from starting and serializes the writers of the history file. *)
(* It is built from open(O_CREAT|O_EXCL), write, read and unlink; one      *)
(* action is one of these calls, so two processes interleave between any   *)
(* two of them and a process may die after any of them.                    *)
(*                                                                         *)
(* A file is named by the attempt that creates it (an attempt creates at   *)
(* most one): an unlinked file lives on for the handles open on it.        *)
(***************************************************************************)
EXTENDS Naturals

CONSTANTS
  Procs,       \* processes; a restarted program is another process
  Platforms,   \* where the program may run: posix, windows
  MaxAttempts  \* bound: calls of acquire in a behaviour

ASSUME LockAssumption ==
  /\ Platforms \subseteq {"posix", "windows"}
  /\ MaxAttempts \in Nat

NoFile == 0
Files  == 1..MaxAttempts

VARIABLES
  platform,  \* on windows a file that some handle has open cannot be unlinked
  entry,     \* the file the name of the lock stands for
  owner,     \* the process whose attempt made, or may make, each file
  written,   \* the files that have their metadata
  aged,      \* the files whose created_at is stale_seconds old
  attempts,  \* how many calls of acquire there have been
  reused,    \* dead processes whose pid another program has got
  pc,        \* where each process is
  mine,      \* the attempt each process is in
  handle,    \* the file each process has open: _fd, or the reader's
  seen       \* the file whose metadata a process has read; NoFile is None

vars == <<platform, entry, owner, written, aged, attempts, reused, pc, mine, handle, seen>>
sys  == <<platform, reused>>

\* idle: acquire not called, or released; open .. remove: inside acquire;
\* held, refused: acquire returned True, False; unlink: inside release.
Pc == {"idle", "open", "write", "held", "read", "parse", "judge", "remove",
       "refused", "unlink", "dead"}

TypeOK ==
  /\ platform \in Platforms
  /\ reused \in SUBSET Procs
  /\ entry \in Files \cup {NoFile}
  /\ owner \in [Files -> Procs \cup {NoFile}]
  /\ written \in SUBSET Files
  /\ aged \in SUBSET Files
  /\ attempts \in 0..MaxAttempts
  /\ pc \in [Procs -> Pc]
  /\ mine \in [Procs -> Files \cup {NoFile}]
  /\ handle \in [Procs -> Files \cup {NoFile}]
  /\ seen \in [Procs -> Files \cup {NoFile}]

Dead(p)      == pc[p] = "dead"
CanUnlink(f) == platform = "windows" => \A p \in Procs : handle[p] # f
Goto(p, label) == pc' = [pc EXCEPT ![p] = label]

Init ==
  /\ platform \in Platforms
  /\ reused = {}
  /\ entry = NoFile
  /\ owner = [f \in Files |-> NoFile]
  /\ written = {}
  /\ aged = {}
  /\ attempts = 0
  /\ pc = [p \in Procs |-> "idle"]
  /\ mine = [p \in Procs |-> NoFile]
  /\ handle = [p \in Procs |-> NoFile]
  /\ seen = [p \in Procs |-> NoFile]

-----------------------------------------------------------------------------
(* acquire                                                                 *)

Acquire(p) ==
  /\ pc[p] \in {"idle", "refused"}
  /\ attempts < MaxAttempts
  /\ attempts' = attempts + 1
  /\ mine' = [mine EXCEPT ![p] = attempts + 1]
  /\ owner' = [owner EXCEPT ![attempts + 1] = p]
  /\ Goto(p, "open")
  /\ UNCHANGED <<sys, entry, written, aged, handle, seen>>

\* os.open(O_CREAT | O_EXCL): the name is free and now stands for an empty
\* file, or FileExistsError.
Open(p) ==
  /\ pc[p] = "open"
  /\ \/ /\ entry = NoFile
        /\ entry' = mine[p]
        /\ handle' = [handle EXCEPT ![p] = mine[p]]
        /\ Goto(p, "write")
     \/ /\ entry # NoFile
        /\ Goto(p, "read")
        /\ UNCHANGED <<entry, handle>>
  /\ UNCHANGED <<sys, owner, written, aged, attempts, mine, seen>>

BadWrite(p) ==  \* the handle is closed once the metadata is written
  /\ pc[p] = "write"
  /\ written' = written \cup {mine[p]}
  /\ handle' = [handle EXCEPT ![p] = NoFile]
  /\ Goto(p, "held")
  /\ UNCHANGED <<sys, entry, owner, aged, attempts, mine, seen>>

\* os.write of pid and created_at; the handle stays open, acquire is True.
Write(p) ==
  /\ pc[p] = "write"
  /\ written' = written \cup {handle[p]}
  /\ Goto(p, "held")
  /\ UNCHANGED <<sys, entry, owner, aged, attempts, mine, handle, seen>>

\* _read_metadata, the open: a file that is gone reads as None.
ReadOpen(p) ==
  /\ pc[p] = "read"
  /\ \/ /\ entry = NoFile
        /\ seen' = [seen EXCEPT ![p] = NoFile]
        /\ Goto(p, "judge")
        /\ UNCHANGED handle
     \/ /\ entry # NoFile
        /\ handle' = [handle EXCEPT ![p] = entry]
        /\ Goto(p, "parse")
        /\ UNCHANGED seen
  /\ UNCHANGED <<sys, entry, owner, written, aged, attempts, mine>>

\* _read_metadata, the rest: a file without its metadata is not JSON and
\* reads as None too.
ReadParse(p) ==
  /\ pc[p] = "parse"
  /\ seen' = [seen EXCEPT ![p] = IF handle[p] \in written THEN handle[p] ELSE NoFile]
  /\ handle' = [handle EXCEPT ![p] = NoFile]
  /\ Goto(p, "judge")
  /\ UNCHANGED <<sys, entry, owner, written, aged, attempts, mine>>

BadJudge(p) ==  \* only the timeout counts
  LET f == seen[p] IN
  /\ pc[p] = "judge"
  /\ Goto(p, IF f = NoFile \/ f \in aged THEN "remove" ELSE "refused")
  /\ UNCHANGED <<sys, entry, owner, written, aged, attempts, mine, handle, seen>>

\* _recover_stale_lock: no metadata, too old, or the pid is not there.
Judge(p) ==
  LET f == seen[p] IN
  /\ pc[p] = "judge"
  /\ \/ /\ f # NoFile => f \in aged \/ (Dead(owner[f]) /\ owner[f] \notin reused)
        /\ Goto(p, "remove")
     \/ /\ f # NoFile
        /\ f \notin aged
        /\ Dead(owner[f]) => owner[f] \in reused
        /\ Goto(p, "refused")
  /\ UNCHANGED <<sys, entry, owner, written, aged, attempts, mine, handle, seen>>

\* _remove_lock_file: whatever the name stands for by now. When it worked
\* acquire starts again, when it did not acquire is False.
Remove(p) ==
  /\ pc[p] = "remove"
  /\ \/ /\ entry = NoFile \/ CanUnlink(entry)
        /\ entry' = NoFile
        /\ Goto(p, "open")
     \/ /\ entry # NoFile /\ ~CanUnlink(entry)
        /\ Goto(p, "refused")
        /\ UNCHANGED entry
  /\ UNCHANGED <<sys, owner, written, aged, attempts, mine, handle, seen>>

-----------------------------------------------------------------------------
(* release                                                                 *)

Close(p) ==
  /\ pc[p] = "held"
  /\ handle' = [handle EXCEPT ![p] = NoFile]
  /\ Goto(p, "unlink")
  /\ UNCHANGED <<sys, entry, owner, written, aged, attempts, mine, seen>>

\* Whatever the name stands for; an OSError is suppressed and leaves it.
Unlink(p) ==
  /\ pc[p] = "unlink"
  /\ entry' = IF CanUnlink(entry) THEN NoFile ELSE entry
  /\ Goto(p, "idle")
  /\ UNCHANGED <<sys, owner, written, aged, attempts, mine, handle, seen>>

-----------------------------------------------------------------------------
(* The system around                                                       *)

\* The process dies; the system closes its handles, the file stays.
Crash(p) ==
  /\ ~Dead(p)
  /\ handle' = [handle EXCEPT ![p] = NoFile]
  /\ Goto(p, "dead")
  /\ UNCHANGED <<sys, entry, owner, written, aged, attempts, mine, seen>>

\* Another program is started and gets the pid of a dead process.
PidComesBack(p) ==
  /\ Dead(p) /\ p \notin reused
  /\ reused' = reused \cup {p}
  /\ UNCHANGED <<platform, entry, owner, written, aged, attempts, pc, mine, handle, seen>>

\* stale_seconds pass. Nothing renews created_at, not even a live holder.
GetsOld(f) ==
  /\ f \in written \ aged
  /\ aged' = aged \cup {f}
  /\ UNCHANGED <<sys, entry, owner, written, attempts, pc, mine, handle, seen>>

Step(p) ==
  \/ Open(p) \/ Write(p)
  \/ ReadOpen(p) \/ ReadParse(p) \/ Judge(p) \/ Remove(p)
  \/ Unlink(p)

Next ==
  \/ \E p \in Procs : Acquire(p) \/ Step(p) \/ Close(p) \/ Crash(p) \/ PidComesBack(p)
  \/ \E f \in Files : GetsOld(f)

Spec == Init /\ [][Next]_vars

\* A process inside acquire or release goes on; when it releases is its own
\* affair.
FairSpec == Spec /\ \A p \in Procs : WF_vars(Step(p))

-----------------------------------------------------------------------------
(* Properties                                                              *)

\* state/store.py:179-182 ("ProcessLock for cross-process serialization"),
\* scheduler/service.py:338: two processes never both have acquire() = True
\* at the same time, although the file is created before it is written,
\* judged before it is removed and taken from an owner that may be alive.
MutualExclusion ==
  \A p, q \in Procs : pc[p] = "held" /\ pc[q] = "held" => p = q

\* That is what holds of it: where the open handle of the holder keeps its
\* file from being removed.
WindowsExclusion == platform = "windows" => MutualExclusion

\* The process is the only one left, and the name does not stand for a file
\* of its own earlier attempt.
Alone(p) ==
  /\ \A q \in Procs \ {p} : Dead(q)
  /\ entry # NoFile => owner[entry] # p

\* Wherever the others died, between creating the file and writing it, while
\* they held the lock or while they were taking it from somebody, the one
\* that is left gets the lock at its next attempt, without waiting for the
\* timeout, unless the pid of a dead one is in use again.
SurvivorGetsIn ==
  \A p \in Procs :
    (pc[p] = "open" /\ Alone(p)) ~> (pc[p] \in {"held", "dead"} \/ reused # {})

=============================================================================
