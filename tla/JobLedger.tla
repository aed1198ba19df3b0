------------------------------ MODULE JobLedger ------------------------------
(***************************************************************************)
(* What the jobs table promises, whatever the order in which requests,     *)
(* drivers, the reconciler and the retention task write it: the weakest    *)
(* contract that a client polling GET /jobs/{id} may count on.             *)
(*                                                                         *)
(*   - an id is submitted once, and once it is forgotten it stays so;      *)
(*   - a job is put in "running" at most once;                             *)
(*   - "success" is only ever shown for a job whose one run really ended   *)
(*     with exit code 0;                                                   *)
(*   - a job is forgotten only after it was closed at least once.          *)
(*                                                                         *)
(* "failed" and "cancelled" promise less: they can be written over a live  *)
(* run and be overwritten by it.                                           *)
(***************************************************************************)
EXTENDS Naturals

CONSTANT Jobs

VARIABLES
  phase,    \* what a client reads: unborn, a status, or forgotten
  begun,    \* the job has been put in "running"
  passed,   \* the run of the job ended with exit code 0
  closed    \* the job has reached a terminal status at least once

ledger == <<phase, begun, passed, closed>>

Live  == {"queued", "running", "success", "failed", "cancelled"}
Phase == Live \cup {"unborn", "forgotten"}

TypeOK ==
  /\ phase \in [Jobs -> Phase]
  /\ begun \in [Jobs -> BOOLEAN]
  /\ passed \in [Jobs -> BOOLEAN]
  /\ closed \in [Jobs -> BOOLEAN]

Init ==
  /\ phase = [j \in Jobs |-> "unborn"]
  /\ begun = [j \in Jobs |-> FALSE]
  /\ passed = [j \in Jobs |-> FALSE]
  /\ closed = [j \in Jobs |-> FALSE]

Submit(j) ==
  /\ phase[j] = "unborn"
  /\ phase' = [phase EXCEPT ![j] = "queued"]
  /\ UNCHANGED <<begun, passed, closed>>

Begin(j) ==
  /\ phase[j] \in Live
  /\ ~begun[j]
  /\ phase' = [phase EXCEPT ![j] = "running"]
  /\ begun' = [begun EXCEPT ![j] = TRUE]
  /\ UNCHANGED <<passed, closed>>

\* The scenario itself ends with exit code 0; nobody sees it yet.
Pass(j) ==
  /\ begun[j]
  /\ passed' = [passed EXCEPT ![j] = TRUE]
  /\ UNCHANGED <<phase, begun, closed>>

\* A terminal status is written: "success" needs a run that passed.
Close(j, status) ==
  /\ phase[j] \in Live
  /\ status = "success" => passed[j]
  /\ phase' = [phase EXCEPT ![j] = status]
  /\ closed' = [closed EXCEPT ![j] = TRUE]
  /\ UNCHANGED <<begun, passed>>

\* Retention works on batches.
Forget(batch) ==
  /\ \A j \in batch : closed[j]
  /\ phase' = [j \in Jobs |-> IF j \in batch THEN "forgotten" ELSE phase[j]]
  /\ UNCHANGED <<begun, passed, closed>>

Next ==
  \/ \E j \in Jobs :
       \/ Submit(j) \/ Begin(j) \/ Pass(j)
       \/ \E status \in {"success", "failed", "cancelled"} : Close(j, status)
  \/ \E batch \in SUBSET Jobs : Forget(batch)

Spec == Init /\ [][Next]_ledger

=============================================================================
