---------------------------- MODULE MCProcessLock ----------------------------
(* Instances of ProcessLock for TLC. *)
EXTENDS ProcessLock, TLC

\* Processes are interchangeable in every safety property.
Symmetry == Permutations(Procs)

=============================================================================
