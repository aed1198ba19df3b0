--------------------------- MODULE MCJobLifecycle ---------------------------
(* Instances of JobLifecycle for TLC. *)
EXTENDS JobLifecycle, TLC

\* Jobs, requests and workers are interchangeable in every safety property.
Symmetry == Permutations(Jobs) \cup Permutations(Requests)

=============================================================================
