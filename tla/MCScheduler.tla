----------------------------- MODULE MCScheduler -----------------------------
(* Instances of Scheduler for TLC. *)
EXTENDS Scheduler

\* A slot that needs the network, one that overlaps it, and one later on the first day.
MCSlots ==
  {[id |-> "a", days |-> 0..6, start |-> 1, end |-> 3, network |-> TRUE],
   [id |-> "b", days |-> 0..6, start |-> 2, end |-> 4, network |-> FALSE],
   [id |-> "c", days |-> {0}, start |-> 4, end |-> 5, network |-> FALSE]}

\* A zone whose midnight comes before that of UTC, and one where it is later.
MCEast == -1
MCWest == 5

\* One slot late in the day.
MCLateSlots ==
  {[id |-> "a", days |-> 0..6, start |-> 3, end |-> 7, network |-> FALSE]}

=============================================================================
