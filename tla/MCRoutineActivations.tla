------------------------ MODULE MCRoutineActivations ------------------------
(* Instances of RoutineActivations for TLC. *)
EXTENDS RoutineActivations

CONSTANTS f1, h1

\* A schedule with two activations, one that queues and one that always fires,
\* and manual fires that skip.
MCMixed == [k \in Keys |-> CASE k \in Fires -> "skip" [] k = 2 -> "always" [] OTHER -> "queue"]
=============================================================================
