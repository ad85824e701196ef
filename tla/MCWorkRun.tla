------------------------------ MODULE MCWorkRun ------------------------------
(* An instance of WorkRun for TLC. *)
EXTENDS WorkRun

CONSTANTS r1, r2, p1, a1

\* Both Runs are deferred escalations of one Discussion: they ask for the same, may
\* retry each other, and the end of one cancels the other while that waits.
MCSameWorkspace == [r \in Runs |-> p1]
MCAgentOf == [r \in Runs |-> a1]
MCEscalations == Runs
=============================================================================
