-------------------------- MODULE MCWorkRunDispatch --------------------------
(* Instances of WorkRunDispatch for TLC. *)
EXTENDS WorkRunDispatch

CONSTANTS r1, r2, r3, s0, s1, s2, s3, p1, a1

\* Every Run asks for the same directory, or each for its own.
MCSameWorkspace == [r \in Runs |-> p1]
MCAgentOf == [r \in Runs |-> a1]
MCNoEscalations == {}
MCLastEscalation == {r2}
MCHome == [r \in Runs |-> CASE r = r1 -> s1 [] r = r2 -> s2 [] r = r3 -> s3]
=============================================================================
