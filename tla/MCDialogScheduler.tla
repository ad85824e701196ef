-------------------------- MODULE MCDialogScheduler --------------------------
(* Instances of DialogScheduler for TLC. *)
EXTENDS DialogScheduler

CONSTANTS m1, m2, m3, c1, c2

\* m1 and m2 are one message, sent twice.
MCSentTwice == [m \in Msgs |-> IF m = m3 THEN NoClient ELSE c1]

\* A mention is its own client message.
MCOwnClient == [m \in Msgs |-> IF m = m1 THEN c1 ELSE c2]
=============================================================================
