-------------------------- MODULE ExclusiveDispatch --------------------------
(***************************************************************************)
(* What the Work Item Run store promises, without its tables: a queue that *)
(* hands each Run to one holder at a time until one of them delivers it or *)
(* the Run ends, and never hands out two Runs that need the same directory *)
(* at once unless a holder has overstayed.                                 *)
(*                                                                         *)
(* There is no outbox row, no lease token, no lock table and no clock here.*)
(* WorkRun is shown to implement this module.                              *)
(***************************************************************************)
EXTENDS Naturals

CONSTANTS Runs, NoPath, Workspace

VARIABLES
  stage,    \* how far a Run has come
  holds,    \* how many holders it has had
  overdue   \* the held and accepted Runs that have overstayed

vars == <<stage, holds, overdue>>

Stages == {"absent", "waiting", "held", "accepted", "ended"}

Init ==
  /\ stage = [r \in Runs |-> "absent"]
  /\ holds = [r \in Runs |-> 0]
  /\ overdue = {}

\* The Runs that use the directory that Run r needs.
Rivals(r) ==
  {q \in Runs \ {r} : /\ Workspace[r] # NoPath
                      /\ Workspace[q] = Workspace[r]
                      /\ stage[q] \in {"held", "accepted"}}

Submit(r) ==
  /\ stage[r] = "absent"
  /\ stage' = [stage EXCEPT ![r] = "waiting"]
  /\ UNCHANGED <<holds, overdue>>

\* A Run that is held may pass to another holder: the first one was too slow.
Hold(r) ==
  /\ stage[r] \in {"waiting", "held"}
  /\ Rivals(r) \subseteq overdue
  /\ stage' = [stage EXCEPT ![r] = "held"]
  /\ holds' = [holds EXCEPT ![r] = @ + 1]
  /\ overdue' = overdue \ {r}

Accept(r) ==
  /\ stage[r] = "held"
  /\ stage' = [stage EXCEPT ![r] = "accepted"]
  /\ UNCHANGED <<holds, overdue>>

Return(r) ==
  /\ stage[r] = "held"
  /\ stage' = [stage EXCEPT ![r] = "waiting"]
  /\ overdue' = overdue \ {r}
  /\ UNCHANGED holds

\* Runs end: one with the outcome of its work, or several that are withdrawn.
End(S) ==
  /\ \A r \in S : stage[r] \in {"waiting", "held", "accepted"}
  /\ stage' = [r \in Runs |-> IF r \in S THEN "ended" ELSE stage[r]]
  /\ overdue' = overdue \ S
  /\ UNCHANGED holds

Overstay(r) ==
  /\ stage[r] \in {"held", "accepted"}
  /\ overdue' = overdue \cup {r}
  /\ UNCHANGED <<stage, holds>>

Next ==
  \/ \E r \in Runs : Submit(r) \/ Hold(r) \/ Accept(r) \/ Return(r) \/ Overstay(r)
  \/ \E S \in SUBSET Runs : End(S)

Spec == Init /\ [][Next]_vars
=============================================================================
