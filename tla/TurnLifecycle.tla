--------------------------- MODULE TurnLifecycle ---------------------------
(***************************************************************************)
(* The turn-lifecycle machine of the desktop client                        *)
(* (SessionCore/control/turnLifecycle.ts): whether a turn of a Session is  *)
(* active.  Every queueing decision of a window is taken from it.  It is   *)
(* an operator from one state to the next for each exported function; the  *)
(* modules that drive it decide when each is called.                       *)
(*                                                                         *)
(* A turn carries a generation.  Who reports something about a turn may    *)
(* name the generation it speaks of; NoGeneration stands for a report that *)
(* names none.  Generations handed out by a dispatch start at 1.           *)
(***************************************************************************)
EXTENDS Naturals

Phases == {"idle", "dispatching", "working", "stopping"}

NoGeneration == 0

\* What a Session looks like before anything was dispatched to it.
NoTurn == [phase |-> "idle", generation |-> 0]

BeginTurnDispatch(turn) ==
  [phase |-> "dispatching", generation |-> turn.generation + 1]

Concerns(generation, turn) == generation \in {NoGeneration, turn.generation}

\* Mutant: a report of a running turn undoes a Stop.
RunningAccepted_Though_Stopping(turn, generation) == Concerns(generation, turn)

\* What markTurnRunning answers.
RunningAccepted(turn, generation) ==
  Concerns(generation, turn) /\ turn.phase # "stopping"

\* Mutant: every report of a running turn opens one, unless it was dispatched.
MarkTurnRunning_Always_Opens(turn, generation) ==
  IF RunningAccepted(turn, generation)
  THEN [phase |-> "working",
        generation |-> turn.generation + (IF turn.phase = "dispatching" THEN 0 ELSE 1)]
  ELSE turn

\* From idle it opens a turn nobody dispatched, with a generation of its own.
MarkTurnRunning(turn, generation) ==
  IF RunningAccepted(turn, generation)
  THEN [phase |-> "working",
        generation |-> turn.generation + (IF turn.phase = "idle" THEN 1 ELSE 0)]
  ELSE turn

ConfirmTurnRunning(turn) ==
  IF turn.phase = "dispatching" THEN [turn EXCEPT !.phase = "working"] ELSE turn

BeginTurnStopping(turn) ==
  IF turn.phase = "idle" THEN turn ELSE [turn EXCEPT !.phase = "stopping"]

\* Mutant: a turn is restored though it has ended.
RestoreTurnWorking_Though_Ended(turn, generation) ==
  IF Concerns(generation, turn) THEN [turn EXCEPT !.phase = "working"] ELSE turn

RestoreTurnWorking(turn, generation) ==
  IF turn.phase = "stopping" /\ Concerns(generation, turn)
  THEN [turn EXCEPT !.phase = "working"] ELSE turn

\* Mutant: the end of anything ends a dispatch.
TerminalAccepted_While_Dispatching(turn, generation) == Concerns(generation, turn)

\* What markTurnTerminal answers.
TerminalAccepted(turn, generation) ==
  /\ Concerns(generation, turn)
  /\ ~(turn.phase = "dispatching" /\ generation = NoGeneration)

MarkTurnTerminal(turn, generation) ==
  IF TerminalAccepted(turn, generation) THEN [turn EXCEPT !.phase = "idle"] ELSE turn

ForceTurnIdle(turn) == [phase |-> "idle", generation |-> turn.generation + 1]

\* A phase the user can see as a lock is bounded by a timer, armed on entry.
DeadmanArmed(turn) == turn.phase \in {"dispatching", "stopping"}
=============================================================================
