------------------------------ MODULE CliTurns ------------------------------
(***************************************************************************)
(* The turns of one CLI Session as one window of the desktop client sees   *)
(* them: the direct send (userIntentDispatch.ts, cliTransport.ts), Stop    *)
(* (useSessionActions.ts, sessionTimelineBoundary.ts), the status pushed   *)
(* over the websocket and the batch read after a reconnect                 *)
(* (useBackgroundSessionMonitor.ts), and the coordinator that turns both   *)
(* into calls of the turn lifecycle (cliTurnLifecycleCoordinator.ts).      *)
(*                                                                         *)
(* The runner, the answers of its commands and the websocket are the       *)
(* outside world: they are taken from what the client is told and from     *)
(* the commands in src-tauri/src/agent_sessions/cli.  Each command holds   *)
(* the control lock of its Session, so it is one step.                     *)
(***************************************************************************)
EXTENDS TurnLifecycle, Sequences

CONSTANTS
  Own,            \* turn intents that this window sends
  Foreign,        \* turn intents of other windows and of the mobile relay
  MaxActs,        \* presses of Stop, and returns to the window, in all
  MaxFaults,      \* losses of the websocket and failed sends, in all
  MaxGates,       \* plans that wait for approval, in all
  MaxEvents,      \* any of these, together
  Circumstances,  \* what may happen besides: see AllCircumstances
  NoIntent

AllCircumstances == {
  "early_stop",        \* Stop is pressed before the window sees its message accepted
  "late_confirm",      \* a message is sent before the previous one is marked as sent
  "end_lost",          \* a turn follows another whose end the websocket lost
  "receipt_overtaken", \* a batch is applied while the answer of a message is on its way
  "read_shared",       \* the websocket comes back while a batch is being read
  "read_fails",        \* the batch that is read after that fails
  "end_passed_over"}   \* the end of a turn is not taken up, and a batch that says
                       \* that it runs is on its way

ASSUME CliAssumption ==
  /\ Own \cap Foreign = {} /\ NoIntent \notin Own \cup Foreign
  /\ {MaxActs, MaxFaults, MaxGates, MaxEvents} \subseteq Nat
  /\ Circumstances \subseteq AllCircumstances

Intents == Own \cup Foreign

VARIABLES
  turn,        \* the lifecycle of the Session
  step,        \* where the send of each intent is
  dispatchOf,  \* recentDispatches: the generation published for each own intent
  active,      \* activeBySession of this Session
  terminals,   \* recentTerminalIntents
  interrupt,   \* the cancel command in flight, and the generation it was meant for
  reading,     \* reconcilePromise: the status batch that is being read
  connected,   \* the websocket
  wire,        \* status messages on the websocket
  runner,      \* the intent that the backend runs
  latest,      \* the last intent it accepted, as the status batch reads it
  row,         \* the status in the row of the Session
  gated,       \* whether what runs has announced a plan (cli_plan_gate_announced)
  count,       \* how often each bounded thing happened
  ended        \* history: how many terminals of each intent the window applied

client == <<turn, step, dispatchOf, active, terminals>>
backend == <<runner, latest, row, gated>>
link == <<connected, wire>>
vars == <<client, interrupt, reading, link, backend, count, ended>>

NoActive == [intent |-> NoIntent, generation |-> 0]
NoInterrupt == [at |-> "none", generation |-> 0]
NoReading == [at |-> "none", repair |-> FALSE, intent |-> NoIntent, status |-> "none"]

Init ==
  /\ turn = NoTurn
  /\ step = [x \in Intents |-> "new"]
  /\ dispatchOf = [x \in Own |-> NoGeneration]
  /\ active = NoActive
  /\ terminals = {}
  /\ interrupt = NoInterrupt
  /\ reading = NoReading
  /\ connected = TRUE /\ wire = <<>>
  /\ runner = NoIntent /\ latest = NoIntent
  /\ row = "none" /\ gated = FALSE
  /\ count = [acts |-> 0, faults |-> 0, gates |-> 0]
  /\ ended = [x \in Intents |-> 0]

\* One more of what is bounded.
Counted(what, most) ==
  /\ count[what] < most /\ count.acts + count.faults + count.gates < MaxEvents
  /\ count' = [count EXCEPT ![what] = @ + 1]

-----------------------------------------------------------------------------
(* The coordinator. *)

\* getTurnIntentDispatch, NoGeneration for what this window did not send.
Published(x) == IF x \in Own THEN dispatchOf[x] ELSE NoGeneration

\* A running report that is taken up: its intent becomes the active one.
TakesRunning(x, t, generation) ==
  /\ RunningAccepted(t, generation)
  /\ turn' = MarkTurnRunning(t, generation)
  /\ active' = [intent |-> x, generation |-> generation]
  /\ UNCHANGED <<terminals, ended>>

\* A running report of the intent that is active already.
RepeatsRunning ==
  /\ turn' = MarkTurnRunning(turn, active.generation)
  /\ UNCHANGED <<active, terminals, ended>>

Ignored == UNCHANGED <<turn, active, terminals, ended>>

HandleRunning(x) ==
  LET known == Published(x) # NoGeneration
      foreignTurn == BeginTurnDispatch(turn) IN
  IF x = NoIntent \/ x \in terminals THEN Ignored
  ELSE IF active.intent = x THEN RepeatsRunning
  ELSE IF known
  THEN IF Published(x) >= active.generation /\ RunningAccepted(turn, Published(x))
       THEN TakesRunning(x, turn, Published(x)) ELSE Ignored
  ELSE \/ active = NoActive /\ Ignored  \* 256 other Sessions have an active turn
       \/ TakesRunning(x, foreignTurn, foreignTurn.generation)

\* The generation a terminal is taken to speak of.
TerminalGeneration(x) ==
  IF active # NoActive THEN active.generation
  ELSE IF x = NoIntent THEN NoGeneration ELSE Published(x)

\* Mutant: terminals that were applied are not remembered.
Unrelated_Forgets(x) ==
  IF x = NoIntent THEN active # NoActive ELSE active # NoActive /\ active.intent # x

\* A terminal that is about another turn than the active one, or was seen.
Unrelated(x) ==
  IF x = NoIntent THEN active # NoActive
  ELSE x \in terminals \/ (active # NoActive /\ active.intent # x)

HandleTerminal(x) ==
  IF Unrelated(x) \/ ~TerminalAccepted(turn, TerminalGeneration(x)) THEN Ignored
  ELSE /\ turn' = MarkTurnTerminal(turn, TerminalGeneration(x))
       /\ active' = NoActive
       /\ terminals' = terminals \cup ({x} \ {NoIntent})
       /\ ended' = IF x = NoIntent THEN ended ELSE [ended EXCEPT ![x] = @ + 1]

HandleStatus(status, x) ==
  IF status = "running" THEN HandleRunning(x) ELSE HandleTerminal(x)

-----------------------------------------------------------------------------
(* Sending. *)

OnItsWay(x) == step[x] \in {"sending", "answered", "marking"}

\* An intent is a fresh id: which of the unused ones it is makes no difference.
Fresh == CHOOSE x \in Own : step[x] = "new"

\* A submission is dispatched only when the Session is idle; otherwise it is
\* queued, and the queue dispatches it when the Session is idle.
PrepareUserIntent(x) ==
  /\ step[x] = "new" /\ x = Fresh /\ turn.phase = "idle"
  /\ "late_confirm" \in Circumstances \/ \A y \in Own : ~OnItsWay(y)
  /\ turn' = BeginTurnDispatch(turn)
  /\ dispatchOf' = [dispatchOf EXCEPT ![x] = turn'.generation]
  /\ step' = [step EXCEPT ![x] = "appending"]
  /\ UNCHANGED <<active, terminals, interrupt, reading, link, backend, count, ended>>

\* The end of a send that was not accepted: the generation is closed if it is
\* still this one (failUserIntentPreparation, and the catch of the preparation).
FailPreparation(x) ==
  /\ step' = [step EXCEPT ![x] = "failed"]
  /\ turn' = MarkTurnTerminal(turn, dispatchOf[x])
  /\ UNCHANGED <<dispatchOf, active, terminals, interrupt, reading, link,
                 backend, ended>>

\* Its row cannot be appended to the event store.
AppendFails(x) ==
  /\ step[x] = "appending"
  /\ FailPreparation(x) /\ Counted("faults", MaxFaults)

Superseded(x) ==
  turn.generation # dispatchOf[x] \/ turn.phase \notin {"dispatching", "working"}

\* The row is there, and the turn was stopped or superseded meanwhile.
SendSuperseded(x) ==
  /\ step[x] = "appending" /\ Superseded(x)
  /\ FailPreparation(x) /\ UNCHANGED count

SendMessage(x) ==
  /\ step[x] = "appending" /\ ~Superseded(x)
  /\ step' = [step EXCEPT ![x] = "sending"]
  /\ UNCHANGED <<turn, dispatchOf, active, terminals, interrupt, reading, link,
                 backend, count, ended>>

\* cli_agent_message failed.
SendRefused(x) ==
  /\ step[x] = "refused"
  /\ FailPreparation(x) /\ UNCHANGED count

\* The answer of cli_agent_message, handed to the coordinator.
RegisterReceipt(x) ==
  /\ step[x] = "answered"
  /\ HandleRunning(x)
  /\ step' = [step EXCEPT ![x] = "marking"]
  /\ UNCHANGED <<dispatchOf, interrupt, reading, link, backend, count>>

\* The row was marked as sent: dispatchUserIntent confirms whatever is pending.
ConfirmSent(x) ==
  /\ step[x] = "marking"
  /\ turn' = ConfirmTurnRunning(turn)
  /\ step' = [step EXCEPT ![x] = "accepted"]
  /\ UNCHANGED <<dispatchOf, active, terminals, interrupt, reading, link, backend,
                 count, ended>>

-----------------------------------------------------------------------------
(* Stop. *)

\* The Stop button is there while a turn is active.  Only one cancel is sent at
\* a time: another press moves the lifecycle and waits for the first.
Stop ==
  /\ turn.phase # "idle"
  /\ "early_stop" \in Circumstances \/ \A x \in Own : ~OnItsWay(x)
  /\ turn' = BeginTurnStopping(turn)
  /\ interrupt' = IF interrupt = NoInterrupt
                  THEN [at |-> "asked", generation |-> turn.generation] ELSE interrupt
  /\ Counted("acts", MaxActs)
  /\ UNCHANGED <<step, dispatchOf, active, terminals, reading, link, backend, ended>>

CancelAnswered ==
  /\ interrupt.at = "done"
  /\ interrupt' = NoInterrupt
  /\ UNCHANGED <<client, reading, link, backend, count, ended>>

\* onError: "no terminal will arrive, unlock now".
StopFailed ==
  /\ interrupt.at = "failed"
  /\ turn' = ForceTurnIdle(turn)
  /\ interrupt' = NoInterrupt
  /\ UNCHANGED <<step, dispatchOf, active, terminals, reading, link, backend,
                 count, ended>>

\* The timer of a locked phase expires.
Deadman ==
  /\ DeadmanArmed(turn)
  /\ turn' = ForceTurnIdle(turn)
  /\ UNCHANGED <<step, dispatchOf, active, terminals, interrupt, reading, link,
                 backend, count, ended>>

-----------------------------------------------------------------------------
(* What the client is told. *)

Status(status, x) == [status |-> status, intent |-> x]

InWire(message) == \E i \in 1 .. Len(wire) : wire[i] = message

\* A batch is on its way that says that x runs, or may come to say so.
SaysRunning(x) ==
  reading.intent = x /\ (reading.at = "intents" \/ reading.status = "running")

\* An end that is told now is not taken up, and was not before.
PassedOver(x) ==
  x \notin terminals /\ (Unrelated(x) \/ ~TerminalAccepted(turn, TerminalGeneration(x)))

DeliverStatus ==
  /\ connected /\ wire # <<>>
  /\ \/ "end_passed_over" \in Circumstances
     \/ Head(wire).status = "running" \/ ~SaysRunning(Head(wire).intent)
     \/ ~PassedOver(Head(wire).intent)
  /\ HandleStatus(Head(wire).status, Head(wire).intent)
  /\ wire' = Tail(wire)
  /\ UNCHANGED <<step, dispatchOf, interrupt, reading, connected, backend, count>>

Lose ==
  /\ connected
  /\ \/ "end_lost" \in Circumstances
     \/ /\ active.intent \in {NoIntent, latest}
        /\ \A x \in Intents : SaysRunning(x) => x = latest
        /\ \A i \in 1 .. Len(wire) : wire[i].intent \in {NoIntent, latest}
  /\ connected' = FALSE /\ wire' = <<>>
  /\ Counted("faults", MaxFaults)
  /\ UNCHANGED <<client, interrupt, reading, backend, ended>>

\* reconcile: a read under way is shared by whoever asks for one.  A Session at
\* rest need not be among the ones that are asked for.
Asks(repair) ==
  \/ reading # NoReading /\ reading' = [reading EXCEPT !.repair = @ \/ repair]
  \/ reading = NoReading /\ reading' = [NoReading EXCEPT !.at = "asked", !.repair = repair]
  \/ reading = NoReading /\ turn.phase = "idle" /\ active = NoActive /\ UNCHANGED reading

\* Mutant: a reconnect asks nothing.
Reconnect_Silent ==
  /\ ~connected
  /\ connected' = TRUE
  /\ UNCHANGED <<client, interrupt, reading, wire, backend, count, ended>>

Reconnect ==
  /\ ~connected
  /\ "read_shared" \in Circumstances \/ reading = NoReading
  /\ connected' = TRUE
  /\ Asks(TRUE)
  /\ UNCHANGED <<client, interrupt, wire, backend, count, ended>>

\* The window becomes visible, or gets the focus.
Reconcile ==
  /\ reading = NoReading
  /\ Asks(FALSE) /\ Counted("acts", MaxActs)
  /\ UNCHANGED <<client, interrupt, link, backend, ended>>

\* cli_agent_status_batch reads the last intent first, and then the row.
ReadIntents ==
  /\ reading.at = "asked"
  /\ reading' = [reading EXCEPT !.at = "intents", !.intent = latest]
  /\ UNCHANGED <<client, interrupt, link, backend, count, ended>>

ReadRows ==
  /\ reading.at = "intents"
  /\ reading' = [reading EXCEPT !.at = "answered", !.status = row]
  /\ UNCHANGED <<client, interrupt, link, backend, count, ended>>

\* It fails: nothing is applied, and nobody asks again.
BatchFails ==
  /\ reading.at \in {"asked", "intents"}
  /\ "read_fails" \in Circumstances \/ ~reading.repair
  /\ reading' = NoReading
  /\ UNCHANGED <<client, interrupt, link, backend, count, ended>>

\* The answer is applied whenever it comes, however old it is.
ApplyBatch ==
  /\ reading.at = "answered"
  /\ "receipt_overtaken" \in Circumstances \/ \A x \in Own : step[x] # "answered"
  /\ IF reading.status = "none" THEN Ignored ELSE HandleStatus(reading.status, reading.intent)
  /\ reading' = NoReading
  /\ UNCHANGED <<step, dispatchOf, interrupt, link, backend, count>>

-----------------------------------------------------------------------------
(* The backend. *)

Broadcast(messages) ==
  /\ wire' = IF connected THEN wire \o messages ELSE wire
  /\ UNCHANGED connected

\* The turn that a follow-up or a cancel interrupts.
Interrupted == IF runner = NoIntent THEN <<>> ELSE <<Status("terminal", runner)>>

\* The window tracks a turn, or is about to, whose end it will not be told.
EndLost ==
  \/ ~connected /\ runner \in Foreign
  \/ \E x \in Intents \ {runner} :
       /\ \/ active = [intent |-> x, generation |-> turn.generation]
          \/ x \in Own /\ step[x] = "answered" /\ x \notin terminals
          \/ SaysRunning(x) /\ x \notin terminals
       /\ ~InWire(Status("terminal", x))

Accept(x) ==
  /\ "end_lost" \in Circumstances \/ (~EndLost /\ (connected \/ x \in Own))
  /\ Broadcast(Append(Interrupted, Status("running", x)))
  /\ runner' = x /\ latest' = x /\ row' = "running" /\ gated' = FALSE
  /\ UNCHANGED <<turn, dispatchOf, active, terminals, interrupt, reading, count, ended>>

AcceptMessage(x) ==
  /\ step[x] = "sending"
  /\ step' = [step EXCEPT ![x] = "answered"]
  /\ Accept(x)

\* The row and the intent are written, and then it is told.
Ends ==
  /\ Broadcast(Interrupted)
  /\ runner' = NoIntent /\ row' = "terminal" /\ gated' = FALSE

\* Refused, before or after the turn it would have followed was killed.
RefuseMessage(x) ==
  /\ step[x] = "sending"
  /\ step' = [step EXCEPT ![x] = "refused"]
  /\ UNCHANGED <<link, runner, row, gated>> \/ (runner # NoIntent /\ Ends)
  /\ Counted("faults", MaxFaults)
  /\ UNCHANGED <<turn, dispatchOf, active, terminals, interrupt, reading, latest, ended>>

\* Another window sends.
ForeignSend(x) ==
  /\ step[x] = "new"
  /\ step' = [step EXCEPT ![x] = "accepted"]
  /\ Accept(x)

RunnerEnds ==
  /\ runner # NoIntent
  /\ Ends
  /\ UNCHANGED <<client, interrupt, reading, latest, count, ended>>

\* A plan waits for approval: the row says `completed`, and so does a message
\* that names no turn, while the runner still drains its process.
PlanGate ==
  /\ runner # NoIntent /\ ~gated
  /\ gated' = TRUE
  /\ row' = "terminal"
  /\ Broadcast(<<Status("terminal", NoIntent)>>)
  /\ Counted("gates", MaxGates)
  /\ UNCHANGED <<client, interrupt, reading, runner, latest, ended>>

\* cancel_session: it kills what runs and reports it, or reports a cancel of
\* nothing in particular.  A native interrupt that timed out is an error too.
CancelSession ==
  /\ interrupt.at = "asked"
  /\ Broadcast(IF runner = NoIntent THEN <<Status("terminal", NoIntent)>> ELSE Interrupted)
  /\ runner' = NoIntent /\ row' = "terminal" /\ gated' = FALSE
  /\ interrupt' = [interrupt EXCEPT !.at = "done"]
  /\ UNCHANGED <<client, reading, latest, count, ended>>

CancelTimesOut ==
  /\ interrupt.at = "asked" /\ runner # NoIntent
  /\ Ends
  /\ interrupt' = [interrupt EXCEPT !.at = "failed"]
  /\ UNCHANGED <<client, reading, latest, count, ended>>

-----------------------------------------------------------------------------
Sending(x) ==
  \/ PrepareUserIntent(x) \/ AppendFails(x) \/ SendSuperseded(x) \/ SendMessage(x)
  \/ SendRefused(x) \/ RegisterReceipt(x) \/ ConfirmSent(x)
  \/ AcceptMessage(x) \/ RefuseMessage(x)

Next ==
  \/ \E x \in Own : Sending(x)
  \/ \E x \in Foreign : ForeignSend(x)
  \/ Stop \/ CancelAnswered \/ StopFailed \/ CancelSession
  \/ CancelTimesOut \/ Deadman
  \/ DeliverStatus \/ Lose \/ Reconnect \/ Reconcile
  \/ ReadIntents \/ ReadRows \/ BatchFails \/ ApplyBatch
  \/ RunnerEnds \/ PlanGate

(* Commands answer, the websocket reconnects and delivers, timers expire   *)
(* and a runner comes to an end.  Nobody has to press Stop or to send.     *)
Fairness ==
  /\ \A x \in Own :
       WF_vars(SendMessage(x) \/ SendSuperseded(x) \/ SendRefused(x)
               \/ AcceptMessage(x) \/ RegisterReceipt(x) \/ ConfirmSent(x))
  /\ WF_vars(DeliverStatus \/ Reconnect)
  /\ WF_vars(ReadIntents \/ ReadRows \/ ApplyBatch)
  /\ WF_vars(RunnerEnds) /\ WF_vars(Deadman)

Spec == Init /\ [][Next]_vars /\ Fairness

-----------------------------------------------------------------------------
(* Properties. *)

Steps == {"new", "appending", "sending", "refused", "answered", "marking", "accepted",
          "failed"}

Message == [status : {"running", "terminal"}, intent : Intents \cup {NoIntent}]

Readings == [at : {"none", "asked", "intents", "answered"}, repair : BOOLEAN,
             intent : Intents \cup {NoIntent}, status : {"none", "running", "terminal"}]

Counts == [acts : 0 .. MaxActs, faults : 0 .. MaxFaults, gates : 0 .. MaxGates]

\* Every variable has its type.
TypeOK ==
  /\ turn \in [phase : Phases, generation : Nat]
  /\ step \in [Intents -> Steps]
  /\ dispatchOf \in [Own -> Nat]
  /\ active \in [intent : Intents \cup {NoIntent}, generation : Nat]
  /\ terminals \subseteq Intents
  /\ connected \in BOOLEAN
  /\ reading \in Readings
  /\ interrupt \in [at : {"none", "asked", "done", "failed"}, generation : Nat]
  /\ wire \in Seq(Message)
  /\ runner \in Intents \cup {NoIntent} /\ latest \in Intents \cup {NoIntent}
  /\ row \in {"none", "running", "terminal"} /\ gated \in BOOLEAN
  /\ count \in Counts
  /\ ended \in [Intents -> Nat]

\* The end of a turn is applied once, however many of a pushed status, a
\* receipt and a batch report it: what hangs on it (a notification) happens once.
TerminalAppliedOnce == \A x \in Intents : ended[x] <= 1

\* The turn of x holds the Session: it is being dispatched, or was taken up.
Holds(x) ==
  \/ turn.phase = "dispatching" /\ x \in Own /\ dispatchOf[x] = turn.generation
  \/ turn.phase # "idle" /\ active = [intent |-> x, generation |-> turn.generation]

\* Still to be run, or running and not yet waiting for the approval of its plan, at which
\* the back end unlocks the composer though its runner still drains (transport_standard.rs:360).
Live(x) == (runner = x /\ ~gated) \/ step[x] \in {"appending", "sending"}

\* A report never releases the Session while the turn that holds it is live: not a late
\* report of an older turn, not one that names no turn, and not a batch, however long ago
\* it was read.
ReleasedByItsOwnEnd ==
  [][ turn'.phase = "idle" /\ turn'.generation = turn.generation
      => \A x \in Intents : Holds(x) => ~Live(x)' ]_vars

\* Nothing that a turn reports undoes a Stop: the Session leaves `stopping` for
\* another turn only, never for the one that was stopped.
StopHolds ==
  [][ (turn.phase = "stopping" /\ turn'.phase \in {"working", "dispatching"})
      => turn'.generation > turn.generation ]_vars

\* The tracked turn can still be ended: while the Session works for it, the
\* generation kept for it is the one its terminal will be compared with.
TrackedTurnCanEnd ==
  turn.phase = "working" /\ active # NoActive =>
    active.generation = turn.generation \/ \E x \in Own : dispatchOf[x] = turn.generation

\* Nothing is on its way: no command, no status, no timer, nothing running.
Quiet ==
  /\ runner = NoIntent /\ connected /\ wire = <<>> /\ reading = NoReading
  /\ \A x \in Intents : step[x] \in {"new", "accepted", "failed"}
  /\ interrupt.at \in {"none", "asked"}

\* A Session never waits for a turn that is over: `working` has no timer, so
\* once nothing is on its way the last terminal must have been applied.
NoStrandedTurn == Quiet => turn.phase # "working"

\* The error of a Stop unlocks the turn that it stopped and no other one.
FailedStopUnlocksItsTurn ==
  [][ StopFailed => turn.phase = "idle" \/ turn.generation = interrupt.generation ]_vars

\* Whatever is dispatched or opened, the Session becomes idle again.
TurnIsReleased == turn.phase # "idle" ~> turn.phase = "idle"
=============================================================================
