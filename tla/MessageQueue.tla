---------------------------- MODULE MessageQueue ----------------------------
(***************************************************************************)
(* The message queue of one agent Session in one window: what a submission *)
(* does while a turn is active (useUserIntentSubmit.ts), the rows that the *)
(* user sees and changes (messageQueueAtom.ts), the single dispatcher that *)
(* drains them (useQueueDispatch.ts, useQueueMessageDispatch.ts), and Stop *)
(* and Send Now, which interrupt the turn (sessionTimelineBoundary.ts).    *)
(*                                                                         *)
(* The queue decides from the turn lifecycle alone, except that a message  *)
(* that follows naturally asks the backend first.  The backend runs the    *)
(* messages it accepted one by one (DialogScheduler); the end of each is   *)
(* told twice, on the channel of the Session with the name of its intent   *)
(* and as a process-wide event without one.                                *)
(***************************************************************************)
EXTENDS TurnLifecycle, SequencesExt

CONSTANTS
  MaxMessages,    \* submissions, in all
  MaxCommands,    \* Stop, Send Now, edit, removal and reordering, in all
  MaxFaults,      \* failed sends, reads, cancels and turns, in all
  Circumstances   \* what may happen besides: see AllCircumstances

AllCircumstances == {
  "verdict_overtaken",  \* the user acts on the queue while the backend is being asked
  "cancel_overtaken",   \* a message is dispatched, or a Stop pressed, while a cancel is on its way
  "slow_start",         \* a timer expires, or the backend is asked, before a sent turn starts
  "channel_behind"}     \* the end of a turn is told by the event before its start by the channel

ASSUME QueueAssumption ==
  /\ {MaxMessages, MaxCommands, MaxFaults} \subseteq Nat
  /\ Circumstances \subseteq AllCircumstances

\* What the user submits, in this order.
Messages == 1 .. MaxMessages
NoMessage == 0

VARIABLES
  turn,        \* the lifecycle of the Session
  queue,       \* the visible rows, in order
  now,         \* the rows with priority "now"
  held,        \* the rows with requiresExplicitDispatch
  failed,      \* the rows with a deliveryError
  step,        \* where the send of each message is
  dispatchOf,  \* the generation published for each message
  lock,        \* dispatchLock and inFlightMessageId: the message the dispatcher sends
  verdict,     \* what the backend answered for it
  natural,     \* the message it sends has turnIntentSource "queue", not "force_send"
  editing,     \* queueEditTarget
  asked,       \* interruptRequestedByMessageId
  cancel,      \* the cancel in flight of each kind of boundary
  postStop,    \* the episode after a Stop: what is submitted then is explicit
  jobs,        \* what the backend accepted and has not finished
  running,     \* the first of them runs
  dead,        \* the last turn that ended left the Session failed
  channel,     \* statuses on the channel of the Session
  events,      \* ends on the process-wide event, which does not name them
  count,       \* how often each bounded thing happened
  sent         \* history: how often each message was accepted

rows == <<queue, now, held, failed>>
sending == <<step, dispatchOf, lock, verdict, natural>>
boundary == <<asked, cancel, postStop>>
backend == <<jobs, running, dead, sent>>
told == <<channel, events>>
vars == <<turn, rows, sending, editing, boundary, backend, told, count>>

Boundaries == {"stop", "force-send"}
NoCancel == [at |-> "none", message |-> NoMessage, generation |-> 0]

Init ==
  /\ turn = NoTurn
  /\ queue = <<>> /\ now = {} /\ held = {} /\ failed = {}
  /\ step = [m \in Messages |-> "new"]
  /\ dispatchOf = [m \in Messages |-> NoGeneration]
  /\ lock = NoMessage /\ verdict = "none" /\ natural = FALSE
  /\ editing = NoMessage
  /\ asked = {} /\ cancel = [b \in Boundaries |-> NoCancel] /\ postStop = FALSE
  /\ jobs = <<>> /\ running = FALSE /\ dead = FALSE
  /\ channel = <<>> /\ events = <<>>
  /\ count = [commands |-> 0, faults |-> 0]
  /\ sent = [m \in Messages |-> 0]

Counted(what) == count' = [count EXCEPT ![what] = @ + 1]
Command == count.commands < MaxCommands /\ Counted("commands")
Fault == count.faults < MaxFaults /\ Counted("faults")

Queued(m) == Contains(queue, m)
Allowed(circumstance) == circumstance \in Circumstances

-----------------------------------------------------------------------------
(* Submitting. *)

\* A cancel is on its way, or its refusal is.
Cancelling == \E kind \in Boundaries : cancel[kind].at \in {"asked", "refused"}

\* prepareUserIntent.
Reserve(m) ==
  /\ Allowed("cancel_overtaken") \/ ~Cancelling
  /\ turn' = BeginTurnDispatch(turn)
  /\ dispatchOf' = [dispatchOf EXCEPT ![m] = turn'.generation]
  /\ step' = [step EXCEPT ![m] = "appending"]

\* hasQueuedNaturalSibling: a row that a direct send would overtake.
NaturalSibling == \E m \in Messages : Queued(m) /\ m \notin held

Submitted(m) == step[m] = "new" /\ \A n \in 1 .. m - 1 : step[n] # "new"

SubmitDirect(m) ==
  /\ Submitted(m)
  /\ ~postStop /\ turn.phase = "idle" /\ ~NaturalSibling
  /\ Reserve(m)
  /\ UNCHANGED <<rows, lock, verdict, natural, editing, boundary, backend, told, count>>

Enqueue(m) ==
  /\ Submitted(m)
  /\ postStop \/ turn.phase # "idle" \/ NaturalSibling
  /\ queue' = Append(queue, m)
  /\ now' = IF postStop THEN now \cup {m} ELSE now
  /\ step' = [step EXCEPT ![m] = "waiting"]
  /\ UNCHANGED <<turn, held, failed, dispatchOf, lock, verdict, natural, editing, boundary,
                 backend, told, count>>

-----------------------------------------------------------------------------
(* What the user does with a row. *)

Untouched == verdict = "none" \/ Allowed("verdict_overtaken")

\* Send Now.  The row keeps its place.
ForceSend(m) ==
  /\ Queued(m) /\ Untouched /\ Command
  /\ now' = now \cup {m} /\ held' = held \ {m} /\ failed' = failed \ {m}
  /\ UNCHANGED <<turn, queue, sending, editing, boundary, backend, told>>

StartEdit(m) ==
  /\ Queued(m) /\ editing = NoMessage /\ Untouched /\ Command
  /\ editing' = m
  /\ UNCHANGED <<turn, rows, sending, boundary, backend, told>>

\* Saved, which clears the error of the row but not its hold, or given up.
EndEdit ==
  /\ editing # NoMessage
  /\ editing' = NoMessage
  /\ failed' \in {failed, failed \ {editing}}
  /\ UNCHANGED <<turn, queue, now, held, sending, boundary, backend, told, count>>

\* No message has two rows.
Without(m) == RemoveAt(queue, CHOOSE i \in DOMAIN queue : queue[i] = m)

DropRow(m) ==
  /\ queue' = IF Queued(m) THEN Without(m) ELSE queue
  /\ now' = now \ {m} /\ held' = held \ {m} /\ failed' = failed \ {m}

ClearRow(m) ==
  /\ Queued(m) /\ Untouched /\ Command
  /\ DropRow(m)
  /\ UNCHANGED <<turn, sending, editing, boundary, backend, told>>

\* A row is moved to the front; that is every order in the end.
Reorder(m) ==
  /\ Queued(m) /\ Head(queue) # m /\ Untouched /\ Command
  /\ queue' = <<m>> \o Without(m)
  /\ UNCHANGED <<turn, now, held, failed, sending, editing, boundary, backend, told>>

-----------------------------------------------------------------------------
(* Boundaries. *)

\* cancelTurnForTimelineBoundary: only a turn that is active is cancelled, and
\* there is one cancel of a kind at a time.
BeginBoundary(kind, m) ==
  /\ turn' = BeginTurnStopping(turn)
  /\ cancel' = IF turn.phase # "idle" /\ cancel[kind] = NoCancel
               THEN [cancel EXCEPT ![kind] = [at |-> "asked", message |-> m,
                                              generation |-> turn.generation]]
               ELSE cancel

\* Stop parks every row, and turns none of them back from "now".
Stop ==
  /\ turn.phase # "idle" /\ Untouched /\ Command
  /\ Allowed("cancel_overtaken") \/ ~Cancelling
  /\ BeginBoundary("stop", NoMessage)
  /\ postStop' = TRUE
  /\ held' = held \cup {m \in Messages : Queued(m)}
  /\ UNCHANGED <<queue, now, failed, sending, editing, asked, backend, told>>

\* settleQueuedMessageFailure: the row is a failed one, and is added again if it
\* is gone.
FailRow(m) ==
  /\ queue' = IF Queued(m) THEN queue ELSE Append(queue, m)
  /\ now' = now \ {m} /\ held' = held \cup {m} /\ failed' = failed \cup {m}
  /\ asked' = asked \ {m}

\* "Interrupt RPC failed": the Session is unlocked.
StopRefused ==
  /\ cancel["stop"].at = "refused"
  /\ turn' = ForceTurnIdle(turn)
  /\ cancel' = [cancel EXCEPT !["stop"] = NoCancel]
  /\ UNCHANGED <<rows, sending, editing, asked, postStop, backend, told, count>>

\* handleInterruptFailure: the turn goes on, and the row that asked for it fails.
ForceSendRefused ==
  /\ cancel["force-send"].at = "refused"
  /\ turn' = RestoreTurnWorking(turn, cancel["force-send"].generation)
  /\ FailRow(cancel["force-send"].message)
  /\ cancel' = [cancel EXCEPT !["force-send"] = NoCancel]
  /\ UNCHANGED <<sending, editing, postStop, backend, told, count>>

CancelAnswered(kind) ==
  /\ cancel[kind].at = "done"
  /\ cancel' = [cancel EXCEPT ![kind] = NoCancel]
  /\ UNCHANGED <<turn, rows, sending, editing, asked, postStop, backend, told, count>>

\* A message is on its way to be run.
Starting ==
  \/ \E m \in Messages : step[m] \in {"appending", "sending", "answered"}
  \/ jobs # <<>> /\ ~running

\* The timer of a locked phase, which asks nobody whether the turn is over.
Deadman ==
  /\ DeadmanArmed(turn)
  /\ Allowed("slow_start") \/ ~Starting
  /\ turn' = ForceTurnIdle(turn)
  /\ UNCHANGED <<rows, sending, editing, boundary, backend, told, count>>

-----------------------------------------------------------------------------
(* The dispatcher. *)

Idle == turn.phase = "idle"
MayDispatch == lock = NoMessage /\ editing = NoMessage

\* The first row of a set of rows.
FirstOf(m, S) ==
  \E i \in DOMAIN queue : queue[i] = m /\ m \in S /\ \A j \in 1 .. i - 1 : queue[j] \notin S

\* Explicit rows come first: an idle Session sends one at once.
DispatchNow(m) ==
  /\ MayDispatch /\ Idle /\ FirstOf(m, now)
  /\ postStop' = FALSE
  /\ Reserve(m)
  /\ lock' = m /\ natural' = FALSE
  /\ UNCHANGED <<rows, verdict, editing, asked, cancel, backend, told, count>>

\* An active one is interrupted, once for each row.
InterruptFor(m) ==
  /\ MayDispatch /\ FirstOf(m, now \ asked)
  /\ turn.phase \in {"working", "dispatching"}
  /\ asked' = asked \cup {m}
  /\ BeginBoundary("force-send", m)
  /\ postStop' = FALSE
  /\ UNCHANGED <<rows, sending, editing, backend, told, count>>

\* Rows that failed do not hold up the others; a row that a Stop parked does.
Natural == (Messages \ now) \ (held \cap failed)

AskVerdict(m) ==
  /\ MayDispatch /\ Idle
  /\ ~\E n \in now : Queued(n)
  /\ FirstOf(m, Natural) /\ m \notin held
  /\ lock' = m /\ verdict' = "asked" /\ natural' = TRUE
  /\ UNCHANGED <<turn, rows, step, dispatchOf, editing, boundary, backend, told, count>>

Release == lock' = NoMessage /\ verdict' = "none" /\ natural' = FALSE

\* Mutant: the dispatcher stays locked while it waits to ask again.
BackOff_Keeps_Lock ==
  /\ verdict \in {"busy", "unknown"}
  /\ verdict' = "none"
  /\ UNCHANGED <<turn, rows, step, dispatchOf, lock, natural, editing, boundary, backend,
                 told, count>>

\* The answer is busy, or none: the row waits for another pass.
BackOff ==
  /\ verdict \in {"busy", "unknown"}
  /\ Release
  /\ UNCHANGED <<turn, rows, step, dispatchOf, editing, boundary, backend, told, count>>

\* The Session has ended: the row is parked.
ParkDead ==
  /\ verdict = "dead"
  /\ held' = IF Queued(lock) THEN held \cup {lock} ELSE held
  /\ Release
  /\ UNCHANGED <<turn, queue, now, failed, step, dispatchOf, editing, boundary, backend,
                 told, count>>

\* Another dispatch won.
Rebusied ==
  /\ verdict = "ready" /\ ~Idle
  /\ Release
  /\ UNCHANGED <<turn, rows, step, dispatchOf, editing, boundary, backend, told, count>>

\* The row is sent as it was when the backend was asked.
DispatchNatural ==
  /\ verdict = "ready" /\ Idle
  /\ Reserve(lock)
  /\ verdict' = "none"
  /\ UNCHANGED <<rows, lock, natural, editing, boundary, backend, told, count>>

-----------------------------------------------------------------------------
(* Sending, directly or from the queue. *)

\* failUserIntentPreparation; a row of the queue returns to it and the lock is
\* released.
SendFails(m) ==
  /\ turn' = MarkTurnTerminal(turn, dispatchOf[m])
  /\ IF lock = m
     THEN /\ step' = [step EXCEPT ![m] = "waiting"]
          /\ FailRow(m)
          /\ Release
     ELSE /\ step' = [step EXCEPT ![m] = "failed"]
          /\ UNCHANGED <<rows, asked, lock, verdict, natural>>
  /\ UNCHANGED <<dispatchOf, editing, cancel, postStop, backend, told>>

AppendFails(m) == step[m] = "appending" /\ Fault /\ SendFails(m)

\* Mutant: only a newer turn supersedes a send.
Superseded_By_Newer(m) == turn.generation # dispatchOf[m]

Superseded(m) ==
  turn.generation # dispatchOf[m] \/ turn.phase \notin {"dispatching", "working"}

SendSuperseded(m) ==
  step[m] = "appending" /\ Superseded(m) /\ SendFails(m) /\ UNCHANGED count

SendMessage(m) ==
  /\ step[m] = "appending" /\ ~Superseded(m)
  /\ step' = [step EXCEPT ![m] = "sending"]
  /\ UNCHANGED <<turn, rows, dispatchOf, lock, verdict, natural, editing, boundary, backend, told,
                 count>>

SendRefused(m) == step[m] = "refused" /\ SendFails(m) /\ UNCHANGED count

\* Mutant: a local failure after the message was accepted counts as a failed send.
ConfirmSent_Or_Fails(m) ==
  /\ step[m] = "answered"
  /\ turn' = ConfirmTurnRunning(turn)
  /\ step' = [step EXCEPT ![m] = "accepted"]
  /\ IF lock = m THEN FailRow(m) /\ Release ELSE UNCHANGED <<rows, asked, lock, verdict, natural>>
  /\ UNCHANGED <<dispatchOf, editing, cancel, postStop, backend, told, count>>

\* Mutant: the lock is released and the row stays.
ConfirmSent_Keeps_Row(m) ==
  /\ step[m] = "answered"
  /\ turn' = ConfirmTurnRunning(turn)
  /\ step' = [step EXCEPT ![m] = "accepted"]
  /\ IF lock = m THEN Release ELSE UNCHANGED <<lock, verdict, natural>>
  /\ UNCHANGED <<rows, asked, dispatchOf, editing, cancel, postStop, backend, told, count>>

\* acceptQueuedMessage.
ConfirmSent(m) ==
  /\ step[m] = "answered"
  /\ turn' = ConfirmTurnRunning(turn)
  /\ step' = [step EXCEPT ![m] = "accepted"]
  /\ IF lock = m
     THEN DropRow(m) /\ asked' = asked \ {m} /\ Release
     ELSE UNCHANGED <<rows, asked, lock, verdict, natural>>
  /\ UNCHANGED <<dispatchOf, editing, cancel, postStop, backend, told, count>>

-----------------------------------------------------------------------------
(* What the window is told. *)

Status(status, m) == [status |-> status, intent |-> m]

\* The channel names the turn that ends.  A report of running names none.
DeliverChannel ==
  /\ channel # <<>>
  /\ LET message == Head(channel)
         dispatched == dispatchOf[message.intent] IN
     turn' = IF message.status = "running" THEN MarkTurnRunning(turn, NoGeneration)
             ELSE IF dispatched # turn.generation THEN turn
             ELSE MarkTurnTerminal(turn, dispatched)
  /\ channel' = Tail(channel)
  /\ UNCHANGED <<rows, sending, editing, boundary, backend, events, count>>

\* session-status-changed.
DeliverEvent ==
  /\ events # <<>>
  /\ Allowed("channel_behind") \/ ~Contains(channel, Status("running", Head(events)))
  /\ turn' = MarkTurnTerminal(turn, NoGeneration)
  /\ events' = Tail(events)
  /\ UNCHANGED <<rows, sending, editing, boundary, backend, channel, count>>

-----------------------------------------------------------------------------
(* The backend. *)

AcceptMessage(m) ==
  /\ step[m] = "sending"
  /\ step' = [step EXCEPT ![m] = "answered"]
  /\ jobs' = Append(jobs, m)
  /\ sent' = [sent EXCEPT ![m] = @ + 1]
  /\ UNCHANGED <<turn, rows, dispatchOf, lock, verdict, natural, editing, boundary, running, dead, told,
                 count>>

RefuseMessage(m) ==
  /\ step[m] = "sending" /\ Fault
  /\ step' = [step EXCEPT ![m] = "refused"]
  /\ UNCHANGED <<turn, rows, dispatchOf, lock, verdict, natural, editing, boundary, backend, told>>

RunnerStarts ==
  /\ jobs # <<>> /\ ~running
  /\ running' = TRUE /\ dead' = FALSE
  /\ channel' = Append(channel, Status("running", Head(jobs)))
  /\ UNCHANGED <<turn, rows, sending, editing, boundary, jobs, events, count, sent>>

EndTurn ==
  /\ channel' = Append(channel, Status("terminal", Head(jobs)))
  /\ events' = Append(events, Head(jobs))
  /\ running' = FALSE

RunnerEnds ==
  /\ running
  /\ EndTurn
  /\ jobs' = Tail(jobs)
  /\ UNCHANGED <<turn, rows, sending, editing, boundary, dead, count, sent>>

RunnerFails ==
  /\ running /\ Fault
  /\ EndTurn
  /\ jobs' = Tail(jobs) /\ dead' = TRUE
  /\ UNCHANGED <<turn, rows, sending, editing, boundary, sent>>

\* The status of the Session.  A message that was accepted does not show in it
\* before it runs.
ReadVerdict ==
  /\ verdict = "asked"
  /\ Allowed("slow_start") \/ ~Starting
  /\ verdict' = IF running THEN "busy" ELSE IF dead THEN "dead" ELSE "ready"
  /\ UNCHANGED <<turn, rows, step, dispatchOf, lock, natural, editing, boundary, backend, told, count>>

\* Mutant: a backend that cannot be read is taken to be ready.
ReadVerdictFails_Open ==
  /\ verdict = "asked" /\ Fault
  /\ verdict' = "ready"
  /\ UNCHANGED <<turn, rows, step, dispatchOf, lock, natural, editing, boundary, backend, told>>

ReadVerdictFails ==
  /\ verdict = "asked" /\ Fault
  /\ verdict' = "unknown"
  /\ UNCHANGED <<turn, rows, step, dispatchOf, lock, natural, editing, boundary, backend, told>>

\* The turn that runs is signalled, and ends in its own time.  A Stop discards what
\* waits behind it, a Send Now does not.
Cancel(kind) ==
  /\ cancel[kind].at = "asked"
  /\ cancel' = [cancel EXCEPT ![kind].at = "done"]
  /\ jobs' = IF kind = "stop" THEN IF running THEN <<Head(jobs)>> ELSE <<>> ELSE jobs
  /\ UNCHANGED <<turn, rows, sending, editing, asked, postStop, running, dead, told, count, sent>>

CancelFails(kind) ==
  /\ cancel[kind].at = "asked" /\ Fault
  /\ cancel' = [cancel EXCEPT ![kind].at = "refused"]
  /\ UNCHANGED <<turn, rows, sending, editing, asked, postStop, backend, told>>

-----------------------------------------------------------------------------
Sending(m) ==
  \/ SubmitDirect(m) \/ Enqueue(m) \/ AppendFails(m) \/ SendSuperseded(m) \/ SendMessage(m)
  \/ SendRefused(m) \/ ConfirmSent(m) \/ AcceptMessage(m) \/ RefuseMessage(m)

Changing(m) == ForceSend(m) \/ StartEdit(m) \/ ClearRow(m) \/ Reorder(m)

Dispatching(m) == DispatchNow(m) \/ InterruptFor(m) \/ AskVerdict(m)

Next ==
  \/ \E m \in Messages : Sending(m) \/ Changing(m) \/ Dispatching(m)
  \/ \E kind \in Boundaries : Cancel(kind) \/ CancelFails(kind) \/ CancelAnswered(kind)
  \/ EndEdit \/ Stop \/ StopRefused \/ ForceSendRefused \/ Deadman
  \/ ReadVerdict \/ ReadVerdictFails
  \/ BackOff \/ ParkDead \/ Rebusied \/ DispatchNatural
  \/ DeliverChannel \/ DeliverEvent
  \/ RunnerStarts \/ RunnerEnds \/ RunnerFails

(* Commands answer, statuses are delivered, timers expire, a turn starts and  *)
(* ends, an edit is closed, and the dispatcher looks again after every change *)
(* of its inputs and some time after the backend was busy.                    *)
Fairness ==
  /\ \A m \in Messages :
       /\ WF_vars(SendSuperseded(m) \/ SendMessage(m) \/ SendRefused(m) \/ AcceptMessage(m)
                  \/ ConfirmSent(m))
       /\ WF_vars(Dispatching(m))
  /\ WF_vars(ReadVerdict \/ BackOff \/ ParkDead \/ Rebusied \/ DispatchNatural)
  /\ \A kind \in Boundaries : WF_vars(Cancel(kind) \/ CancelAnswered(kind))
  /\ WF_vars(StopRefused) /\ WF_vars(ForceSendRefused)
  /\ WF_vars(EndEdit) /\ WF_vars(Deadman)
  /\ WF_vars(DeliverChannel) /\ WF_vars(DeliverEvent)
  /\ WF_vars(RunnerStarts) /\ WF_vars(RunnerEnds)

Spec == Init /\ [][Next]_vars /\ Fairness

-----------------------------------------------------------------------------
(* Properties. *)

Steps == {"new", "waiting", "appending", "sending", "refused", "answered", "accepted", "failed"}

\* Every variable has its type.
TypeOK ==
  /\ turn \in [phase : Phases, generation : Nat]
  /\ queue \in Seq(Messages)
  /\ {now, held, failed, asked} \subseteq SUBSET Messages
  /\ step \in [Messages -> Steps]
  /\ dispatchOf \in [Messages -> Nat]
  /\ lock \in Messages \cup {NoMessage} /\ editing \in Messages \cup {NoMessage}
  /\ verdict \in {"none", "asked", "ready", "busy", "dead", "unknown"}
  /\ cancel \in [Boundaries -> [at : {"none", "asked", "done", "refused"},
                               message : Messages \cup {NoMessage}, generation : Nat]]
  /\ {postStop, running, dead, natural} \subseteq BOOLEAN
  /\ jobs \in Seq(Messages) /\ events \in Seq(Messages)
  /\ channel \in Seq([status : {"running", "terminal"}, intent : Messages])
  /\ count \in [commands : 0 .. MaxCommands, faults : 0 .. MaxFaults]
  /\ sent \in [Messages -> Nat]

\* A row that is shown as failed was not sent: pressing Send Now on it cannot send
\* the message a second time.
FailedWasNotSent == \A m \in failed : sent[m] = 0

\* However a message comes back to the queue, it is accepted once.
SentOnce == \A m \in Messages : sent[m] <= 1

\* Whatever the lifecycle believes, a message that follows naturally is not sent
\* into a turn that runs or that was accepted before it, unless the user has removed
\* its row meanwhile, behind which a direct send would wait.
NaturalWaitsForBackend ==
  [][ \A m \in Messages :
        (AcceptMessage(m) /\ lock = m /\ natural /\ Queued(m)) => jobs = <<>> ]_vars

\* A row that a Stop parked is not sent naturally.
HeldNeverDrained ==
  [][ \A m \in Messages : (SendMessage(m) /\ lock = m /\ natural) => m \notin held ]_vars

\* Nor is it sent at all before the user asks for it again.
ParkedStaysParked == [][ \A m \in Messages : (SendMessage(m) /\ Queued(m)) => m \notin held ]_vars

\* A Session never waits for a turn that is over.
Quiet ==
  /\ jobs = <<>> /\ channel = <<>> /\ events = <<>>
  /\ \A m \in Messages : step[m] \in {"new", "waiting", "accepted", "failed"}
  /\ \A kind \in Boundaries : cancel[kind] = NoCancel
NoStrandedTurn == Quiet => turn.phase # "working"

\* Every row that may go is sent in the end: again and again the queue is empty, or
\* what is left of it is parked, or waits behind a row that is.
Drained ==
  \A m \in Messages : Queued(m) => m \in held \/ \E n \in held \ failed : Queued(n)
QueueDrains == []<>Drained
=============================================================================
