--------------------------- MODULE CliTurnsProofs ---------------------------
(***************************************************************************)
(* What CliTurns promises for every number of intents, faults and Stops.   *)
(* Under every circumstance: its types; the end of a turn is applied once; *)
(* no report undoes a Stop, and none releases the Session from a turn that *)
(* is live (one whose plan waits for approval is not).  The tracked turn   *)
(* can be ended as long as the window sends one message at a time and      *)
(* stops what it sees; and nothing is stranded when none of the            *)
(* circumstances occurs.                                                   *)
(***************************************************************************)
EXTENDS CliTurns, TLAPS

Turns == [phase : Phases, generation : Nat]
Actives == [intent : Intents \cup {NoIntent}, generation : Nat]

USE DEF Phases, NoGeneration, NoTurn

-----------------------------------------------------------------------------
(* The lifecycle operators. *)

\* Every operator of the lifecycle yields a lifecycle state.
LEMMA LifecycleTyped ==
  ASSUME NEW t \in Turns, NEW g \in Nat
  PROVE  /\ BeginTurnDispatch(t) \in Turns
         /\ MarkTurnRunning(t, g) \in Turns
         /\ ConfirmTurnRunning(t) \in Turns
         /\ BeginTurnStopping(t) \in Turns
         /\ MarkTurnTerminal(t, g) \in Turns
         /\ ForceTurnIdle(t) \in Turns
  BY DEF Turns, BeginTurnDispatch, MarkTurnRunning, ConfirmTurnRunning,
         BeginTurnStopping, MarkTurnTerminal, ForceTurnIdle

\* From a Stop only a newer turn, or the end of the stopped one, is reached.
AfterStop(t, u) ==
  t.phase = "stopping" /\ u.phase \in {"working", "dispatching"} => u.generation > t.generation

\* None of them undoes a Stop: a report that a turn runs is not taken up while
\* it stops, and only a dispatch, which is newer, opens another one.
LEMMA LifecycleAfterStop ==
  ASSUME NEW t \in Turns, NEW g \in Nat
  PROVE  /\ AfterStop(t, BeginTurnDispatch(t))
         /\ AfterStop(t, MarkTurnRunning(t, g))
         /\ AfterStop(t, MarkTurnRunning(BeginTurnDispatch(t), g))
         /\ AfterStop(t, ConfirmTurnRunning(t))
         /\ AfterStop(t, BeginTurnStopping(t))
         /\ AfterStop(t, MarkTurnTerminal(t, g))
         /\ AfterStop(t, ForceTurnIdle(t))
  BY DEF Turns, AfterStop, BeginTurnDispatch, MarkTurnRunning, RunningAccepted,
         ConfirmTurnRunning, BeginTurnStopping, MarkTurnTerminal, ForceTurnIdle

-----------------------------------------------------------------------------
(* The coordinator. *)

\* A terminal was applied only if it is remembered, and then once.
Once == \A x \in Intents : ended[x] <= 1 /\ (ended[x] > 0 => x \in terminals)

Coordinated ==
  /\ turn' \in Turns /\ active' \in Actives
  /\ terminals' \subseteq Intents /\ ended' \in [Intents -> Nat]
  /\ AfterStop(turn, turn')
  /\ Once => Once'

\* A report that is not taken up changes nothing.
LEMMA IgnoredKeeps ==
  ASSUME TypeOK, Ignored
  PROVE  Coordinated
  BY DEF TypeOK, Ignored, Coordinated, Turns, Actives, AfterStop, Once

\* A running report of any turn keeps the types, a Stop, and what has ended.
LEMMA RunningCoordinated ==
  ASSUME TypeOK, NEW x \in Intents \cup {NoIntent}, HandleRunning(x)
  PROVE  Coordinated
<1> DEFINE foreignTurn == BeginTurnDispatch(turn)
<1>1. turn \in Turns /\ active \in Actives /\ active.generation \in Nat
  BY DEF TypeOK, Turns, Actives
<1>2. foreignTurn \in Turns /\ foreignTurn.generation \in Nat
  BY <1>1, LifecycleTyped DEF Turns, BeginTurnDispatch
<1>3. Published(x) \in Nat
  BY DEF TypeOK, Published
<1>4. CASE Ignored
  BY <1>4, IgnoredKeeps
<1>5. CASE RepeatsRunning
  <2>1. turn' \in Turns /\ AfterStop(turn, turn')
    BY <1>1, <1>5, LifecycleTyped, LifecycleAfterStop DEF RepeatsRunning
  <2> QED
    BY <2>1, <1>5 DEF RepeatsRunning, Coordinated, TypeOK, Actives, Once
<1>6. CASE TakesRunning(x, turn, Published(x))
  <2>1. turn' \in Turns /\ AfterStop(turn, turn')
    BY <1>1, <1>3, <1>6, LifecycleTyped, LifecycleAfterStop DEF TakesRunning
  <2>2. active' \in Actives
    BY <1>3, <1>6 DEF TakesRunning, Actives
  <2> QED
    BY <2>1, <2>2, <1>6 DEF TakesRunning, Coordinated, TypeOK, Once
<1>7. CASE TakesRunning(x, foreignTurn, foreignTurn.generation)
  <2>1. turn' \in Turns /\ AfterStop(turn, turn')
    BY <1>1, <1>2, <1>7, LifecycleTyped, LifecycleAfterStop DEF TakesRunning
  <2>2. active' \in Actives
    BY <1>2, <1>7 DEF TakesRunning, Actives
  <2> QED
    BY <2>1, <2>2, <1>7 DEF TakesRunning, Coordinated, TypeOK, Once
<1> QED
  BY <1>4, <1>5, <1>6, <1>7 DEF HandleRunning

\* So does a terminal: one that is applied was not remembered, and is then.
LEMMA TerminalCoordinated ==
  ASSUME TypeOK, NEW x \in Intents \cup {NoIntent}, HandleTerminal(x)
  PROVE  Coordinated
<1>1. turn \in Turns
  BY DEF TypeOK, Turns
<1>2. TerminalGeneration(x) \in Nat
  BY DEF TypeOK, TerminalGeneration, Published
<1>3. CASE Ignored
  BY <1>3, IgnoredKeeps
<1>4. ASSUME ~Ignored
      PROVE  Coordinated
  <2>1. /\ ~Unrelated(x)
        /\ turn' = MarkTurnTerminal(turn, TerminalGeneration(x))
        /\ active' = NoActive
        /\ terminals' = terminals \cup ({x} \ {NoIntent})
        /\ ended' = IF x = NoIntent THEN ended ELSE [ended EXCEPT ![x] = @ + 1]
    BY <1>4 DEF HandleTerminal
  <2>2. turn' \in Turns /\ AfterStop(turn, turn')
    BY <1>1, <1>2, <2>1, LifecycleTyped, LifecycleAfterStop
  <2>3. active' \in Actives
    BY <2>1 DEF NoActive, Actives
  <2>4. terminals' \subseteq Intents /\ ended' \in [Intents -> Nat]
    BY <2>1 DEF TypeOK
  <2>5. Once => Once'
    <3> SUFFICES ASSUME Once, NEW y \in Intents
                 PROVE  ended'[y] <= 1 /\ (ended'[y] > 0 => y \in terminals')
      BY DEF Once
    <3>1. ended[y] \in Nat /\ ended[y] <= 1 /\ (ended[y] > 0 => y \in terminals)
      BY DEF Once, TypeOK
    <3>2. CASE x = NoIntent
      BY <2>1, <3>1, <3>2
    <3>3. CASE x # NoIntent
      <4>1. x \notin terminals
        BY <2>1, <3>3 DEF Unrelated
      <4>2. ended'[y] = IF y = x THEN ended[y] + 1 ELSE ended[y]
        BY <2>1, <3>3 DEF TypeOK
      <4> QED
        BY <2>1, <3>1, <3>3, <4>1, <4>2
    <3> QED
      BY <3>2, <3>3
  <2> QED
    BY <2>2, <2>3, <2>4, <2>5 DEF Coordinated
<1> QED
  BY <1>3, <1>4

LEMMA StatusCoordinated ==
  ASSUME TypeOK, NEW status, NEW x \in Intents \cup {NoIntent}, HandleStatus(status, x)
  PROVE  Coordinated
  BY RunningCoordinated, TerminalCoordinated DEF HandleStatus

-----------------------------------------------------------------------------
(* The steps. *)

\* What every step keeps.
Kept == TypeOK' /\ AfterStop(turn, turn') /\ (Once => Once')

HistoryKept == UNCHANGED <<terminals, ended>>

\* A step that applies no terminal keeps the history.
LEMMA KeptByHistory ==
  ASSUME TypeOK', AfterStop(turn, turn'), HistoryKept
  PROVE  Kept
  BY DEF Kept, HistoryKept, Once

\* What the backend says is a message.
LEMMA BroadcastTyped ==
  ASSUME TypeOK, NEW messages \in Seq(Message), Broadcast(messages)
  PROVE  wire' \in Seq(Message)
  BY DEF TypeOK, Broadcast

LEMMA StatusTyped ==
  ASSUME NEW status \in {"running", "terminal"}, NEW x \in Intents \cup {NoIntent}
  PROVE  Status(status, x) \in Message
  BY DEF Status, Message

LEMMA InterruptedTyped ==
  ASSUME TypeOK
  PROVE  Interrupted \in Seq(Message)
  BY StatusTyped DEF TypeOK, Interrupted

LEMMA UnstoppedKept ==
  ASSUME TypeOK, turn' = turn
  PROVE  AfterStop(turn, turn')
  BY DEF AfterStop, TypeOK

LEMMA CountedTyped ==
  ASSUME TypeOK
  PROVE  /\ Counted("acts", MaxActs) => count' \in Counts
         /\ Counted("faults", MaxFaults) => count' \in Counts
         /\ Counted("gates", MaxGates) => count' \in Counts
<1>1. MaxActs \in Nat /\ MaxFaults \in Nat /\ MaxGates \in Nat
  BY CliAssumption
<1>2. /\ count = [acts |-> count.acts, faults |-> count.faults, gates |-> count.gates]
      /\ count.acts \in 0 .. MaxActs /\ count.faults \in 0 .. MaxFaults
      /\ count.gates \in 0 .. MaxGates
  BY DEF TypeOK, Counts
<1>3. ASSUME Counted("acts", MaxActs) PROVE count' \in Counts
  <2>1. /\ count' = [acts |-> count.acts + 1, faults |-> count.faults, gates |-> count.gates]
        /\ count.acts < MaxActs
    BY <1>2, <1>3 DEF Counted
  <2> QED
    BY <1>1, <1>2, <2>1 DEF Counts
<1>4. ASSUME Counted("faults", MaxFaults) PROVE count' \in Counts
  <2>1. /\ count' = [acts |-> count.acts, faults |-> count.faults + 1, gates |-> count.gates]
        /\ count.faults < MaxFaults
    BY <1>2, <1>4 DEF Counted
  <2> QED
    BY <1>1, <1>2, <2>1 DEF Counts
<1>5. ASSUME Counted("gates", MaxGates) PROVE count' \in Counts
  <2>1. /\ count' = [acts |-> count.acts, faults |-> count.faults, gates |-> count.gates + 1]
        /\ count.gates < MaxGates
    BY <1>2, <1>5 DEF Counted
  <2> QED
    BY <1>1, <1>2, <2>1 DEF Counts
<1> QED
  BY <1>3, <1>4, <1>5

\* A read is asked for: shared with the one under way, or begun.
LEMMA AsksTyped ==
  ASSUME TypeOK, NEW repair \in BOOLEAN, Asks(repair)
  PROVE  reading' \in Readings
<1>1. reading \in Readings
  BY DEF TypeOK
<1> QED
  BY <1>1 DEF Asks, NoReading, Readings

\* The end of a send that was not accepted.
LEMMA FailPreparationKept ==
  ASSUME TypeOK, NEW x \in Own, FailPreparation(x),
         count' \in Counts
  PROVE  Kept
<1>1. turn \in Turns /\ dispatchOf[x] \in Nat
  BY DEF TypeOK, Turns
<1>2. turn' \in Turns /\ AfterStop(turn, turn')
  BY <1>1, LifecycleTyped, LifecycleAfterStop DEF FailPreparation
<1>3. step' \in [Intents -> Steps]
  BY DEF FailPreparation, TypeOK, Steps, Intents
<1>4. TypeOK'
  BY <1>2, <1>3 DEF FailPreparation, TypeOK, Turns, link, backend
<1> QED
  BY <1>2, <1>4, KeptByHistory DEF FailPreparation, HistoryKept

\* Accepting a message changes the backend and the websocket only.
LEMMA AcceptKept ==
  ASSUME TypeOK, NEW x \in Intents, Accept(x), step' \in [Intents -> Steps]
  PROVE  Kept
<1>1. Append(Interrupted, Status("running", x)) \in Seq(Message)
  BY InterruptedTyped, StatusTyped
<1>2. wire' \in Seq(Message)
  BY <1>1, BroadcastTyped DEF Accept
<1>3. TypeOK'
  BY <1>2 DEF Accept, Broadcast, TypeOK
<1>4. AfterStop(turn, turn')
  BY UnstoppedKept DEF Accept
<1> QED
  BY <1>3, <1>4, KeptByHistory DEF Accept, HistoryKept

\* The send of one message of the window.
LEMMA SendingKept ==
  ASSUME TypeOK, NEW x \in Own, Sending(x)
  PROVE  Kept
<1>1. turn \in Turns /\ x \in Intents
  BY DEF TypeOK, Turns, Intents
<1>2. CASE PrepareUserIntent(x)
  <2>1. turn' \in Turns /\ AfterStop(turn, turn')
    BY <1>1, <1>2, LifecycleTyped, LifecycleAfterStop DEF PrepareUserIntent
  <2>2. dispatchOf' \in [Own -> Nat]
    BY <2>1, <1>2 DEF PrepareUserIntent, TypeOK, Turns
  <2>3. TypeOK'
    BY <1>1, <1>2, <2>1, <2>2 DEF PrepareUserIntent, TypeOK, Turns, Steps, link, backend
  <2> QED
    BY <1>2, <2>1, <2>3, KeptByHistory DEF PrepareUserIntent, HistoryKept
<1>3. CASE AppendFails(x)
  BY <1>3, FailPreparationKept, CountedTyped DEF AppendFails
<1>4. CASE SendSuperseded(x)
  BY <1>4, FailPreparationKept DEF SendSuperseded, TypeOK
<1>5. CASE SendMessage(x)
  <2>1. TypeOK' /\ AfterStop(turn, turn')
    BY <1>1, <1>5, UnstoppedKept DEF SendMessage, TypeOK, Steps, link, backend
  <2> QED
    BY <1>5, <2>1, KeptByHistory DEF SendMessage, HistoryKept
<1>6. CASE SendRefused(x)
  BY <1>6, FailPreparationKept DEF SendRefused, TypeOK
<1>7. CASE RegisterReceipt(x)
  <2>1. Coordinated
    BY <1>1, <1>7, RunningCoordinated DEF RegisterReceipt
  <2>2. TypeOK'
    BY <1>1, <1>7, <2>1
    DEF RegisterReceipt, TypeOK, Coordinated, Turns, Actives, Steps, link, backend
  <2> QED
    BY <2>1, <2>2 DEF Kept, Coordinated
<1>8. CASE ConfirmSent(x)
  <2>1. turn' \in Turns /\ AfterStop(turn, turn')
    BY <1>1, <1>8, LifecycleTyped, LifecycleAfterStop DEF ConfirmSent
  <2>2. TypeOK'
    BY <1>1, <1>8, <2>1 DEF ConfirmSent, TypeOK, Turns, Steps, link, backend
  <2> QED
    BY <1>8, <2>1, <2>2, KeptByHistory DEF ConfirmSent, HistoryKept
<1>9. CASE AcceptMessage(x)
  <2>1. step' \in [Intents -> Steps]
    BY <1>1, <1>9 DEF AcceptMessage, TypeOK, Steps
  <2> QED
    BY <1>1, <1>9, <2>1, AcceptKept DEF AcceptMessage
<1>10. CASE RefuseMessage(x)
  <2>1. wire' \in Seq(Message)
    BY <1>10, BroadcastTyped, InterruptedTyped DEF RefuseMessage, Ends, TypeOK, link
  <2>2. /\ connected' = connected /\ runner' \in Intents \cup {NoIntent}
        /\ row' \in {"none", "running", "terminal"} /\ gated' \in BOOLEAN
    BY <1>10 DEF RefuseMessage, Ends, TypeOK, link, Broadcast
  <2>3. count' \in Counts
    BY <1>10, CountedTyped DEF RefuseMessage
  <2>5. TypeOK'
    BY <1>1, <1>10, <2>1, <2>2, <2>3 DEF RefuseMessage, TypeOK, Steps
  <2>4. AfterStop(turn, turn')
    BY <1>10, UnstoppedKept DEF RefuseMessage
  <2> QED
    BY <1>10, <2>4, <2>5, KeptByHistory DEF RefuseMessage, HistoryKept
<1> QED
  BY <1>2, <1>3, <1>4, <1>5, <1>6, <1>7, <1>8, <1>9, <1>10 DEF Sending

\* What the backend tells when it runs no further.
LEMMA EndBroadcast ==
  ASSUME TypeOK, NEW messages \in Seq(Message), Broadcast(messages), runner' = NoIntent,
         row' = "terminal", gated' = FALSE,
         UNCHANGED <<client, reading, latest, count, ended>>,
         interrupt' \in [at : {"none", "asked", "done", "failed"}, generation : Nat]
  PROVE  Kept
<1>1. wire' \in Seq(Message) /\ connected' = connected
  BY BroadcastTyped DEF Broadcast
<1>2. TypeOK' /\ AfterStop(turn, turn')
  BY <1>1, UnstoppedKept DEF TypeOK, client
<1> QED
  BY <1>2, KeptByHistory DEF client, HistoryKept

LEMMA InterruptTyped ==
  ASSUME TypeOK, NEW at \in {"done", "failed"}
  PROVE  [interrupt EXCEPT !.at = at] \in [at : {"none", "asked", "done", "failed"},
                                            generation : Nat]
  BY DEF TypeOK

\* Every step keeps the types, what has ended, and a Stop.
LEMMA StepKept ==
  ASSUME TypeOK, [Next]_vars
  PROVE  Kept
<1>1. turn \in Turns /\ turn.generation \in Nat
  BY DEF TypeOK, Turns
<1>2. CASE \E x \in Own : Sending(x)
  BY <1>2, SendingKept
<1>3. ASSUME NEW x \in Foreign, ForeignSend(x)
      PROVE  Kept
  <2>1. x \in Intents /\ step' \in [Intents -> Steps]
    BY <1>3 DEF ForeignSend, TypeOK, Steps, Intents
  <2> QED
    BY <1>3, <2>1, AcceptKept DEF ForeignSend
<1>4. CASE Stop
  <2>1. turn' \in Turns /\ AfterStop(turn, turn')
    BY <1>1, <1>4, LifecycleTyped, LifecycleAfterStop DEF Stop
  <2>2. interrupt' \in [at : {"none", "asked", "done", "failed"}, generation : Nat]
    BY <1>1, <1>4 DEF Stop, TypeOK
  <2>3. count' \in Counts
    BY <1>4, CountedTyped DEF Stop
  <2>4. TypeOK'
    BY <1>4, <2>1, <2>2, <2>3 DEF Stop, TypeOK, Turns, link, backend
  <2> QED
    BY <1>4, <2>1, <2>4, KeptByHistory DEF Stop, HistoryKept
<1>5. CASE CancelAnswered
  <2>1. TypeOK' /\ AfterStop(turn, turn')
    BY <1>5, UnstoppedKept DEF CancelAnswered, NoInterrupt, TypeOK, client, link, backend
  <2> QED
    BY <1>5, <2>1, KeptByHistory DEF CancelAnswered, client, HistoryKept
<1>6. CASE StopFailed
  <2>1. turn' \in Turns /\ AfterStop(turn, turn')
    BY <1>1, <1>6, LifecycleTyped, LifecycleAfterStop DEF StopFailed
  <2>2. TypeOK'
    BY <1>6, <2>1 DEF StopFailed, NoInterrupt, TypeOK, Turns, link, backend
  <2> QED
    BY <1>6, <2>1, <2>2, KeptByHistory DEF StopFailed, HistoryKept
<1>7. CASE CancelSession
  <2>1. /\ <<Status("terminal", NoIntent)>> \in Seq(Message)
        /\ Interrupted \in Seq(Message)
    BY StatusTyped, InterruptedTyped
  <2> QED
    BY <1>7, <2>1, InterruptTyped, EndBroadcast DEF CancelSession
<1>8. CASE CancelTimesOut
  BY <1>8, InterruptedTyped, InterruptTyped, EndBroadcast DEF CancelTimesOut, Ends
<1>9. CASE Deadman
  <2>1. turn' \in Turns /\ AfterStop(turn, turn')
    BY <1>1, <1>9, LifecycleTyped, LifecycleAfterStop DEF Deadman
  <2>2. TypeOK'
    BY <1>9, <2>1 DEF Deadman, TypeOK, Turns, link, backend
  <2> QED
    BY <1>9, <2>1, <2>2, KeptByHistory DEF Deadman, HistoryKept
<1>10. CASE DeliverStatus
  <2>1. Head(wire) \in Message /\ Tail(wire) \in Seq(Message)
    BY <1>10 DEF DeliverStatus, TypeOK
  <2>2. Coordinated
    BY <1>10, <2>1, StatusCoordinated DEF DeliverStatus, Message
  <2>3. TypeOK'
    BY <1>10, <2>1, <2>2
    DEF DeliverStatus, TypeOK, Coordinated, Turns, Actives, backend
  <2> QED
    BY <2>2, <2>3 DEF Kept, Coordinated
<1>11. CASE Lose
  <2>1. /\ count' \in Counts
        /\ wire' = <<>> /\ connected' = FALSE
        /\ UNCHANGED <<client, interrupt, reading, backend, ended>>
    BY <1>11, CountedTyped DEF Lose
  <2>2. wire' \in Seq(Message)
    BY <1>11 DEF Lose
  <2>3. TypeOK'
    BY <2>1, <2>2 DEF TypeOK, client, backend
  <2>4. AfterStop(turn, turn')
    BY <2>1, UnstoppedKept DEF client
  <2> QED
    BY <2>1, <2>3, <2>4, KeptByHistory DEF client, HistoryKept
<1>12. CASE Reconnect
  <2>1. reading' \in Readings
    BY <1>12, AsksTyped DEF Reconnect
  <2>2. TypeOK' /\ AfterStop(turn, turn')
    BY <1>12, <2>1, UnstoppedKept DEF Reconnect, TypeOK, client, backend
  <2> QED
    BY <1>12, <2>2, KeptByHistory DEF Reconnect, client, HistoryKept
<1>13. CASE Reconcile
  <2>1. reading' \in Readings /\ count' \in Counts
    BY <1>13, AsksTyped, CountedTyped DEF Reconcile
  <2>2. TypeOK' /\ AfterStop(turn, turn')
    BY <1>13, <2>1, UnstoppedKept
    DEF Reconcile, TypeOK, client, link, backend
  <2> QED
    BY <1>13, <2>2, KeptByHistory DEF Reconcile, client, HistoryKept
<1>14. CASE ReadIntents \/ ReadRows \/ BatchFails
  <2>1. reading' \in Readings
    <3>1. /\ reading \in Readings /\ latest \in Intents \cup {NoIntent}
          /\ row \in {"none", "running", "terminal"}
      BY DEF TypeOK
    <3>2. CASE ReadIntents
      BY <3>1, <3>2 DEF ReadIntents, Readings
    <3>3. CASE ReadRows
      BY <3>1, <3>3 DEF ReadRows, Readings
    <3>4. CASE BatchFails
      BY <3>4 DEF BatchFails, NoReading, Readings
    <3> QED
      BY <1>14, <3>2, <3>3, <3>4
  <2>2. UNCHANGED <<client, interrupt, link, backend, count, ended>>
    BY <1>14 DEF ReadIntents, ReadRows, BatchFails
  <2>3. TypeOK' /\ AfterStop(turn, turn')
    BY <2>1, <2>2, UnstoppedKept DEF TypeOK, client, link, backend
  <2> QED
    BY <2>2, <2>3, KeptByHistory DEF client, HistoryKept
<1>15. CASE ApplyBatch
  <2>1. reading.intent \in Intents \cup {NoIntent}
    BY DEF TypeOK, Readings
  <2>2. Coordinated
    BY <1>15, <2>1, IgnoredKeeps, StatusCoordinated DEF ApplyBatch
  <2>3. reading' \in Readings
    BY <1>15 DEF ApplyBatch, NoReading, Readings
  <2>4. TypeOK'
    BY <1>15, <2>2, <2>3
    DEF ApplyBatch, TypeOK, Coordinated, Turns, Actives, link, backend
  <2> QED
    BY <2>2, <2>4 DEF Kept, Coordinated
<1>16. CASE RunnerEnds
  BY <1>16, InterruptedTyped, EndBroadcast DEF RunnerEnds, Ends, TypeOK
<1>17. CASE PlanGate
  <2>1. wire' \in Seq(Message) /\ connected' = connected
    <3>1. <<Status("terminal", NoIntent)>> \in Seq(Message)
      BY StatusTyped
    <3>2. Broadcast(<<Status("terminal", NoIntent)>>)
      BY <1>17 DEF PlanGate
    <3> QED
      BY <3>1, <3>2, BroadcastTyped DEF Broadcast
  <2>2. count' \in Counts
    BY <1>17, CountedTyped DEF PlanGate
  <2>3. TypeOK' /\ AfterStop(turn, turn')
    BY <1>17, <2>1, <2>2, UnstoppedKept DEF PlanGate, TypeOK, client
  <2> QED
    BY <1>17, <2>3, KeptByHistory DEF PlanGate, client, HistoryKept
<1>18. CASE UNCHANGED vars
  <2>1. TypeOK' /\ AfterStop(turn, turn')
    BY <1>18, UnstoppedKept DEF vars, TypeOK, client, link, backend
  <2> QED
    BY <1>18, <2>1, KeptByHistory DEF vars, client, HistoryKept
<1> QED
  BY <1>2, <1>3, <1>4, <1>5, <1>6, <1>7, <1>8, <1>9, <1>10, <1>11, <1>12, <1>13, <1>14,
     <1>15, <1>16, <1>17, <1>18 DEF Next

-----------------------------------------------------------------------------
(* The theorems. *)

LEMMA InitKept == Init => TypeOK /\ Once
<1> SUFFICES ASSUME Init PROVE TypeOK /\ Once
  OBVIOUS
<1>1. count \in Counts /\ reading \in Readings
  BY CliAssumption DEF Init, Counts, Readings, NoReading
<1>2. wire \in Seq(Message)
  BY DEF Init
<1>3. /\ turn \in Turns /\ active \in Actives
      /\ interrupt \in [at : {"none", "asked", "done", "failed"}, generation : Nat]
  BY DEF Init, Turns, Actives, NoActive, NoInterrupt
<1>4. step \in [Intents -> Steps] /\ dispatchOf \in [Own -> Nat] /\ ended \in [Intents -> Nat]
  BY DEF Init, Steps
<1>5. Once
  BY DEF Init, Once
<1> QED
  BY <1>1, <1>2, <1>3, <1>4, <1>5 DEF Init, TypeOK, Turns, Actives

\* Every variable of a CLI Session's window keeps its type.
THEOREM CliTyped == Spec => []TypeOK
<1>1. TypeOK /\ [Next]_vars => TypeOK'
  BY StepKept DEF Kept
<1> QED
  BY <1>1, InitKept, PTL DEF Spec

\* The coordinator applies the end of a turn at most once, whichever of the
\* pushed status, the receipt and the batch reports it, and however often.
THEOREM CliTerminalAppliedOnce == Spec => []TerminalAppliedOnce
<1>1. TypeOK /\ Once /\ [Next]_vars => TypeOK' /\ Once'
  BY StepKept DEF Kept
<1>2. Once => TerminalAppliedOnce
  BY DEF Once, TerminalAppliedOnce
<1> QED
  BY <1>1, <1>2, InitKept, PTL DEF Spec

\* Once stopped, a turn is never working again: no receipt, pushed status,
\* batch or confirmation takes the Session back from `stopping`.
THEOREM CliStopHolds == Spec => StopHolds
<1>1. TypeOK /\ [Next]_vars
      => ((turn.phase = "stopping" /\ turn'.phase \in {"working", "dispatching"})
          => turn'.generation > turn.generation)
  BY StepKept DEF Kept, AfterStop
<1> QED
  BY <1>1, CliTyped, PTL DEF Spec, StopHolds

-----------------------------------------------------------------------------
(* Generations and reports: what a report speaks of is told from the       *)
(* generations the window handed out, and is reported in order.            *)

\* A turn kept as active is numbered like the dispatch of its intent.
Tracks(t, a) ==
  /\ a.generation <= t.generation
  /\ a.intent = NoIntent <=> a.generation = 0
  /\ a # NoActive => \A x \in Own : a.generation = dispatchOf[x] <=> a.intent = x

\* Every dispatch has a number of its own.
Generations ==
  /\ \A x \in Own : dispatchOf[x] <= turn.generation /\ (step[x] = "new" <=> dispatchOf[x] = 0)
  /\ \A x, y \in Own : dispatchOf[x] = dispatchOf[y] /\ dispatchOf[x] # 0 => x = y
  /\ Tracks(turn, active)

Reported == {"answered", "marking", "accepted"}

OnTheWire(x) == \E i \in 1 .. Len(wire) : wire[i].intent = x

Told(x) ==
  \/ runner = x \/ latest = x \/ active.intent = x \/ x \in terminals
  \/ OnTheWire(x) \/ reading.intent = x

\* The window and the backend speak of accepted turns only, and the end of a
\* turn is pushed when it does not run.
Reports ==
  /\ \A x \in Intents : Told(x) => step[x] \in Reported
  /\ runner # NoIntent => ~InWire(Status("terminal", runner))

Numbered == Generations /\ Reports

\* The row says that a turn runs when one does, and that none does when none
\* does, or when the one that runs has announced its plan.  So does a batch of
\* the turn that runs, whenever its rows were read.
Answers ==
  /\ row = "running" => runner # NoIntent
  /\ row = "terminal" => runner = NoIntent \/ gated
  /\ row = "none" => latest = NoIntent
  /\ reading.at \in {"none", "asked"} => reading.intent = NoIntent
  /\ reading.at # "answered" => reading.status = "none"
  /\ reading.intent # NoIntent => latest # NoIntent
  /\ reading.at = "answered" /\ reading.intent # NoIntent => reading.status # "none"
  /\ runner # NoIntent /\ reading.intent = runner /\ reading.status = "terminal" => gated

\* What a report that is handled may change.
Handled(x) ==
  /\ Tracks(turn', active') /\ turn.generation <= turn'.generation
  /\ active'.intent \in {active.intent, x, NoIntent}
  /\ terminals \subseteq terminals' /\ terminals' \subseteq terminals \cup ({x} \ {NoIntent})

\* A running report is taken up under the number of its own dispatch, or under
\* a new one when the window did not dispatch it.
LEMMA RunningHandled ==
  ASSUME TypeOK, Generations, NEW x \in Intents \cup {NoIntent},
         x # NoIntent => step[x] \in Reported, HandleRunning(x)
  PROVE  Handled(x)
<1>1. turn \in Turns /\ active \in Actives /\ dispatchOf \in [Own -> Nat]
  BY DEF TypeOK, Turns, Actives
<1>2. CASE Ignored
  BY <1>1, <1>2 DEF Ignored, Handled, Generations, Turns
<1>3. CASE RepeatsRunning
  BY <1>1, <1>3
  DEF RepeatsRunning, MarkTurnRunning, Handled, Generations, Tracks, Turns, Actives
<1>4. CASE TakesRunning(x, turn, Published(x)) /\ Published(x) # NoGeneration
  <2>1. x \in Own /\ Published(x) = dispatchOf[x] /\ x # NoIntent /\ dispatchOf[x] # 0
    BY <1>4, CliAssumption DEF Published
  <2>2. dispatchOf[x] = turn.generation /\ turn' = MarkTurnRunning(turn, dispatchOf[x])
    BY <1>1, <1>4, <2>1 DEF TakesRunning, RunningAccepted, Concerns
  <2>3. turn.generation <= turn'.generation
    BY <1>1, <2>2 DEF MarkTurnRunning, Turns
  <2>4. active' = [intent |-> x, generation |-> dispatchOf[x]] /\ terminals' = terminals
    BY <1>4, <2>1 DEF TakesRunning
  <2>5. \A y \in Own : active'.generation = dispatchOf[y] <=> active'.intent = y
    BY <2>1, <2>4 DEF Generations
  <2>6. active'.generation <= turn'.generation
    BY <2>2, <2>3, <2>4
  <2> QED
    BY <2>1, <2>3, <2>4, <2>5, <2>6 DEF Handled, Tracks
<1>5. CASE /\ TakesRunning(x, BeginTurnDispatch(turn), BeginTurnDispatch(turn).generation)
           /\ x # NoIntent /\ Published(x) = NoGeneration
  <2>1. x \notin Own
    BY <1>1, <1>5, CliAssumption DEF Published, Generations, Reported
  <2>2. BeginTurnDispatch(turn) = [phase |-> "dispatching", generation |-> turn.generation + 1]
    BY DEF BeginTurnDispatch
  <2>3. turn'.generation = turn.generation + 1
    BY <1>1, <1>5, <2>2 DEF TakesRunning, MarkTurnRunning, RunningAccepted, Turns
  <2>4. active' = [intent |-> x, generation |-> turn.generation + 1] /\ terminals' = terminals
    BY <1>5, <2>2 DEF TakesRunning
  <2>5. \A y \in Own : active'.generation # dispatchOf[y] /\ active'.intent # y
    <3> SUFFICES ASSUME NEW y \in Own
                 PROVE  active'.generation # dispatchOf[y] /\ active'.intent # y
      OBVIOUS
    <3>1. dispatchOf[y] <= turn.generation /\ dispatchOf[y] \in Nat /\ turn.generation \in Nat
      BY <1>1 DEF Generations, Turns
    <3> QED
      BY <2>1, <2>4, <3>1
  <2> QED
    BY <1>1, <1>5, <2>3, <2>4, <2>5 DEF Handled, Tracks, Turns
<1> QED
  BY <1>2, <1>3, <1>4, <1>5 DEF HandleRunning

\* A terminal that is applied leaves no turn active.
LEMMA TerminalHandled ==
  ASSUME TypeOK, Generations, NEW x \in Intents \cup {NoIntent}, HandleTerminal(x)
  PROVE  Handled(x)
<1>1. turn \in Turns /\ active \in Actives
  BY DEF TypeOK, Turns, Actives
<1>2. CASE Ignored
  BY <1>1, <1>2 DEF Ignored, Handled, Generations, Turns
<1>3. CASE ~Ignored
  <2>1. /\ turn' = MarkTurnTerminal(turn, TerminalGeneration(x))
        /\ active' = NoActive
        /\ terminals' = terminals \cup ({x} \ {NoIntent})
    BY <1>3 DEF HandleTerminal
  <2>2. turn'.generation = turn.generation /\ turn.generation \in Nat
    BY <1>1, <2>1 DEF MarkTurnTerminal, Turns
  <2> QED
    BY <2>1, <2>2 DEF Handled, Tracks, NoActive
<1> QED
  BY <1>2, <1>3

LEMMA StatusHandled ==
  ASSUME TypeOK, Generations, NEW status, NEW x \in Intents \cup {NoIntent},
         x # NoIntent => step[x] \in Reported, HandleStatus(status, x)
  PROVE  Handled(x)
  BY RunningHandled, TerminalHandled DEF HandleStatus

-----------------------------------------------------------------------------
(* The numbers. *)

\* A step that hands out no number, and moves the send of one message on.
LEMMA GenerationsMove ==
  ASSUME TypeOK, Generations, Tracks(turn', active'), turn.generation <= turn'.generation,
         turn' \in Turns, dispatchOf' = dispatchOf,
         \A x \in Own : step'[x] = "new" <=> step[x] = "new"
  PROVE  Generations'
<1>1. turn \in Turns /\ dispatchOf \in [Own -> Nat]
  BY DEF TypeOK, Turns
<1>2. Tracks(turn, active)'
  BY DEF Tracks, NoActive
<1>3. \A x \in Own : dispatchOf'[x] <= turn'.generation
  BY <1>1 DEF Generations, Turns
<1> QED
  BY <1>2, <1>3 DEF Generations

-----------------------------------------------------------------------------
(* The reports. *)

\* A message of the websocket was there before, or is one of the new ones.
LEMMA BroadcastSays ==
  ASSUME TypeOK, NEW messages \in Seq(Message), Broadcast(messages),
         NEW i \in 1 .. Len(wire')
  PROVE  \/ i \in 1 .. Len(wire) /\ wire'[i] = wire[i]
         \/ \E j \in 1 .. Len(messages) : wire'[i] = messages[j]
<1>1. wire \in Seq(Message)
  BY DEF TypeOK
<1>2. CASE connected
  <2>1. wire' = wire \o messages
    BY <1>2 DEF Broadcast
  <2>2. CASE i \in 1 .. Len(wire)
    BY <1>1, <2>1, <2>2
  <2>3. CASE i \notin 1 .. Len(wire)
    <3>1. i - Len(wire) \in 1 .. Len(messages) /\ wire'[i] = messages[i - Len(wire)]
      BY <1>1, <2>1, <2>3
    <3> QED
      BY <3>1
  <2> QED
    BY <2>2, <2>3
<1>3. CASE ~connected
  BY <1>3 DEF Broadcast
<1> QED
  BY <1>2, <1>3

\* A step that reports nothing new: what is told was told, and nothing starts.
LEMMA ReportsSilent ==
  ASSUME Reports,
         \A x \in Intents : Told(x)' => Told(x),
         \A x \in Intents : step[x] \in Reported => step'[x] \in Reported,
         runner' \in {runner, NoIntent},
         \A x \in Intents : InWire(Status("terminal", x))' =>
            runner' # x \/ InWire(Status("terminal", x)),
         runner \in Intents \cup {NoIntent}
  PROVE  Reports'
<1>1. \A x \in Intents : Told(x)' => step'[x] \in Reported
  BY DEF Reports
<1>2. runner' # NoIntent => ~InWire(Status("terminal", runner))'
  BY DEF Reports
<1> QED
  BY <1>1, <1>2 DEF Reports, InWire, Status

\* What the coordinator takes up was told.
LEMMA HandledTold ==
  ASSUME NEW x \in Intents \cup {NoIntent}, Handled(x), UNCHANGED backend,
         x # NoIntent => Told(x), reading'.intent \in {reading.intent, NoIntent},
         \A y \in Intents : OnTheWire(y)' => OnTheWire(y)
  PROVE  \A y \in Intents : Told(y)' => Told(y)
<1> SUFFICES ASSUME NEW y \in Intents, Told(y)'
             PROVE  Told(y)
  OBVIOUS
<1>1. y # NoIntent
  BY CliAssumption DEF Intents
<1> QED
  BY <1>1 DEF Handled, Told, backend, OnTheWire

\* The backend reports the end of the turn that it no longer runs.
LEMMA InterruptedSays ==
  ASSUME TypeOK
  PROVE  /\ Interrupted \in Seq(Message)
         /\ \A j \in 1 .. Len(Interrupted) :
              runner # NoIntent /\ Interrupted[j] = Status("terminal", runner)
<1>1. Interrupted \in Seq(Message)
  BY InterruptedTyped
<1>2. \A j \in 1 .. Len(Interrupted) :
        runner # NoIntent /\ Interrupted[j] = Status("terminal", runner)
  BY DEF Interrupted
<1> QED
  BY <1>1, <1>2

LEMMA PlainTerminalSays ==
  /\ <<Status("terminal", NoIntent)>> \in Seq(Message)
  /\ \A j \in 1 .. Len(<<Status("terminal", NoIntent)>>) :
       <<Status("terminal", NoIntent)>>[j] = Status("terminal", NoIntent)
  BY StatusTyped

\* What runs ends, or a terminal of nothing is told: no intent is told that was not.
LEMMA BroadcastReports ==
  ASSUME TypeOK, Reports, NEW messages \in Seq(Message), Broadcast(messages),
         \A j \in 1 .. Len(messages) :
            \/ messages[j] = Status("terminal", NoIntent)
            \/ runner # NoIntent /\ messages[j] = Status("terminal", runner) /\ runner' = NoIntent,
         runner' \in {runner, NoIntent}, latest' = latest,
         active' = active, terminals' = terminals, reading' = reading,
         \A x \in Intents : step[x] \in Reported => step'[x] \in Reported
  PROVE  Reports'
<1>1. ASSUME NEW x \in Intents, NEW i \in 1 .. Len(wire'), wire'[i].intent = x
      PROVE  \/ i \in 1 .. Len(wire) /\ wire'[i] = wire[i]
             \/ x = runner /\ runner' = NoIntent
  <2>1. x # NoIntent
    BY CliAssumption DEF Intents
  <2>2. \/ i \in 1 .. Len(wire) /\ wire'[i] = wire[i]
        \/ \E j \in 1 .. Len(messages) : wire'[i] = messages[j]
    BY BroadcastSays
  <2> QED
    BY <1>1, <2>1, <2>2 DEF Status
<1>2. \A x \in Intents : Told(x)' => Told(x)
  <2> SUFFICES ASSUME NEW x \in Intents, Told(x)'
               PROVE  Told(x)
    OBVIOUS
  <2>1. CASE OnTheWire(x)'
    BY <1>1, <2>1 DEF OnTheWire, Told
  <2>2. CASE ~OnTheWire(x)'
    BY <2>2, CliAssumption DEF Told, Intents
  <2> QED
    BY <2>1, <2>2
<1>3. ASSUME NEW x \in Intents, InWire(Status("terminal", x))'
      PROVE  runner' # x \/ InWire(Status("terminal", x))
  <2>1. PICK i \in 1 .. Len(wire') : wire'[i] = Status("terminal", x)
    BY <1>3 DEF InWire, Status
  <2>2. wire'[i].intent = x /\ x # NoIntent
    BY <2>1, CliAssumption DEF Status, Intents
  <2> QED
    BY <1>1, <2>1, <2>2 DEF InWire
<1> QED
  BY <1>2, <1>3, ReportsSilent DEF TypeOK

\* A message is accepted: its turn runs, and follows what ran.
LEMMA AcceptReports ==
  ASSUME TypeOK, Reports, NEW x \in Intents, Accept(x),
         step[x] \notin Reported, step'[x] \in Reported,
         \A y \in Intents \ {x} : step'[y] = step[y]
  PROVE  Reports'
<1> DEFINE messages == Append(Interrupted, Status("running", x))
<1>1. messages \in Seq(Message) /\ Broadcast(messages) /\ runner' = x /\ latest' = x
  BY InterruptedTyped, StatusTyped DEF Accept
<1>2. active' = active /\ terminals' = terminals /\ reading' = reading
  BY DEF Accept
<1>3. \A j \in 1 .. Len(messages) :
         \/ messages[j] = Status("running", x)
         \/ runner # NoIntent /\ messages[j] = Status("terminal", runner)
  BY InterruptedSays
<1>4. ~Told(x)
  BY DEF Reports
<1>5. ASSUME NEW y \in Intents \ {x}, Told(y)'
      PROVE  Told(y)
  <2>1. CASE OnTheWire(y)'
    <3>1. PICK i \in 1 .. Len(wire') : wire'[i].intent = y
      BY <2>1 DEF OnTheWire
    <3>2. \/ i \in 1 .. Len(wire) /\ wire'[i] = wire[i]
          \/ \E j \in 1 .. Len(messages) : wire'[i] = messages[j]
      BY <1>1, BroadcastSays
    <3> HIDE DEF messages
    <3> QED
      BY <1>3, <3>1, <3>2 DEF Status, Told, OnTheWire
  <2>2. CASE ~OnTheWire(y)'
    BY <1>1, <1>2, <1>5, <2>2 DEF Told
  <2> QED
    BY <2>1, <2>2
<1>6. \A y \in Intents : Told(y)' => step'[y] \in Reported
  BY <1>5 DEF Reports
<1>7. ~InWire(Status("terminal", x))'
  <2> SUFFICES ASSUME NEW i \in 1 .. Len(wire'), wire'[i] = Status("terminal", x)
               PROVE  FALSE
    BY DEF InWire, Status
  <2>1. \/ i \in 1 .. Len(wire) /\ wire'[i] = wire[i]
        \/ \E j \in 1 .. Len(messages) : wire'[i] = messages[j]
    BY <1>1, BroadcastSays
  <2>2. runner # x /\ ~OnTheWire(x)
    BY <1>4 DEF Told
  <2> HIDE DEF messages
  <2> QED
    BY <1>3, <2>1, <2>2 DEF Status, OnTheWire
<1> QED
  BY <1>1, <1>6, <1>7 DEF Reports, InWire, Status

\* The end of a send that was not accepted.
LEMMA FailPreparationNumbered ==
  ASSUME TypeOK, Numbered, NEW x \in Own, FailPreparation(x),
         step[x] \in {"appending", "refused"}
  PROVE  Numbered'
<1>1. turn \in Turns /\ dispatchOf[x] \in Nat /\ step \in [Intents -> Steps] /\ x \in Intents
  BY DEF TypeOK, Turns, Intents
<1>2. turn' = MarkTurnTerminal(turn, dispatchOf[x]) /\ step' = [step EXCEPT ![x] = "failed"]
  BY DEF FailPreparation
<1>3. turn' \in Turns /\ turn'.generation = turn.generation
  BY <1>1, <1>2, LifecycleTyped DEF MarkTurnTerminal, Turns
<1>4. UNCHANGED <<dispatchOf, active, terminals, wire, reading, runner, latest>>
  BY DEF FailPreparation, link, backend
<1>5. Generations'
  <2>1. Tracks(turn', active')
    BY <1>3, <1>4 DEF Numbered, Generations, Tracks
  <2> QED
    BY <1>1, <1>2, <1>3, <1>4, <2>1, GenerationsMove DEF Numbered, Turns
<1>6. Reports'
  BY <1>1, <1>2, <1>4, ReportsSilent
  DEF Numbered, Reported, TypeOK, Told, OnTheWire, InWire, Status
<1> QED
  BY <1>5, <1>6 DEF Numbered

\* A step that leaves the lifecycle and the sends alone.
LEMMA GenerationsSame ==
  ASSUME TypeOK, Generations, UNCHANGED <<turn, step, dispatchOf, active>>
  PROVE  Generations'
<1>1. turn \in Turns
  BY DEF TypeOK, Turns
<1>2. Tracks(turn', active') /\ turn.generation <= turn'.generation /\ turn' \in Turns
  BY <1>1 DEF Generations, Tracks, Turns
<1> QED
  BY <1>2, GenerationsMove

\* Accepting a message hands out no number.
LEMMA AcceptNumbered ==
  ASSUME TypeOK, Numbered, NEW x \in Intents, Accept(x), step[x] \notin Reported,
         NEW s \in Reported, step' = [step EXCEPT ![x] = s], x \in Own => step[x] # "new"
  PROVE  Numbered'
<1>1. turn \in Turns /\ step \in [Intents -> Steps]
  BY DEF TypeOK, Turns
<1>2. UNCHANGED <<turn, dispatchOf, active>>
  BY DEF Accept
<1>3. \A y \in Own : step'[y] = "new" <=> step[y] = "new"
  BY <1>1 DEF Reported, Intents
<1>4. Tracks(turn', active') /\ turn.generation <= turn'.generation /\ turn' \in Turns
  BY <1>1, <1>2 DEF Numbered, Generations, Tracks, Turns
<1>5. Generations'
  BY <1>2, <1>3, <1>4, GenerationsMove DEF Numbered
<1>6. Reports'
  BY <1>1, AcceptReports DEF Numbered
<1> QED
  BY <1>5, <1>6 DEF Numbered

\* The send of one message of the window keeps the numbers and the reports.
LEMMA SendingNumbered ==
  ASSUME TypeOK, Numbered, NEW x \in Own, Sending(x)
  PROVE  Numbered'
<1>1. /\ turn \in Turns /\ x \in Intents /\ x # NoIntent
      /\ step \in [Intents -> Steps] /\ dispatchOf \in [Own -> Nat]
  BY CliAssumption DEF TypeOK, Turns, Intents
<1>2. CASE PrepareUserIntent(x)
  <2>1. /\ step[x] = "new" /\ step' = [step EXCEPT ![x] = "appending"]
        /\ turn' = [phase |-> "dispatching", generation |-> turn.generation + 1]
        /\ dispatchOf' = [dispatchOf EXCEPT ![x] = turn.generation + 1]
        /\ UNCHANGED <<active, terminals, wire, reading, runner, latest>>
    BY <1>2 DEF PrepareUserIntent, BeginTurnDispatch, link, backend
  <2>2. ~Told(x)
    BY <1>1, <2>1 DEF Numbered, Reports, Reported
  <2>3. turn.generation \in Nat /\ turn'.generation = turn.generation + 1
    BY <1>1, <2>1 DEF Turns
  <2>4. \A y \in Own : /\ dispatchOf'[y] = IF y = x THEN turn.generation + 1 ELSE dispatchOf[y]
                       /\ step'[y] = IF y = x THEN "appending" ELSE step[y]
                       /\ dispatchOf[y] <= turn.generation /\ dispatchOf[y] \in Nat
    BY <1>1, <2>1 DEF Numbered, Generations, Intents
  <2>5. Tracks(turn, active)'
    <3>1. active.generation <= turn.generation /\ active.generation \in Nat /\ active.intent # x
      BY <2>2 DEF Numbered, Generations, Tracks, TypeOK, Told
    <3>2. active'.generation <= turn'.generation /\ (active'.intent = NoIntent <=> active'.generation = 0)
      BY <2>1, <2>3, <3>1 DEF Numbered, Generations, Tracks
    <3>3. ASSUME active # NoActive, NEW y \in Own
          PROVE  active.generation = dispatchOf'[y] <=> active.intent = y
      BY <2>3, <2>4, <3>1, <3>3 DEF Numbered, Generations, Tracks
    <3> QED
      BY <2>1, <3>2, <3>3 DEF Tracks, NoActive
  <2>6. \A y \in Own : dispatchOf'[y] <= turn'.generation /\ (step'[y] = "new" <=> dispatchOf'[y] = 0)
    BY <2>3, <2>4 DEF Numbered, Generations
  <2>7. \A y, z \in Own : dispatchOf'[y] = dispatchOf'[z] /\ dispatchOf'[y] # 0 => y = z
    BY <2>3, <2>4 DEF Numbered, Generations
  <2>8. Generations'
    BY <2>5, <2>6, <2>7 DEF Generations
  <2>9. Reports'
    BY <1>1, <2>1, ReportsSilent
    DEF Numbered, Reported, TypeOK, Told, OnTheWire, InWire, Status
  <2> QED
    BY <2>8, <2>9 DEF Numbered
<1>3. CASE AppendFails(x)
  BY <1>3, FailPreparationNumbered DEF AppendFails
<1>4. CASE SendSuperseded(x)
  BY <1>4, FailPreparationNumbered DEF SendSuperseded
<1>5. CASE SendRefused(x)
  BY <1>5, FailPreparationNumbered DEF SendRefused
<1>6. CASE SendMessage(x)
  <2>1. /\ step[x] = "appending" /\ step' = [step EXCEPT ![x] = "sending"]
        /\ UNCHANGED <<turn, dispatchOf, active, terminals, wire, reading, runner, latest>>
    BY <1>6 DEF SendMessage, link, backend
  <2>2. Tracks(turn', active') /\ turn.generation <= turn'.generation /\ turn' \in Turns
    BY <1>1, <2>1 DEF Numbered, Generations, Tracks, Turns
  <2>3. Generations'
    BY <1>1, <2>1, <2>2, GenerationsMove DEF Numbered
  <2>4. Reports'
    BY <1>1, <2>1, ReportsSilent
    DEF Numbered, Reported, TypeOK, Told, OnTheWire, InWire, Status
  <2> QED
    BY <2>3, <2>4 DEF Numbered
<1>7. CASE RegisterReceipt(x)
  <2>1. /\ step[x] = "answered" /\ step' = [step EXCEPT ![x] = "marking"]
        /\ HandleRunning(x) /\ UNCHANGED <<dispatchOf, wire, reading, runner, latest, backend>>
    BY <1>7 DEF RegisterReceipt, link, backend
  <2>2. Handled(x) /\ turn' \in Turns
    BY <1>1, <2>1, RunningHandled, RunningCoordinated DEF Numbered, Reported, Coordinated
  <2>3. Generations'
    BY <1>1, <2>1, <2>2, GenerationsMove DEF Numbered, Handled
  <2>4. \A y \in Intents : OnTheWire(y)' => OnTheWire(y)
    BY <2>1 DEF OnTheWire
  <2>5. \A y \in Intents : Told(y)' => Told(y) \/ y = x
    <3> SUFFICES ASSUME NEW y \in Intents, Told(y)', y # x
                 PROVE  Told(y)
      OBVIOUS
    <3>1. y # NoIntent
      BY CliAssumption DEF Intents
    <3> QED
      BY <2>1, <2>2, <2>4, <3>1 DEF Handled, Told, backend
  <2>6. \A y \in Intents : Told(y)' => step'[y] \in Reported
    BY <1>1, <2>1, <2>5 DEF Numbered, Reports, Reported
  <2>7. Reports'
    BY <2>1, <2>6 DEF Numbered, Reports, InWire, Status
  <2> QED
    BY <2>3, <2>7 DEF Numbered
<1>8. CASE ConfirmSent(x)
  <2>1. /\ step[x] = "marking" /\ step' = [step EXCEPT ![x] = "accepted"]
        /\ turn' = ConfirmTurnRunning(turn)
        /\ UNCHANGED <<dispatchOf, active, terminals, wire, reading, runner, latest>>
    BY <1>8 DEF ConfirmSent, link, backend
  <2>2. turn' \in Turns /\ turn'.generation = turn.generation
    BY <1>1, <2>1, LifecycleTyped DEF ConfirmTurnRunning, Turns
  <2>3. Tracks(turn', active') /\ turn.generation <= turn'.generation
    BY <1>1, <2>1, <2>2 DEF Numbered, Generations, Tracks, Turns
  <2>4. Generations'
    BY <1>1, <2>1, <2>2, <2>3, GenerationsMove DEF Numbered
  <2>5. Reports'
    BY <1>1, <2>1, ReportsSilent
    DEF Numbered, Reported, TypeOK, Told, OnTheWire, InWire, Status
  <2> QED
    BY <2>4, <2>5 DEF Numbered
<1>9. CASE AcceptMessage(x)
  BY <1>1, <1>9, AcceptNumbered DEF AcceptMessage, Reported
<1>10. CASE RefuseMessage(x)
  <2>1. /\ step[x] = "sending" /\ step' = [step EXCEPT ![x] = "refused"]
        /\ UNCHANGED <<turn, dispatchOf, active, terminals, reading, latest>>
    BY <1>10 DEF RefuseMessage
  <2>2. Tracks(turn', active') /\ turn.generation <= turn'.generation /\ turn' \in Turns
    BY <1>1, <2>1 DEF Numbered, Generations, Tracks, Turns
  <2>3. Generations'
    BY <1>1, <2>1, <2>2, GenerationsMove DEF Numbered
  <2>4. \A y \in Intents : step[y] \in Reported => step'[y] \in Reported
    BY <1>1, <2>1 DEF Reported
  <2>5. ASSUME UNCHANGED <<link, runner>>
        PROVE  Reports'
    BY <2>1, <2>4, <2>5, ReportsSilent
    DEF Numbered, TypeOK, Told, OnTheWire, InWire, Status, link
  <2>6. ASSUME Broadcast(Interrupted), runner' = NoIntent
        PROVE  Reports'
    BY <2>1, <2>4, <2>6, InterruptedSays, BroadcastReports DEF Numbered
  <2> QED
    BY <1>10, <2>3, <2>5, <2>6 DEF RefuseMessage, Ends, Numbered
<1> QED
  BY <1>2, <1>3, <1>4, <1>5, <1>6, <1>7, <1>8, <1>9, <1>10 DEF Sending

\* A report that was told is handled: from the websocket, or from a batch.
LEMMA HandledNumbered ==
  ASSUME TypeOK, Numbered, NEW x \in Intents \cup {NoIntent}, Handled(x), turn' \in Turns,
         x # NoIntent => Told(x), UNCHANGED <<step, dispatchOf, backend>>,
         reading'.intent \in {reading.intent, NoIntent},
         \A i \in 1 .. Len(wire') : \E j \in 1 .. Len(wire) : wire'[i] = wire[j]
  PROVE  Numbered'
<1>1. Generations'
  BY GenerationsMove DEF Numbered, Handled
<1>2. \A y \in Intents : OnTheWire(y)' => OnTheWire(y)
  BY DEF OnTheWire
<1>3. \A y \in Intents : Told(y)' => Told(y)
  BY <1>2, HandledTold
<1>4. \A y \in Intents : InWire(Status("terminal", y))' => InWire(Status("terminal", y))
  BY DEF InWire, Status
<1>5. Reports'
  BY <1>3, <1>4 DEF Numbered, Reports, backend, TypeOK, InWire, Status
<1> QED
  BY <1>1, <1>5 DEF Numbered

\* Whoever handles it, a report of the end of a turn speaks of one that does
\* not run, and every report of one that was accepted.
LEMMA DeliveredReports ==
  ASSUME TypeOK, Numbered, connected, wire # <<>>
  PROVE  LET m == Head(wire) IN
         /\ m \in Message
         /\ m.intent # NoIntent => Told(m.intent)
         /\ m.status = "terminal" /\ m.intent # NoIntent => runner # m.intent
         /\ \A i \in 1 .. Len(Tail(wire)) : \E j \in 1 .. Len(wire) : Tail(wire)[i] = wire[j]
<1>1. wire \in Seq(Message) /\ 1 \in 1 .. Len(wire) /\ Head(wire) = wire[1]
  BY DEF TypeOK
<1>2. wire[1] \in Message
  BY <1>1
<1>3. wire[1].intent # NoIntent => Told(wire[1].intent)
  BY <1>1 DEF Told, OnTheWire
<1>4. wire[1].status = "terminal" /\ wire[1].intent # NoIntent => runner # wire[1].intent
  <2>1. wire[1] = [status |-> wire[1].status, intent |-> wire[1].intent]
    BY <1>2 DEF Message
  <2> QED
    BY <1>1, <2>1 DEF Numbered, Reports, InWire, Status
<1>5. \A i \in 1 .. Len(Tail(wire)) : i + 1 \in 1 .. Len(wire) /\ Tail(wire)[i] = wire[i + 1]
  BY <1>1
<1> QED
  BY <1>1, <1>2, <1>3, <1>4, <1>5

LEMMA InitNumbered == Init => Numbered
<1> SUFFICES ASSUME Init PROVE Numbered
  OBVIOUS
<1>1. \A x \in Intents : ~Told(x)
  BY CliAssumption DEF Init, Told, OnTheWire, NoActive, NoReading, Intents
<1>2. Generations
  BY DEF Init, Generations, Tracks, NoActive, Intents
<1>3. Reports
  BY <1>1 DEF Reports, Init
<1> QED
  BY <1>2, <1>3 DEF Numbered

\* Every step keeps the numbers and the reports.
LEMMA NumberedStep ==
  ASSUME TypeOK, Numbered, [Next]_vars
  PROVE  Numbered'
<1>1. turn \in Turns /\ turn.generation \in Nat /\ step \in [Intents -> Steps]
  BY DEF TypeOK, Turns
<1>2. CASE \E x \in Own : Sending(x)
  BY <1>2, SendingNumbered
<1>3. ASSUME NEW x \in Foreign, ForeignSend(x)
      PROVE  Numbered'
  BY <1>3, AcceptNumbered, CliAssumption DEF ForeignSend, Reported, Intents
<1>4. ASSUME turn' \in Turns, turn'.generation >= turn.generation,
             UNCHANGED <<step, dispatchOf, active, terminals, wire, backend>>,
             reading'.intent \in {reading.intent, latest, NoIntent}
      PROVE  Numbered'
  <2>1. Tracks(turn', active')
    BY <1>1, <1>4 DEF Numbered, Generations, Tracks, Turns, TypeOK
  <2>2. Generations'
    BY <1>1, <1>4, <2>1, GenerationsMove DEF Numbered, Turns
  <2>3. Reports'
    <3>1. \A x \in Intents : x # NoIntent
      BY CliAssumption DEF Intents
    <3> QED
      BY <1>4, <3>1, ReportsSilent
      DEF Numbered, TypeOK, Told, OnTheWire, InWire, Status, backend
  <2> QED
    BY <2>2, <2>3 DEF Numbered
<1>5. CASE Stop
  <2>1. turn' = BeginTurnStopping(turn)
    BY <1>5 DEF Stop
  <2>2. turn' \in Turns /\ turn'.generation = turn.generation
    BY <1>1, <2>1, LifecycleTyped DEF BeginTurnStopping, Turns
  <2> QED
    BY <1>1, <1>4, <1>5, <2>2 DEF Stop, link
<1>6. CASE StopFailed \/ Deadman
  <2>1. turn' = ForceTurnIdle(turn)
    BY <1>6 DEF StopFailed, Deadman
  <2>2. turn' \in Turns /\ turn'.generation = turn.generation + 1
    BY <1>1, <2>1, LifecycleTyped DEF ForceTurnIdle
  <2> QED
    BY <1>1, <1>4, <1>6, <2>2 DEF StopFailed, Deadman, link
<1>7. CASE CancelAnswered \/ Reconnect \/ Reconcile \/ UNCHANGED vars
  <2>1. reading'.intent \in {reading.intent, NoIntent}
    BY <1>7 DEF CancelAnswered, Reconnect, Reconcile, Asks, NoReading, TypeOK, Readings, vars
  <2>2. UNCHANGED <<turn, step, dispatchOf, active, terminals, wire, backend>>
    BY <1>7 DEF CancelAnswered, Reconnect, Reconcile, vars, client, link
  <2> QED
    BY <1>1, <1>4, <2>1, <2>2
<1>71. CASE ReadIntents \/ ReadRows \/ BatchFails
  <2>1. reading'.intent \in {reading.intent, latest, NoIntent}
    <3>1. reading \in Readings
      BY DEF TypeOK
    <3>2. CASE ReadIntents
      BY <3>1, <3>2 DEF ReadIntents, Readings
    <3>3. CASE ReadRows
      BY <3>1, <3>3 DEF ReadRows, Readings
    <3>4. CASE BatchFails
      BY <3>4 DEF BatchFails, NoReading
    <3> QED
      BY <1>71, <3>2, <3>3, <3>4
  <2>2. UNCHANGED <<turn, step, dispatchOf, active, terminals, wire, backend>>
    BY <1>71 DEF ReadIntents, ReadRows, BatchFails, client, link
  <2> QED
    BY <1>1, <1>4, <2>1, <2>2
<1>8. ASSUME NEW messages \in Seq(Message), Broadcast(messages),
             \A j \in 1 .. Len(messages) :
                \/ messages[j] = Status("terminal", NoIntent)
                \/ /\ runner # NoIntent /\ messages[j] = Status("terminal", runner)
                   /\ runner' = NoIntent,
             runner' \in {runner, NoIntent}, latest' = latest, UNCHANGED <<client, reading>>
      PROVE  Numbered'
  <2>1. Generations'
    BY <1>8, GenerationsSame DEF Numbered, client
  <2>2. Reports'
    BY <1>8, BroadcastReports DEF Numbered, client
  <2> QED
    BY <2>1, <2>2 DEF Numbered
<1>9. CASE CancelSession
  <2>1. /\ Broadcast(IF runner = NoIntent THEN <<Status("terminal", NoIntent)>> ELSE Interrupted)
        /\ runner' = NoIntent /\ latest' = latest /\ UNCHANGED <<client, reading>>
    BY <1>9 DEF CancelSession
  <2> QED
    BY <1>8, <2>1, InterruptedSays, PlainTerminalSays
<1>10. CASE CancelTimesOut \/ RunnerEnds
  <2>1. /\ Broadcast(Interrupted)
        /\ runner' = NoIntent /\ latest' = latest /\ UNCHANGED <<client, reading>>
    BY <1>10 DEF CancelTimesOut, RunnerEnds, Ends
  <2> QED
    BY <1>8, <2>1, InterruptedSays
<1>11. CASE PlanGate
  <2>1. /\ Broadcast(<<Status("terminal", NoIntent)>>)
        /\ runner' = runner /\ latest' = latest /\ UNCHANGED <<client, reading>>
    BY <1>11 DEF PlanGate
  <2> QED
    BY <1>8, <2>1, PlainTerminalSays
<1>12. CASE DeliverStatus
  <2> DEFINE m == Head(wire)
  <2>1. /\ m \in Message /\ (m.intent # NoIntent => Told(m.intent))
        /\ \A i \in 1 .. Len(wire') : \E j \in 1 .. Len(wire) : wire'[i] = wire[j]
    BY <1>12, DeliveredReports DEF DeliverStatus
  <2>2. m.intent \in Intents \cup {NoIntent}
    BY <2>1 DEF Message
  <2>3. HandleStatus(m.status, m.intent) /\ UNCHANGED <<step, dispatchOf, reading, backend>>
    BY <1>12 DEF DeliverStatus
  <2> HIDE DEF m
  <2>4. Handled(m.intent)
    BY <2>1, <2>2, <2>3, StatusHandled DEF Numbered, Reports
  <2>5. turn' \in Turns
    BY <2>2, <2>3, StatusCoordinated DEF Coordinated
  <2> QED
    BY <2>1, <2>2, <2>3, <2>4, <2>5, HandledNumbered
<1>13. CASE ApplyBatch
  <2> DEFINE i == reading.intent
  <2>1. /\ i \in Intents \cup {NoIntent} /\ (i # NoIntent => Told(i))
        /\ UNCHANGED <<step, dispatchOf, backend, wire>> /\ reading'.intent = NoIntent
    BY <1>13 DEF ApplyBatch, NoReading, TypeOK, Readings, Told, link
  <2>2. Ignored \/ HandleStatus(reading.status, i)
    BY <1>13 DEF ApplyBatch
  <2> HIDE DEF i
  <2>3. i # NoIntent => step[i] \in Reported
    BY <2>1 DEF Numbered, Reports
  <2>4. Handled(i) /\ turn' \in Turns
    <3>1. CASE Ignored
      BY <1>1, <3>1 DEF Ignored, Handled, Numbered, Generations, Turns
    <3>2. CASE HandleStatus(reading.status, i)
      BY <2>1, <2>3, <3>2, StatusHandled, StatusCoordinated DEF Numbered, Coordinated
    <3> QED
      BY <2>2, <3>1, <3>2
  <2> QED
    BY <2>1, <2>4, HandledNumbered
<1>14. CASE Lose
  <2>1. wire' = <<>> /\ UNCHANGED <<client, reading, backend>>
    BY <1>14 DEF Lose
  <2>2. Generations'
    BY <2>1, GenerationsSame DEF Numbered, client
  <2>3. Reports'
    BY <2>1, ReportsSilent
    DEF Numbered, TypeOK, Told, OnTheWire, InWire, Status, client, backend
  <2> QED
    BY <2>2, <2>3 DEF Numbered
<1> QED
  BY <1>2, <1>3, <1>5, <1>6, <1>7, <1>71, <1>9, <1>10, <1>11, <1>12, <1>13, <1>14 DEF Next

LEMMA InitAnswers == Init => Answers
  BY DEF Init, Answers, NoReading

\* Every step keeps what the row and a batch say.
LEMMA AnswersStep ==
  ASSUME TypeOK, Numbered, Answers, [Next]_vars
  PROVE  Answers'
<1>1. reading \in Readings /\ latest \in Intents \cup {NoIntent}
  BY DEF TypeOK
<1>2. ASSUME NEW x \in Intents, Accept(x), step[x] \notin Reported
      PROVE  Answers'
  <2>1. reading.intent # x
    BY <1>2 DEF Numbered, Reports, Told
  <2>2. x # NoIntent
    BY CliAssumption DEF Intents
  <2> QED
    BY <1>2, <2>1, <2>2 DEF Accept, Answers
<1>3. ASSUME runner' = NoIntent, row' = "terminal", UNCHANGED <<reading, latest>>
      PROVE  Answers'
  BY <1>3 DEF Answers
<1>4. ASSUME UNCHANGED <<reading, backend>>
      PROVE  Answers'
  BY <1>4 DEF Answers, backend
<1>5. ASSUME NEW x \in Own, Sending(x)
      PROVE  Answers'
  <2>1. CASE AcceptMessage(x)
    BY <1>2, <2>1 DEF AcceptMessage, Reported, Intents
  <2>2. CASE RefuseMessage(x)
    BY <1>3, <1>4, <2>2 DEF RefuseMessage, Ends, backend
  <2>3. CASE ~AcceptMessage(x) /\ ~RefuseMessage(x)
    BY <1>4, <1>5, <2>3
    DEF Sending, PrepareUserIntent, AppendFails, SendSuperseded, SendMessage, SendRefused,
        FailPreparation, RegisterReceipt, ConfirmSent
  <2> QED
    BY <2>1, <2>2, <2>3
<1>6. ASSUME NEW x \in Foreign, ForeignSend(x)
      PROVE  Answers'
  BY <1>2, <1>6 DEF ForeignSend, Reported, Intents
<1>7. CASE CancelSession \/ CancelTimesOut \/ RunnerEnds
  BY <1>3, <1>7 DEF CancelSession, CancelTimesOut, RunnerEnds, Ends
<1>8. CASE PlanGate
  BY <1>8 DEF PlanGate, Answers
<1>9. CASE Reconnect \/ Reconcile
  <2>1. UNCHANGED backend /\ \E repair \in BOOLEAN : Asks(repair)
    BY <1>9 DEF Reconnect, Reconcile
  <2>2. CASE reading # NoReading
    <3>1. /\ reading'.at = reading.at /\ reading'.intent = reading.intent
          /\ reading'.status = reading.status
      BY <1>1, <2>1, <2>2 DEF Asks, Readings
    <3> QED
      BY <2>1, <3>1 DEF Answers, backend
  <2>3. CASE reading = NoReading
    <3>1. PICK repair \in BOOLEAN : Asks(repair)
      BY <2>1
    <3>2. reading' = NoReading \/ reading' = [NoReading EXCEPT !.at = "asked", !.repair = repair]
      BY <2>3, <3>1 DEF Asks
    <3>3. reading'.at \in {"none", "asked"} /\ reading'.intent = NoIntent /\ reading'.status = "none"
      <4>1. CASE reading' = NoReading
        BY <4>1 DEF NoReading
      <4>2. CASE reading' = [NoReading EXCEPT !.at = "asked", !.repair = repair]
        <5>1. reading' = [at |-> "asked", repair |-> repair, intent |-> NoIntent, status |-> "none"]
          BY <4>2 DEF NoReading
        <5> QED
          BY <5>1
      <4> QED
        BY <3>2, <4>1, <4>2
    <3> QED
      BY <2>1, <3>3 DEF Answers, backend
  <2> QED
    BY <2>2, <2>3
<1>10. CASE ReadIntents
  <2>1. /\ reading'.at = "intents" /\ reading'.intent = latest
        /\ reading'.status = "none" /\ UNCHANGED backend
    BY <1>1, <1>10 DEF ReadIntents, Readings, Answers
  <2> QED
    BY <2>1 DEF Answers, backend
<1>11. CASE ReadRows
  <2>1. /\ reading'.at = "answered" /\ reading'.intent = reading.intent
        /\ reading'.status = row /\ UNCHANGED backend
    BY <1>1, <1>11 DEF ReadRows, Readings
  <2> QED
    BY <2>1 DEF Answers, backend
<1>12. CASE BatchFails \/ ApplyBatch
  <2>1. reading' = NoReading /\ UNCHANGED backend
    BY <1>12 DEF BatchFails, ApplyBatch
  <2> QED
    BY <2>1 DEF Answers, NoReading, backend
<1>13. CASE \/ Stop \/ CancelAnswered \/ StopFailed \/ Deadman \/ DeliverStatus \/ Lose
            \/ UNCHANGED vars
  BY <1>4, <1>13
  DEF Stop, CancelAnswered, StopFailed, Deadman, DeliverStatus, Lose, vars
<1> QED
  BY <1>5, <1>6, <1>7, <1>8, <1>9, <1>10, <1>11, <1>12, <1>13 DEF Next

-----------------------------------------------------------------------------
(* What releases the Session. *)

\* The turn that holds the Session is the one of the current generation.
LEMMA HolderNumbered ==
  ASSUME TypeOK, Numbered, NEW x \in Intents, Holds(x), NEW y \in Own,
         dispatchOf[y] = turn.generation, dispatchOf[y] # 0
  PROVE  x = y
<1>1. CASE x \in Own /\ dispatchOf[x] = turn.generation
  BY <1>1 DEF Numbered, Generations
<1>2. CASE active = [intent |-> x, generation |-> turn.generation]
  <2>1. active # NoActive
    BY <1>2, CliAssumption DEF NoActive, Intents
  <2> QED
    BY <1>2, <2>1 DEF Numbered, Generations, Tracks
<1> QED
  BY <1>1, <1>2 DEF Holds

\* A terminal that is applied is of the turn that holds the Session.
LEMMA TerminalReleases ==
  ASSUME TypeOK, Numbered, NEW x \in Intents \cup {NoIntent}, HandleTerminal(x),
         turn'.phase = "idle", NEW y \in Intents, Holds(y)
  PROVE  x = y
<1>1. turn.phase # "idle" /\ y # NoIntent /\ turn.generation \in Nat
  BY CliAssumption DEF Holds, Intents, TypeOK
<1>2. ~Unrelated(x) /\ TerminalAccepted(turn, TerminalGeneration(x))
  BY <1>1 DEF HandleTerminal, Ignored
<1>3. CASE active # NoActive
  <2>1. x # NoIntent /\ active.intent = x /\ active.generation # 0
    BY <1>2, <1>3 DEF Unrelated, Numbered, Generations, Tracks
  <2>2. active.generation = turn.generation
    BY <1>2, <1>3, <2>1 DEF TerminalGeneration, TerminalAccepted, Concerns
  <2>3. CASE y \in Own /\ dispatchOf[y] = turn.generation
    BY <1>3, <2>1, <2>2, <2>3 DEF Numbered, Generations, Tracks
  <2>4. CASE active = [intent |-> y, generation |-> turn.generation]
    BY <2>1, <2>4
  <2> QED
    BY <2>3, <2>4 DEF Holds
<1>4. CASE active = NoActive
  <2>1. turn.phase = "dispatching" /\ y \in Own /\ dispatchOf[y] = turn.generation
    BY <1>1, <1>4 DEF Holds, NoActive
  <2>2. TerminalGeneration(x) = turn.generation /\ TerminalGeneration(x) # 0
    BY <1>2, <2>1 DEF TerminalAccepted, Concerns
  <2>3. x \in Own /\ dispatchOf[x] = turn.generation /\ dispatchOf[x] # 0
    BY <1>4, <2>2 DEF TerminalGeneration, Published
  <2> QED
    BY <2>1, <2>3 DEF Numbered, Generations
<1> QED
  BY <1>3, <1>4

\* A turn that was reported as ended is not live, or has announced its plan.
LEMMA EndedIsNotLive ==
  ASSUME Numbered, NEW x \in Intents, Told(x), runner = x => gated
  PROVE  ~Live(x)
  BY DEF Numbered, Reports, Reported, Live

\* A running report does not release the Session.
LEMMA RunningReleasesNothing ==
  ASSUME TypeOK, NEW x \in Intents \cup {NoIntent}, HandleRunning(x), turn'.phase = "idle"
  PROVE  turn.phase = "idle"
<1>1. MarkTurnRunning(turn, active.generation).phase = "idle" => turn.phase = "idle"
  BY DEF MarkTurnRunning, TypeOK
<1>2. MarkTurnRunning(turn, Published(x)).phase = "idle" => turn.phase = "idle"
  BY DEF MarkTurnRunning, TypeOK
<1>3. MarkTurnRunning(BeginTurnDispatch(turn), BeginTurnDispatch(turn).generation).phase # "idle"
  BY DEF MarkTurnRunning, BeginTurnDispatch
<1> QED
  BY <1>1, <1>2, <1>3 DEF HandleRunning, Ignored, RepeatsRunning, TakesRunning

\* The end of a send releases the Session from the turn of that send.
LEMMA FailPreparationReleases ==
  ASSUME TypeOK, Numbered, NEW x \in Own, FailPreparation(x),
         step[x] \in {"appending", "refused"},
         turn'.phase = "idle", NEW y \in Intents, Holds(y)
  PROVE  ~Live(y)'
<1>1. turn.phase # "idle" /\ x \in Intents /\ step \in [Intents -> Steps]
  BY DEF Holds, Intents, TypeOK
<1>2. dispatchOf[x] # 0
  BY DEF Numbered, Generations
<1>3. dispatchOf[x] = turn.generation
  BY <1>1, <1>2 DEF FailPreparation, MarkTurnTerminal, TerminalAccepted, Concerns
<1>4. x = y
  BY <1>2, <1>3, HolderNumbered
<1>5. runner # x
  BY <1>1 DEF Numbered, Reports, Reported, Told
<1> QED
  BY <1>1, <1>4, <1>5 DEF FailPreparation, Live, backend

\* Whatever makes the Session idle under the same generation is the end of the
\* turn that holds it.
LEMMA ReleasedStep ==
  ASSUME TypeOK, Numbered, Answers, [Next]_vars,
         turn'.phase = "idle", turn'.generation = turn.generation,
         NEW y \in Intents, Holds(y)
  PROVE  ~Live(y)'
<1>1. turn.phase # "idle" /\ turn.generation \in Nat /\ turn \in Turns /\ y # NoIntent
  BY CliAssumption DEF Holds, TypeOK, Turns, Intents
<1>2. turn' # turn
  BY <1>1
<1>3. turn' # ForceTurnIdle(turn) /\ turn' # BeginTurnDispatch(turn)
  BY <1>1 DEF ForceTurnIdle, BeginTurnDispatch
<1>4. turn' # BeginTurnStopping(turn) /\ turn' # ConfirmTurnRunning(turn)
  BY <1>1 DEF BeginTurnStopping, ConfirmTurnRunning, Turns
<1>5. ASSUME NEW x \in Own, Sending(x)
      PROVE  ~Live(y)'
  <2>1. CASE AppendFails(x) \/ SendSuperseded(x) \/ SendRefused(x)
    BY <2>1, FailPreparationReleases DEF AppendFails, SendSuperseded, SendRefused
  <2>2. CASE RegisterReceipt(x)
    BY <1>1, <2>2, RunningReleasesNothing DEF RegisterReceipt, Intents
  <2>3. CASE PrepareUserIntent(x) \/ SendMessage(x) \/ ConfirmSent(x) \/ AcceptMessage(x)
             \/ RefuseMessage(x)
    BY <1>2, <1>3, <1>4, <2>3
    DEF PrepareUserIntent, SendMessage, ConfirmSent, AcceptMessage, RefuseMessage, Accept
  <2> QED
    BY <1>5, <2>1, <2>2, <2>3 DEF Sending
<1>6. ASSUME NEW x \in Intents \cup {NoIntent}, HandleTerminal(x), UNCHANGED <<step, runner, gated>>,
             x # NoIntent => Told(x) /\ (runner = x => gated)
      PROVE  ~Live(y)'
  <2>1. x = y
    BY <1>6, TerminalReleases
  <2> QED
    BY <1>1, <1>6, <2>1, EndedIsNotLive DEF Live
<1>7. CASE DeliverStatus
  <2> DEFINE m == Head(wire)
  <2>1. /\ m \in Message /\ (m.intent # NoIntent => Told(m.intent))
        /\ m.status = "terminal" /\ m.intent # NoIntent => runner # m.intent
    BY <1>7, DeliveredReports DEF DeliverStatus
  <2>2. m.intent \in Intents \cup {NoIntent} /\ m.status \in {"running", "terminal"}
    BY <2>1 DEF Message
  <2>3. HandleStatus(m.status, m.intent) /\ UNCHANGED <<step, runner, gated>>
    BY <1>7 DEF DeliverStatus, backend
  <2> HIDE DEF m
  <2> QED
    BY <1>1, <1>6, <2>1, <2>2, <2>3, RunningReleasesNothing DEF HandleStatus
<1>8. CASE ApplyBatch
  <2> DEFINE i == reading.intent
  <2>1. /\ i \in Intents \cup {NoIntent} /\ UNCHANGED <<step, runner, gated>>
        /\ (i # NoIntent => Told(i))
    BY <1>8 DEF ApplyBatch, TypeOK, Readings, backend, Told
  <2>2. HandleStatus(reading.status, i)
    BY <1>2, <1>8 DEF ApplyBatch, Ignored
  <2>3. reading.status \in {"running", "terminal"}
    BY <1>2, <1>8 DEF ApplyBatch, Ignored, TypeOK, Readings
  <2>4. CASE reading.status = "running"
    BY <1>1, <2>1, <2>2, <2>4, RunningReleasesNothing DEF HandleStatus
  <2>5. CASE reading.status = "terminal"
    <3>1. i # NoIntent /\ runner = i => gated
      BY <2>5 DEF Answers
    <3> HIDE DEF i
    <3> QED
      BY <1>6, <2>1, <2>2, <2>5, <3>1 DEF HandleStatus
  <2> QED
    BY <2>3, <2>4, <2>5
<1>9. CASE Stop \/ StopFailed \/ Deadman
  BY <1>3, <1>4, <1>9 DEF Stop, StopFailed, Deadman
<1>10. CASE \/ \E x \in Foreign : ForeignSend(x)
            \/ CancelAnswered \/ CancelSession \/ CancelTimesOut \/ Lose
            \/ Reconnect \/ Reconcile \/ ReadIntents \/ ReadRows \/ BatchFails
            \/ RunnerEnds \/ PlanGate \/ UNCHANGED vars
  BY <1>2, <1>10
  DEF ForeignSend, Accept, CancelAnswered, CancelSession, CancelTimesOut, Lose, Reconnect,
      Reconcile, ReadIntents, ReadRows, BatchFails, RunnerEnds, PlanGate, vars, client
<1> QED
  BY <1>5, <1>7, <1>8, <1>9, <1>10 DEF Next

\* Every dispatch has a number of its own, reports speak of accepted turns, and
\* the end of a turn is pushed only when it does not run, and answered by a
\* batch only when it does not run or has announced its plan.
THEOREM CliNumbered == Spec => [](Numbered /\ Answers)
<1>1. TypeOK /\ Numbered /\ Answers /\ [Next]_vars => Numbered' /\ Answers'
  BY NumberedStep, AnswersStep
<1>2. Init => Numbered /\ Answers
  BY InitNumbered, InitAnswers
<1> QED
  BY <1>1, <1>2, CliTyped, PTL DEF Spec

\* No report releases the Session from a turn that is still to run, or that runs
\* and has not announced its plan: not a late one of an older turn, not one that
\* names no turn, not a batch however late it is applied, and not a failed send;
\* whatever the websocket loses and whoever else sends.
THEOREM CliReleasedByItsOwnEnd == Spec => ReleasedByItsOwnEnd
<1>1. TypeOK /\ Numbered /\ Answers /\ [Next]_vars
      => (turn'.phase = "idle" /\ turn'.generation = turn.generation
          => \A x \in Intents : Holds(x) => ~Live(x)')
  BY ReleasedStep
<1> QED
  BY <1>1, CliTyped, CliNumbered, PTL DEF Spec, ReleasedByItsOwnEnd

-----------------------------------------------------------------------------
(* A window that sends one message at a time, and stops what it sees.      *)

\* Stop is pressed on what the window has seen accepted, and a message is sent
\* when the one before is marked as sent.
InTurn == Circumstances \cap {"early_stop", "late_confirm"} = {}

Unsent == {"appending", "refused", "failed"}

\* The Session waits, or was stopped before anything was taken up.
AtRest == turn.phase = "idle" \/ (turn.phase = "stopping" /\ active = NoActive)

\* The order of the sends, which only a new dispatch disturbs.
Ordered == \A x, y \in Own : OnItsWay(y) => dispatchOf[x] <= dispatchOf[y]

\* A dispatch is of a message that was not taken up, a working Session has the
\* turn it works for, an idle one has let it go, and the last message sent at
\* rest has ended or was never accepted.
OrderlyTurn ==
  /\ turn.phase = "dispatching" => \E x \in Own : dispatchOf[x] = turn.generation
  /\ turn.phase = "dispatching" =>
       \A x \in Own : dispatchOf[x] = turn.generation
                      => x \notin terminals /\ step[x] \notin {"marking", "accepted"}
  /\ turn.phase = "working" => active # NoActive /\ active.generation = turn.generation
  /\ turn.phase = "idle" => active = NoActive \/ active.generation # turn.generation
  /\ AtRest => \A x \in Own : dispatchOf[x] = turn.generation /\ dispatchOf[x] # 0
                              => x \in terminals \/ step[x] \in Unsent

Orderly == Ordered /\ OrderlyTurn

\* Nothing but a new dispatch, or a message on its way, changes the order.
LEMMA OrderedSame ==
  ASSUME Ordered, dispatchOf' = dispatchOf, \A x \in Own : OnItsWay(x)' => OnItsWay(x)
  PROVE  Ordered'
  BY DEF Ordered

\* A Session that was forced idle speaks of no dispatch.
LEMMA ForcedOrderly ==
  ASSUME TypeOK, Numbered, turn' = ForceTurnIdle(turn), UNCHANGED <<dispatchOf, active>>
  PROVE  OrderlyTurn'
<1>1. turn'.phase = "idle" /\ turn'.generation = turn.generation + 1 /\ turn.generation \in Nat
  BY DEF ForceTurnIdle, TypeOK
<1>2. active.generation \in Nat /\ active.generation <= turn.generation
  BY DEF TypeOK, Numbered, Generations, Tracks
<1>3. \A x \in Own : dispatchOf[x] \in Nat /\ dispatchOf[x] <= turn.generation
  BY DEF TypeOK, Numbered, Generations
<1> QED
  BY <1>1, <1>2, <1>3 DEF OrderlyTurn

\* A step of the sends that leaves the lifecycle alone: no message at rest goes
\* on its way, and none that is dispatched is marked.
LEMMA SameTurnOrderly ==
  ASSUME OrderlyTurn, UNCHANGED <<turn, dispatchOf, active, terminals>>,
         \A x \in Own : step[x] \in Unsent => step'[x] \in Unsent \/ ~AtRest,
         \A x \in Own : step'[x] \in {"marking", "accepted"} => step[x] \in {"marking", "accepted"}
  PROVE  OrderlyTurn'
  BY DEF OrderlyTurn, AtRest

\* A running report leaves a dispatch that it does not concern, or it opens
\* the turn that it is kept for.
LEMMA RunningOrderly ==
  ASSUME TypeOK, Numbered, OrderlyTurn, NEW x \in Intents \cup {NoIntent},
         x # NoIntent => step[x] \in Reported, HandleRunning(x), dispatchOf' = dispatchOf,
         \A y \in Own : step'[y] = step[y] \/ (y = x /\ step[y] = "answered" /\ step'[y] = "marking")
  PROVE  OrderlyTurn'
<1>1. /\ turn \in Turns /\ active \in Actives /\ turn.generation \in Nat
      /\ dispatchOf \in [Own -> Nat]
  BY DEF TypeOK, Turns, Actives
<1>2. terminals' = terminals
  BY DEF HandleRunning, Ignored, RepeatsRunning, TakesRunning
<1>3. ASSUME turn'.phase = "working", active' # NoActive, active'.generation = turn'.generation
      PROVE  OrderlyTurn'
  BY <1>3 DEF OrderlyTurn, AtRest
<1>4. ASSUME turn' = turn, active' = active,
             turn.phase = "dispatching" /\ x \in Own /\ x \notin terminals
               => dispatchOf[x] # turn.generation
      PROVE  OrderlyTurn'
  <2>1. \A y \in Own : step[y] \in Unsent => step'[y] \in Unsent
    BY DEF Unsent
  <2>2. \A y \in Own : dispatchOf[y] = turn.generation /\ turn.phase = "dispatching"
                       => y \notin terminals /\ step'[y] \notin {"marking", "accepted"}
    BY <1>4 DEF OrderlyTurn
  <2> QED
    BY <1>2, <1>4, <2>1, <2>2 DEF OrderlyTurn, AtRest
<1>5. CASE x = NoIntent \/ x \in terminals
  BY <1>4, <1>5, CliAssumption DEF HandleRunning, Ignored, Intents
<1>6. CASE x # NoIntent /\ x \notin terminals /\ active.intent = x
  <2>1. turn' = MarkTurnRunning(turn, active.generation) /\ active' = active
    BY <1>6 DEF HandleRunning, RepeatsRunning
  <2>2. active # NoActive /\ active.generation # 0
    BY <1>6 DEF Numbered, Generations, Tracks, NoActive
  <2>3. CASE RunningAccepted(turn, active.generation)
    <3>1. active.generation = turn.generation /\ turn.phase # "idle"
      BY <2>2, <2>3 DEF RunningAccepted, Concerns, OrderlyTurn
    <3>2. turn' = [phase |-> "working", generation |-> turn.generation]
      BY <1>1, <2>1, <2>3, <3>1 DEF MarkTurnRunning
    <3> QED
      BY <1>3, <2>1, <2>2, <3>1, <3>2
  <2>4. CASE ~RunningAccepted(turn, active.generation)
    <3>1. turn' = turn
      BY <2>1, <2>4 DEF MarkTurnRunning
    <3>2. turn.phase = "dispatching" => active.generation # turn.generation
      BY <2>4 DEF RunningAccepted, Concerns
    <3> QED
      BY <1>4, <1>6, <2>1, <2>2, <3>1, <3>2 DEF Numbered, Generations, Tracks
  <2> QED
    BY <2>3, <2>4
<1>7. CASE /\ x # NoIntent /\ x \notin terminals /\ active.intent # x
           /\ Published(x) # NoGeneration
  <2>1. x \in Own /\ Published(x) = dispatchOf[x] /\ dispatchOf[x] # 0
    BY <1>7 DEF Published
  <2>2. CASE dispatchOf[x] >= active.generation /\ RunningAccepted(turn, dispatchOf[x])
    <3>1. dispatchOf[x] = turn.generation
      BY <2>1, <2>2 DEF RunningAccepted, Concerns
    <3>2. turn.phase # "idle"
      BY <1>7, <2>1, <3>1 DEF OrderlyTurn, AtRest, Reported, Unsent
    <3>3. turn' = [phase |-> "working", generation |-> turn.generation]
          /\ active' = [intent |-> x, generation |-> turn.generation]
      <4>1. TakesRunning(x, turn, Published(x))
        BY <1>7, <2>1, <2>2 DEF HandleRunning
      <4>2. /\ turn' = MarkTurnRunning(turn, dispatchOf[x])
            /\ active' = [intent |-> x, generation |-> dispatchOf[x]]
        BY <2>1, <4>1 DEF TakesRunning
      <4> QED
        BY <1>1, <2>2, <3>1, <3>2, <4>2 DEF MarkTurnRunning
    <3> QED
      BY <1>3, <1>7, <3>3 DEF NoActive
  <2>3. CASE ~(dispatchOf[x] >= active.generation /\ RunningAccepted(turn, dispatchOf[x]))
    <3>1. turn' = turn /\ active' = active
      BY <1>7, <2>1, <2>3 DEF HandleRunning, Ignored
    <3>2. turn.phase = "dispatching" => dispatchOf[x] # turn.generation
      BY <1>1, <2>3 DEF RunningAccepted, Concerns, Numbered, Generations, Tracks
    <3> QED
      BY <1>4, <3>1, <3>2
  <2> QED
    BY <2>2, <2>3
<1>8. CASE /\ x # NoIntent /\ x \notin terminals /\ active.intent # x
           /\ Published(x) = NoGeneration
  <2>1. x \notin Own
    BY <1>8, <1>1 DEF Published, Numbered, Generations, Reported
  <2>2. CASE Ignored
    BY <1>4, <2>1, <2>2 DEF Ignored
  <2>3. CASE TakesRunning(x, BeginTurnDispatch(turn), BeginTurnDispatch(turn).generation)
    <3>1. turn' = [phase |-> "working", generation |-> turn.generation + 1]
          /\ active' = [intent |-> x, generation |-> turn.generation + 1]
      BY <1>1, <2>3 DEF TakesRunning, BeginTurnDispatch, MarkTurnRunning, RunningAccepted
    <3> QED
      BY <1>3, <1>8, <3>1 DEF NoActive
  <2> QED
    BY <1>8, <2>2, <2>3 DEF HandleRunning
<1> QED
  BY <1>5, <1>6, <1>7, <1>8

\* An applied terminal leaves the Session idle, without an active turn, and its
\* last message ended.
LEMMA TerminalOrderly ==
  ASSUME TypeOK, Numbered, OrderlyTurn, NEW x \in Intents \cup {NoIntent}, HandleTerminal(x),
         UNCHANGED <<step, dispatchOf>>
  PROVE  OrderlyTurn'
<1>1. turn \in Turns /\ turn.generation \in Nat
  BY DEF TypeOK, Turns
<1>2. CASE Ignored
  BY <1>2 DEF Ignored, OrderlyTurn, AtRest
<1>3. CASE ~Ignored
  <2>1. /\ ~Unrelated(x) /\ TerminalAccepted(turn, TerminalGeneration(x))
        /\ turn' = MarkTurnTerminal(turn, TerminalGeneration(x))
        /\ active' = NoActive
        /\ terminals' = terminals \cup ({x} \ {NoIntent})
    BY <1>3 DEF HandleTerminal
  <2>2. turn' = [phase |-> "idle", generation |-> turn.generation]
    BY <1>1, <2>1 DEF MarkTurnTerminal, Turns
  <2>3. ASSUME NEW y \in Own, dispatchOf[y] = turn.generation, dispatchOf[y] # 0
        PROVE  y \in terminals' \/ step[y] \in Unsent
    <3>0. y # NoIntent
      BY CliAssumption
    <3>1. CASE active # NoActive
      <4>1. x # NoIntent /\ active.intent = x /\ active.generation # 0
        BY <2>1, <3>1 DEF Unrelated, Numbered, Generations, Tracks
      <4>2. active.generation = turn.generation
        BY <2>1, <3>1, <4>1 DEF TerminalGeneration, TerminalAccepted, Concerns
      <4>3. active.intent = y
        BY <2>3, <3>1, <4>2 DEF Numbered, Generations, Tracks
      <4> QED
        BY <2>1, <4>1, <4>3
    <3>2. CASE active = NoActive /\ TerminalGeneration(x) = NoGeneration
      <4>1. turn.phase # "dispatching" /\ turn.phase # "working"
        BY <2>1, <3>2 DEF TerminalAccepted, OrderlyTurn
      <4>2. AtRest
        BY <1>1, <3>2, <4>1 DEF AtRest, Turns
      <4> QED
        BY <2>1, <2>3, <4>2 DEF OrderlyTurn
    <3>3. CASE active = NoActive /\ TerminalGeneration(x) # NoGeneration
      <4>1. x \in Own /\ dispatchOf[x] = turn.generation /\ dispatchOf[x] # 0
        BY <2>1, <3>3 DEF TerminalGeneration, TerminalAccepted, Concerns, Published
      <4>2. x = y
        BY <2>3, <4>1 DEF Numbered, Generations
      <4> QED
        BY <2>1, <3>0, <4>2
    <3> QED
      BY <3>1, <3>2, <3>3
  <2> QED
    BY <2>1, <2>2, <2>3 DEF OrderlyTurn
<1> QED
  BY <1>2, <1>3

\* The end of a send leaves the Session idle from its own dispatch only.
LEMMA FailPreparationOrderly ==
  ASSUME TypeOK, Numbered, Orderly, NEW x \in Own, FailPreparation(x),
         step[x] \in {"appending", "refused"}
  PROVE  Orderly'
<1>1. /\ turn \in Turns /\ turn.generation \in Nat /\ dispatchOf[x] # 0 /\ x \in Intents
      /\ step \in [Intents -> Steps]
  BY DEF TypeOK, Turns, Numbered, Generations, Intents
<1>2. /\ turn' = MarkTurnTerminal(turn, dispatchOf[x]) /\ step' = [step EXCEPT ![x] = "failed"]
      /\ UNCHANGED <<dispatchOf, active, terminals>>
  BY DEF FailPreparation
<1>3. Ordered'
  BY <1>1, <1>2, OrderedSame DEF Orderly, OnItsWay
<1>4. \A y \in Own : /\ step[y] \in Unsent => step'[y] \in Unsent
                     /\ step'[y] \in {"marking", "accepted"} => step[y] \in {"marking", "accepted"}
  BY <1>1, <1>2 DEF Unsent
<1>5. CASE turn' = turn
  BY <1>2, <1>3, <1>4, <1>5, SameTurnOrderly DEF Orderly
<1>6. CASE turn' # turn
  <2>1. dispatchOf[x] = turn.generation /\ turn' = [phase |-> "idle", generation |-> turn.generation]
    BY <1>1, <1>2, <1>6 DEF MarkTurnTerminal, TerminalAccepted, Concerns, Turns
  <2>2. active.intent # x
    BY <1>1 DEF Numbered, Reports, Reported, Told
  <2>3. active = NoActive \/ active.generation # turn.generation
    BY <2>1, <2>2 DEF Numbered, Generations, Tracks
  <2>4. \A y \in Own : dispatchOf[y] = turn.generation => step'[y] \in Unsent
    BY <1>1, <1>2, <2>1 DEF Numbered, Generations, Unsent
  <2>5. OrderlyTurn'
    BY <1>2, <2>1, <2>3, <2>4 DEF OrderlyTurn
  <2> QED
    BY <1>3, <2>5 DEF Orderly
<1> QED
  BY <1>3, <1>5, <1>6 DEF Orderly

\* A message that is being marked was taken up, or is over: nothing is dispatched.
LEMMA MarkedIsTakenUp ==
  ASSUME TypeOK, Numbered, Orderly, NEW x \in Own, step[x] = "marking"
  PROVE  turn.phase # "dispatching"
<1> SUFFICES ASSUME turn.phase = "dispatching"
             PROVE  FALSE
  OBVIOUS
<1>1. PICK y \in Own : dispatchOf[y] = turn.generation
  BY DEF Orderly, OrderlyTurn
<1>2. dispatchOf[y] <= dispatchOf[x] /\ dispatchOf[x] <= turn.generation
  BY DEF Orderly, Ordered, OnItsWay, Numbered, Generations
<1>3. dispatchOf[x] = turn.generation
  BY <1>1, <1>2 DEF TypeOK
<1> QED
  BY <1>3 DEF Orderly, OrderlyTurn

\* The send of one message of the window.
LEMMA SendingOrderly ==
  ASSUME InTurn, TypeOK, Numbered, Orderly, NEW x \in Own, Sending(x)
  PROVE  Orderly'
<1>1. /\ turn \in Turns /\ turn.generation \in Nat /\ x \in Intents /\ x # NoIntent
      /\ step \in [Intents -> Steps] /\ dispatchOf \in [Own -> Nat]
      /\ \A y \in Own : dispatchOf[y] \in Nat /\ dispatchOf[y] <= turn.generation
  BY CliAssumption DEF TypeOK, Turns, Intents, Numbered, Generations
<1>2. CASE PrepareUserIntent(x)
  <2>1. /\ step[x] = "new" /\ step' = [step EXCEPT ![x] = "appending"]
        /\ \A y \in Own : ~OnItsWay(y)
        /\ turn' = [phase |-> "dispatching", generation |-> turn.generation + 1]
        /\ dispatchOf' = [dispatchOf EXCEPT ![x] = turn.generation + 1]
        /\ UNCHANGED <<active, terminals>>
    BY <1>2 DEF PrepareUserIntent, BeginTurnDispatch, InTurn
  <2>2. x \notin terminals
    BY <1>1, <2>1 DEF Numbered, Reports, Reported, Told
  <2>3. Ordered'
    BY <1>1, <2>1 DEF Ordered, OnItsWay, Intents
  <2>4. dispatchOf'[x] = turn'.generation
    BY <1>1, <2>1
  <2>5. \A y \in Own : dispatchOf'[y] = turn'.generation => y = x
    BY <1>1, <2>1
  <2>6. step'[x] = "appending"
    BY <1>1, <2>1
  <2>7. turn'.phase = "dispatching"
    BY <2>1
  <2>8. OrderlyTurn'
    BY <2>1, <2>2, <2>4, <2>5, <2>6, <2>7 DEF OrderlyTurn, AtRest
  <2> QED
    BY <2>3, <2>8 DEF Orderly
<1>3. CASE AppendFails(x) \/ SendSuperseded(x) \/ SendRefused(x)
  BY <1>3, FailPreparationOrderly DEF AppendFails, SendSuperseded, SendRefused
<1>4. CASE SendMessage(x)
  <2>1. /\ ~Superseded(x) /\ step[x] = "appending" /\ step' = [step EXCEPT ![x] = "sending"]
        /\ UNCHANGED <<turn, dispatchOf, active, terminals>>
    BY <1>4 DEF SendMessage
  <2>2. dispatchOf[x] = turn.generation /\ ~AtRest
    BY <2>1 DEF Superseded, AtRest
  <2>3. Ordered'
    BY <1>1, <2>1, <2>2 DEF Orderly, Ordered, OnItsWay, Intents
  <2>4. \A y \in Own : /\ step[y] \in Unsent => step'[y] \in Unsent \/ ~AtRest
                       /\ step'[y] \in {"marking", "accepted"} => step[y] \in {"marking", "accepted"}
    BY <1>1, <2>1, <2>2 DEF Unsent
  <2>5. OrderlyTurn'
    BY <2>1, <2>4, SameTurnOrderly DEF Orderly
  <2> QED
    BY <2>3, <2>5 DEF Orderly
<1>5. CASE RegisterReceipt(x)
  <2>1. /\ step[x] = "answered" /\ step' = [step EXCEPT ![x] = "marking"]
        /\ HandleRunning(x) /\ dispatchOf' = dispatchOf
    BY <1>5 DEF RegisterReceipt
  <2>2. \A y \in Own : step'[y] = step[y] \/ (y = x /\ step[y] = "answered" /\ step'[y] = "marking")
    BY <1>1, <2>1 DEF Intents
  <2>3. OrderlyTurn'
    BY <1>1, <2>1, <2>2, RunningOrderly DEF Orderly, Reported
  <2>4. Ordered'
    BY <2>1, <2>2, OrderedSame DEF Orderly, OnItsWay
  <2> QED
    BY <2>3, <2>4 DEF Orderly
<1>6. CASE ConfirmSent(x)
  <2>1. /\ step[x] = "marking" /\ step' = [step EXCEPT ![x] = "accepted"]
        /\ turn' = ConfirmTurnRunning(turn)
        /\ UNCHANGED <<dispatchOf, active, terminals>>
    BY <1>6 DEF ConfirmSent
  <2>2. turn.phase # "dispatching"
    BY <2>1, MarkedIsTakenUp
  <2>3. turn' = turn
    BY <2>1, <2>2 DEF ConfirmTurnRunning
  <2>4. \A y \in Own : /\ step[y] \in Unsent => step'[y] \in Unsent
                       /\ step'[y] \in {"marking", "accepted"} => step[y] \in {"marking", "accepted"}
                       /\ OnItsWay(y)' => OnItsWay(y)
    BY <1>1, <2>1 DEF Unsent, OnItsWay
  <2>5. OrderlyTurn' /\ Ordered'
    BY <2>1, <2>3, <2>4, SameTurnOrderly, OrderedSame DEF Orderly
  <2> QED
    BY <2>5 DEF Orderly
<1>7. CASE AcceptMessage(x) \/ RefuseMessage(x)
  <2>1. /\ step[x] = "sending"
        /\ \E s \in {"answered", "refused"} : step' = [step EXCEPT ![x] = s]
        /\ UNCHANGED <<turn, dispatchOf, active, terminals>>
    BY <1>7 DEF AcceptMessage, Accept, RefuseMessage
  <2>2. \A y \in Own : /\ step[y] \in Unsent => step'[y] \in Unsent
                       /\ step'[y] \in {"marking", "accepted"} => step[y] \in {"marking", "accepted"}
                       /\ OnItsWay(y)' => OnItsWay(y)
    BY <1>1, <2>1 DEF Unsent, OnItsWay
  <2>3. OrderlyTurn' /\ Ordered'
    BY <2>1, <2>2, SameTurnOrderly, OrderedSame DEF Orderly
  <2> QED
    BY <2>3 DEF Orderly
<1> QED
  BY <1>2, <1>3, <1>4, <1>5, <1>6, <1>7 DEF Sending

LEMMA InitOrderly == Init => Orderly
<1> SUFFICES ASSUME Init PROVE Orderly
  OBVIOUS
<1>1. Ordered
  BY DEF Init, Ordered, OnItsWay, Intents
<1>2. OrderlyTurn
  BY DEF Init, OrderlyTurn, AtRest, NoActive
<1> QED
  BY <1>1, <1>2 DEF Orderly

\* Every step keeps the window orderly.
LEMMA OrderlyStep ==
  ASSUME InTurn, TypeOK, Numbered, Orderly, [Next]_vars
  PROVE  Orderly'
<1>1. turn \in Turns /\ turn.generation \in Nat /\ step \in [Intents -> Steps]
  BY DEF TypeOK, Turns
<1>2. CASE \E x \in Own : Sending(x)
  BY <1>2, SendingOrderly
<1>3. ASSUME OrderlyTurn', UNCHANGED <<step, dispatchOf>>
      PROVE  Orderly'
  BY <1>3, OrderedSame DEF Orderly, OnItsWay
<1>4. ASSUME UNCHANGED <<turn, active, terminals, dispatchOf>>,
             \A x \in Own : step'[x] = step[x]
      PROVE  Orderly'
  <2>1. OrderlyTurn'
    BY <1>4, SameTurnOrderly DEF Orderly, Unsent
  <2>2. Ordered'
    BY <1>4, OrderedSame DEF Orderly, OnItsWay
  <2> QED
    BY <2>1, <2>2 DEF Orderly
<1>5. CASE \E x \in Foreign : ForeignSend(x)
  <2>1. PICK x \in Foreign : ForeignSend(x)
    BY <1>5
  <2>2. \A y \in Own : step'[y] = step[y]
    BY <1>1, <2>1, CliAssumption DEF ForeignSend, Intents
  <2> QED
    BY <1>4, <2>1, <2>2 DEF ForeignSend, Accept
<1>6. CASE \/ CancelAnswered \/ CancelSession \/ CancelTimesOut \/ Lose
           \/ Reconnect \/ Reconcile \/ ReadIntents \/ ReadRows \/ BatchFails
           \/ RunnerEnds \/ PlanGate \/ UNCHANGED vars
  BY <1>4, <1>6
  DEF CancelAnswered, CancelSession, CancelTimesOut, Lose, Reconnect, Reconcile, ReadIntents,
      ReadRows, BatchFails, RunnerEnds, PlanGate, vars, client
<1>7. CASE Stop
  <2>1. /\ turn' = BeginTurnStopping(turn) /\ turn.phase # "idle"
        /\ \A x \in Own : ~OnItsWay(x)
        /\ UNCHANGED <<step, dispatchOf, active, terminals>>
    BY <1>7 DEF Stop, InTurn
  <2>2. turn' = [phase |-> "stopping", generation |-> turn.generation]
    BY <1>1, <2>1 DEF BeginTurnStopping, Turns
  <2>3. ASSUME active = NoActive, NEW x \in Own,
               dispatchOf[x] = turn.generation, dispatchOf[x] # 0
        PROVE  x \in terminals \/ step[x] \in Unsent
    <3>1. CASE turn.phase = "dispatching"
      <4>1. step[x] \notin {"marking", "accepted", "new"}
        BY <2>3, <3>1 DEF Orderly, OrderlyTurn, Numbered, Generations
      <4>2. step[x] \in Steps /\ ~OnItsWay(x)
        BY <1>1, <2>1 DEF Intents
      <4> QED
        BY <4>1, <4>2 DEF OnItsWay, Steps, Unsent
    <3>2. CASE turn.phase = "stopping"
      BY <2>3, <3>2 DEF Orderly, OrderlyTurn, AtRest
    <3> QED
      BY <1>1, <2>1, <2>3, <3>1, <3>2 DEF Turns, Orderly, OrderlyTurn
  <2>4. OrderlyTurn'
    BY <2>1, <2>2, <2>3 DEF OrderlyTurn, AtRest
  <2> QED
    BY <1>3, <2>1, <2>4
<1>8. CASE StopFailed \/ Deadman
  <2>1. turn' = ForceTurnIdle(turn) /\ UNCHANGED <<step, dispatchOf, active>>
    BY <1>8 DEF StopFailed, Deadman
  <2> QED
    BY <1>3, <2>1, ForcedOrderly
<1>9. ASSUME NEW status, NEW x \in Intents \cup {NoIntent}, HandleStatus(status, x),
             x # NoIntent => Told(x), UNCHANGED <<step, dispatchOf>>
      PROVE  Orderly'
  <2>1. x # NoIntent => step[x] \in Reported
    BY <1>9 DEF Numbered, Reports
  <2>2. OrderlyTurn'
    BY <1>9, <2>1, RunningOrderly, TerminalOrderly DEF HandleStatus, Orderly
  <2> QED
    BY <1>3, <1>9, <2>2
<1>10. CASE DeliverStatus
  <2> DEFINE m == Head(wire)
  <2>1. m \in Message /\ (m.intent # NoIntent => Told(m.intent))
    BY <1>10, DeliveredReports DEF DeliverStatus
  <2>2. m.intent \in Intents \cup {NoIntent}
    BY <2>1 DEF Message
  <2>3. HandleStatus(m.status, m.intent) /\ UNCHANGED <<step, dispatchOf>>
    BY <1>10 DEF DeliverStatus
  <2> HIDE DEF m
  <2> QED
    BY <1>9, <2>1, <2>2, <2>3
<1>11. CASE ApplyBatch
  <2> DEFINE i == reading.intent
  <2>1. i \in Intents \cup {NoIntent} /\ UNCHANGED <<step, dispatchOf>>
        /\ (i # NoIntent => Told(i))
    BY <1>11 DEF ApplyBatch, TypeOK, Readings, Told
  <2>2. Ignored \/ HandleStatus(reading.status, i)
    BY <1>11 DEF ApplyBatch
  <2> HIDE DEF i
  <2>3. CASE Ignored
    BY <1>4, <2>1, <2>3 DEF Ignored
  <2>4. CASE HandleStatus(reading.status, i)
    BY <1>9, <2>1, <2>4
  <2> QED
    BY <2>2, <2>3, <2>4
<1> QED
  BY <1>2, <1>5, <1>6, <1>7, <1>8, <1>10, <1>11 DEF Next

\* While the Session works, the turn it works for is kept under the generation
\* its end will be compared with, as long as Stop is pressed on accepted
\* messages and a message is sent when the one before it is marked.
THEOREM CliTrackedTurnCanEnd ==
  ASSUME Circumstances \cap {"early_stop", "late_confirm"} = {}
  PROVE  Spec => []TrackedTurnCanEnd
<1>1. TypeOK /\ Numbered /\ Orderly /\ [Next]_vars => Orderly'
  BY OrderlyStep DEF InTurn
<1>2. Orderly => TrackedTurnCanEnd
  BY DEF Orderly, OrderlyTurn, TrackedTurnCanEnd
<1> QED
  BY <1>1, <1>2, CliTyped, CliNumbered, InitOrderly, PTL DEF Spec

-----------------------------------------------------------------------------
(* A window that is told of every end: none of the circumstances occurs.   *)

\* A running report is followed by the end of its turn, unless the turn runs;
\* what runs is what was accepted last; a websocket that is down carries nothing.
WireTruthful ==
  /\ ~connected => wire = <<>>
  /\ runner # NoIntent => latest = runner
  /\ \A i \in 1 .. Len(wire) : wire[i].status = "running" =>
       /\ wire[i].intent # NoIntent
       /\ \/ runner = wire[i].intent
          \/ \E j \in i + 1 .. Len(wire) : wire[j] = Status("terminal", wire[i].intent)

\* What ended is not active, and a message on its way is not being stopped.
NotResumed == active.intent \notin terminals

SendOpen ==
  \A x \in Own : OnItsWay(x) /\ dispatchOf[x] = turn.generation => turn.phase # "stopping"

\* A batch that was asked for after the websocket came back, or will be, speaks
\* of x.
BatchComes(x) ==
  latest = x /\ (~connected \/ (reading.repair /\ (reading.at = "asked" \/ reading.intent = x)))

\* It tells that x has ended, if it has by then.
BatchTells(x) ==
  /\ latest = x
  /\ \/ ~connected
     \/ reading.repair /\ reading.at = "asked"
     \/ /\ reading.repair /\ reading.intent = x
        /\ reading.at = "intents" \/ reading.status = "terminal"

\* The end of x is still to come, or on its way to the window.
Followed(x) == runner = x \/ InWire(Status("terminal", x)) \/ BatchTells(x)

\* A turn of another window is on its way to be taken up instead.
Overtaken ==
  /\ active # NoActive
  /\ \E w \in Foreign \ {active.intent} : w \notin terminals /\ InWire(Status("running", w))

\* The answer of the current message is about to be handed to the coordinator.
Awaited(x) ==
  x \in Own /\ step[x] = "answered" /\ dispatchOf[x] = turn.generation /\ x \notin terminals

Tracked(x) == (turn.phase = "working" /\ active.intent = x) \/ Awaited(x)

\* The coordinator still keeps an older turn than the one that was answered.
Outdated(x) == Awaited(x) /\ active # NoActive /\ active.intent # x

Sought(x) == InWire(Status("running", x)) \/ BatchComes(x)

\* A batch that says that x runs, or may, does no harm: the end of x was applied,
\* or is still to come, or a newer turn was dispatched.
BatchTruthful ==
  \A x \in Intents : SaysRunning(x) =>
    \/ x \in terminals \/ Followed(x)
    \/ reading.at = "intents" /\ latest = x
    \/ x \in Own /\ dispatchOf[x] < turn.generation

\* The end of a turn that is tracked is never lost, and a message that was
\* answered is taken up before its end is told.
Chased ==
  /\ \A x \in Intents : Tracked(x) => Followed(x) \/ Overtaken
  /\ \A x \in Own : Outdated(x) => Sought(x) \/ Overtaken

-----------------------------------------------------------------------------
(* The websocket. *)

\* A broadcast keeps what is on its way, and adds to it if the window is there.
LEMMA BroadcastCarries ==
  ASSUME TypeOK, NEW messages \in Seq(Message), Broadcast(messages)
  PROVE  /\ \A i \in 1 .. Len(wire) : i \in 1 .. Len(wire') /\ wire'[i] = wire[i]
         /\ connected => \A j \in 1 .. Len(messages) :
              Len(wire) + j \in 1 .. Len(wire') /\ wire'[Len(wire) + j] = messages[j]
         /\ \A i \in 1 .. Len(wire') :
              \/ i \in 1 .. Len(wire)
              \/ connected /\ \E j \in 1 .. Len(messages) : wire'[i] = messages[j]
<1>1. wire \in Seq(Message)
  BY DEF TypeOK
<1>2. CASE connected
  <2>1. wire' = wire \o messages
    BY <1>2 DEF Broadcast
  <2>2. \A i \in 1 .. Len(wire) : i \in 1 .. Len(wire') /\ wire'[i] = wire[i]
    BY <1>1, <2>1
  <2>3. \A j \in 1 .. Len(messages) :
          Len(wire) + j \in 1 .. Len(wire') /\ wire'[Len(wire) + j] = messages[j]
    BY <1>1, <2>1
  <2>4. ASSUME NEW i \in 1 .. Len(wire'), i \notin 1 .. Len(wire)
        PROVE  \E j \in 1 .. Len(messages) : wire'[i] = messages[j]
    <3>1. i - Len(wire) \in 1 .. Len(messages) /\ wire'[i] = messages[i - Len(wire)]
      BY <1>1, <2>1, <2>4
    <3> QED
      BY <3>1
  <2> QED
    BY <1>2, <2>2, <2>3, <2>4
<1>3. CASE ~connected
  BY <1>3 DEF Broadcast
<1> QED
  BY <1>2, <1>3

\* What a broadcast must contain to keep the reports truthful.
Says(messages) ==
  /\ \A j \in 1 .. Len(messages) : messages[j].status = "running"
       => runner' # NoIntent /\ messages[j] = Status("running", runner')
  /\ runner # NoIntent /\ runner' # runner
       => \E j \in 1 .. Len(messages) : messages[j] = Status("terminal", runner)
  /\ runner' # NoIntent => latest' = runner'

LEMMA BroadcastTruthful ==
  ASSUME TypeOK, WireTruthful, NEW messages \in Seq(Message), Broadcast(messages), Says(messages)
  PROVE  WireTruthful'
<1>1. ~connected' => wire' = <<>>
  BY DEF Broadcast, WireTruthful
<1>2. ASSUME NEW i \in 1 .. Len(wire'), wire'[i].status = "running"
      PROVE  /\ wire'[i].intent # NoIntent
             /\ \/ runner' = wire'[i].intent
                \/ \E j \in i + 1 .. Len(wire') : wire'[j] = Status("terminal", wire'[i].intent)
  <2>0. Len(wire) \in Nat /\ Len(wire') \in Nat
    BY BroadcastTyped DEF TypeOK
  <2>1. CASE i \in 1 .. Len(wire)
    <3>1. wire'[i] = wire[i] /\ wire[i].status = "running"
      BY <1>2, <2>1, BroadcastCarries
    <3>2. CASE \E j \in i + 1 .. Len(wire) : wire[j] = Status("terminal", wire[i].intent)
      <4>1. PICK j \in i + 1 .. Len(wire) : wire[j] = Status("terminal", wire[i].intent)
        BY <3>2
      <4>2. j \in 1 .. Len(wire) /\ j \in i + 1 .. Len(wire') /\ wire'[j] = wire[j]
        BY <2>0, <2>1, <4>1, BroadcastCarries
      <4> QED
        BY <2>1, <3>1, <4>1, <4>2 DEF WireTruthful
    <3>3. CASE runner = wire[i].intent /\ runner' # runner
      <4>1. connected /\ runner # NoIntent
        BY <2>1, <3>1, <3>3 DEF WireTruthful
      <4>2. PICK j \in 1 .. Len(messages) : messages[j] = Status("terminal", runner)
        BY <3>3, <4>1 DEF Says
      <4>3. Len(wire) + j \in i + 1 .. Len(wire') /\ wire'[Len(wire) + j] = messages[j]
        BY <2>0, <2>1, <4>1, BroadcastCarries
      <4> QED
        BY <3>1, <3>3, <4>1, <4>2, <4>3
    <3> QED
      BY <2>1, <3>1, <3>2, <3>3 DEF WireTruthful
  <2>2. CASE i \notin 1 .. Len(wire)
    <3>1. PICK j \in 1 .. Len(messages) : wire'[i] = messages[j]
      BY <2>2, BroadcastCarries
    <3> QED
      BY <1>2, <3>1 DEF Says, Status
  <2> QED
    BY <2>1, <2>2
<1>3. runner' # NoIntent => latest' = runner'
  BY DEF Says
<1> QED
  BY <1>1, <1>2, <1>3 DEF WireTruthful, Status

\* The end of what runs is told.
LEMMA InterruptedTells ==
  ASSUME TypeOK
  PROVE  /\ runner # NoIntent => \E j \in 1 .. Len(Interrupted) :
                                   Interrupted[j] = Status("terminal", runner)
         /\ \A j \in 1 .. Len(Interrupted) : Interrupted[j].status # "running"
<1>1. CASE runner = NoIntent
  BY <1>1 DEF Interrupted
<1>2. CASE runner # NoIntent
  <2>1. Interrupted = <<Status("terminal", runner)>>
    BY <1>2 DEF Interrupted
  <2>2. 1 \in 1 .. Len(Interrupted) /\ Interrupted[1] = Status("terminal", runner)
        /\ Len(Interrupted) = 1
    BY <2>1
  <2> QED
    BY <2>1, <2>2 DEF Status
<1> QED
  BY <1>1, <1>2

\* A message is accepted: the end of what ran is told, and that it runs.
LEMMA AcceptTells ==
  ASSUME TypeOK, NEW x \in Intents, Accept(x)
  PROVE  /\ Append(Interrupted, Status("running", x)) \in Seq(Message)
         /\ Broadcast(Append(Interrupted, Status("running", x)))
         /\ Says(Append(Interrupted, Status("running", x)))
         /\ runner # NoIntent => \E j \in 1 .. Len(Append(Interrupted, Status("running", x))) :
               Append(Interrupted, Status("running", x))[j] = Status("terminal", runner)
         /\ \E j \in 1 .. Len(Append(Interrupted, Status("running", x))) :
               Append(Interrupted, Status("running", x))[j] = Status("running", x)
<1> DEFINE messages == Append(Interrupted, Status("running", x))
<1>1. /\ messages \in Seq(Message) /\ Broadcast(messages)
      /\ runner' = x /\ latest' = x /\ x # NoIntent
  BY InterruptedTyped, StatusTyped, CliAssumption DEF Accept, Intents
<1>2. /\ Len(messages) = Len(Interrupted) + 1 /\ Len(Interrupted) \in Nat
      /\ messages[Len(messages)] = Status("running", x)
      /\ \A j \in 1 .. Len(Interrupted) : messages[j] = Interrupted[j]
  BY InterruptedTyped
<1>3. \A j \in 1 .. Len(messages) : j \in 1 .. Len(Interrupted) \/ j = Len(messages)
  BY <1>2
<1>4. \A j \in 1 .. Len(messages) : messages[j].status = "running" => messages[j] = Status("running", x)
  BY <1>2, <1>3, InterruptedTells
<1>5. runner # NoIntent => \E j \in 1 .. Len(messages) : messages[j] = Status("terminal", runner)
  <2> SUFFICES ASSUME runner # NoIntent
               PROVE  \E j \in 1 .. Len(messages) : messages[j] = Status("terminal", runner)
    OBVIOUS
  <2>1. PICK j \in 1 .. Len(Interrupted) : Interrupted[j] = Status("terminal", runner)
    BY InterruptedTells
  <2>2. j \in 1 .. Len(messages) /\ messages[j] = Interrupted[j]
    BY <1>2
  <2> HIDE DEF messages
  <2> QED
    BY <2>1, <2>2
<1>6. \E j \in 1 .. Len(messages) : messages[j] = Status("running", x)
  <2>1. Len(messages) \in 1 .. Len(messages)
    BY <1>2
  <2> HIDE DEF messages
  <2> QED
    BY <1>2, <2>1
<1>7. Says(messages)
  <2> HIDE DEF messages
  <2> QED
    BY <1>1, <1>4, <1>5 DEF Says
<1> QED
  BY <1>1, <1>5, <1>6, <1>7

LEMMA InitWireTruthful == Init => WireTruthful
  BY DEF Init, WireTruthful

\* A step that leaves the backend and the websocket alone.
LEMMA WireTruthfulSame ==
  ASSUME WireTruthful, UNCHANGED <<runner, latest, wire>>, connected' \/ ~connected
  PROVE  WireTruthful'
<1>1. CASE connected' = connected
  BY <1>1 DEF WireTruthful, Status
<1>2. CASE connected'
  BY <1>2 DEF WireTruthful, Status
<1> QED
  BY <1>1, <1>2 DEF WireTruthful, Status

\* What is delivered leaves the rest in its order.
LEMMA WireTruthfulTail ==
  ASSUME TypeOK, WireTruthful, connected, wire # <<>>, wire' = Tail(wire),
         UNCHANGED <<connected, runner, latest>>
  PROVE  WireTruthful'
<1>1. wire \in Seq(Message) /\ Len(wire') = Len(wire) - 1 /\ Len(wire) \in Nat
  BY DEF TypeOK
<1>2. \A i \in 1 .. Len(wire') : i + 1 \in 1 .. Len(wire) /\ wire'[i] = wire[i + 1]
  BY <1>1
<1>3. ASSUME NEW i \in 1 .. Len(wire'), wire'[i].status = "running"
      PROVE  /\ wire'[i].intent # NoIntent
             /\ \/ runner' = wire'[i].intent
                \/ \E j \in i + 1 .. Len(wire') : wire'[j] = Status("terminal", wire'[i].intent)
  <2>1. /\ wire'[i] = wire[i + 1] /\ i + 1 \in 1 .. Len(wire) /\ wire[i + 1].status = "running"
    BY <1>2, <1>3
  <2>2. CASE \E j \in i + 2 .. Len(wire) : wire[j] = Status("terminal", wire[i + 1].intent)
    <3>1. PICK j \in i + 2 .. Len(wire) : wire[j] = Status("terminal", wire[i + 1].intent)
      BY <2>2
    <3>2. j - 1 \in i + 1 .. Len(wire') /\ j - 1 \in 1 .. Len(wire') /\ (j - 1) + 1 = j
      BY <1>1, <3>1
    <3>3. wire'[j - 1] = wire[j]
      BY <1>2, <3>2
    <3> QED
      BY <2>1, <3>1, <3>2, <3>3 DEF WireTruthful
  <2>3. (i + 1) + 1 = i + 2
    OBVIOUS
  <2> QED
    BY <2>1, <2>2, <2>3 DEF WireTruthful
<1> QED
  BY <1>3 DEF WireTruthful, Status

\* What the backend tells in a step: nothing, the end of what runs, or a
\* cancel of nothing.
Tells ==
  \/ UNCHANGED <<runner, latest, wire>> /\ connected' = connected
  \/ Broadcast(Interrupted) /\ runner' = NoIntent /\ latest' = latest
  \/ /\ Broadcast(<<Status("terminal", NoIntent)>>)
     /\ UNCHANGED <<runner, latest>>

LEMMA TellsTruthful ==
  ASSUME TypeOK, WireTruthful, Tells
  PROVE  WireTruthful'
<1>1. CASE UNCHANGED <<runner, latest, wire>> /\ connected' = connected
  BY <1>1, WireTruthfulSame
<1>2. CASE Broadcast(Interrupted) /\ runner' = NoIntent /\ latest' = latest
  <2>1. Interrupted \in Seq(Message) /\ Says(Interrupted)
    BY <1>2, InterruptedTyped, InterruptedTells DEF Says
  <2> QED
    BY <1>2, <2>1, BroadcastTruthful
<1>3. CASE Broadcast(<<Status("terminal", NoIntent)>>) /\ UNCHANGED <<runner, latest>>
  <2>1. /\ <<Status("terminal", NoIntent)>> \in Seq(Message)
        /\ Says(<<Status("terminal", NoIntent)>>)
    BY <1>3, PlainTerminalSays DEF Says, Status, WireTruthful
  <2> QED
    BY <1>3, <2>1, BroadcastTruthful
<1> QED
  BY <1>1, <1>2, <1>3 DEF Tells

\* The backend side of the sends and of the commands.
LEMMA QuietTells ==
  ASSUME TypeOK,
         \/ RunnerEnds \/ PlanGate \/ CancelSession \/ CancelTimesOut \/ Reconcile
         \/ Stop \/ StopFailed \/ CancelAnswered \/ Deadman \/ UNCHANGED vars
         \/ ReadIntents \/ ReadRows \/ BatchFails
         \/ \E x \in Own : \/ PrepareUserIntent(x) \/ AppendFails(x) \/ SendSuperseded(x)
                           \/ SendMessage(x) \/ SendRefused(x) \/ RegisterReceipt(x)
                           \/ ConfirmSent(x) \/ RefuseMessage(x)
  PROVE  Tells
<1>1. CASE CancelSession
  BY <1>1 DEF CancelSession, Tells
<1>2. CASE RunnerEnds \/ CancelTimesOut
  BY <1>2 DEF RunnerEnds, CancelTimesOut, Ends, Tells
<1>3. CASE PlanGate
  BY <1>3 DEF PlanGate, Tells
<1>4. CASE \E x \in Own : RefuseMessage(x)
  BY <1>4 DEF RefuseMessage, Ends, Tells, link
<1>5. CASE \/ Reconcile \/ Stop \/ StopFailed \/ CancelAnswered \/ Deadman \/ UNCHANGED vars
           \/ ReadIntents \/ ReadRows \/ BatchFails
  BY <1>5
  DEF Reconcile, ReadIntents, ReadRows, BatchFails, Stop, StopFailed, CancelAnswered, Deadman, vars, Tells, link, backend
<1>6. CASE \E x \in Own : \/ PrepareUserIntent(x) \/ AppendFails(x) \/ SendSuperseded(x)
                          \/ SendMessage(x) \/ SendRefused(x) \/ RegisterReceipt(x)
                          \/ ConfirmSent(x)
  BY <1>6
  DEF PrepareUserIntent, AppendFails, SendSuperseded, SendMessage, SendRefused,
      RegisterReceipt, ConfirmSent, FailPreparation, Tells, link, backend
<1> QED
  BY <1>1, <1>2, <1>3, <1>4, <1>5, <1>6

\* Every step keeps the reports truthful.
LEMMA WireTruthfulStep ==
  ASSUME TypeOK, WireTruthful, [Next]_vars
  PROVE  WireTruthful'
<1>1. ASSUME NEW x \in Intents, Accept(x)
      PROVE  WireTruthful'
  <2>1. /\ Append(Interrupted, Status("running", x)) \in Seq(Message)
        /\ Broadcast(Append(Interrupted, Status("running", x)))
        /\ Says(Append(Interrupted, Status("running", x)))
    BY <1>1, AcceptTells
  <2> QED
    BY <2>1, BroadcastTruthful
<1>2. CASE DeliverStatus
  BY <1>2, WireTruthfulTail DEF DeliverStatus, backend
<1>3. CASE Lose
  BY <1>3 DEF Lose, WireTruthful, backend
<1>4. CASE Reconnect
  BY <1>4, WireTruthfulSame DEF Reconnect, backend
<1>5. CASE ApplyBatch
  BY <1>5, WireTruthfulSame DEF ApplyBatch, backend, link
<1>6. CASE \E x \in Foreign : ForeignSend(x)
  BY <1>1, <1>6 DEF ForeignSend, Intents
<1>7. CASE \E x \in Own : AcceptMessage(x)
  BY <1>1, <1>7 DEF AcceptMessage, Intents
<1> QED
  BY <1>2, <1>3, <1>4, <1>5, <1>6, <1>7, QuietTells, TellsTruthful DEF Next, Sending

-----------------------------------------------------------------------------
(* What ended is not active, what is on its way is not stopped.            *)

Steady == NotResumed /\ SendOpen

\* A report that is handled keeps them.
LEMMA StatusSteady ==
  ASSUME TypeOK, Steady, NEW status, NEW x \in Intents \cup {NoIntent}, HandleStatus(status, x),
         dispatchOf' = dispatchOf, \A y \in Own : OnItsWay(y)' => OnItsWay(y),
         Generations
  PROVE  Steady'
<1>1. /\ turn \in Turns /\ turn.generation \in Nat /\ NoIntent \notin terminals
      /\ active \in Actives
  BY CliAssumption DEF TypeOK, Turns, Actives, Intents
<1>2. ASSUME NotResumed', turn'.phase = "stopping" => turn' = turn
      PROVE  Steady'
  BY <1>2 DEF Steady, SendOpen
<1>3. CASE Ignored
  BY <1>2, <1>3 DEF Ignored, Steady, NotResumed
<1>4. CASE ~Ignored /\ HandleTerminal(x)
  <2>1. /\ turn' = MarkTurnTerminal(turn, TerminalGeneration(x)) /\ active' = NoActive
        /\ TerminalAccepted(turn, TerminalGeneration(x))
        /\ terminals' = terminals \cup ({x} \ {NoIntent})
    BY <1>4 DEF HandleTerminal
  <2>2. turn'.phase = "idle"
    BY <1>1, <2>1 DEF MarkTurnTerminal, Turns
  <2> QED
    BY <1>1, <1>2, <2>1, <2>2 DEF NotResumed, NoActive
<1>5. CASE RepeatsRunning
  <2>1. turn'.phase = "stopping" => turn' = turn
    BY <1>1, <1>5 DEF RepeatsRunning, MarkTurnRunning
  <2> QED
    BY <1>2, <1>5, <2>1 DEF RepeatsRunning, NotResumed, Steady
<1>6. ASSUME NEW t \in Turns, NEW g \in Nat, TakesRunning(x, t, g), x \notin terminals
      PROVE  Steady'
  <2>1. turn'.phase = "working"
    BY <1>6 DEF TakesRunning, MarkTurnRunning
  <2> QED
    BY <1>2, <1>6, <2>1 DEF TakesRunning, NotResumed
<1>7. CASE ~Ignored /\ HandleRunning(x) /\ ~RepeatsRunning
  <2>1. Published(x) \in Nat /\ BeginTurnDispatch(turn) \in Turns
        /\ BeginTurnDispatch(turn).generation \in Nat
    BY <1>1, LifecycleTyped DEF TypeOK, Published, BeginTurnDispatch
  <2> QED
    BY <1>1, <1>6, <1>7, <2>1 DEF HandleRunning
<1> QED
  BY <1>3, <1>4, <1>5, <1>7 DEF HandleStatus

LEMMA InitSteady == Init => Steady
  BY DEF Init, Steady, NotResumed, SendOpen, OnItsWay, NoActive, Intents

\* Every step keeps them.
LEMMA SteadyStep ==
  ASSUME InTurn, TypeOK, Numbered, Steady, [Next]_vars
  PROVE  Steady'
<1>1. /\ turn \in Turns /\ turn.generation \in Nat /\ step \in [Intents -> Steps]
      /\ Own \subseteq Intents
  BY DEF TypeOK, Turns, Intents
<1>2. ASSUME UNCHANGED <<active, terminals, dispatchOf>>, turn'.phase = "stopping" => turn' = turn,
             \A y \in Own : OnItsWay(y)' => OnItsWay(y)
      PROVE  Steady'
  BY <1>2 DEF Steady, NotResumed, SendOpen
<1>3. ASSUME NEW x \in Own, Sending(x)
      PROVE  Steady'
  <2>1. CASE PrepareUserIntent(x)
    BY <1>1, <2>1 DEF PrepareUserIntent, BeginTurnDispatch, Steady, NotResumed, SendOpen, OnItsWay
  <2>2. CASE AppendFails(x) \/ SendSuperseded(x) \/ SendRefused(x)
    <3>1. /\ turn' = MarkTurnTerminal(turn, dispatchOf[x])
          /\ step' = [step EXCEPT ![x] = "failed"]
          /\ UNCHANGED <<active, terminals, dispatchOf>>
      BY <2>2 DEF AppendFails, SendSuperseded, SendRefused, FailPreparation
    <3>2. turn'.phase = "stopping" => turn' = turn
      BY <1>1, <3>1 DEF MarkTurnTerminal, Turns
    <3> QED
      BY <1>1, <1>2, <3>1, <3>2 DEF OnItsWay
  <2>3. CASE SendMessage(x)
    <3>1. /\ ~Superseded(x) /\ step' = [step EXCEPT ![x] = "sending"]
          /\ UNCHANGED <<turn, active, terminals, dispatchOf>>
      BY <2>3 DEF SendMessage
    <3>2. turn.phase # "stopping"
      BY <3>1 DEF Superseded
    <3> QED
      BY <1>1, <3>1, <3>2 DEF Steady, NotResumed, SendOpen
  <2>4. CASE RegisterReceipt(x)
    <3>1. /\ HandleStatus("running", x) /\ dispatchOf' = dispatchOf
          /\ \A y \in Own : OnItsWay(y)' => OnItsWay(y)
      BY <1>1, <2>4 DEF RegisterReceipt, HandleStatus, OnItsWay
    <3> QED
      BY <1>1, <3>1, StatusSteady DEF Numbered
  <2>5. CASE ConfirmSent(x)
    <3>1. /\ turn' = ConfirmTurnRunning(turn) /\ step' = [step EXCEPT ![x] = "accepted"]
          /\ UNCHANGED <<active, terminals, dispatchOf>>
      BY <2>5 DEF ConfirmSent
    <3>2. turn'.phase = "stopping" => turn' = turn
      BY <1>1, <3>1 DEF ConfirmTurnRunning, Turns
    <3> QED
      BY <1>1, <1>2, <3>1, <3>2 DEF OnItsWay
  <2>6. CASE AcceptMessage(x) \/ RefuseMessage(x)
    <3>1. /\ step[x] = "sending"
          /\ \E s \in {"answered", "refused"} : step' = [step EXCEPT ![x] = s]
          /\ UNCHANGED <<turn, active, terminals, dispatchOf>>
      BY <2>6 DEF AcceptMessage, Accept, RefuseMessage
    <3> QED
      BY <1>1, <1>2, <3>1 DEF OnItsWay
  <2> QED
    BY <1>3, <2>1, <2>2, <2>3, <2>4, <2>5, <2>6 DEF Sending
<1>4. CASE Stop
  BY <1>4 DEF Stop, InTurn, Steady, NotResumed, SendOpen, OnItsWay
<1>5. CASE StopFailed \/ Deadman
  BY <1>2, <1>5 DEF StopFailed, Deadman, ForceTurnIdle, OnItsWay
<1>6. CASE \E x \in Foreign : ForeignSend(x)
  <2>1. PICK x \in Foreign : ForeignSend(x)
    BY <1>6
  <2>2. \A y \in Own : OnItsWay(y)' => OnItsWay(y)
    BY <1>1, <2>1, CliAssumption DEF ForeignSend, OnItsWay
  <2> QED
    BY <1>2, <2>1, <2>2 DEF ForeignSend, Accept
<1>7. CASE \/ CancelAnswered \/ CancelSession \/ CancelTimesOut \/ Lose \/ Reconnect
           \/ Reconcile \/ ReadIntents \/ ReadRows \/ BatchFails
           \/ RunnerEnds \/ PlanGate \/ UNCHANGED vars
  <2>1. UNCHANGED <<turn, step, active, terminals, dispatchOf>>
    BY <1>7
    DEF CancelAnswered, CancelSession, CancelTimesOut, Lose, Reconnect, Reconcile, ReadIntents,
        ReadRows, BatchFails, RunnerEnds, PlanGate, vars, client
  <2> QED
    BY <1>2, <2>1 DEF OnItsWay
<1>8. CASE DeliverStatus
  <2>1. Head(wire) \in Message
    BY <1>8, DeliveredReports DEF DeliverStatus
  <2> QED
    BY <1>8, <2>1, StatusSteady DEF DeliverStatus, Message, OnItsWay, Numbered
<1>9. CASE ApplyBatch
  <2>1. /\ reading.intent \in Intents \cup {NoIntent} /\ UNCHANGED <<step, dispatchOf>>
        /\ Ignored \/ HandleStatus(reading.status, reading.intent)
    BY <1>9 DEF ApplyBatch, TypeOK, Readings
  <2>2. CASE Ignored
    BY <1>2, <2>1, <2>2 DEF Ignored, OnItsWay
  <2>3. CASE HandleStatus(reading.status, reading.intent)
    BY <2>1, <2>3, StatusSteady DEF OnItsWay, Numbered
  <2> QED
    BY <2>1, <2>2, <2>3
<1> QED
  BY <1>3, <1>4, <1>5, <1>6, <1>7, <1>8, <1>9 DEF Next

-----------------------------------------------------------------------------
(* The chase of the tracked turn.                                          *)

Undisturbed == Circumstances = {}

\* A step that tracks nothing new, and loses nothing that is on its way.
LEMMA ChasedKept ==
  ASSUME Chased,
         \A x \in Intents : Tracked(x)' => Tracked(x),
         \A x \in Intents : Followed(x) => Followed(x)',
         \A x \in Own : Outdated(x)' => Outdated(x),
         \A x \in Own : Sought(x) => Sought(x)',
         Overtaken => Overtaken'
  PROVE  Chased'
  BY DEF Chased

\* A step after which nothing is tracked.
LEMMA ChasedUntracked ==
  ASSUME \A x \in Intents : ~Tracked(x)'
  PROVE  Chased'
  BY DEF Chased, Outdated, Tracked, Intents

\* An idle Session tracks nothing.
LEMMA ChasedIdle ==
  ASSUME Numbered', Orderly', turn'.phase = "idle"
  PROVE  Chased'
<1> SUFFICES ASSUME NEW x \in Intents, Tracked(x)'
             PROVE  FALSE
  BY ChasedUntracked
<1>1. Awaited(x)'
  BY DEF Tracked
<1>2. x \in Own /\ step'[x] = "answered" /\ dispatchOf'[x] = turn'.generation /\ x \notin terminals'
  BY <1>1 DEF Awaited
<1>3. dispatchOf'[x] # 0
  BY <1>2 DEF Numbered, Generations
<1> QED
  BY <1>2, <1>3 DEF Orderly, OrderlyTurn, AtRest, Unsent

\* What the sends and the window leave alone.
LEMMA TrackedSame ==
  ASSUME UNCHANGED <<turn, dispatchOf, active, terminals>>,
         \A x \in Own : step'[x] = "answered" => step[x] = "answered"
  PROVE  /\ \A x \in Intents : Tracked(x)' => Tracked(x)
         /\ \A x \in Own : Outdated(x)' => Outdated(x)
  BY DEF Tracked, Awaited, Outdated

\* What the backend tells is added to what is on its way, and nothing that was
\* still to come is lost: a batch tells what the websocket does not.
LEMMA TellsFollows ==
  ASSUME TypeOK, WireTruthful, Tells, reading' = reading \/ ~reading.repair
  PROVE  /\ \A x \in Intents : Followed(x) => Followed(x)'
         /\ \A x \in Intents : Sought(x) => Sought(x)'
         /\ \A x \in Intents : InWire(Status("running", x)) => InWire(Status("running", x))'
<1>1. connected' = connected /\ latest' = latest
  BY DEF Tells, Broadcast
<1>2. \A x \in Intents : /\ BatchTells(x) => BatchTells(x)'
                         /\ BatchComes(x) => BatchComes(x)'
  BY <1>1 DEF BatchTells, BatchComes
<1>3. \A i \in 1 .. Len(wire) : i \in 1 .. Len(wire') /\ wire'[i] = wire[i]
  BY BroadcastCarries, InterruptedTyped, PlainTerminalSays DEF Tells
<1>4. ASSUME NEW x \in Intents, NEW s, InWire(Status(s, x))
      PROVE  InWire(Status(s, x))'
  BY <1>3, <1>4 DEF InWire, Status
<1>5. ASSUME NEW x \in Intents, runner = x
      PROVE  Followed(x)'
  <2>1. x # NoIntent
    BY CliAssumption DEF Intents
  <2>2. CASE runner' = runner
    BY <1>5, <2>2 DEF Followed
  <2>3. CASE runner' # runner /\ ~connected
    BY <1>1, <1>5, <2>1, <2>3 DEF Followed, BatchTells, WireTruthful
  <2>4. CASE runner' # runner /\ connected
    <3>1. Broadcast(Interrupted)
      BY <2>4 DEF Tells
    <3>2. PICK j \in 1 .. Len(Interrupted) : Interrupted[j] = Status("terminal", x)
      BY <1>5, <2>1, InterruptedTells
    <3>3. Len(wire) + j \in 1 .. Len(wire') /\ wire'[Len(wire) + j] = Status("terminal", x)
      BY <2>4, <3>1, <3>2, BroadcastCarries, InterruptedTyped
    <3> QED
      BY <3>3 DEF Followed, InWire, Status
  <2> QED
    BY <2>2, <2>3, <2>4
<1> QED
  BY <1>2, <1>4, <1>5 DEF Followed, Sought

LEMMA OvertakenSame ==
  ASSUME UNCHANGED <<active, terminals>>,
         \A x \in Intents : InWire(Status("running", x)) => InWire(Status("running", x))'
  PROVE  Overtaken => Overtaken'
  BY DEF Overtaken, Intents

LEMMA TellsChased ==
  ASSUME TypeOK, WireTruthful, Chased, Tells, reading' = reading \/ ~reading.repair,
         UNCHANGED <<turn, dispatchOf, active, terminals>>,
         \A x \in Own : step'[x] = "answered" => step[x] = "answered"
  PROVE  Chased'
<1>1. /\ \A x \in Intents : Tracked(x)' => Tracked(x)
      /\ \A x \in Own : Outdated(x)' => Outdated(x)
  BY TrackedSame
<1>2. /\ \A x \in Intents : Followed(x) => Followed(x)'
      /\ \A x \in Own : Sought(x) => Sought(x)'
      /\ Overtaken => Overtaken'
  BY TellsFollows, OvertakenSame DEF Intents
<1> QED
  BY <1>1, <1>2, ChasedKept

\* The report of x was taken up.
Taken(x) ==
  /\ turn'.phase = "working" /\ active' = [intent |-> x, generation |-> turn'.generation]
  /\ terminals' = terminals

\* A running report is taken up, or changes nothing.
LEMMA RunningTakesOrKeeps ==
  ASSUME TypeOK, Numbered, Orderly, Orderly', NEW x \in Intents \cup {NoIntent}, HandleRunning(x)
  PROVE  Taken(x) \/ UNCHANGED <<turn, active, terminals>>
<1>1. turn \in Turns /\ active \in Actives /\ active' \in Actives /\ Published(x) \in Nat
  BY RunningCoordinated DEF TypeOK, Turns, Actives, Coordinated, Published
<1>2. ASSUME turn'.phase = "working", active'.intent = x, terminals' = terminals
      PROVE  Taken(x)
  BY <1>1, <1>2 DEF Taken, Orderly, OrderlyTurn, Actives
<1>3. CASE Ignored
  BY <1>3 DEF Ignored
<1>4. CASE RepeatsRunning /\ active.intent = x
  BY <1>1, <1>2, <1>4 DEF RepeatsRunning, MarkTurnRunning
<1>5. ASSUME NEW t \in Turns, NEW g \in Nat, TakesRunning(x, t, g)
      PROVE  Taken(x)
  BY <1>2, <1>5 DEF TakesRunning, MarkTurnRunning
<1>6. CASE ~Ignored /\ active.intent # x
  <2>1. BeginTurnDispatch(turn) \in Turns /\ BeginTurnDispatch(turn).generation \in Nat
    BY <1>1, LifecycleTyped DEF Turns, BeginTurnDispatch
  <2> QED
    BY <1>1, <1>5, <1>6, <2>1 DEF HandleRunning
<1> QED
  BY <1>3, <1>4, <1>6 DEF HandleRunning

\* One that is current, or of another window, is taken up over an older turn.
LEMMA RunningTaken ==
  ASSUME TypeOK, Numbered, Orderly, Orderly', NEW x \in Intents, HandleRunning(x),
         step[x] \in Reported, x \notin terminals, active # NoActive, active.intent # x,
         \/ x \in Foreign
         \/ x \in Own /\ dispatchOf[x] = turn.generation /\ turn.phase # "stopping"
  PROVE  Taken(x)
<1>1. turn \in Turns /\ turn.generation \in Nat /\ active \in Actives /\ active' \in Actives
  BY RunningCoordinated DEF TypeOK, Turns, Actives, Coordinated
<1>2. x # NoIntent
  BY CliAssumption DEF Intents
<1>3. ASSUME NEW t, NEW g, TakesRunning(x, t, g)
      PROVE  Taken(x)
  BY <1>1, <1>3 DEF TakesRunning, MarkTurnRunning, Taken, Orderly, OrderlyTurn, Actives
<1>4. CASE x \in Foreign
  <2>1. Published(x) = NoGeneration
    BY <1>4, CliAssumption DEF Published
  <2> QED
    BY <1>2, <1>3, <2>1 DEF HandleRunning
<1>5. CASE x \in Own /\ dispatchOf[x] = turn.generation /\ turn.phase # "stopping"
  <2>1. Published(x) = turn.generation /\ Published(x) # NoGeneration
    BY <1>5 DEF Published, Numbered, Generations, Reported
  <2>2. Published(x) >= active.generation /\ RunningAccepted(turn, Published(x))
    BY <1>1, <1>5, <2>1 DEF RunningAccepted, Concerns, Numbered, Generations, Tracks, Actives
  <2> QED
    BY <1>2, <1>3, <2>1, <2>2 DEF HandleRunning
<1> QED
  BY <1>4, <1>5

\* The turn taken up is the only one that is tracked.
LEMMA TakenChased ==
  ASSUME NEW x \in Intents, Taken(x), Numbered', Followed(x)' \/ Overtaken'
  PROVE  Chased'
<1>1. x # NoIntent /\ active' # NoActive
  BY CliAssumption DEF Intents, Taken, NoActive
<1>2. ASSUME NEW y \in Own, Awaited(y)'
      PROVE  y = x
  <2>1. dispatchOf'[y] = turn'.generation
    BY <1>2 DEF Awaited
  <2>2. active'.generation = dispatchOf'[y] /\ active'.intent = x
    BY <2>1 DEF Taken
  <2> QED
    BY <1>1, <2>2 DEF Numbered, Generations, Tracks, NoActive
<1>3. \A z \in Intents : Tracked(z)' => z = x
  BY <1>2 DEF Tracked, Taken, Awaited
<1>4. \A y \in Own : ~Outdated(y)'
  BY <1>2 DEF Outdated, Taken
<1> QED
  BY <1>3, <1>4 DEF Chased

\* A terminal of the turn that is kept for the current generation, or of the
\* current message, ends it.
LEMMA TerminalTaken ==
  ASSUME TypeOK, Numbered, NEW x \in Intents, HandleTerminal(x), x \notin terminals,
         \/ active # NoActive /\ active.intent = x /\ active.generation = turn.generation
         \/ active = NoActive /\ x \in Own /\ dispatchOf[x] = turn.generation
            /\ dispatchOf[x] # 0
  PROVE  turn'.phase = "idle"
<1>1. x # NoIntent /\ turn \in Turns
  BY CliAssumption DEF Intents, TypeOK, Turns
<1>2. ~Unrelated(x)
  BY <1>1 DEF Unrelated
<1>3. TerminalGeneration(x) = turn.generation
  BY <1>1 DEF TerminalGeneration, Published
<1>4. turn.generation # 0
  BY <1>1 DEF Numbered, Generations, Tracks, NoActive
<1>5. TerminalAccepted(turn, TerminalGeneration(x))
  BY <1>3, <1>4 DEF TerminalAccepted, Concerns
<1> QED
  BY <1>1, <1>2, <1>5 DEF HandleTerminal, MarkTurnTerminal, Turns

\* Only one message is on its way.
LEMMA OneOnItsWay ==
  ASSUME TypeOK, Numbered, Orderly, NEW x \in Own, NEW y \in Own, OnItsWay(x), OnItsWay(y)
  PROVE  x = y
<1>1. dispatchOf[x] <= dispatchOf[y] /\ dispatchOf[y] <= dispatchOf[x]
  BY DEF Orderly, Ordered
<1>2. dispatchOf[x] \in Nat /\ dispatchOf[y] \in Nat
  BY DEF TypeOK
<1>3. dispatchOf[x] = dispatchOf[y] /\ dispatchOf[x] # 0
  BY <1>1, <1>2 DEF OnItsWay, Numbered, Generations
<1> QED
  BY <1>3 DEF Numbered, Generations

\* The current message is the one on its way, if there is one.
LEMMA CurrentIsOnItsWay ==
  ASSUME TypeOK, Numbered, Orderly, NEW x \in Own, NEW y \in Own, OnItsWay(x),
         dispatchOf[y] = turn.generation
  PROVE  x = y
<1>1. dispatchOf[y] <= dispatchOf[x] /\ dispatchOf[x] <= turn.generation
  BY DEF Orderly, Ordered, Numbered, Generations
<1>2. dispatchOf[x] \in Nat /\ turn.generation \in Nat
  BY DEF TypeOK
<1>3. dispatchOf[x] = dispatchOf[y] /\ dispatchOf[x] # 0
  BY <1>1, <1>2 DEF OnItsWay, Numbered, Generations
<1> QED
  BY <1>3 DEF Numbered, Generations

\* What a working Session tracks is current, and was not told to have ended.
LEMMA WorkingIsTracked ==
  ASSUME TypeOK, Numbered, Orderly, turn.phase = "working"
  PROVE  /\ active # NoActive /\ active.intent # NoIntent /\ active.intent \in Intents
         /\ active = [intent |-> active.intent, generation |-> turn.generation]
         /\ active.intent \in Own => dispatchOf[active.intent] = turn.generation
<1>1. active \in Actives /\ active # NoActive /\ active.generation = turn.generation
  BY DEF TypeOK, Actives, Orderly, OrderlyTurn
<1>2. active.intent # NoIntent
  BY <1>1 DEF Numbered, Generations, Tracks, NoActive, Actives
<1> QED
  BY <1>1, <1>2 DEF Actives, Numbered, Generations, Tracks

\* Accepting a message loses no end: the one that ran is told to have ended.
LEMMA AcceptChased ==
  ASSUME Undisturbed, TypeOK, Numbered, Orderly, WireTruthful, Chased, NEW x \in Intents, Accept(x),
         \/ x \in Own /\ step[x] = "sending"
         \/ x \in Foreign /\ step[x] = "new",
         NEW s, step' = [step EXCEPT ![x] = s]
  PROVE  Chased'
<1> DEFINE messages == Append(Interrupted, Status("running", x))
<1>1. /\ ~EndLost /\ (connected \/ x \in Own)
      /\ runner' = x /\ latest' = x /\ connected' = connected
      /\ UNCHANGED <<turn, dispatchOf, active, terminals>>
  BY DEF Undisturbed, Accept, Broadcast
<1>2. ~Told(x) /\ x # NoIntent /\ step \in [Intents -> Steps]
  BY CliAssumption DEF Numbered, Reports, Reported, Intents, TypeOK
<1>3. \A i \in 1 .. Len(wire) : i \in 1 .. Len(wire') /\ wire'[i] = wire[i]
  BY AcceptTells, BroadcastCarries
<1>4. ASSUME NEW y \in Intents, NEW t, InWire(Status(t, y))
      PROVE  InWire(Status(t, y))'
  BY <1>3, <1>4 DEF InWire, Status
<1>5. connected => \A j \in 1 .. Len(messages) :
                      Len(wire) + j \in 1 .. Len(wire') /\ wire'[Len(wire) + j] = messages[j]
  BY AcceptTells, BroadcastCarries
<1>6. connected => InWire(Status("running", x))'
  <2>1. PICK j \in 1 .. Len(messages) : messages[j] = Status("running", x)
    BY AcceptTells
  <2> HIDE DEF messages
  <2> QED
    BY <1>5, <2>1 DEF InWire, Status
<1>7. ASSUME connected, NEW z \in Intents, runner = z
      PROVE  InWire(Status("terminal", z))'
  <2>1. z # NoIntent
    BY CliAssumption DEF Intents
  <2>2. PICK j \in 1 .. Len(messages) : messages[j] = Status("terminal", z)
    BY <1>7, <2>1, AcceptTells
  <2> HIDE DEF messages
  <2>3. Len(wire) + j \in 1 .. Len(wire') /\ wire'[Len(wire) + j] = Status("terminal", z)
    BY <1>5, <1>7, <2>2
  <2> QED
    BY <2>3 DEF InWire, Status
<1> HIDE DEF messages
<1>8. Overtaken => Overtaken'
  BY <1>1, <1>4 DEF Overtaken, Intents
<1>9. ASSUME NEW y \in Own, Awaited(y)', y # x
      PROVE  Awaited(y) /\ x \in Foreign
  <2>1. step[y] = "answered" /\ Awaited(y)
    BY <1>1, <1>9 DEF Awaited
  <2> QED
    BY <1>9, <2>1, OneOnItsWay DEF OnItsWay
<1>10. ASSUME NEW z \in Intents, Tracked(z)'
       PROVE  Followed(z)' \/ Overtaken'
  <2>1. CASE z = x
    BY <1>1, <2>1 DEF Followed
  <2>2. CASE z # x
    <3>1. Tracked(z)
      BY <1>1, <1>9, <1>10, <2>2 DEF Tracked, Awaited
    <3>2. CASE runner # z
      <4>1. \/ active = [intent |-> z, generation |-> turn.generation]
            \/ z \in Own /\ step[z] = "answered" /\ z \notin terminals
        BY <3>1, WorkingIsTracked DEF Tracked, Awaited
      <4>2. InWire(Status("terminal", z))
        BY <1>1, <3>2, <4>1 DEF EndLost
      <4> QED
        BY <1>4, <4>2 DEF Followed
    <3>3. CASE runner = z /\ connected
      BY <1>7, <3>3 DEF Followed
    <3>4. CASE runner = z /\ ~connected
      <4>1. x \in Own /\ z \in Own /\ step[x] = "sending"
        BY <1>1, <3>4, CliAssumption DEF EndLost, Intents
      <4>2. dispatchOf[z] = turn.generation
        BY <3>1, <4>1, WorkingIsTracked DEF Tracked, Awaited
      <4> QED
        BY <2>2, <4>1, <4>2, CurrentIsOnItsWay DEF OnItsWay
    <3> QED
      BY <3>2, <3>3, <3>4
  <2> QED
    BY <2>1, <2>2
<1>11. ASSUME NEW y \in Own, Outdated(y)'
       PROVE  Sought(y)' \/ Overtaken'
  <2>1. CASE y = x /\ connected
    BY <1>6, <2>1 DEF Sought
  <2>2. CASE y = x /\ ~connected
    BY <1>1, <2>2 DEF Sought, BatchComes
  <2>3. CASE y # x
    <3>1. x \in Foreign /\ connected
      BY <1>1, <1>9, <1>11, <2>3, CliAssumption DEF Outdated
    <3>2. active' # NoActive /\ active'.intent # x /\ x \notin terminals'
      BY <1>1, <1>2, <1>11 DEF Outdated, Told
    <3> QED
      BY <1>6, <3>1, <3>2 DEF Overtaken
  <2> QED
    BY <2>1, <2>2, <2>3
<1> QED
  BY <1>10, <1>11 DEF Chased

\* The websocket is lost only when a batch tells what it would have told.
LEMMA LoseChased ==
  ASSUME Undisturbed, TypeOK, Numbered, Orderly, Chased, Lose
  PROVE  Chased'
<1>1. /\ active.intent \in {NoIntent, latest}
      /\ \A i \in 1 .. Len(wire) : wire[i].intent \in {NoIntent, latest}
      /\ connected' = FALSE
      /\ UNCHANGED <<turn, dispatchOf, active, terminals, step, runner, latest>>
  BY DEF Lose, Undisturbed, client, backend
<1>2. \A x \in Intents, t \in {"running", "terminal"} : InWire(Status(t, x)) => x = latest
  BY <1>1, CliAssumption DEF InWire, Status, Intents
<1>3. active # NoActive => active.intent = latest
  BY <1>1 DEF TypeOK, Numbered, Generations, Tracks, NoActive
<1>4. ~Overtaken
  BY <1>2, <1>3 DEF Overtaken, Intents
<1>5. ASSUME NEW z \in Intents, Tracked(z)'
      PROVE  Followed(z)'
  <2>1. Tracked(z)
    BY <1>1, <1>5 DEF Tracked, Awaited
  <2>2. CASE runner = z \/ latest = z
    BY <1>1, <2>2 DEF Followed, BatchTells
  <2>3. Followed(z)
    BY <1>4, <2>1 DEF Chased
  <2> QED
    BY <1>2, <2>2, <2>3 DEF Followed, BatchTells
<1>6. ASSUME NEW y \in Own, Outdated(y)'
      PROVE  Sought(y)'
  <2>1. Outdated(y) /\ y \in Intents
    BY <1>1, <1>6 DEF Outdated, Awaited, Intents
  <2>2. Sought(y)
    BY <1>4, <2>1 DEF Chased
  <2>3. latest = y
    BY <1>2, <2>1, <2>2 DEF Sought, BatchComes
  <2> QED
    BY <1>1, <2>3 DEF Sought, BatchComes
<1> QED
  BY <1>5, <1>6 DEF Chased

\* A reconnect reads a batch, unless nothing is tracked.
LEMMA ReconnectChased ==
  ASSUME Undisturbed, Chased, Numbered', Orderly', Reconnect
  PROVE  Chased'
<1>1. /\ UNCHANGED <<turn, dispatchOf, active, terminals, step, runner, latest, wire>>
  BY DEF Reconnect, client, backend
<1>2. CASE turn.phase = "idle"
  BY <1>1, <1>2, ChasedIdle
<1>3. CASE turn.phase # "idle"
  <2>1. reading' = [at |-> "asked", repair |-> TRUE, intent |-> NoIntent, status |-> "none"]
    BY <1>3 DEF Reconnect, Undisturbed, Asks, NoReading
  <2>2. \A x \in Intents : /\ BatchTells(x) => BatchTells(x)'
                           /\ BatchComes(x) => BatchComes(x)'
    <3>1. reading'.at = "asked" /\ reading'.repair
      BY <2>1
    <3> QED
      BY <1>1, <3>1 DEF BatchTells, BatchComes
  <2>3. \A x \in Intents, t \in {"running", "terminal"} :
           InWire(Status(t, x)) => InWire(Status(t, x))'
    BY <1>1 DEF InWire, Status
  <2>4. /\ \A x \in Intents : Followed(x) => Followed(x)'
        /\ \A x \in Intents : Sought(x) => Sought(x)'
        /\ Overtaken => Overtaken'
    BY <1>1, <2>2, <2>3, OvertakenSame DEF Followed, Sought
  <2>5. /\ \A x \in Intents : Tracked(x)' => Tracked(x)
        /\ \A x \in Own : Outdated(x)' => Outdated(x)
    BY <1>1, TrackedSame
  <2> QED
    BY <2>4, <2>5, ChasedKept DEF Intents
<1> QED
  BY <1>2, <1>3

\* What is left on the wire after the first message is delivered.
LEMMA TailCarries ==
  ASSUME TypeOK, Numbered, WireTruthful, connected, wire # <<>>, wire' = Tail(wire)
  PROVE  /\ \A x \in Intents : InWire(Status("running", x)) /\ Head(wire) # Status("running", x)
              => InWire(Status("running", x))'
         /\ \A x \in Intents : InWire(Status("terminal", x)) /\ Head(wire) # Status("terminal", x)
              => InWire(Status("terminal", x))'
         /\ \A x \in Intents : Head(wire) = Status("running", x)
              => runner = x \/ InWire(Status("terminal", x))'
         /\ \A x \in Intents : Head(wire) = Status("terminal", x) /\ InWire(Status("running", x))'
              => InWire(Status("terminal", x))'
<1>1. wire \in Seq(Message) /\ Len(wire') = Len(wire) - 1 /\ Len(wire) \in Nat /\ Len(wire) >= 1
  BY DEF TypeOK
<1>2. \A i \in 1 .. Len(wire') : i + 1 \in 1 .. Len(wire) /\ wire'[i] = wire[i + 1]
  BY <1>1
<1>3. \A i \in 2 .. Len(wire) : i - 1 \in 1 .. Len(wire') /\ wire'[i - 1] = wire[i]
  <2> SUFFICES ASSUME NEW i \in 2 .. Len(wire)
               PROVE  i - 1 \in 1 .. Len(wire') /\ wire'[i - 1] = wire[i]
    OBVIOUS
  <2>1. i - 1 \in 1 .. Len(wire') /\ (i - 1) + 1 = i
    BY <1>1
  <2> QED
    BY <1>2, <2>1
<1>4. Head(wire) = wire[1]
  BY <1>1
<1>5. ASSUME NEW x \in Intents, NEW t \in {"running", "terminal"}, NEW i \in 1 .. Len(wire),
             wire[i] = Status(t, x), Head(wire) # Status(t, x)
      PROVE  \E j \in 1 .. Len(wire') : wire'[j] = Status(t, x)
  <2>1. i \in 2 .. Len(wire)
    BY <1>1, <1>4, <1>5
  <2> QED
    BY <1>3, <1>5, <2>1
<1>6. ASSUME NEW x \in Intents, NEW i \in 1 .. Len(wire), wire[i] = Status("running", x), runner # x
      PROVE  InWire(Status("terminal", x))'
  <2>1. wire[i].status = "running" /\ wire[i].intent = x
    BY <1>6 DEF Status
  <2>2. PICK j \in i + 1 .. Len(wire) : wire[j] = Status("terminal", x)
    BY <1>6, <2>1 DEF WireTruthful
  <2>3. j \in 2 .. Len(wire)
    BY <1>1, <2>2
  <2> QED
    BY <1>3, <2>2, <2>3 DEF InWire, Status
<1>7. ASSUME NEW x \in Intents, Head(wire) = Status("running", x), runner # x
      PROVE  InWire(Status("terminal", x))'
  BY <1>1, <1>4, <1>6, <1>7
<1>8. ASSUME NEW x \in Intents, Head(wire) = Status("terminal", x), InWire(Status("running", x))'
      PROVE  InWire(Status("terminal", x))'
  <2>1. PICK i \in 1 .. Len(wire') : wire'[i] = Status("running", x)
    BY <1>8 DEF InWire, Status
  <2>2. i + 1 \in 1 .. Len(wire) /\ wire[i + 1] = Status("running", x)
    BY <1>2, <2>1
  <2>3. InWire(Status("terminal", x)) /\ x # NoIntent
    BY <1>1, <1>4, <1>8, CliAssumption DEF InWire, Intents
  <2>4. runner # x
    BY <2>3 DEF Numbered, Reports
  <2> QED
    BY <1>6, <2>2, <2>4
<1>9. \A x \in Intents : InWire(Status("running", x)) /\ Head(wire) # Status("running", x)
         => InWire(Status("running", x))'
  BY <1>5 DEF InWire, Status
<1>10. \A x \in Intents : InWire(Status("terminal", x)) /\ Head(wire) # Status("terminal", x)
          => InWire(Status("terminal", x))'
  BY <1>5 DEF InWire, Status
<1> QED
  BY <1>7, <1>8, <1>9, <1>10

\* The answer of a message is handed to the coordinator.
LEMMA ReceiptChased ==
  ASSUME TypeOK, Numbered, Orderly, Steady, Chased, Numbered', Orderly', Steady',
         NEW x \in Own, RegisterReceipt(x)
  PROVE  Chased'
<1>1. /\ x \in Intents /\ step[x] = "answered" /\ step' = [step EXCEPT ![x] = "marking"]
      /\ step \in [Intents -> Steps] /\ HandleRunning(x)
      /\ UNCHANGED <<dispatchOf, wire, connected, runner, latest, reading>>
  BY DEF RegisterReceipt, TypeOK, Intents, link, backend
<1>2. \A z \in Intents, t \in {"running", "terminal"} :
         InWire(Status(t, z)) <=> InWire(Status(t, z))'
  BY <1>1 DEF InWire, Status
<1>3. \A z \in Intents : /\ Followed(z) => Followed(z)'
                         /\ Sought(z) => Sought(z)'
  BY <1>1, <1>2 DEF Followed, Sought, BatchTells, BatchComes
<1>4. CASE UNCHANGED <<turn, active, terminals>>
  <2>1. Overtaken => Overtaken'
    BY <1>2, <1>4, OvertakenSame
  <2>2. \A y \in Own : step'[y] = "answered" => step[y] = "answered"
    BY <1>1 DEF Intents
  <2> QED
    BY <1>1, <1>3, <1>4, <2>1, <2>2, TrackedSame, ChasedKept DEF Intents
<1>5. CASE Taken(x)
  <2>1. active'.intent = x /\ active'.generation = turn'.generation /\ terminals' = terminals
        /\ active' # NoActive
    BY <1>1, <1>5, CliAssumption DEF Taken, NoActive
  <2>2. dispatchOf[x] = turn'.generation
    BY <1>1, <2>1 DEF Numbered, Generations, Tracks
  <2>3. dispatchOf[x] = turn.generation
    <3>1. turn.generation <= turn'.generation
      BY <1>1, RunningHandled DEF Handled, Numbered, Reported
    <3>2. dispatchOf[x] <= turn.generation /\ turn.generation \in Nat /\ dispatchOf[x] \in Nat
      BY DEF Numbered, Generations, TypeOK
    <3> QED
      BY <2>2, <3>1, <3>2
  <2>4. x \notin terminals
    BY <2>1 DEF Steady, NotResumed
  <2>5. Followed(x) \/ Overtaken
    BY <1>1, <2>3, <2>4 DEF Chased, Tracked, Awaited
  <2>6. Overtaken => Overtaken'
    BY <1>2, <2>1, CliAssumption DEF Overtaken, Intents
  <2> QED
    BY <1>1, <1>3, <1>5, <2>5, <2>6, TakenChased
<1> QED
  BY <1>1, <1>4, <1>5, RunningTakesOrKeeps

\* A status that is delivered is the end of what is tracked, or it is followed
\* by that end.
LEMMA DeliverChased ==
  ASSUME Undisturbed, TypeOK, Numbered, Answers, Orderly, WireTruthful, Steady, Chased,
         Numbered', Orderly', DeliverStatus
  PROVE  Chased'
<1>1. /\ connected /\ wire # <<>> /\ wire' = Tail(wire)
      /\ HandleStatus(Head(wire).status, Head(wire).intent)
      /\ UNCHANGED <<dispatchOf, step, connected, runner, latest, reading>>
      /\ \/ Head(wire).status = "running" \/ ~SaysRunning(Head(wire).intent)
         \/ ~PassedOver(Head(wire).intent)
  BY DEF DeliverStatus, Undisturbed, backend
<1>2. PICK s \in {"running", "terminal"}, x \in Intents \cup {NoIntent} : Head(wire) = Status(s, x)
  BY <1>1, DeliveredReports DEF Message, Status
<1>3. /\ HandleStatus(s, x)
      /\ x # NoIntent => Told(x)
      /\ \A z \in Intents : z # NoIntent
  BY <1>1, <1>2, DeliveredReports, CliAssumption DEF Status, Intents
<1>4. /\ \A z \in Intents : InWire(Status("running", z)) /\ ~(s = "running" /\ x = z)
            => InWire(Status("running", z))'
      /\ \A z \in Intents : InWire(Status("terminal", z)) /\ ~(s = "terminal" /\ x = z)
            => InWire(Status("terminal", z))'
      /\ s = "running" /\ x # NoIntent => runner = x \/ InWire(Status("terminal", x))'
      /\ s = "terminal" => \A z \in Intents : x = z /\ InWire(Status("running", z))'
                                             => InWire(Status("terminal", z))'
  <2>1. \A z \in Intents, t \in {"running", "terminal"} :
           Head(wire) = Status(t, z) <=> s = t /\ x = z
    BY <1>2 DEF Status
  <2> QED
    BY <1>1, <2>1, TailCarries
<1>5. \A z \in Intents : /\ BatchTells(z) => BatchTells(z)'
                         /\ BatchComes(z) => BatchComes(z)'
  BY <1>1 DEF BatchTells, BatchComes
<1>6. CASE s = "running"
  <2>1. HandleRunning(x)
    BY <1>3, <1>6 DEF HandleStatus
  <2>2. \A z \in Intents : Followed(z) => Followed(z)'
    BY <1>1, <1>4, <1>5, <1>6 DEF Followed
  <2>3. x # NoIntent => x \in Intents /\ Followed(x)'
    BY <1>1, <1>3, <1>4, <1>6 DEF Followed
  <2>4. CASE Taken(x) /\ x # NoIntent
    BY <2>3, <2>4, TakenChased
  <2>5. CASE ~Taken(x) \/ x = NoIntent
    <3>1. UNCHANGED <<turn, active, terminals>>
      BY <1>3, <2>1, <2>5, RunningTakesOrKeeps DEF HandleRunning, Ignored
    <3>2. ASSUME NEW w \in Foreign \ {active.intent}, active # NoActive, w \notin terminals
          PROVE  x # w
      <4> SUFFICES ASSUME x = w
                   PROVE  FALSE
        OBVIOUS
      <4>1. w \in Intents /\ w # NoIntent
        BY <1>3 DEF Intents
      <4>2. step[w] \in Reported
        BY <1>3, <4>1 DEF Numbered, Reports
      <4> QED
        BY <2>1, <2>5, <3>2, <4>1, <4>2, RunningTaken
    <3>3. Overtaken => Overtaken'
      BY <1>4, <3>1, <3>2 DEF Overtaken, Intents
    <3>4. ASSUME NEW y \in Own, Outdated(y), InWire(Status("running", y))
          PROVE  InWire(Status("running", y))'
      <4>1. x # y
        <5> SUFFICES ASSUME x = y
                     PROVE  FALSE
          OBVIOUS
        <5>1. y \in Intents /\ y # NoIntent
          BY <1>3 DEF Intents
        <5>2. /\ step[y] = "answered" /\ dispatchOf[y] = turn.generation /\ y \notin terminals
              /\ active # NoActive /\ active.intent # y
          BY <3>4 DEF Outdated, Awaited
        <5>3. turn.phase # "stopping"
          BY <5>2 DEF Steady, SendOpen, OnItsWay
        <5> QED
          BY <2>1, <2>5, <5>1, <5>2, <5>3, RunningTaken DEF Reported
      <4> QED
        BY <1>4, <3>4, <4>1 DEF Intents
    <3>5. /\ \A z \in Intents : Tracked(z)' => Tracked(z)
          /\ \A z \in Own : Outdated(z)' => Outdated(z)
      BY <1>1, <3>1, TrackedSame
    <3>6. \A y \in Own : Outdated(y)' => Sought(y)' \/ Overtaken'
      BY <1>5, <3>3, <3>4, <3>5 DEF Chased, Sought, Intents
    <3> QED
      BY <2>2, <3>3, <3>5, <3>6 DEF Chased
  <2> QED
    BY <2>4, <2>5
<1>7. CASE s = "terminal"
  <2>1. HandleTerminal(x)
    BY <1>3, <1>7 DEF HandleStatus
  <2>2. CASE turn'.phase = "idle"
    BY <2>2, ChasedIdle
  <2>3. CASE turn'.phase # "idle"
    <3>1. UNCHANGED <<turn, active, terminals>>
      <4>1. turn \in Turns
        BY DEF TypeOK, Turns
      <4> QED
        BY <2>1, <2>3, <4>1 DEF HandleTerminal, Ignored, MarkTurnTerminal, Turns
    <3>2. \A z \in Intents : InWire(Status("running", z)) => InWire(Status("running", z))'
      BY <1>4, <1>7
    <3>3. Overtaken => Overtaken'
      BY <3>1, <3>2, OvertakenSame
    <3>4. \A y \in Intents : Sought(y) => Sought(y)'
      BY <1>5, <3>2 DEF Sought
    <3>5. ASSUME NEW z \in Intents, Tracked(z), Followed(z)
          PROVE  Followed(z)' \/ Overtaken'
      <4>1. CASE x # z
        BY <1>1, <1>4, <1>5, <3>5, <4>1 DEF Followed
      <4>2. CASE x = z
        <5>2. z \notin terminals
          BY <3>5 DEF Tracked, Awaited, Steady, NotResumed
        <5>3. CASE turn.phase = "working" /\ active.intent = z
          BY <2>1, <2>3, <4>2, <5>2, <5>3, TerminalTaken DEF Orderly, OrderlyTurn
        <5>4. CASE Awaited(z)
          <6>1. z \in Own /\ dispatchOf[z] = turn.generation /\ dispatchOf[z] # 0
            BY <5>4 DEF Awaited, Numbered, Generations
          <6>2. CASE active = NoActive
            BY <2>1, <2>3, <4>2, <5>2, <6>1, <6>2, TerminalTaken
          <6>3. CASE active # NoActive /\ active.intent = z
            <7>1. active.generation = turn.generation
              BY <6>1, <6>3 DEF Numbered, Generations, Tracks
            <7> QED
              BY <2>1, <2>3, <4>2, <5>2, <6>3, <7>1, TerminalTaken
          <6>4. CASE active # NoActive /\ active.intent # z
            <7>1. Sought(z) \/ Overtaken
              BY <5>4, <6>1, <6>4 DEF Chased, Outdated
            <7>2. PassedOver(z)
              BY <1>3, <5>2, <6>4 DEF PassedOver, Unrelated
            <7>3. ~SaysRunning(z)
              BY <1>1, <1>2, <1>7, <4>2, <7>2 DEF Status
            <7>4. BatchComes(z) => BatchTells(z)
              <8>1. /\ reading.at \in {"none", "asked", "intents", "answered"}
                    /\ reading.status \in {"none", "running", "terminal"} /\ z # NoIntent
                BY <1>3 DEF TypeOK, Readings
              <8> QED
                BY <7>3, <8>1 DEF BatchComes, BatchTells, SaysRunning, Answers
            <7> QED
              BY <1>4, <1>5, <1>7, <3>2, <3>3, <4>2, <7>1, <7>4 DEF Sought, Followed
          <6> QED
            BY <6>2, <6>3, <6>4
        <5> QED
          BY <3>5, <5>3, <5>4 DEF Tracked
      <4> QED
        BY <4>1, <4>2
    <3>6. /\ \A z \in Intents : Tracked(z)' => Tracked(z)
          /\ \A z \in Own : Outdated(z)' => Outdated(z)
      BY <1>1, <3>1, TrackedSame
    <3>7. \A z \in Intents : Tracked(z)' => Followed(z)' \/ Overtaken'
      BY <3>3, <3>5, <3>6 DEF Chased
    <3>8. \A y \in Own : Outdated(y)' => Sought(y)' \/ Overtaken'
      BY <3>3, <3>4, <3>6 DEF Chased, Intents
    <3> QED
      BY <3>7, <3>8 DEF Chased
  <2> QED
    BY <2>2, <2>3
<1> QED
  BY <1>3, <1>6, <1>7

\* A batch that is read goes on to tell what it was asked for.
LEMMA ReadsChased ==
  ASSUME TypeOK, Answers, WireTruthful, Chased, ReadIntents \/ ReadRows
  PROVE  Chased'
<1>1. /\ UNCHANGED <<turn, dispatchOf, active, terminals, step, connected, wire, runner, latest>>
      /\ reading \in Readings /\ \A x \in Intents : x # NoIntent
  BY CliAssumption DEF ReadIntents, ReadRows, client, link, backend, TypeOK, Intents
<1>2. \A x \in Intents, t \in {"running", "terminal"} :
         InWire(Status(t, x)) => InWire(Status(t, x))'
  BY <1>1 DEF InWire, Status
<1>3. ASSUME NEW x \in Intents
      PROVE  /\ BatchComes(x) => BatchComes(x)'
             /\ BatchTells(x) => BatchTells(x)' \/ runner = x
  <2>1. CASE ReadIntents
    <3>1. /\ reading.at = "asked" /\ reading'.at = "intents" /\ reading'.intent = latest
          /\ reading'.repair = reading.repair
      BY <1>1, <2>1 DEF ReadIntents, Readings
    <3>2. reading.intent # x
      BY <1>1, <3>1 DEF Answers
    <3> QED
      BY <1>1, <3>1, <3>2 DEF BatchComes, BatchTells
  <2>2. CASE ReadRows
    <3>1. /\ reading.at = "intents" /\ reading'.at = "answered" /\ reading'.status = row
          /\ reading'.repair = reading.repair /\ reading'.intent = reading.intent
      BY <1>1, <2>2 DEF ReadRows, Readings
    <3>2. latest = x => row = "terminal" \/ runner = x
      BY <1>1 DEF Answers, WireTruthful, TypeOK
    <3> QED
      BY <1>1, <3>1, <3>2 DEF BatchComes, BatchTells
  <2> QED
    BY <2>1, <2>2
<1>4. \A x \in Intents : /\ Followed(x) => Followed(x)'
                         /\ Sought(x) => Sought(x)'
  BY <1>1, <1>2, <1>3 DEF Followed, Sought
<1>5. Overtaken => Overtaken'
  BY <1>1, <1>2, OvertakenSame
<1>6. /\ \A x \in Intents : Tracked(x)' => Tracked(x)
      /\ \A x \in Own : Outdated(x)' => Outdated(x)
  BY <1>1, TrackedSame
<1> QED
  BY <1>4, <1>5, <1>6, ChasedKept DEF Intents

\* A batch that is applied when no answer is on its way ends what it says has
\* ended, and opens nothing that does not run or has yet to be ended.
LEMMA ApplyChased ==
  ASSUME Undisturbed, TypeOK, Numbered, Answers, Orderly, Steady, BatchTruthful, Chased,
         Numbered', Orderly', Steady', ApplyBatch
  PROVE  Chased'
<1>1. /\ \A x \in Own : step[x] # "answered"
      /\ UNCHANGED <<dispatchOf, step, connected, wire, runner, latest>>
      /\ reading.at = "answered" /\ reading.status \in {"none", "running", "terminal"}
      /\ reading.intent \in Intents \cup {NoIntent}
      /\ \A x \in Intents : x # NoIntent
  BY CliAssumption DEF ApplyBatch, Undisturbed, link, backend, TypeOK, Readings, Intents
<1>2. \A x \in Intents, t \in {"running", "terminal"} :
         InWire(Status(t, x)) => InWire(Status(t, x))'
  BY <1>1 DEF InWire, Status
<1>3. \A x \in Own : ~Awaited(x) /\ ~Awaited(x)'
  BY <1>1 DEF Awaited
<1>4. \A x \in Intents :
        Followed(x) /\ ~(x = reading.intent /\ reading.status = "terminal") => Followed(x)'
  <2> SUFFICES ASSUME NEW x \in Intents, Followed(x),
                      ~(x = reading.intent /\ reading.status = "terminal")
               PROVE  Followed(x)'
    OBVIOUS
  <2>1. CASE BatchTells(x)
    <3>1. latest = x /\ ~connected
      BY <1>1, <2>1 DEF BatchTells
    <3> QED
      BY <1>1, <3>1 DEF Followed, BatchTells
  <2>2. CASE ~BatchTells(x)
    BY <1>1, <1>2, <2>2 DEF Followed
  <2> QED
    BY <2>1, <2>2
<1>5. ASSUME UNCHANGED <<turn, active, terminals>>,
             turn.phase = "working" /\ reading.status = "terminal" => active.intent # reading.intent
      PROVE  Chased'
  <2>1. Overtaken => Overtaken'
    BY <1>2, <1>5, OvertakenSame
  <2>2. ASSUME NEW z \in Intents, Tracked(z)'
        PROVE  Followed(z)' \/ Overtaken'
    <3>1. turn.phase = "working" /\ active.intent = z
      BY <1>3, <1>5, <2>2 DEF Tracked, Awaited
    <3>2. Followed(z) \/ Overtaken
      BY <3>1 DEF Chased, Tracked
    <3> QED
      BY <1>4, <1>5, <2>1, <3>1, <3>2
  <2> QED
    BY <1>3, <2>2 DEF Chased, Outdated
<1>6. CASE reading.status = "none" \/ (reading.status = "running" /\ reading.intent = NoIntent)
  <2>1. UNCHANGED <<turn, active, terminals>>
    BY <1>6 DEF ApplyBatch, HandleStatus, HandleRunning, Ignored
  <2> QED
    BY <1>5, <1>6, <2>1
<1>7. CASE reading.status = "running" /\ reading.intent # NoIntent
  <2>1. PICK x \in Intents : x = reading.intent
    BY <1>1, <1>7
  <2>2. HandleRunning(x)
    BY <1>7, <2>1 DEF ApplyBatch, HandleStatus
  <2>3. CASE Taken(x)
    <3>1. x \notin terminals /\ active'.intent = x /\ active' # NoActive
          /\ active'.generation = turn'.generation
      BY <1>1, <2>3 DEF Taken, Steady, NotResumed, NoActive
    <3>2. ~(x \in Own /\ dispatchOf[x] < turn.generation)
      <4>1. x \in Own => dispatchOf[x] = turn'.generation
        BY <1>1, <3>1 DEF Numbered, Generations, Tracks
      <4>2. step[x] \in Reported
        BY <2>1 DEF Numbered, Reports, Told
      <4>3. turn.generation <= turn'.generation
        BY <2>2, <4>2, RunningHandled DEF Handled, Numbered
      <4>4. turn.generation \in Nat /\ turn'.generation \in Nat
        BY <2>2, RunningCoordinated DEF Coordinated, Turns, TypeOK
      <4> QED
        BY <4>1, <4>3, <4>4
    <3>3. SaysRunning(x)
      BY <1>7, <2>1 DEF SaysRunning
    <3>4. Followed(x)
      BY <1>1, <3>1, <3>2, <3>3 DEF BatchTruthful
    <3> QED
      BY <1>4, <1>7, <2>3, <3>4, TakenChased
  <2>4. CASE ~Taken(x)
    BY <1>5, <1>7, <2>2, <2>4, RunningTakesOrKeeps
  <2> QED
    BY <2>3, <2>4
<1>8. CASE reading.status = "terminal"
  <2>1. HandleTerminal(reading.intent)
    BY <1>8 DEF ApplyBatch, HandleStatus
  <2>2. CASE turn'.phase = "idle"
    BY <2>2, ChasedIdle
  <2>3. CASE turn'.phase # "idle"
    <3>1. UNCHANGED <<turn, active, terminals>>
      <4>1. turn \in Turns
        BY DEF TypeOK, Turns
      <4> QED
        BY <2>1, <2>3, <4>1 DEF HandleTerminal, Ignored, MarkTurnTerminal, Turns
    <3>2. ASSUME turn.phase = "working", active.intent = reading.intent
          PROVE  FALSE
      <4>1. PICK x \in Intents : x = reading.intent
        BY <3>2, WorkingIsTracked
      <4>2. x \notin terminals
        BY <3>2, <4>1 DEF Steady, NotResumed
      <4>3. active # NoActive /\ active.generation = turn.generation
        BY <3>2 DEF Orderly, OrderlyTurn
      <4> QED
        BY <2>1, <2>3, <3>2, <4>1, <4>2, <4>3, TerminalTaken
    <3> QED
      BY <1>5, <3>1, <3>2
  <2> QED
    BY <2>2, <2>3
<1> QED
  BY <1>1, <1>6, <1>7, <1>8

\* The sends of the window that the coordinator has no part in.
LEMMA SendingChased ==
  ASSUME Undisturbed, TypeOK, Numbered, Orderly, WireTruthful, Steady, Chased,
         Numbered', Orderly', Steady', NEW x \in Own, Sending(x)
  PROVE  Chased'
<1>1. /\ turn \in Turns /\ turn.generation \in Nat /\ step \in [Intents -> Steps]
      /\ x \in Intents /\ dispatchOf \in [Own -> Nat]
      /\ \A y \in Own : dispatchOf[y] <= turn.generation
  BY DEF TypeOK, Turns, Intents, Numbered, Generations
<1>2. ASSUME UNCHANGED <<turn, dispatchOf, active, terminals, reading>>, Tells,
             \A y \in Own : step'[y] = "answered" => step[y] = "answered"
      PROVE  Chased'
  BY <1>2, TellsChased
<1>3. CASE PrepareUserIntent(x)
  <2>1. /\ turn' = [phase |-> "dispatching", generation |-> turn.generation + 1]
        /\ dispatchOf' = [dispatchOf EXCEPT ![x] = turn.generation + 1]
        /\ step' = [step EXCEPT ![x] = "appending"]
    BY <1>3 DEF PrepareUserIntent, BeginTurnDispatch
  <2>2. ASSUME NEW y \in Own
        PROVE  step'[y] = "answered" => dispatchOf'[y] # turn'.generation
    BY <1>1, <2>1
  <2>3. \A z \in Intents : ~Tracked(z)'
    BY <2>1, <2>2 DEF Tracked, Awaited
  <2> QED
    BY <2>3, ChasedUntracked
<1>4. CASE AppendFails(x) \/ SendSuperseded(x) \/ SendRefused(x)
  <2>1. /\ turn' = MarkTurnTerminal(turn, dispatchOf[x])
        /\ step' = [step EXCEPT ![x] = "failed"]
        /\ UNCHANGED <<dispatchOf, active, terminals, reading>>
    BY <1>4 DEF AppendFails, SendSuperseded, SendRefused, FailPreparation
  <2>2. Tells
    BY <1>4, QuietTells
  <2>3. CASE turn' = turn
    BY <1>1, <1>2, <2>1, <2>2, <2>3
  <2>4. CASE turn' # turn
    <3>1. turn'.phase = "idle"
      BY <1>1, <2>1, <2>4 DEF MarkTurnTerminal, Turns
    <3> QED
      BY <3>1, ChasedIdle
  <2> QED
    BY <2>3, <2>4
<1>5. CASE SendMessage(x) \/ RefuseMessage(x)
  <2>1. /\ UNCHANGED <<turn, dispatchOf, active, terminals, reading>>
        /\ \E s \in {"sending", "refused"} : step' = [step EXCEPT ![x] = s]
    BY <1>5 DEF SendMessage, RefuseMessage
  <2>2. \A y \in Own : step'[y] = "answered" => step[y] = "answered"
    BY <1>1, <2>1
  <2> QED
    BY <1>2, <1>5, <2>1, <2>2, QuietTells
<1>6. CASE ConfirmSent(x)
  <2>1. /\ UNCHANGED <<dispatchOf, active, terminals, reading>>
        /\ turn' = ConfirmTurnRunning(turn)
        /\ step[x] = "marking" /\ step' = [step EXCEPT ![x] = "accepted"]
    BY <1>6 DEF ConfirmSent
  <2>2. turn' = turn
    BY <2>1, MarkedIsTakenUp DEF ConfirmTurnRunning
  <2>3. \A y \in Own : step'[y] = "answered" => step[y] = "answered"
    BY <1>1, <2>1
  <2> QED
    BY <1>2, <1>6, <2>1, <2>2, <2>3, QuietTells
<1>7. CASE RegisterReceipt(x)
  BY <1>7, ReceiptChased
<1>8. CASE AcceptMessage(x)
  BY <1>1, <1>8, AcceptChased DEF AcceptMessage
<1> QED
  BY <1>3, <1>4, <1>5, <1>6, <1>7, <1>8 DEF Sending

LEMMA InitChased == Init => Chased
  BY DEF Init, Chased, Tracked, Outdated, Awaited, Intents

\* Every step keeps the chase.
LEMMA ChasedStep ==
  ASSUME Undisturbed, TypeOK, Numbered, Answers, Orderly, WireTruthful, Steady, BatchTruthful,
         Chased, Numbered', Orderly', Steady', [Next]_vars
  PROVE  Chased'
<1>1. turn \in Turns
  BY DEF TypeOK, Turns
<1>2. CASE \E x \in Own : Sending(x)
  BY <1>2, SendingChased
<1>3. ASSUME NEW x \in Foreign, ForeignSend(x)
      PROVE  Chased'
  BY <1>3, AcceptChased DEF ForeignSend, Intents
<1>4. CASE Stop
  <2>1. /\ turn' = BeginTurnStopping(turn) /\ turn.phase # "idle"
        /\ UNCHANGED <<dispatchOf, active, terminals, reading, step>>
    BY <1>4 DEF Stop
  <2>2. turn' = [phase |-> "stopping", generation |-> turn.generation]
    BY <1>1, <2>1 DEF BeginTurnStopping, Turns
  <2>3. /\ \A x \in Intents : Tracked(x)' => Tracked(x)
        /\ \A x \in Own : Outdated(x)' => Outdated(x)
    BY <2>1, <2>2 DEF Tracked, Awaited, Outdated
  <2>4. Tells
    BY <1>4, QuietTells
  <2> QED
    BY <2>1, <2>3, <2>4, TellsFollows, OvertakenSame, ChasedKept DEF Intents
<1>5. CASE StopFailed \/ Deadman
  BY <1>5, ChasedIdle DEF StopFailed, Deadman, ForceTurnIdle
<1>6. CASE \/ CancelAnswered \/ CancelSession \/ CancelTimesOut \/ Reconcile
           \/ BatchFails \/ RunnerEnds \/ PlanGate \/ UNCHANGED vars
  <2>1. /\ UNCHANGED <<turn, dispatchOf, active, terminals, step>>
        /\ reading' = reading \/ reading = NoReading \/ ~reading.repair
    BY <1>6
    DEF CancelAnswered, CancelSession, CancelTimesOut, Reconcile, BatchFails, RunnerEnds,
        PlanGate, vars, client, Undisturbed
  <2>2. reading = NoReading => ~reading.repair
    BY DEF NoReading
  <2> QED
    BY <1>6, <2>1, <2>2, QuietTells, TellsChased
<1>7. CASE DeliverStatus
  BY <1>7, DeliverChased
<1>8. CASE Lose
  BY <1>8, LoseChased
<1>9. CASE Reconnect
  BY <1>9, ReconnectChased
<1>10. CASE ReadIntents \/ ReadRows
  BY <1>10, ReadsChased
<1>11. CASE ApplyBatch
  BY <1>11, ApplyChased
<1> QED
  BY <1>2, <1>3, <1>4, <1>5, <1>6, <1>7, <1>8, <1>9, <1>10, <1>11 DEF Next

-----------------------------------------------------------------------------
(* What a batch on its way may do.                                         *)

\* What was dispatched stays dispatched, and what was ended stays ended.
Grows ==
  /\ turn.generation <= turn'.generation /\ terminals \subseteq terminals'
  /\ \A x \in Own : step[x] # "new" => dispatchOf'[x] = dispatchOf[x]

LEMMA GrowsStep ==
  ASSUME TypeOK, Numbered, [Next]_vars
  PROVE  Grows
<1>1. /\ turn \in Turns /\ turn.generation \in Nat /\ step \in [Intents -> Steps]
      /\ dispatchOf \in [Own -> Nat]
  BY DEF TypeOK, Turns
<1>2. ASSUME turn'.generation \in {turn.generation, turn.generation + 1},
             UNCHANGED <<dispatchOf, terminals>>
      PROVE  Grows
  BY <1>1, <1>2 DEF Grows
<1>3. ASSUME NEW status, NEW x \in Intents \cup {NoIntent}, HandleStatus(status, x),
             x # NoIntent => Told(x) \/ step[x] \in Reported, dispatchOf' = dispatchOf
      PROVE  Grows
  <2>1. Handled(x)
    BY <1>3, StatusHandled DEF Numbered, Reports
  <2> QED
    BY <1>3, <2>1 DEF Handled, Grows
<1>4. ASSUME NEW x \in Own, Sending(x)
      PROVE  Grows
  <2>1. CASE PrepareUserIntent(x)
    BY <1>1, <2>1 DEF PrepareUserIntent, BeginTurnDispatch, Grows
  <2>2. CASE RegisterReceipt(x)
    BY <1>3, <2>2 DEF RegisterReceipt, HandleStatus, Reported, Intents
  <2>3. CASE ~PrepareUserIntent(x) /\ ~RegisterReceipt(x)
    <3>1. turn' \in {turn, MarkTurnTerminal(turn, dispatchOf[x]), ConfirmTurnRunning(turn)}
          /\ UNCHANGED <<dispatchOf, terminals>>
      BY <1>4, <2>3
      DEF Sending, AppendFails, SendSuperseded, SendRefused, FailPreparation, SendMessage,
          ConfirmSent, AcceptMessage, RefuseMessage, Accept
    <3>2. turn'.generation = turn.generation
      BY <1>1, <3>1 DEF MarkTurnTerminal, ConfirmTurnRunning, Turns
    <3> QED
      BY <1>2, <3>1, <3>2
  <2> QED
    BY <2>1, <2>2, <2>3
<1>5. CASE DeliverStatus
  <2>1. Head(wire) \in Message /\ (Head(wire).intent # NoIntent => Told(Head(wire).intent))
    BY <1>5, DeliveredReports DEF DeliverStatus
  <2> QED
    BY <1>3, <1>5, <2>1 DEF DeliverStatus, Message
<1>6. CASE ApplyBatch
  <2>1. /\ reading.intent \in Intents \cup {NoIntent}
        /\ reading.intent # NoIntent => Told(reading.intent)
    BY DEF TypeOK, Readings, Told
  <2> QED
    BY <1>2, <1>3, <1>6, <2>1 DEF ApplyBatch, Ignored
<1>7. CASE Stop \/ StopFailed \/ Deadman
  <2>1. turn' \in {BeginTurnStopping(turn), ForceTurnIdle(turn)}
        /\ UNCHANGED <<dispatchOf, terminals>>
    BY <1>7 DEF Stop, StopFailed, Deadman
  <2>2. turn'.generation \in {turn.generation, turn.generation + 1}
    BY <1>1, <2>1 DEF BeginTurnStopping, ForceTurnIdle, Turns
  <2> QED
    BY <1>2, <2>1, <2>2
<1>8. CASE \/ \E x \in Foreign : ForeignSend(x)
           \/ CancelAnswered \/ CancelSession \/ CancelTimesOut \/ Lose
           \/ Reconnect \/ Reconcile \/ ReadIntents \/ ReadRows \/ BatchFails
           \/ RunnerEnds \/ PlanGate \/ UNCHANGED vars
  BY <1>2, <1>8
  DEF ForeignSend, Accept, CancelAnswered, CancelSession, CancelTimesOut, Lose, Reconnect,
      Reconcile, ReadIntents, ReadRows, BatchFails, RunnerEnds, PlanGate, vars, client
<1> QED
  BY <1>4, <1>5, <1>6, <1>7, <1>8 DEF Next

LEMMA InitBatchTruthful == Init => BatchTruthful
  BY CliAssumption DEF Init, BatchTruthful, SaysRunning, NoReading, Intents

\* A step that follows what was followed keeps it.
LEMMA BatchTruthfulKept ==
  ASSUME TypeOK, Numbered, BatchTruthful, Grows, TypeOK', UNCHANGED <<reading, latest>>,
         \A x \in Intents : SaysRunning(x) /\ Followed(x) => Followed(x)' \/ x \in terminals'
  PROVE  BatchTruthful'
<1> SUFFICES ASSUME NEW x \in Intents, SaysRunning(x)'
             PROVE  \/ x \in terminals' \/ Followed(x)'
                    \/ reading'.at = "intents" /\ latest' = x
                    \/ x \in Own /\ dispatchOf'[x] < turn'.generation
  BY DEF BatchTruthful
<1>1. SaysRunning(x) /\ step[x] \in Reported
  BY DEF SaysRunning, Numbered, Reports, Told
<1>2. x \in Own => dispatchOf'[x] = dispatchOf[x]
  BY <1>1 DEF Grows, Reported
<1>3. x \in Own /\ dispatchOf[x] < turn.generation => dispatchOf'[x] < turn'.generation
  BY <1>2 DEF Grows, TypeOK
<1> QED
  BY <1>1, <1>3 DEF BatchTruthful, Grows

\* Another turn is accepted only when the end of the one that a batch may say
\* runs is on its way, or it was dispatched before.
LEMMA AcceptBatchTruthful ==
  ASSUME Undisturbed, TypeOK, Numbered, Orderly, WireTruthful, BatchTruthful, Grows, TypeOK',
         NEW x \in Intents, Accept(x), step[x] \notin Reported, x \in Own => step[x] = "sending"
  PROVE  BatchTruthful'
<1>1. ~EndLost /\ (connected \/ x \in Own) /\ UNCHANGED <<reading, terminals, turn, dispatchOf>>
  BY DEF Undisturbed, Accept
<1> SUFFICES ASSUME NEW z \in Intents, SaysRunning(z)', z \notin terminals
             PROVE  Followed(z)' \/ (z \in Own /\ dispatchOf'[z] < turn'.generation)
  BY <1>1 DEF BatchTruthful
<1>2. SaysRunning(z) /\ z # x /\ z # NoIntent /\ step[z] \in Reported
  BY <1>1, CliAssumption DEF SaysRunning, Numbered, Reports, Told, Intents
<1>3. ASSUME NEW t, InWire(Status(t, z))
      PROVE  InWire(Status(t, z))'
  BY <1>3, AcceptTells, BroadcastCarries DEF InWire, Status
<1>4. CASE runner # z
  BY <1>1, <1>2, <1>3, <1>4 DEF EndLost, Followed
<1>5. CASE runner = z /\ connected
  <2> DEFINE messages == Append(Interrupted, Status("running", x))
  <2>1. PICK j \in 1 .. Len(messages) : messages[j] = Status("terminal", z)
    BY <1>2, <1>5, AcceptTells
  <2>2. Len(wire) + j \in 1 .. Len(wire') /\ wire'[Len(wire) + j] = messages[j]
    BY <1>5, AcceptTells, BroadcastCarries
  <2> HIDE DEF messages
  <2> QED
    BY <2>1, <2>2 DEF Followed, InWire, Status
<1>6. CASE runner = z /\ ~connected
  <2>1. x \in Own /\ z \in Own /\ OnItsWay(x)
    BY <1>1, <1>6, CliAssumption DEF EndLost, Intents, OnItsWay
  <2>2. dispatchOf[z] <= dispatchOf[x] /\ dispatchOf[x] <= turn.generation
    BY <2>1 DEF Orderly, Ordered, Numbered, Generations
  <2>3. dispatchOf[z] # dispatchOf[x]
    BY <1>2, <2>1 DEF Numbered, Generations, Reported
  <2>4. dispatchOf[z] \in Nat /\ dispatchOf[x] \in Nat /\ turn.generation \in Nat
    BY <2>1 DEF TypeOK
  <2> QED
    BY <1>1, <2>1, <2>2, <2>3, <2>4
<1> QED
  BY <1>4, <1>5, <1>6

LEMMA BatchTruthfulStep ==
  ASSUME Undisturbed, TypeOK, Numbered, Answers, Orderly, WireTruthful, BatchTruthful,
         TypeOK', Answers', [Next]_vars
  PROVE  BatchTruthful'
<1>1. Grows /\ reading \in Readings /\ \A x \in Intents : x # NoIntent
  BY GrowsStep, CliAssumption DEF TypeOK, Intents
<1>2. ASSUME Tells, reading' = reading
      PROVE  BatchTruthful'
  <2>1. latest' = latest
    BY <1>2 DEF Tells
  <2> QED
    BY <1>1, <1>2, <2>1, TellsFollows, BatchTruthfulKept
<1>3. ASSUME reading'.intent = NoIntent
      PROVE  BatchTruthful'
  BY <1>1, <1>3 DEF BatchTruthful, SaysRunning
<1>4. ASSUME NEW x \in Own, Sending(x)
      PROVE  BatchTruthful'
  <2>1. CASE AcceptMessage(x)
    BY <1>1, <2>1, AcceptBatchTruthful DEF AcceptMessage, Reported, Intents
  <2>2. CASE ~AcceptMessage(x)
    <3>1. reading' = reading
      BY <1>4, <2>2
      DEF Sending, PrepareUserIntent, AppendFails, SendSuperseded, SendRefused,
          FailPreparation, SendMessage, RegisterReceipt, ConfirmSent, RefuseMessage
    <3> QED
      BY <1>2, <1>4, <2>2, <3>1, QuietTells DEF Sending
  <2> QED
    BY <2>1, <2>2
<1>5. ASSUME NEW x \in Foreign, ForeignSend(x)
      PROVE  BatchTruthful'
  BY <1>1, <1>5, AcceptBatchTruthful, CliAssumption DEF ForeignSend, Reported, Intents
<1>6. CASE \/ Stop \/ StopFailed \/ CancelAnswered \/ CancelSession \/ CancelTimesOut
           \/ Deadman \/ RunnerEnds \/ PlanGate \/ UNCHANGED vars
  <2>1. reading' = reading
    BY <1>6
    DEF Stop, StopFailed, CancelAnswered, CancelSession, CancelTimesOut, Deadman, RunnerEnds,
        PlanGate, vars
  <2> QED
    BY <1>2, <1>6, <2>1, QuietTells
<1>7. CASE BatchFails \/ ApplyBatch
  BY <1>3, <1>7 DEF BatchFails, ApplyBatch, NoReading
<1>8. CASE Reconnect \/ Reconcile
  <2>1. reading = NoReading
    BY <1>8 DEF Reconnect, Reconcile, Undisturbed
  <2>2. PICK repair \in BOOLEAN : Asks(repair)
    BY <1>8 DEF Reconnect, Reconcile
  <2>3. CASE reading' = reading
    BY <1>3, <2>1, <2>3 DEF NoReading
  <2>4. CASE reading' # reading
    <3>1. reading' = [at |-> "asked", repair |-> repair, intent |-> NoIntent, status |-> "none"]
      BY <2>1, <2>2, <2>4 DEF Asks, NoReading
    <3> QED
      BY <1>3, <3>1
  <2> QED
    BY <2>3, <2>4
<1>9. CASE ReadIntents
  <2>1. reading'.at = "intents" /\ reading'.intent = latest /\ latest' = latest
    BY <1>1, <1>9 DEF ReadIntents, Readings, backend
  <2> QED
    BY <2>1, <1>9 DEF BatchTruthful, SaysRunning, ReadIntents, Answers
<1>10. CASE ReadRows
  <2>1. /\ reading.at = "intents" /\ reading'.at = "answered" /\ reading'.status = row
        /\ reading'.intent = reading.intent /\ reading'.repair = reading.repair
        /\ UNCHANGED <<turn, dispatchOf, terminals, runner, latest, wire, connected>>
    BY <1>1, <1>10 DEF ReadRows, Readings, client, backend, link
  <2> SUFFICES ASSUME NEW x \in Intents, SaysRunning(x)', x \notin terminals,
                      ~(x \in Own /\ dispatchOf[x] < turn.generation)
               PROVE  Followed(x)'
    BY <2>1 DEF BatchTruthful
  <2>2. row = "running" /\ reading.intent = x
    BY <2>1 DEF SaysRunning
  <2>3. runner # NoIntent /\ runner = latest
    BY <2>2 DEF Answers, WireTruthful
  <2>4. Followed(x) \/ latest = x
    BY <2>2, <2>1 DEF BatchTruthful, SaysRunning
  <2>5. CASE latest = x
    BY <2>1, <2>3, <2>5 DEF Followed
  <2>6. CASE latest # x
    BY <2>1, <2>4, <2>6 DEF Followed, BatchTells, InWire, Status
  <2> QED
    BY <2>5, <2>6
<1>11. CASE Lose
  <2>1. /\ \A x \in Intents : SaysRunning(x) => x = latest
        /\ UNCHANGED <<reading, latest>> /\ connected' = FALSE
    BY <1>11 DEF Lose, Undisturbed, backend
  <2> QED
    BY <1>1, <2>1, BatchTruthfulKept DEF Followed, BatchTells
<1>12. CASE DeliverStatus
  <2>1. /\ connected /\ wire # <<>> /\ wire' = Tail(wire)
        /\ HandleStatus(Head(wire).status, Head(wire).intent)
        /\ UNCHANGED <<dispatchOf, step, connected, runner, latest, reading>>
        /\ \/ Head(wire).status = "running" \/ ~SaysRunning(Head(wire).intent)
           \/ ~PassedOver(Head(wire).intent)
    BY <1>12 DEF DeliverStatus, Undisturbed, backend
  <2>2. ASSUME NEW x \in Intents, SaysRunning(x), Followed(x)
        PROVE  Followed(x)' \/ x \in terminals'
    <3>1. CASE Head(wire) # Status("terminal", x)
      BY <2>1, <2>2, <3>1, TailCarries DEF Followed, BatchTells
    <3>2. CASE Head(wire) = Status("terminal", x)
      <4>1. HandleTerminal(x) /\ ~PassedOver(x)
        BY <2>1, <2>2, <3>2 DEF HandleStatus, Status
      <4>2. CASE x \in terminals
        BY <1>1, <4>2 DEF Grows
      <4>3. CASE x \notin terminals
        BY <1>1, <4>1, <4>3 DEF HandleTerminal, PassedOver
      <4> QED
        BY <4>2, <4>3
    <3> QED
      BY <3>1, <3>2
  <2> QED
    BY <1>1, <2>1, <2>2, BatchTruthfulKept
<1> QED
  BY <1>4, <1>5, <1>6, <1>7, <1>8, <1>9, <1>10, <1>11, <1>12 DEF Next

\* When nothing is on its way, nothing is tracked any more.
LEMMA QuietIsOver ==
  ASSUME TypeOK, Numbered, Orderly, Chased
  PROVE  NoStrandedTurn
<1> SUFFICES ASSUME Quiet, turn.phase = "working"
             PROVE  FALSE
  BY DEF NoStrandedTurn
<1>1. PICK z \in Intents : z = active.intent
  BY WorkingIsTracked
<1>2. Followed(z) \/ Overtaken
  BY <1>1 DEF Chased, Tracked
<1>3. z # NoIntent
  BY CliAssumption DEF Intents
<1>4. ~BatchTells(z)
  BY DEF Quiet, BatchTells, NoReading
<1> QED
  BY <1>2, <1>3, <1>4 DEF Quiet, Followed, Overtaken, InWire

\* A Session never stays working for a turn that is over: its end, or a batch
\* that tells of it, or the turn that follows it, is always on its way, as long
\* as none of the circumstances occurs.
THEOREM CliNoStrandedTurn ==
  ASSUME Circumstances = {}
  PROVE  Spec => []NoStrandedTurn
<1> DEFINE Sound == Orderly /\ WireTruthful /\ Steady /\ BatchTruthful /\ Chased
<1>1. Undisturbed /\ InTurn
  BY DEF Undisturbed, InTurn
<1>2. Init => Sound
  BY InitOrderly, InitWireTruthful, InitSteady, InitBatchTruthful, InitChased
<1>3. TypeOK /\ Numbered /\ Answers /\ Sound /\ [Next]_vars => Sound'
  <2> SUFFICES ASSUME TypeOK, Numbered, Answers, Sound, [Next]_vars
               PROVE  Sound'
    OBVIOUS
  <2>1. Numbered' /\ Orderly' /\ WireTruthful' /\ Steady'
    BY <1>1, NumberedStep, OrderlyStep, WireTruthfulStep, SteadyStep
  <2>2. TypeOK' /\ Answers'
    BY StepKept, AnswersStep DEF Kept
  <2>3. BatchTruthful'
    BY <1>1, <2>2, BatchTruthfulStep
  <2> QED
    BY <1>1, <2>1, <2>3, ChasedStep
<1>4. TypeOK /\ Numbered /\ Sound => NoStrandedTurn
  BY QuietIsOver
<1> HIDE DEF Sound
<1> QED
  BY <1>2, <1>3, <1>4, CliTyped, CliNumbered, PTL DEF Spec
=============================================================================
