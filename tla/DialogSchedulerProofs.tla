----------------------- MODULE DialogSchedulerProofs -----------------------
(***************************************************************************)
(* Proofs about DialogScheduler, for any number of messages, client ids    *)
(* and Stops, any capacity of the channel and any size of the registry of  *)
(* targeted cancellations.                                                 *)
(***************************************************************************)
EXTENDS DialogScheduler, FiniteSetTheorems, TLAPS

-----------------------------------------------------------------------------
(* Types. *)

\* Whatever a turn intent is asked to become, it stays an intent.
LEMMA UpdateIntentType ==
  ASSUME TypeOK, NEW m \in Msgs, NEW to \in IntentStatus, UpdateIntent(m, to)
  PROVE  intent' \in [Msgs -> IntentStatus]
BY DEF TypeOK, UpdateIntent

\* The ids that are left stay messages.
LEMMA ForgetType ==
  ASSUME TypeOK, NEW m, Forget(m)
  PROVE  ids' \in [Clients -> Msgs \cup {NoMsg}]
BY DEF TypeOK, Forget

\* The counter stays a counter.
LEMMA CounterType ==
  ASSUME TypeOK
  PROVE  /\ (pending + 1) % Wrap \in 0 .. (Wrap - 1)
         /\ (pending + Wrap - 1) % Wrap \in 0 .. (Wrap - 1)
         /\ (IF pending = 0 THEN 0 ELSE pending - 1) \in 0 .. (Wrap - 1)
<1>1. Wrap \in Nat \ {0} /\ pending \in 0 .. (Wrap - 1)
  BY MessageAssumption DEF TypeOK
<1>2. (pending + 1) % Wrap \in 0 .. (Wrap - 1)
  BY <1>1
<1>3. (pending + Wrap - 1) % Wrap \in 0 .. (Wrap - 1)
  BY <1>1
<1>4. (IF pending = 0 THEN 0 ELSE pending - 1) \in 0 .. (Wrap - 1)
  BY <1>1
<1> QED BY <1>2, <1>3, <1>4

\* Settling a delivery leaves both rows well formed.
LEMMA SettleType ==
  ASSUME TypeOK, NEW m \in Msgs, NEW to \in Outcomes, SettleDelivery(m, to)
  PROVE  /\ intent' \in [Msgs -> IntentStatus]
         /\ delivery' \in [Msgs -> {"none", "pending", "started"} \cup Outcomes]
<1>1. CASE delivery[m] \in {"pending", "started"}
  <2>1. delivery' = [delivery EXCEPT ![m] = to]
    BY <1>1 DEF SettleDelivery
  <2>2. intent' = [intent EXCEPT ![m] = IF @ \in {"queued", "running"} THEN to ELSE @]
    BY <1>1 DEF SettleDelivery
  <2>3. to \in IntentStatus
    BY DEF IntentStatus
  <2> QED BY <2>1, <2>2, <2>3 DEF TypeOK
<1>2. CASE delivery[m] \notin {"pending", "started"}
  BY <1>2 DEF SettleDelivery, rows, TypeOK
<1> QED BY <1>1, <1>2

\* The worker only ever changes its phase to another phase.
LEMMA GoType ==
  ASSUME TypeOK, NEW phase \in Phases, Go(phase)
  PROVE  worker' \in [msg : Msgs \cup {NoMsg}, phase : Phases, seen : IntentStatus,
                      outcome : Outcomes \cup {"none", "error", "excused"}]
BY DEF TypeOK, Go

\* An idle worker is a worker.
LEMMA NoWorkType ==
  NoWork \in [msg : Msgs \cup {NoMsg}, phase : Phases, seen : IntentStatus,
              outcome : Outcomes \cup {"none", "error", "excused"}]
BY DEF NoWork, Phases, IntentStatus

\* So is one that has given up.
LEMMA GiveUpType ==
  ASSUME TypeOK, worker.msg \in Msgs, NEW error \in {"error", "excused"},
         NEW outcome \in Outcomes, GiveUp(error, outcome)
  PROVE  /\ worker' \in [msg : Msgs \cup {NoMsg}, phase : Phases, seen : IntentStatus,
                         outcome : Outcomes \cup {"none", "error", "excused"}]
         /\ intent' \in [Msgs -> IntentStatus]
         /\ delivery' \in [Msgs -> {"none", "pending", "started"} \cup Outcomes]
<1>1. worker' = [worker EXCEPT !.phase = "closing", !.outcome = error]
  BY DEF GiveUp
<1>2. worker' \in [msg : Msgs \cup {NoMsg}, phase : Phases, seen : IntentStatus,
                   outcome : Outcomes \cup {"none", "error", "excused"}]
  BY <1>1 DEF TypeOK, Phases
<1>3. SettleDelivery(worker.msg, outcome)
  BY DEF GiveUp
<1> QED BY <1>2, <1>3, SettleType

\* A worker has a message unless it is idle, and a turn that has ended an outcome.
Employed ==
  /\ worker.phase = "idle" => worker.msg = NoMsg
  /\ worker.phase # "idle" => worker.msg \in Msgs
  /\ worker.phase \in {"ended", "finalizing"} => worker.outcome \in Outcomes
  /\ worker.phase = "closing" => worker.outcome # "none"

\* A call moves on.
LEMMA PassType ==
  ASSUME TypeOK, NEW m \in Msgs, NEW from, NEW to \in CallPoints, Pass(m, from, to)
  PROVE  sender' \in [Msgs -> CallPoints]
BY DEF TypeOK, Pass

\* The steps of a caller respect the types.
LEMMA CallerType ==
  ASSUME TypeOK, NEW m \in Msgs, CallerStep(m)
  PROVE  TypeOK'
<1>1. CASE LookAround(m)
  BY <1>1, PassType DEF LookAround, TypeOK, CallPoints, queue, control, session, rows,
                        stops, past
<1>2. CASE UpsertIntent(m)
  <2>1. sender' \in [Msgs -> CallPoints]
    BY <1>2, PassType DEF UpsertIntent, CallPoints
  <2>2. intent' \in [Msgs -> IntentStatus]
    BY <1>2 DEF UpsertIntent, TypeOK, IntentStatus
  <2>3. delivery' \in [Msgs -> {"none", "pending", "started"} \cup Outcomes]
    BY <1>2 DEF UpsertIntent, TypeOK
  <2> QED BY <1>2, <2>1, <2>2, <2>3 DEF UpsertIntent, TypeOK, queue, control, session,
                                        stops, past
<1>3. CASE PushSteering(m)
  BY <1>3, PassType DEF PushSteering, TypeOK, CallPoints, queue, control, rows, stops, past
<1>4. CASE Recheck(m)
  BY <1>4, PassType DEF Recheck, TypeOK, CallPoints, queue, control, session, rows, stops,
                        past
<1>5. CASE Reclaim(m)
  BY <1>5, PassType DEF Reclaim, TypeOK, CallPoints, queue, control, rows, stops, past
<1>6. CASE Deduplicate(m)
  <2>1. sender' \in [Msgs -> CallPoints]
    BY <1>6, PassType DEF Deduplicate, CallPoints
  <2>2. intent' \in [Msgs -> IntentStatus] /\ ids' \in [Clients -> Msgs \cup {NoMsg}]
    BY <1>6, UpdateIntentType DEF Deduplicate, TypeOK, IntentStatus
  <2> QED BY <1>6, <2>1, <2>2 DEF Deduplicate, TypeOK, control, session, stops, past
<1>7. CASE StampGeneration(m)
  BY <1>7, PassType DEF StampGeneration, TypeOK, CallPoints, queue, control, session,
                        rows, stops, past
<1>8. CASE CountPending(m)
  BY <1>8, PassType, CounterType DEF CountPending, TypeOK, CallPoints, control, session,
                                     rows, stops, past
<1>9. CASE TrySend(m)
  <2>1. sender' \in [Msgs -> CallPoints]
    BY <1>9, PassType DEF TrySend, CallPoints
  <2>2. channel' \in Seq(Msgs) /\ Len(channel') <= Capacity
    <3>1. channel \in Seq(Msgs) /\ Len(channel) \in Nat /\ Capacity \in Nat
      BY MessageAssumption DEF TypeOK
    <3>2. CASE Len(channel) < Capacity
      BY <1>9, <3>1, <3>2 DEF TrySend
    <3>3. CASE ~(Len(channel) < Capacity)
      BY <1>9, <3>3 DEF TrySend, TypeOK
    <3> QED BY <3>2, <3>3
  <2> QED BY <1>9, <2>1, <2>2 DEF TrySend, TypeOK, control, session, rows, stops, past
<1>10. CASE UncountPending(m)
  BY <1>10, PassType, CounterType DEF UncountPending, TypeOK, CallPoints, control, session,
                                      rows, stops, past
<1>11. CASE RejectMessage(m)
  <2>1. sender' \in [Msgs -> CallPoints]
    BY <1>11, PassType DEF RejectMessage, CallPoints
  <2>2. intent' \in [Msgs -> IntentStatus] /\ ids' \in [Clients -> Msgs \cup {NoMsg}]
    BY <1>11, UpdateIntentType, ForgetType DEF RejectMessage, IntentStatus
  <2> QED BY <1>11, <2>1, <2>2 DEF RejectMessage, TypeOK, control, session, stops, past
<1> QED BY <1>1, <1>2, <1>3, <1>4, <1>5, <1>6, <1>7, <1>8, <1>9, <1>10, <1>11
        DEF CallerStep

\* So do the steps of a Stop.
LEMMA StopType ==
  ASSUME TypeOK, NEW u \in Stops, StopStep(u)
  PROVE  TypeOK'
<1>1. stopper' \in [Stops -> StopPoints]
  <2>1. PICK from \in StopPoints : \E to \in StopPoints : Press(u, from, to)
    BY DEF StopStep, BumpGeneration, ZeroPending, ClearIds, MarkPendingStale,
           ClearSteering, SignalTurn, StopPoints
  <2>2. PICK to \in StopPoints : Press(u, from, to)
    BY <2>1
  <2> QED BY <2>2 DEF Press, TypeOK
<1>2. CASE BumpGeneration(u)
  BY <1>1, <1>2 DEF BumpGeneration, TypeOK, control, session, rows
<1>3. CASE ZeroPending(u)
  BY <1>1, <1>3, MessageAssumption DEF ZeroPending, TypeOK, control, session, rows, past
<1>4. CASE ClearIds(u)
  BY <1>1, <1>4 DEF ClearIds, TypeOK, control, session, rows, past
<1>5. CASE MarkPendingStale(u)
  BY <1>1, <1>5 DEF MarkPendingStale, TypeOK, IntentStatus, queue, control, session, past
<1>6. CASE ClearSteering(u)
  BY <1>1, <1>6 DEF ClearSteering, TypeOK, queue, control, rows, past
<1>7. CASE SignalTurn(u)
  BY <1>1, <1>7 DEF SignalTurn, TypeOK, queue, control, rows, past
<1> QED BY <1>2, <1>3, <1>4, <1>5, <1>6, <1>7 DEF StopStep

\* And those of an exact Stop.
LEMMA ExactStopType ==
  ASSUME TypeOK, NEW m \in Exact, ExactStopStep(m)
  PROVE  TypeOK'
<1>0. m \in Msgs
  BY MessageAssumption
<1>1. exactStop' \in [Exact -> {"idle", "persisted", "signalling", "late", "done"}]
  BY DEF ExactStopStep, PersistStop, InvalidateTurn, SignalExactTurn, Name, TypeOK
<1>2. CASE PersistStop(m)
  <2>1. /\ intent' \in [Msgs -> IntentStatus]
        /\ delivery' \in [Msgs -> {"none", "pending", "started"} \cup Outcomes]
    <3>1. CASE delivery[m] = "pending"
      BY <1>0, <1>2, <3>1, SettleType DEF PersistStop, Outcomes
    <3>2. CASE delivery[m] # "pending"
      BY <1>2, <3>2 DEF PersistStop, rows, TypeOK
    <3> QED BY <3>1, <3>2
  <2> QED BY <1>1, <1>2, <2>1 DEF PersistStop, TypeOK, queue, control, session, past
<1>3. CASE InvalidateTurn(m)
  <2>1. cancelled' \subseteq Exact
    BY <1>3 DEF InvalidateTurn, TypeOK
  <2> QED BY <1>1, <1>3, <2>1 DEF InvalidateTurn, TypeOK, queue, session, rows, past
<1>4. CASE SignalExactTurn(m)
  BY <1>1, <1>4 DEF SignalExactTurn, TypeOK, queue, control, rows, past
<1> QED BY <1>2, <1>3, <1>4 DEF ExactStopStep

\* The scheduler's half of the worker.
ScheduleStep ==
  \/ Receive \/ ClaimTurn \/ DropNamed \/ CheckGeneration \/ DropStale
  \/ BeginProcessing \/ WriteIntent

\* The executor, and what follows it.
ExecuteStep ==
  \/ ClearFlag \/ PromoteTurn \/ AskAgain \/ BeginTurn \/ DrainSteering
  \/ \E outcome \in Outcomes : FinishLoop(outcome)
  \/ EndTurn \/ FinalizeSession \/ CloseIntent \/ Release

\* The first half of the worker respects the types.
LEMMA ScheduleType ==
  ASSUME TypeOK, Employed, ScheduleStep
  PROVE  TypeOK' /\ Employed'
<1> USE DEF At
<1>1. CASE Receive
  <2>1. Head(channel) \in Msgs /\ Tail(channel) \in Seq(Msgs)
        /\ Len(Tail(channel)) <= Capacity
    BY <1>1, MessageAssumption DEF Receive, TypeOK
  <2>2. worker' = [NoWork EXCEPT !.msg = Head(channel), !.phase = "received"]
    BY <1>1 DEF Receive
  <2>3. worker' \in [msg : Msgs \cup {NoMsg}, phase : Phases, seen : IntentStatus,
                     outcome : Outcomes \cup {"none", "error", "excused"}]
    BY <2>1, <2>2, NoWorkType DEF Phases
  <2>4. Employed'
    BY <2>1, <2>2 DEF Employed, NoWork
  <2> QED BY <1>1, <2>1, <2>3, <2>4 DEF Receive, TypeOK, control, session, rows, stops, past
<1>2. CASE ClaimTurn
  <2>1. worker.msg \in Msgs
    BY <1>2 DEF ClaimTurn, Employed
  <2>2. PICK phase \in {"named", "claimed"} : Go(phase)
    BY <1>2 DEF ClaimTurn
  <2>3. worker' \in [msg : Msgs \cup {NoMsg}, phase : Phases, seen : IntentStatus,
                     outcome : Outcomes \cup {"none", "error", "excused"}]
    BY <2>2, GoType DEF Phases
  <2>4. Employed'
    BY <2>1, <2>2 DEF Go, Employed, TypeOK
  <2>5. current' \in Msgs \cup {NoMsg} /\ cancelled' \subseteq Exact /\ dropped' \subseteq Msgs
    BY <1>2, <2>1 DEF ClaimTurn, TypeOK
  <2> QED BY <1>2, <2>3, <2>4, <2>5 DEF ClaimTurn, TypeOK, queue, session, rows, stops
<1>3. CASE DropNamed
  <2>1. worker.msg \in Msgs
    BY <1>3 DEF DropNamed, Employed
  <2>2. intent' \in [Msgs -> IntentStatus] /\ ids' \in [Clients -> Msgs \cup {NoMsg}]
    BY <1>3, <2>1, UpdateIntentType, ForgetType DEF DropNamed, IntentStatus, Outcomes
  <2>3. pending' \in 0 .. (Wrap - 1)
    BY <1>3, CounterType DEF DropNamed, Discount
  <2>4. Employed'
    BY <1>3 DEF DropNamed, Employed, NoWork
  <2> QED BY <1>3, <2>2, <2>3, <2>4, NoWorkType
          DEF DropNamed, TypeOK, control, session, stops, past
<1>4. CASE CheckGeneration
  <2>1. worker.msg \in Msgs
    BY <1>4 DEF CheckGeneration, Employed
  <2>2. PICK phase \in {"fresh", "stale"} : Go(phase)
    BY <1>4 DEF CheckGeneration
  <2>3. worker' \in [msg : Msgs \cup {NoMsg}, phase : Phases, seen : IntentStatus,
                     outcome : Outcomes \cup {"none", "error", "excused"}]
    BY <2>2, GoType DEF Phases
  <2>4. Employed'
    BY <2>1, <2>2 DEF Go, Employed, TypeOK
  <2>5. begun' \subseteq Msgs /\ dropped' \subseteq Msgs
    BY <1>4, <2>1 DEF CheckGeneration, TypeOK
  <2> QED BY <1>4, <2>3, <2>4, <2>5
          DEF CheckGeneration, TypeOK, queue, control, session, rows, stops
<1>5. CASE DropStale
  <2>1. worker.msg \in Msgs
    BY <1>5 DEF DropStale, Employed
  <2>2. intent' \in [Msgs -> IntentStatus] /\ ids' \in [Clients -> Msgs \cup {NoMsg}]
    BY <1>5, <2>1, UpdateIntentType, ForgetType DEF DropStale, IntentStatus
  <2>3. Employed'
    BY <1>5 DEF DropStale, Employed, NoWork
  <2> QED BY <1>5, <2>2, <2>3, NoWorkType DEF DropStale, TypeOK, session, stops, past
<1>6. CASE BeginProcessing
  <2>1. worker.msg \in Msgs
    BY <1>6 DEF BeginProcessing, Employed
  <2>2. pending' \in 0 .. (Wrap - 1)
    BY <1>6, CounterType DEF BeginProcessing, Discount
  <2>3. worker' = [worker EXCEPT !.phase = "promoting", !.seen = intent[worker.msg]]
    BY <1>6 DEF BeginProcessing
  <2>4. worker' \in [msg : Msgs \cup {NoMsg}, phase : Phases, seen : IntentStatus,
                     outcome : Outcomes \cup {"none", "error", "excused"}]
    BY <2>1, <2>3 DEF TypeOK, Phases
  <2>5. Employed'
    BY <2>1, <2>3 DEF Employed, TypeOK
  <2> QED BY <1>6, <2>2, <2>4, <2>5
          DEF BeginProcessing, TypeOK, control, rows, stops, past
<1>7. CASE WriteIntent
  <2>1. worker.msg \in Msgs
    BY <1>7 DEF WriteIntent, Employed
  <2>2. Go("begun")
    BY <1>7 DEF WriteIntent
  <2>3. intent' \in [Msgs -> IntentStatus]
    BY <1>7, <2>1 DEF WriteIntent, TypeOK, IntentStatus
  <2>4. worker' \in [msg : Msgs \cup {NoMsg}, phase : Phases, seen : IntentStatus,
                     outcome : Outcomes \cup {"none", "error", "excused"}]
    BY <2>2, GoType DEF Phases
  <2>5. Employed'
    BY <2>1, <2>2 DEF Go, Employed, TypeOK
  <2> QED BY <1>7, <2>3, <2>4, <2>5
          DEF WriteIntent, TypeOK, queue, control, session, stops, past
<1> QED BY <1>1, <1>2, <1>3, <1>4, <1>5, <1>6, <1>7 DEF ScheduleStep

\* A turn that goes on is still somebody's.
LEMMA GoEmployed ==
  ASSUME TypeOK, worker.msg \in Msgs, NEW phase, Go(phase),
         phase \notin {"idle", "ended", "finalizing", "closing"}
  PROVE  Employed' /\ worker'.msg = worker.msg
BY DEF Go, Employed, TypeOK

\* The second half does, too.
LEMMA ExecuteType ==
  ASSUME TypeOK, Employed, ExecuteStep
  PROVE  TypeOK' /\ Employed'
<1> USE DEF At
<1>0. worker.msg \in Msgs
  BY DEF ExecuteStep, ClearFlag, PromoteTurn, AskAgain, BeginTurn, DrainSteering,
         FinishLoop, EndTurn, FinalizeSession, CloseIntent, Release, Employed
<1>1. ASSUME NEW error \in {"error", "excused"}, NEW outcome \in Outcomes,
             GiveUp(error, outcome)
      PROVE  Employed'
  BY <1>0, <1>1 DEF GiveUp, Employed, TypeOK
<1>2. CASE ClearFlag
  <2>1. CASE StoppedByName(worker.msg)
    <3>1. GiveUp("excused", "cancelled") /\ UNCHANGED flag
      BY <1>2, <2>1 DEF ClearFlag
    <3> QED BY <1>0, <1>1, <1>2, <3>1, GiveUpType
            DEF ClearFlag, TypeOK, Outcomes, queue, control, stops, past
  <2>2. CASE ~StoppedByName(worker.msg)
    <3>1. Go("cleared") /\ flag' = FALSE /\ UNCHANGED rows
      BY <1>2, <2>2 DEF ClearFlag
    <3> QED BY <1>0, <1>2, <3>1, GoType, GoEmployed
            DEF ClearFlag, TypeOK, Phases, queue, control, rows, stops, past
  <2> QED BY <2>1, <2>2
<1>3. CASE PromoteTurn
  <2>1. CASE \E error \in {"error", "excused"} : GiveUp(error, "failed")
    BY <1>0, <1>1, <1>3, <2>1, GiveUpType
       DEF PromoteTurn, TypeOK, Outcomes, queue, control, session, stops, past
  <2>2. CASE ~(\E error \in {"error", "excused"} : GiveUp(error, "failed"))
    <3>1. /\ delivery' = [delivery EXCEPT ![worker.msg] =
                            IF worker.msg \in Exact THEN "started" ELSE @]
          /\ Go("promoted") /\ UNCHANGED intent
      BY <1>3, <2>2 DEF PromoteTurn
    <3>2. delivery' \in [Msgs -> {"none", "pending", "started"} \cup Outcomes]
      BY <3>1 DEF TypeOK
    <3> QED BY <1>0, <1>3, <3>1, <3>2, GoType, GoEmployed
            DEF PromoteTurn, TypeOK, Phases, queue, control, session, stops, past
  <2> QED BY <2>1, <2>2
<1>4. CASE AskAgain
  <2>1. CASE StoppedByName(worker.msg)
    <3>1. GiveUp("excused", "cancelled")
      BY <1>4, <2>1 DEF AskAgain
    <3> QED BY <1>0, <1>1, <1>4, <3>1, GiveUpType
            DEF AskAgain, TypeOK, Outcomes, queue, control, session, stops, past
  <2>2. CASE ~StoppedByName(worker.msg)
    <3>1. Go("installing") /\ UNCHANGED rows
      BY <1>4, <2>2 DEF AskAgain
    <3> QED BY <1>0, <1>4, <3>1, GoType, GoEmployed
            DEF AskAgain, TypeOK, Phases, queue, control, session, rows, stops, past
  <2> QED BY <2>1, <2>2
<1>5. CASE BeginTurn
  <2>1. flag' \in BOOLEAN
    BY <1>5 DEF BeginTurn, TypeOK
  <2> QED BY <1>0, <1>5, <2>1, GoType, GoEmployed
          DEF BeginTurn, TypeOK, Phases, queue, control, rows, stops, past
<1>6. CASE DrainSteering
  <2>1. intent' \in [Msgs -> IntentStatus]
    BY <1>6 DEF DrainSteering, TypeOK, IntentStatus, Outcomes
  <2> QED BY <1>6, <2>1 DEF DrainSteering, TypeOK, Employed, queue, control, stops, past
<1>7. ASSUME NEW outcome \in Outcomes, FinishLoop(outcome)
      PROVE  TypeOK' /\ Employed'
  <2>1. worker' = [worker EXCEPT !.phase = "ended", !.outcome = outcome]
    BY <1>7 DEF FinishLoop
  <2>2. /\ worker' \in [msg : Msgs \cup {NoMsg}, phase : Phases, seen : IntentStatus,
                     outcome : Outcomes \cup {"none", "error", "excused"}]
        /\ Employed'
    BY <1>0, <2>1 DEF TypeOK, Phases, Employed
  <2> QED BY <1>7, <2>2 DEF FinishLoop, TypeOK, queue, control, session, rows, stops, past
<1>8. CASE EndTurn
  <2>1. Go("finalizing") /\ worker.outcome \in Outcomes
    BY <1>8 DEF EndTurn, Employed
  <2>2. Employed'
    BY <1>0, <2>1 DEF Employed, Go, TypeOK
  <2> QED BY <1>0, <1>8, <2>1, <2>2, GoType
          DEF EndTurn, TypeOK, Phases, queue, control, rows, stops, past
<1>9. CASE FinalizeSession
  <2>1. Go("closing") /\ worker.outcome \in Outcomes
    BY <1>9 DEF FinalizeSession, Employed
  <2>2. /\ intent' \in [Msgs -> IntentStatus]
        /\ delivery' \in [Msgs -> {"none", "pending", "started"} \cup Outcomes]
    BY <1>0, <1>9, <2>1, SettleType DEF FinalizeSession
  <2>3. Employed'
    BY <1>0, <2>1 DEF Employed, Go, TypeOK, Outcomes
  <2> QED BY <1>0, <1>9, <2>1, <2>2, <2>3, GoType
          DEF FinalizeSession, TypeOK, Phases, queue, control, stops, past
<1>10. CASE CloseIntent
  <2>1. intent' \in [Msgs -> IntentStatus]
    <3>1. worker.outcome \in Outcomes \cup {"error", "excused"}
      BY <1>10 DEF CloseIntent, Employed, TypeOK
    <3>2. CASE UNCHANGED intent
      BY <3>2 DEF TypeOK
    <3>3. CASE ~UNCHANGED intent
      <4>1. PICK to \in Outcomes : UpdateIntent(worker.msg, to)
        BY <1>10, <3>1, <3>3 DEF CloseIntent, Outcomes
      <4> QED BY <1>0, <4>1, UpdateIntentType DEF IntentStatus
    <3> QED BY <3>2, <3>3
  <2> QED BY <1>0, <1>10, <2>1, GoType, GoEmployed
          DEF CloseIntent, TypeOK, Phases, queue, control, session, stops, past
<1>11. CASE Release
  <2>1. current' \in Msgs \cup {NoMsg} /\ cancelled' \subseteq Exact
    BY <1>11 DEF Release, TypeOK
  <2>2. ids' \in [Clients -> Msgs \cup {NoMsg}] /\ Employed'
    BY <1>11, ForgetType DEF Release, Employed, NoWork
  <2> QED BY <1>11, <2>1, <2>2, NoWorkType DEF Release, TypeOK, rows, stops, past
<1> QED BY <1>2, <1>3, <1>4, <1>5, <1>6, <1>7, <1>8, <1>9, <1>10, <1>11 DEF ExecuteStep

\* The state always has the types of the code, and a worker that is not idle has a
\* message.
THEOREM TypeCorrect == Spec => [](TypeOK /\ Employed)
<1>1. Init => TypeOK /\ Employed
  <2> SUFFICES ASSUME Init PROVE TypeOK /\ Employed
    OBVIOUS
  <2>1. channel \in Seq(Msgs) /\ Len(channel) <= Capacity /\ pending \in 0 .. (Wrap - 1)
    BY MessageAssumption DEF Init
  <2>2. /\ intent \in [Msgs -> IntentStatus]
        /\ delivery \in [Msgs -> {"none", "pending", "started"} \cup Outcomes]
    BY DEF Init, IntentStatus
  <2>3. Employed
    BY DEF Init, Employed, NoWork
  <2> QED BY <2>1, <2>2, <2>3, NoWorkType DEF Init, TypeOK, CallPoints, StopPoints
<1>2. TypeOK /\ Employed /\ [Next]_vars => TypeOK' /\ Employed'
  <2> SUFFICES ASSUME TypeOK, Employed, [Next]_vars PROVE TypeOK' /\ Employed'
    OBVIOUS
  <2>1. ASSUME NEW m \in Msgs, CallerStep(m) PROVE TypeOK' /\ Employed'
    <3>1. worker' = worker
      BY <2>1 DEF CallerStep, LookAround, UpsertIntent, PushSteering, Recheck, Reclaim,
                  Deduplicate, StampGeneration, CountPending, TrySend, UncountPending,
                  RejectMessage
    <3> QED BY <2>1, <3>1, CallerType DEF Employed
  <2>2. CASE WorkerStep
    BY <2>2, ScheduleType, ExecuteType DEF WorkerStep, ScheduleStep, ExecuteStep
  <2>3. ASSUME NEW u \in Stops, StopStep(u) PROVE TypeOK' /\ Employed'
    <3>1. worker' = worker
      BY <2>3 DEF StopStep, BumpGeneration, ZeroPending, ClearIds, MarkPendingStale,
                  ClearSteering, SignalTurn
    <3> QED BY <2>3, <3>1, StopType DEF Employed
  <2>4. ASSUME NEW m \in Exact, ExactStopStep(m) PROVE TypeOK' /\ Employed'
    <3>1. worker' = worker
      BY <2>4 DEF ExactStopStep, PersistStop, InvalidateTurn, SignalExactTurn
    <3> QED BY <2>4, <3>1, ExactStopType DEF Employed
  <2>5. CASE UNCHANGED vars
    BY <2>5 DEF vars, queue, control, session, rows, stops, past, TypeOK, Employed
  <2> QED BY <2>1, <2>2, <2>3, <2>4, <2>5 DEF Next
<1> QED BY <1>1, <1>2, PTL DEF Spec

-----------------------------------------------------------------------------
(* What a Stop found waiting never starts. *)

\* No message is of a generation to come; what a Stop found is of one that is over.
StampInv ==
  /\ \A m \in Msgs : stamp[m] <= generation
  /\ \A m \in doomed :
       /\ stamp[m] < generation
       /\ sender[m] \in {"stamped", "counted", "full", "uncounted", "rejected", "sent"}
  /\ StoppedNeverStarts

\* A call that has its generation keeps it, and never comes back for another.
LEMMA CallerKeepsStamp ==
  ASSUME TypeOK, StampInv, NEW m \in Msgs, CallerStep(m)
  PROVE  StampInv'
<1> DEFINE Late == {"stamped", "counted", "full", "uncounted", "rejected", "sent"}
<1>1. generation' = generation /\ past' = past
  BY DEF CallerStep, LookAround, UpsertIntent, PushSteering, Recheck, Reclaim, Deduplicate,
         StampGeneration, CountPending, TrySend, UncountPending, RejectMessage, queue
<1>2. CASE StampGeneration(m)
  <2>1. Pass(m, "unique", "stamped") /\ stamp' = [stamp EXCEPT ![m] = generation]
    BY <1>2 DEF StampGeneration
  <2>2. m \notin doomed
    BY <2>1 DEF Pass, StampInv
  <2> QED BY <1>1, <2>1, <2>2 DEF Pass, StampInv, TypeOK, past, StoppedNeverStarts
<1>3. CASE ~StampGeneration(m)
  <2>1. stamp' = stamp
    BY <1>3 DEF CallerStep, LookAround, UpsertIntent, PushSteering, Recheck, Reclaim,
                Deduplicate, CountPending, TrySend, UncountPending, RejectMessage, queue
  <2>2. \A n \in Msgs : sender[n] \in Late => sender'[n] \in Late
    BY <1>3 DEF CallerStep, LookAround, UpsertIntent, PushSteering, Recheck, Reclaim,
                Deduplicate, CountPending, TrySend, UncountPending, RejectMessage, Pass,
                TypeOK
  <2>3. doomed \subseteq Msgs
    BY DEF TypeOK
  <2> QED BY <1>1, <2>1, <2>2, <2>3 DEF StampInv, past, StoppedNeverStarts
<1> QED BY <1>2, <1>3

\* Every step keeps the generations in order.
LEMMA StampStep ==
  ASSUME TypeOK, Employed, StampInv, [Next]_vars
  PROVE  StampInv'
<1>1. ASSUME NEW m \in Msgs, CallerStep(m) PROVE StampInv'
  BY <1>1, CallerKeepsStamp
<1>2. CASE WorkerStep
  <2>1. stamp' = stamp /\ generation' = generation /\ sender' = sender /\ doomed' = doomed
    BY <1>2 DEF WorkerStep, Receive, ClaimTurn, DropNamed, CheckGeneration, DropStale,
                BeginProcessing, WriteIntent, ClearFlag, PromoteTurn, AskAgain, BeginTurn,
                DrainSteering, FinishLoop, EndTurn, FinalizeSession, CloseIntent, Release,
                queue, past
  <2>2. CASE CheckGeneration
    <3>1. worker.msg \in Msgs
      BY <2>2 DEF CheckGeneration, At, Employed
    <3>2. CASE stamp[worker.msg] = generation
      <4>1. worker.msg \notin doomed
        BY <3>1, <3>2 DEF StampInv, TypeOK
      <4> QED BY <2>1, <2>2, <3>2, <4>1 DEF CheckGeneration, StampInv, StoppedNeverStarts
    <3>3. CASE stamp[worker.msg] # generation
      BY <2>1, <2>2, <3>3 DEF CheckGeneration, StampInv, StoppedNeverStarts
    <3> QED BY <3>2, <3>3
  <2>3. CASE ~CheckGeneration
    <3>1. begun' = begun
      BY <1>2, <2>3 DEF WorkerStep, Receive, ClaimTurn, DropNamed, DropStale,
                BeginProcessing, WriteIntent, ClearFlag, PromoteTurn, AskAgain, BeginTurn,
                DrainSteering, FinishLoop, EndTurn, FinalizeSession, CloseIntent, Release,
                past
    <3> QED BY <2>1, <3>1 DEF StampInv, StoppedNeverStarts
  <2> QED BY <2>2, <2>3
<1>3. ASSUME NEW u \in Stops, StopStep(u) PROVE StampInv'
  <2>1. stamp' = stamp /\ sender' = sender /\ begun' = begun
    BY <1>3 DEF StopStep, BumpGeneration, ZeroPending, ClearIds, MarkPendingStale,
                ClearSteering, SignalTurn, queue, past
  <2>2. CASE BumpGeneration(u)
    <3>1. /\ generation' = generation + 1
          /\ doomed' = doomed \cup {m \in Msgs : Waiting(m)}
      BY <2>2 DEF BumpGeneration
    <3>2. \A m \in Msgs : stamp[m] < generation'
      BY <3>1 DEF StampInv, TypeOK
    <3>3. \A m \in Msgs : Waiting(m) =>
            /\ m \notin begun
            /\ sender[m] \in {"stamped", "counted", "full", "uncounted", "rejected", "sent"}
      BY DEF Waiting
    <3>4. doomed' \subseteq Msgs
      BY <3>1 DEF TypeOK
    <3>5. \A m \in Msgs : stamp'[m] <= generation'
      BY <2>1, <3>1 DEF StampInv, TypeOK
    <3>6. begun' \cap doomed' = {}
      BY <2>1, <3>1, <3>3 DEF StampInv, StoppedNeverStarts
    <3>7. \A m \in doomed' :
            sender'[m] \in {"stamped", "counted", "full", "uncounted", "rejected", "sent"}
      BY <2>1, <3>1, <3>3 DEF StampInv
    <3> QED BY <2>1, <3>2, <3>4, <3>5, <3>6, <3>7 DEF StampInv, StoppedNeverStarts
  <2>3. CASE ~BumpGeneration(u)
    <3>1. generation' = generation /\ doomed' = doomed
      BY <1>3, <2>3 DEF StopStep, ZeroPending, ClearIds, MarkPendingStale, ClearSteering,
                        SignalTurn, queue, past
    <3> QED BY <2>1, <3>1 DEF StampInv, StoppedNeverStarts
  <2> QED BY <2>2, <2>3
<1>4. ASSUME NEW m \in Exact, ExactStopStep(m) PROVE StampInv'
  BY <1>4 DEF ExactStopStep, PersistStop, InvalidateTurn, SignalExactTurn, queue, past,
              StampInv, StoppedNeverStarts
<1>5. CASE UNCHANGED vars
  BY <1>5 DEF vars, queue, past, StampInv, StoppedNeverStarts
<1> QED BY <1>1, <1>2, <1>3, <1>4, <1>5 DEF Next

\* What a Stop found waiting never starts, wherever it was.
THEOREM StoppedStaysStopped == Spec => []StoppedNeverStarts
<1>1. Init => StampInv
  BY DEF Init, StampInv, StoppedNeverStarts
<1>2. TypeOK /\ Employed /\ StampInv /\ [Next]_vars => StampInv'
  BY StampStep
<1>3. StampInv => StoppedNeverStarts
  BY DEF StampInv
<1> QED BY <1>1, <1>2, <1>3, TypeCorrect, PTL DEF Spec

-----------------------------------------------------------------------------
(* An exact Stop is not lost. *)

\* The message that the registry spares is the one whose turn the worker executes.
CurrentInv ==
  worker.phase \notin {"idle", "received", "named"} => current = worker.msg

StartedPhases == {"promoted", "installing", "running", "ended", "finalizing"}

\* A delivery is begun once, by the turn that executes, and a Stop that comes first
\* has settled it: this is the fence.
DeliveryInv ==
  \A m \in Exact :
    /\ sender[m] \notin {"steering", "pushing", "rechecking", "reclaiming"}
    /\ delivery[m] # "none" => sender[m] \notin {"new", "admitting"}
    /\ exactStop[m] # "idle" => delivery[m] \notin {"none", "pending"}
    /\ delivery[m] = "started" <=> worker.msg = m /\ worker.phase \in StartedPhases

\* A Stop that comes after the fence is in the registry until the turn can be
\* signalled, and signalled from then on.
SignalInv ==
  /\ worker.phase \in {"promoted", "installing"} /\ worker.msg \in Exact
       /\ exactStop[worker.msg] \in {"signalling", "done"} => worker.msg \in cancelled
  /\ worker.phase = "running" => active = worker.msg
  /\ NamedStopHolds

\* Where the worker is after each step of its first half, and with which message.
LEMMA ScheduleMove ==
  ASSUME TypeOK, ScheduleStep
  PROVE  \/ worker'.phase \in {"idle", "received", "named"}
         \/ /\ worker'.phase \in {"claimed", "fresh", "stale", "promoting", "begun"}
            /\ worker'.msg = worker.msg
            /\ worker.phase = "received" => current' = worker.msg
            /\ worker.phase # "received" => current' = current
            /\ worker.phase \notin {"idle", "named"}
<1>0. ASSUME NEW phase, Go(phase) PROVE worker'.phase = phase /\ worker'.msg = worker.msg
  BY <1>0 DEF Go, TypeOK
<1>1. CASE Receive
  BY <1>1 DEF Receive, NoWork
<1>2. CASE ClaimTurn
  BY <1>0, <1>2 DEF ClaimTurn, At
<1>3. CASE DropNamed
  BY <1>3 DEF DropNamed, NoWork
<1>4. CASE CheckGeneration
  BY <1>0, <1>4 DEF CheckGeneration, At, control
<1>5. CASE DropStale
  BY <1>5 DEF DropStale, NoWork
<1>6. CASE BeginProcessing
  BY <1>6 DEF BeginProcessing, At, control, TypeOK
<1>7. CASE WriteIntent
  BY <1>0, <1>7 DEF WriteIntent, At, control
<1> QED BY <1>1, <1>2, <1>3, <1>4, <1>5, <1>6, <1>7 DEF ScheduleStep

\* The first half of the worker is over before a delivery is begun.
LEMMA ScheduleFrame ==
  ASSUME TypeOK, ScheduleStep
  PROVE  /\ UNCHANGED <<sender, delivery, exactStop, flag, active>>
         /\ worker.phase \notin StartedPhases
         /\ worker'.phase \notin StartedPhases
<1>1. UNCHANGED <<sender, delivery, exactStop, flag, active>>
  BY DEF ScheduleStep, Receive, ClaimTurn, DropNamed, CheckGeneration, DropStale,
         BeginProcessing, WriteIntent, session, rows, stops
<1>2. worker.phase \notin StartedPhases
  BY DEF ScheduleStep, Receive, ClaimTurn, DropNamed, CheckGeneration, DropStale,
         BeginProcessing, WriteIntent, At, StartedPhases
<1>3. worker'.phase \notin StartedPhases
  BY ScheduleMove DEF StartedPhases
<1> QED BY <1>1, <1>2, <1>3

\* A call and the two kinds of Stop leave the worker alone.
LEMMA WorkerFrame ==
  ASSUME \/ \E m \in Msgs : CallerStep(m)
         \/ \E u \in Stops : StopStep(u)
         \/ \E m \in Exact : ExactStopStep(m)
  PROVE  UNCHANGED <<worker, current, active>>
<1>1. ASSUME NEW m \in Msgs, CallerStep(m) PROVE UNCHANGED <<worker, current, active>>
  BY <1>1 DEF CallerStep, LookAround, UpsertIntent, PushSteering, Recheck, Reclaim,
              Deduplicate, StampGeneration, CountPending, TrySend, UncountPending,
              RejectMessage, control, session
<1>2. ASSUME NEW u \in Stops, StopStep(u) PROVE UNCHANGED <<worker, current, active>>
  BY <1>2 DEF StopStep, BumpGeneration, ZeroPending, ClearIds, MarkPendingStale,
              ClearSteering, SignalTurn, control, session
<1>3. ASSUME NEW m \in Exact, ExactStopStep(m) PROVE UNCHANGED <<worker, current, active>>
  BY <1>3 DEF ExactStopStep, PersistStop, InvalidateTurn, SignalExactTurn, control, session
<1> QED BY <1>1, <1>2, <1>3

\* The worker claims a turn before it does anything with it, and releases it last.
LEMMA CurrentStep ==
  ASSUME TypeOK, CurrentInv, [Next]_vars
  PROVE  CurrentInv'
<1>1. CASE ScheduleStep
  BY <1>1, ScheduleMove DEF CurrentInv
<1>2. CASE ExecuteStep
  <2>1. CASE Release
    BY <2>1 DEF Release, NoWork, CurrentInv
  <2>2. CASE ~Release
    <3>1. current' = current /\ worker'.msg = worker.msg
          /\ worker.phase \notin {"idle", "received", "named"}
      BY <1>2, <2>2 DEF ExecuteStep, ClearFlag, PromoteTurn, AskAgain, BeginTurn,
            DrainSteering, FinishLoop, EndTurn, FinalizeSession, CloseIntent, GiveUp, Go,
            At, TypeOK, control
    <3> QED BY <3>1 DEF CurrentInv
  <2> QED BY <2>1, <2>2
<1>3. CASE UNCHANGED <<worker, current, active>>
  BY <1>3 DEF CurrentInv
<1>4. CASE UNCHANGED vars
  BY <1>4 DEF vars, control, CurrentInv
<1> QED BY <1>1, <1>2, <1>3, <1>4, WorkerFrame
        DEF Next, WorkerStep, ScheduleStep, ExecuteStep

\* A mention is submitted once, and only then has a delivery.
LEMMA DeliveryCaller ==
  ASSUME TypeOK, DeliveryInv, NEW m \in Msgs, CallerStep(m)
  PROVE  DeliveryInv'
<1>1. worker' = worker /\ exactStop' = exactStop
  BY DEF CallerStep, LookAround, UpsertIntent, PushSteering, Recheck, Reclaim, Deduplicate,
         StampGeneration, CountPending, TrySend, UncountPending, RejectMessage, stops
<1>2. ASSUME NEW n \in Exact
      PROVE  /\ n \in Msgs /\ n \notin Steerable
             /\ sender[n] \notin {"steering", "pushing", "rechecking", "reclaiming"}
             /\ delivery[n] # "none" => sender[n] \notin {"new", "admitting"}
             /\ exactStop[n] # "idle" => delivery[n] \notin {"none", "pending"}
             /\ delivery[n] = "started" <=> worker.msg = n /\ worker.phase \in StartedPhases
  BY MessageAssumption DEF DeliveryInv
<1>3. CASE UpsertIntent(m)
  <2>1. delivery' = [delivery EXCEPT ![m] = IF m \in Exact THEN "pending" ELSE @]
    BY <1>3 DEF UpsertIntent
  <2>2. CASE m \in Exact
    <3>1. sender[m] = "admitting" /\ sender' = [sender EXCEPT ![m] = "admitted"]
      BY <1>2, <1>3, <2>2 DEF UpsertIntent, Pass
    <3>2. delivery[m] = "none" /\ exactStop[m] = "idle"
      BY <1>2, <2>2, <3>1
    <3> QED BY <1>1, <1>2, <2>1, <3>1, <3>2 DEF DeliveryInv, TypeOK
  <2>3. CASE m \notin Exact
    <3>1. \A n \in Exact : sender'[n] = sender[n] /\ delivery'[n] = delivery[n]
      BY <1>2, <1>3, <2>1, <2>3 DEF UpsertIntent, Pass, TypeOK
    <3> QED BY <1>1, <1>2, <3>1 DEF DeliveryInv
  <2> QED BY <2>2, <2>3
<1>4. CASE ~UpsertIntent(m)
  <2>1. delivery' = delivery
    BY <1>4 DEF CallerStep, LookAround, PushSteering, Recheck, Reclaim, Deduplicate,
                StampGeneration, CountPending, TrySend, UncountPending, RejectMessage, rows
  <2>2. ASSUME NEW n \in Exact
        PROVE  /\ sender'[n] \notin {"steering", "pushing", "rechecking", "reclaiming"}
               /\ sender'[n] \in {"new", "admitting"} => sender[n] \in {"new", "admitting"}
    BY <1>2, <1>4 DEF CallerStep, LookAround, PushSteering, Recheck, Reclaim, Deduplicate,
            StampGeneration, CountPending, TrySend, UncountPending, RejectMessage, Pass,
            TypeOK
  <2> QED BY <1>1, <1>2, <2>1, <2>2 DEF DeliveryInv
<1> QED BY <1>3, <1>4

\* Giving up settles the delivery, whatever it was.
LEMMA GiveUpDelivery ==
  ASSUME TypeOK, Employed, DeliveryInv, worker.msg \in Msgs,
         NEW error \in {"error", "excused"}, NEW outcome \in Outcomes,
         GiveUp(error, outcome), sender' = sender, exactStop' = exactStop
  PROVE  DeliveryInv'
<1>1. worker'.phase = "closing"
  BY DEF GiveUp, TypeOK
<1>2. \A n \in Exact : /\ delivery'[n] # "started"
                       /\ delivery'[n] \in {"none", "pending"} => delivery'[n] = delivery[n]
                       /\ delivery[n] = "none" => delivery'[n] = "none"
  <2> TAKE n \in Exact
  <2>0. n \in Msgs /\ (delivery[n] = "started" => worker.msg = n)
    BY MessageAssumption DEF DeliveryInv
  <2>1. CASE delivery[worker.msg] \in {"pending", "started"}
    <3>1. delivery' = [delivery EXCEPT ![worker.msg] = outcome]
      BY <2>1 DEF GiveUp, SettleDelivery
    <3> QED BY <2>0, <2>1, <3>1 DEF TypeOK, Outcomes
  <2>2. CASE delivery[worker.msg] \notin {"pending", "started"}
    BY <2>0, <2>2 DEF GiveUp, SettleDelivery, rows
  <2> QED BY <2>1, <2>2
<1> QED BY <1>1, <1>2 DEF DeliveryInv, StartedPhases

\* A delivery is begun and settled by the turn that executes.
LEMMA DeliveryExecute ==
  ASSUME TypeOK, Employed, DeliveryInv, ExecuteStep
  PROVE  DeliveryInv'
<1> USE DEF At
<1>0. worker.msg \in Msgs /\ UNCHANGED <<sender, exactStop>>
  BY DEF ExecuteStep, ClearFlag, PromoteTurn, AskAgain, BeginTurn, DrainSteering,
         FinishLoop, EndTurn, FinalizeSession, CloseIntent, Release, Employed, stops
<1>1. ASSUME NEW error \in {"error", "excused"}, NEW outcome \in Outcomes,
             GiveUp(error, outcome)
      PROVE  DeliveryInv'
  BY <1>0, <1>1, GiveUpDelivery
<1>2. ASSUME worker'.msg = worker.msg, delivery' = delivery,
             worker'.phase \in StartedPhases <=> worker.phase \in StartedPhases
      PROVE  DeliveryInv'
  BY <1>0, <1>2 DEF DeliveryInv
<1>3. ASSUME NEW phase, Go(phase)
      PROVE  worker'.msg = worker.msg /\ worker'.phase = phase
  BY <1>3 DEF Go, TypeOK
<1>4. CASE ClearFlag
  <2>1. CASE StoppedByName(worker.msg)
    BY <1>1, <1>4, <2>1 DEF ClearFlag, Outcomes
  <2>2. CASE ~StoppedByName(worker.msg)
    BY <1>2, <1>3, <1>4, <2>2 DEF ClearFlag, StartedPhases, rows
  <2> QED BY <2>1, <2>2
<1>5. CASE PromoteTurn
  <2>1. CASE \E error \in {"error", "excused"} : GiveUp(error, "failed")
    BY <1>1, <2>1 DEF Outcomes
  <2>2. CASE ~(\E error \in {"error", "excused"} : GiveUp(error, "failed"))
    <3>1. /\ worker.msg \in Exact => delivery[worker.msg] = "pending"
          /\ delivery' = [delivery EXCEPT ![worker.msg] =
                            IF worker.msg \in Exact THEN "started" ELSE @]
          /\ Go("promoted")
          /\ worker.phase = "cleared"
      BY <1>5, <2>2 DEF PromoteTurn
    <3>2. worker'.msg = worker.msg /\ worker'.phase = "promoted"
      BY <1>3, <3>1
    <3>3. ASSUME NEW n \in Exact, n # worker.msg
          PROVE  delivery'[n] = delivery[n] /\ delivery[n] # "started"
      BY <3>1, <3>3, MessageAssumption DEF DeliveryInv, TypeOK
    <3>4. worker.msg \in Exact => delivery'[worker.msg] = "started"
                                /\ exactStop[worker.msg] = "idle"
                                /\ sender[worker.msg] \notin {"new", "admitting"}
      BY <1>0, <3>1 DEF DeliveryInv, TypeOK
    <3>5. ASSUME NEW n \in Exact
          PROVE  /\ sender'[n] \notin {"steering", "pushing", "rechecking", "reclaiming"}
                 /\ delivery'[n] # "none" => sender'[n] \notin {"new", "admitting"}
                 /\ exactStop'[n] # "idle" => delivery'[n] \notin {"none", "pending"}
                 /\ delivery'[n] = "started" <=>
                      worker'.msg = n /\ worker'.phase \in StartedPhases
      BY <1>0, <3>2, <3>3, <3>4, <3>5 DEF DeliveryInv, StartedPhases
    <3> QED BY <3>5 DEF DeliveryInv
  <2> QED BY <2>1, <2>2
<1>6. CASE AskAgain
  <2>1. CASE StoppedByName(worker.msg)
    BY <1>1, <1>6, <2>1 DEF AskAgain, Outcomes
  <2>2. CASE ~StoppedByName(worker.msg)
    BY <1>2, <1>3, <1>6, <2>2 DEF AskAgain, StartedPhases, rows
  <2> QED BY <2>1, <2>2
<1>7. CASE BeginTurn
  BY <1>2, <1>3, <1>7 DEF BeginTurn, StartedPhases, rows
<1>8. CASE DrainSteering
  BY <1>2, <1>8 DEF DrainSteering
<1>9. ASSUME NEW outcome \in Outcomes, FinishLoop(outcome) PROVE DeliveryInv'
  <2>1. worker' = [worker EXCEPT !.phase = "ended", !.outcome = outcome]
    BY <1>9 DEF FinishLoop
  <2>2. worker'.msg = worker.msg /\ worker'.phase = "ended"
    BY <2>1 DEF TypeOK
  <2> QED BY <1>2, <1>9, <2>2 DEF FinishLoop, StartedPhases, rows
<1>10. CASE EndTurn
  BY <1>2, <1>3, <1>10 DEF EndTurn, StartedPhases, rows
<1>11. CASE FinalizeSession
  <2>1. /\ SettleDelivery(worker.msg, worker.outcome)
        /\ worker.outcome \in Outcomes
        /\ worker'.msg = worker.msg /\ worker'.phase = "closing"
    BY <1>3, <1>11 DEF FinalizeSession, Employed
  <2>2. \A n \in Exact : /\ delivery'[n] # "started"
                         /\ delivery'[n] \in {"none", "pending"} => delivery'[n] = delivery[n]
                         /\ delivery[n] = "none" => delivery'[n] = "none"
    <3> TAKE n \in Exact
    <3>0. n \in Msgs /\ (delivery[n] = "started" => worker.msg = n)
      BY MessageAssumption DEF DeliveryInv
    <3>1. CASE delivery[worker.msg] \in {"pending", "started"}
      <4>1. delivery' = [delivery EXCEPT ![worker.msg] = worker.outcome]
        BY <2>1, <3>1 DEF SettleDelivery
      <4> QED BY <2>1, <3>0, <3>1, <4>1 DEF TypeOK, Outcomes
    <3>2. CASE delivery[worker.msg] \notin {"pending", "started"}
      BY <2>1, <3>0, <3>2 DEF SettleDelivery, rows
    <3> QED BY <3>1, <3>2
  <2> QED BY <1>0, <2>1, <2>2 DEF DeliveryInv, StartedPhases
<1>12. CASE CloseIntent
  BY <1>2, <1>3, <1>12 DEF CloseIntent, StartedPhases
<1>13. CASE Release
  BY <1>0, <1>13 DEF Release, NoWork, DeliveryInv, StartedPhases, rows
<1> QED BY <1>4, <1>5, <1>6, <1>7, <1>8, <1>9, <1>10, <1>11, <1>12, <1>13 DEF ExecuteStep

\* The fence holds.
LEMMA DeliveryStep ==
  ASSUME TypeOK, Employed, DeliveryInv, [Next]_vars
  PROVE  DeliveryInv'
<1>1. ASSUME NEW m \in Msgs, CallerStep(m) PROVE DeliveryInv'
  BY <1>1, DeliveryCaller
<1>2. CASE ScheduleStep
  BY <1>2, ScheduleFrame DEF DeliveryInv
<1>3. CASE ExecuteStep
  BY <1>3, DeliveryExecute
<1>4. ASSUME NEW u \in Stops, StopStep(u) PROVE DeliveryInv'
  BY <1>4 DEF StopStep, BumpGeneration, ZeroPending, ClearIds, MarkPendingStale,
              ClearSteering, SignalTurn, rows, DeliveryInv
<1>5. ASSUME NEW m \in Exact, ExactStopStep(m) PROVE DeliveryInv'
  <2>0. m \in Msgs /\ worker' = worker /\ sender' = sender
    BY <1>5, MessageAssumption DEF ExactStopStep, PersistStop, InvalidateTurn, SignalExactTurn
  <2>1. CASE PersistStop(m)
    <3>1. PICK to \in {"persisted", "late"} : exactStop' = [exactStop EXCEPT ![m] = to]
      BY <2>1 DEF PersistStop, Name
    <3>2. CASE delivery[m] = "pending"
      <4>1. delivery' = [delivery EXCEPT ![m] = "cancelled"]
        BY <2>1, <3>2 DEF PersistStop, SettleDelivery
      <4>2. \A n \in Exact : n # m => delivery'[n] = delivery[n] /\ exactStop'[n] = exactStop[n]
        BY <3>1, <4>1, MessageAssumption DEF TypeOK
      <4>3. delivery'[m] = "cancelled"
        BY <2>0, <4>1 DEF TypeOK
      <4> QED BY <2>0, <3>2, <4>2, <4>3 DEF DeliveryInv
    <3>3. CASE delivery[m] # "pending"
      <4>1. delivery' = delivery /\ delivery[m] # "none"
        BY <2>1, <3>3 DEF PersistStop, rows
      <4>2. \A n \in Exact : n # m => exactStop'[n] = exactStop[n]
        BY <3>1 DEF TypeOK
      <4> QED BY <2>0, <3>3, <4>1, <4>2 DEF DeliveryInv
    <3> QED BY <3>2, <3>3
  <2>2. CASE InvalidateTurn(m) \/ SignalExactTurn(m)
    <3>1. delivery' = delivery /\ exactStop[m] # "idle"
          /\ \A n \in Exact : n # m => exactStop'[n] = exactStop[n]
      BY <2>2 DEF InvalidateTurn, SignalExactTurn, Name, rows, TypeOK
    <3> QED BY <2>0, <3>1 DEF DeliveryInv
  <2> QED BY <1>5, <2>1, <2>2 DEF ExactStopStep
<1>6. CASE UNCHANGED vars
  BY <1>6 DEF vars, rows, stops, DeliveryInv
<1> QED BY <1>1, <1>2, <1>3, <1>4, <1>5, <1>6
        DEF Next, WorkerStep, ScheduleStep, ExecuteStep

\* A started delivery belongs to the turn that executes.
THEOREM StartedDeliveriesExecute == Spec => []StartedIsExecuted
<1>1. Init => DeliveryInv
  BY MessageAssumption DEF Init, DeliveryInv, NoWork, StartedPhases
<1>2. TypeOK /\ Employed /\ DeliveryInv /\ [Next]_vars => DeliveryInv'
  BY DeliveryStep
<1>3. DeliveryInv => StartedIsExecuted
  BY DEF DeliveryInv, StartedIsExecuted, StartedPhases
<1> QED BY <1>1, <1>2, <1>3, TypeCorrect, PTL DEF Spec

\* The worker asks three times whether its turn was stopped, and that is enough.
LEMMA SignalWorker ==
  ASSUME TypeOK, Employed, CurrentInv, DeliveryInv, SignalInv, WorkerStep
  PROVE  SignalInv'
<1> USE DEF At
<1>1. CASE ScheduleStep
  BY <1>1, ScheduleFrame DEF SignalInv, NamedStopHolds, StartedPhases
<1>2. CASE ExecuteStep
  <2>0. worker.msg \in Msgs /\ exactStop' = exactStop
    BY <1>2 DEF ExecuteStep, ClearFlag, PromoteTurn, AskAgain, BeginTurn, DrainSteering,
           FinishLoop, EndTurn, FinalizeSession, CloseIntent, Release, Employed, stops
  <2>1. ASSUME NEW phase, Go(phase)
        PROVE  worker'.msg = worker.msg /\ worker'.phase = phase
    BY <2>1 DEF Go, TypeOK
  <2>2. ASSUME NEW error, NEW outcome, GiveUp(error, outcome)
        PROVE  worker'.phase = "closing"
    BY <2>2 DEF GiveUp, TypeOK
  <2>3. ASSUME worker'.phase \notin {"promoted", "installing", "running"}
        PROVE  SignalInv'
    BY <2>3 DEF SignalInv, NamedStopHolds
  <2>4. CASE ClearFlag
    <3>1. worker'.phase \in {"closing", "cleared"}
      BY <2>1, <2>2, <2>4 DEF ClearFlag
    <3> QED BY <2>3, <3>1
  <2>5. CASE PromoteTurn
    <3>1. CASE \E error \in {"error", "excused"} : GiveUp(error, "failed")
      BY <2>2, <2>3, <3>1
    <3>2. CASE ~(\E error \in {"error", "excused"} : GiveUp(error, "failed"))
      <4>1. Go("promoted") /\ (worker.msg \in Exact => delivery[worker.msg] = "pending")
        BY <2>5, <3>2 DEF PromoteTurn
      <4>2. worker.msg \in Exact => exactStop[worker.msg] = "idle"
        BY <4>1 DEF DeliveryInv
      <4> QED BY <2>0, <2>1, <4>1, <4>2 DEF SignalInv, NamedStopHolds
    <3> QED BY <3>1, <3>2
  <2>6. CASE AskAgain
    <3>1. CASE StoppedByName(worker.msg)
      BY <2>2, <2>3, <2>6, <3>1 DEF AskAgain
    <3>2. CASE ~StoppedByName(worker.msg)
      <4>1. Go("installing") /\ cancelled' = cancelled /\ worker.phase = "promoted"
        BY <2>6, <3>2 DEF AskAgain, control
      <4> QED BY <2>0, <2>1, <4>1 DEF SignalInv, NamedStopHolds
    <3> QED BY <3>1, <3>2
  <2>7. CASE BeginTurn
    <3>1. /\ worker'.msg = worker.msg /\ worker'.phase = "running"
          /\ active' = worker.msg
          /\ flag' = (flag \/ StoppedByName(worker.msg))
          /\ worker.phase = "installing"
      BY <2>1, <2>7 DEF BeginTurn
    <3>2. worker.msg \in Exact /\ exactStop[worker.msg] = "done" => StoppedByName(worker.msg)
      BY <3>1 DEF SignalInv, StoppedByName
    <3> QED BY <2>0, <3>1, <3>2 DEF SignalInv, NamedStopHolds
  <2>8. CASE DrainSteering
    BY <2>0, <2>8 DEF DrainSteering, SignalInv, NamedStopHolds
  <2>9. ASSUME NEW outcome \in Outcomes, FinishLoop(outcome) PROVE SignalInv'
    <3>1. worker'.phase = "ended"
      BY <2>9 DEF FinishLoop, TypeOK
    <3> QED BY <2>3, <3>1
  <2>10. CASE EndTurn
    BY <2>1, <2>3, <2>10 DEF EndTurn
  <2>11. CASE FinalizeSession
    BY <2>1, <2>3, <2>11 DEF FinalizeSession
  <2>12. CASE CloseIntent
    BY <2>1, <2>3, <2>12 DEF CloseIntent
  <2>13. CASE Release
    BY <2>3, <2>13 DEF Release, NoWork
  <2> QED BY <1>2, <2>4, <2>5, <2>6, <2>7, <2>8, <2>9, <2>10, <2>11, <2>12, <2>13
          DEF ExecuteStep
<1> QED BY <1>1, <1>2 DEF WorkerStep, ScheduleStep, ExecuteStep

\* An exact Stop finds the turn that it names in one of the three places.
LEMMA SignalExactStop ==
  ASSUME TypeOK, CurrentInv, DeliveryInv, SignalInv, NEW m \in Exact, ExactStopStep(m)
  PROVE  SignalInv'
<1>0. worker' = worker /\ active' = active
  BY WorkerFrame
<1>1. \A n \in Exact : n # m => exactStop'[n] = exactStop[n]
  BY DEF ExactStopStep, PersistStop, InvalidateTurn, SignalExactTurn, Name, TypeOK
<1>2. flag => flag'
  BY DEF ExactStopStep, PersistStop, InvalidateTurn, SignalExactTurn, session
<1>3. CASE PersistStop(m)
  <2>1. exactStop'[m] \in {"persisted", "late"} /\ cancelled' = cancelled
    BY <1>3 DEF PersistStop, Name, TypeOK, control
  <2> QED BY <1>0, <1>1, <1>2, <2>1 DEF SignalInv, NamedStopHolds, At
<1>4. CASE InvalidateTurn(m)
  <2>1. m \in cancelled'
    BY <1>4 DEF InvalidateTurn
  <2>2. current \in cancelled => current \in cancelled'
    BY <1>4 DEF InvalidateTurn
  <2>3. exactStop'[m] = IF current = m THEN "signalling" ELSE "done"
    BY <1>4 DEF InvalidateTurn, Name, TypeOK
  <2>4. worker.phase \in {"promoted", "installing", "running"} => current = worker.msg
    BY DEF CurrentInv
  <2>5. CASE worker.msg = m
    BY <1>0, <2>1, <2>3, <2>4, <2>5 DEF SignalInv, NamedStopHolds, At
  <2>6. CASE worker.msg # m
    BY <1>0, <1>1, <1>2, <2>2, <2>4, <2>6 DEF SignalInv, NamedStopHolds, At
  <2> QED BY <2>5, <2>6
<1>5. CASE SignalExactTurn(m)
  <2>1. cancelled' = cancelled /\ flag' = (flag \/ active = m)
        /\ exactStop[m] = "signalling"
    BY <1>5 DEF SignalExactTurn, Name, control
  <2> QED BY <1>0, <1>1, <2>1 DEF SignalInv, NamedStopHolds, At
<1> QED BY <1>3, <1>4, <1>5 DEF ExactStopStep

\* No step loses an exact Stop.
LEMMA SignalStep ==
  ASSUME TypeOK, Employed, CurrentInv, DeliveryInv, SignalInv, [Next]_vars
  PROVE  SignalInv'
<1>1. ASSUME NEW m \in Msgs, CallerStep(m) PROVE SignalInv'
  <2>1. worker' = worker /\ active' = active
    BY <1>1, WorkerFrame
  <2>2. UNCHANGED <<exactStop, cancelled, flag>>
    BY <1>1 DEF CallerStep, LookAround, UpsertIntent, PushSteering, Recheck, Reclaim,
                Deduplicate, StampGeneration, CountPending, TrySend, UncountPending,
                RejectMessage, stops, control, session
  <2> QED BY <2>1, <2>2 DEF SignalInv, NamedStopHolds, At
<1>2. ASSUME NEW u \in Stops, StopStep(u) PROVE SignalInv'
  <2>1. worker' = worker /\ active' = active
    BY <1>2, WorkerFrame
  <2>2. UNCHANGED <<exactStop, cancelled>> /\ (flag => flag')
    BY <1>2 DEF StopStep, BumpGeneration, ZeroPending, ClearIds, MarkPendingStale,
                ClearSteering, SignalTurn, control, session
  <2> QED BY <2>1, <2>2 DEF SignalInv, NamedStopHolds, At
<1>3. CASE UNCHANGED vars
  BY <1>3 DEF vars, control, session, stops, SignalInv, NamedStopHolds, At
<1> QED BY <1>1, <1>2, <1>3, SignalWorker, SignalExactStop DEF Next

\* An exact Stop is not lost, whatever the registry has forgotten.
THEOREM NamedStopsHold == Spec => []NamedStopHolds
<1>1. Init => CurrentInv /\ DeliveryInv /\ SignalInv
  BY MessageAssumption
     DEF Init, CurrentInv, DeliveryInv, SignalInv, NamedStopHolds, At, NoWork, StartedPhases
<1>2. TypeOK /\ Employed /\ CurrentInv /\ DeliveryInv /\ SignalInv /\ [Next]_vars
        => CurrentInv' /\ DeliveryInv' /\ SignalInv'
  BY CurrentStep, DeliveryStep, SignalStep
<1>3. SignalInv => NamedStopHolds
  BY DEF SignalInv
<1> QED BY <1>1, <1>2, <1>3, TypeCorrect, PTL DEF Spec

-----------------------------------------------------------------------------
(* A client id does not leak. *)

Queued(m) == \E i \in 1 .. Len(channel) : channel[i] = m

\* Sending puts one message at the end of the channel.
LEMMA SendQueued ==
  ASSUME TypeOK, NEW m \in Msgs, channel' = Append(channel, m)
  PROVE  Queued(m)' /\ \A n \in Msgs : Queued(n) => Queued(n)'
<1>1. channel \in Seq(Msgs)
  BY DEF TypeOK
<1>2. /\ Len(channel') = Len(channel) + 1
      /\ channel'[Len(channel) + 1] = m
      /\ \A i \in 1 .. Len(channel) : channel'[i] = channel[i]
  BY <1>1
<1>3. Len(channel) \in Nat
  BY <1>1
<1> QED BY <1>2, <1>3 DEF Queued

\* Receiving takes the first.
LEMMA ReceiveQueued ==
  ASSUME TypeOK, channel # <<>>, channel' = Tail(channel)
  PROVE  \A n \in Msgs : Queued(n) => Queued(n)' \/ n = Head(channel)
<1>1. channel \in Seq(Msgs) /\ Len(channel) \in Nat
  BY DEF TypeOK
<1>2. /\ Len(channel') = Len(channel) - 1
      /\ \A i \in 1 .. Len(channel') : channel'[i] = channel[i + 1]
      /\ Head(channel) = channel[1]
  BY <1>1
<1> TAKE n \in Msgs
<1>3. SUFFICES ASSUME NEW i \in 1 .. Len(channel), channel[i] = n, i # 1
               PROVE  Queued(n)'
  BY <1>2 DEF Queued
<1>4. i - 1 \in 1 .. Len(channel') /\ channel'[i - 1] = n
  BY <1>1, <1>2, <1>3
<1> QED BY <1>4 DEF Queued

Admitting == {"unique", "stamped", "counted", "full", "uncounted"}

\* Whoever forgets the message of an id frees that id.
LEMMA ForgetFrees ==
  ASSUME NoLeakedClientId, NEW m \in Msgs, Forget(m)
  PROVE  \A c \in Clients : ids'[c] # NoMsg => ids'[c] = ids[c] /\ ids[c] # m
BY DEF NoLeakedClientId, Forget

\* A call takes an id for the message that it brings on its way, and gives it back.
LEMMA CallerKeepsIds ==
  ASSUME TypeOK, NoLeakedClientId, NEW m \in Msgs, CallerStep(m)
  PROVE  NoLeakedClientId'
<1>0. worker' = worker
  BY WorkerFrame
<1>1. ASSUME NEW n \in Msgs, InFlight(n), \/ n # m
                                         \/ ~RejectMessage(m)
      PROVE  InFlight(n)'
  <2>1. CASE TrySend(m)
    <3>1. Queued(n) => Queued(n)'
      BY <2>1, SendQueued DEF TrySend, Queued
    <3>2. n = m => sender'[n] = "full" \/ Queued(n)'
      BY <2>1, SendQueued DEF TrySend, Pass, TypeOK
    <3>3. n # m => sender'[n] = sender[n]
      BY <2>1 DEF TrySend, Pass, TypeOK
    <3> QED BY <1>0, <1>1, <3>1, <3>2, <3>3 DEF InFlight, Queued
  <2>2. CASE ~TrySend(m)
    <3>1. channel' = channel
      BY <2>2 DEF CallerStep, LookAround, UpsertIntent, PushSteering, Recheck, Reclaim,
                  Deduplicate, StampGeneration, CountPending, UncountPending,
                  RejectMessage, queue
    <3>2. sender[n] \in Admitting => sender'[n] \in Admitting
      BY <1>1, <2>2 DEF CallerStep, LookAround, UpsertIntent, PushSteering, Recheck,
                  Reclaim, Deduplicate, StampGeneration, CountPending, UncountPending,
                  RejectMessage, Pass, TypeOK, Admitting
    <3> QED BY <1>0, <1>1, <3>1, <3>2 DEF InFlight, Admitting
  <2> QED BY <2>1, <2>2
<1>2. CASE Deduplicate(m)
  <2>1. CASE Known(m)
    <3>1. ids' = ids
      BY <1>2, <2>1 DEF Deduplicate
    <3>2. ~RejectMessage(m)
      BY <1>2 DEF Deduplicate, RejectMessage, Pass
    <3> QED BY <1>1, <3>1, <3>2 DEF NoLeakedClientId, TypeOK
  <2>2. CASE ~Known(m)
    <3>1. /\ ids' = [c \in Clients |-> IF c = ClientOf[m] THEN m ELSE ids[c]]
          /\ sender'[m] = "unique"
      BY <1>2, <2>2 DEF Deduplicate, Pass, TypeOK
    <3>2. ~RejectMessage(m)
      BY <1>2 DEF Deduplicate, RejectMessage, Pass
    <3>3. InFlight(m)'
      BY <3>1 DEF InFlight
    <3> QED BY <1>1, <3>1, <3>2, <3>3 DEF NoLeakedClientId, TypeOK
  <2> QED BY <2>1, <2>2
<1>3. CASE RejectMessage(m)
  <2>1. \A c \in Clients : ids'[c] # NoMsg => ids'[c] = ids[c] /\ ids[c] # m
    BY <1>3, ForgetFrees DEF RejectMessage
  <2> QED BY <1>1, <2>1 DEF NoLeakedClientId, TypeOK
<1>4. CASE ~Deduplicate(m) /\ ~RejectMessage(m)
  <2>1. ids' = ids
    BY <1>4 DEF CallerStep, LookAround, UpsertIntent, PushSteering, Recheck, Reclaim,
                StampGeneration, CountPending, TrySend, UncountPending, queue
  <2> QED BY <1>1, <1>4, <2>1 DEF NoLeakedClientId, TypeOK
<1> QED BY <1>2, <1>3, <1>4

\* The worker lets a message go and its id with it.
LEMMA WorkerKeepsIds ==
  ASSUME TypeOK, Employed, NoLeakedClientId, WorkerStep
  PROVE  NoLeakedClientId'
<1>0. sender' = sender
  BY DEF WorkerStep, Receive, ClaimTurn, DropNamed, CheckGeneration, DropStale,
         BeginProcessing, WriteIntent, ClearFlag, PromoteTurn, AskAgain, BeginTurn,
         DrainSteering, FinishLoop, EndTurn, FinalizeSession, CloseIntent, Release
<1>1. CASE Receive
  <2>1. /\ channel # <<>> /\ channel' = Tail(channel) /\ worker'.msg = Head(channel)
        /\ worker.msg = NoMsg /\ ids' = ids
    BY <1>1 DEF Receive, NoWork, At, Employed
  <2>2. \A n \in Msgs : Queued(n) => Queued(n)' \/ n = Head(channel)
    BY <2>1, ReceiveQueued
  <2>3. \A n \in Msgs : InFlight(n) => InFlight(n)'
    BY <1>0, <2>1, <2>2, IdAssumption DEF InFlight, Queued
  <2> QED BY <2>1, <2>3 DEF NoLeakedClientId, TypeOK
<1>2. CASE DropNamed \/ DropStale \/ Release
  <2>1. worker.msg \in Msgs /\ Forget(worker.msg) /\ channel' = channel
    BY <1>2 DEF DropNamed, DropStale, Release, At, Employed
  <2>2. \A c \in Clients : ids'[c] # NoMsg => ids'[c] = ids[c] /\ ids[c] # worker.msg
    BY <2>1, ForgetFrees
  <2>3. \A n \in Msgs : InFlight(n) /\ n # worker.msg => InFlight(n)'
    BY <1>0, <2>1 DEF InFlight
  <2> QED BY <2>2, <2>3 DEF NoLeakedClientId, TypeOK
<1>3. CASE ~Receive /\ ~(DropNamed \/ DropStale \/ Release)
  <2>1. channel' = channel /\ ids' = ids
    BY <1>3 DEF WorkerStep, ClaimTurn, CheckGeneration, BeginProcessing, WriteIntent,
                ClearFlag, PromoteTurn, AskAgain, BeginTurn, DrainSteering, FinishLoop,
                EndTurn, FinalizeSession, CloseIntent, queue
  <2>2. ASSUME NEW phase, Go(phase) PROVE worker'.msg = worker.msg
    BY <2>2 DEF Go, TypeOK
  <2>3. ASSUME NEW error, NEW outcome, GiveUp(error, outcome) PROVE worker'.msg = worker.msg
    BY <2>3 DEF GiveUp, TypeOK
  <2>4. CASE ClaimTurn \/ CheckGeneration \/ WriteIntent \/ ClearFlag \/ AskAgain
             \/ BeginTurn \/ EndTurn \/ FinalizeSession \/ CloseIntent
    BY <2>1, <2>2, <2>3, <2>4, <1>0
       DEF ClaimTurn, CheckGeneration, WriteIntent, ClearFlag, AskAgain, BeginTurn,
           EndTurn, FinalizeSession, CloseIntent, NoLeakedClientId, InFlight
  <2>5. CASE PromoteTurn
    BY <1>0, <2>1, <2>2, <2>3, <2>5 DEF PromoteTurn, NoLeakedClientId, InFlight
  <2>6. CASE BeginProcessing \/ DrainSteering \/ \E outcome \in Outcomes : FinishLoop(outcome)
    <3>1. worker'.msg = worker.msg
      BY <2>6 DEF BeginProcessing, DrainSteering, FinishLoop, TypeOK
    <3> QED BY <1>0, <2>1, <3>1 DEF NoLeakedClientId, InFlight
  <2> QED BY <1>3, <2>4, <2>5, <2>6 DEF WorkerStep
<1> QED BY <1>1, <1>2, <1>3

\* A client id is remembered only for a message in flight.
THEOREM ClientIdsReturn == Spec => []NoLeakedClientId
<1>1. Init => NoLeakedClientId
  BY DEF Init, NoLeakedClientId
<1>2. TypeOK /\ Employed /\ NoLeakedClientId /\ [Next]_vars => NoLeakedClientId'
  <2> SUFFICES ASSUME TypeOK, Employed, NoLeakedClientId, [Next]_vars
               PROVE  NoLeakedClientId'
    OBVIOUS
  <2>1. ASSUME NEW u \in Stops, StopStep(u) PROVE NoLeakedClientId'
    <3>1. UNCHANGED <<worker, sender, channel>>
      BY <2>1 DEF StopStep, BumpGeneration, ZeroPending, ClearIds, MarkPendingStale,
                  ClearSteering, SignalTurn, queue
    <3>2. \A c \in Clients : ids'[c] # NoMsg => ids'[c] = ids[c]
      BY <2>1 DEF StopStep, BumpGeneration, ZeroPending, ClearIds, MarkPendingStale,
                  ClearSteering, SignalTurn, queue
    <3> QED BY <3>1, <3>2 DEF NoLeakedClientId, InFlight
  <2>2. ASSUME NEW m \in Exact, ExactStopStep(m) PROVE NoLeakedClientId'
    BY <2>2 DEF ExactStopStep, PersistStop, InvalidateTurn, SignalExactTurn, queue,
                NoLeakedClientId, InFlight
  <2>3. CASE UNCHANGED vars
    BY <2>3 DEF vars, queue, NoLeakedClientId, InFlight
  <2> QED BY <2>1, <2>2, <2>3, CallerKeepsIds, WorkerKeepsIds DEF Next
<1> QED BY <1>1, <1>2, TypeCorrect, PTL DEF Spec
-----------------------------------------------------------------------------
(* Each message is in one place at a time. *)

\* What was sent is in the channel once, with the worker, or past it; what the worker
\* has not decided about was neither begun nor dropped.
Placed ==
  /\ \A m \in begun \cup dropped : sender[m] = "sent"
  /\ \A i \in 1 .. Len(channel) :
       /\ sender[channel[i]] = "sent"
       /\ channel[i] \notin begun \cup dropped
       /\ channel[i] # worker.msg
       /\ \A j \in 1 .. Len(channel) : channel[i] = channel[j] => i = j
  /\ worker.phase # "idle" => sender[worker.msg] = "sent"
  /\ worker.phase \in {"received", "claimed"} => worker.msg \notin begun \cup dropped

\* A call moves one message, which was not sent before.
LEMMA CallerMoves ==
  ASSUME TypeOK, NEW m \in Msgs, CallerStep(m)
  PROVE  /\ UNCHANGED <<worker, generation, past, exactStop, cancelled, stopper>>
         /\ sender[m] # "sent"
         /\ \A n \in Msgs : n # m => sender'[n] = sender[n]
         /\ ~TrySend(m) => channel' = channel
<1>1. /\ UNCHANGED <<worker, generation, past, exactStop, cancelled, stopper>>
      /\ ~TrySend(m) => channel' = channel
  BY DEF CallerStep, LookAround, UpsertIntent, PushSteering, Recheck, Reclaim, Deduplicate,
         StampGeneration, CountPending, TrySend, UncountPending, RejectMessage, queue,
         control, stops
<1>2. /\ sender[m] # "sent"
      /\ \A n \in Msgs : n # m => sender'[n] = sender[n]
  BY DEF CallerStep, LookAround, UpsertIntent, PushSteering, Recheck, Reclaim, Deduplicate,
         StampGeneration, CountPending, TrySend, UncountPending, RejectMessage, Pass, TypeOK
<1> QED BY <1>1, <1>2

\* The worker keeps its message until it lets it go, and does not touch the calls.
LEMMA WorkerMoves ==
  ASSUME TypeOK, Employed, WorkerStep
  PROVE  /\ UNCHANGED <<sender, stamp, generation, exactStop, stopper, doomed>>
         /\ \/ Receive
            \/ /\ DropNamed \/ DropStale \/ Release
               /\ worker' = NoWork
               /\ UNCHANGED <<channel, begun, dropped>>
            \/ /\ ClaimTurn \/ CheckGeneration
               /\ worker'.msg = worker.msg
               /\ worker'.phase \in {"named", "claimed", "fresh", "stale"}
               /\ UNCHANGED <<channel, ids, pending>>
            \/ /\ worker'.msg = worker.msg
               /\ worker.phase \notin {"idle", "received", "named", "claimed", "stale"}
               /\ worker'.phase \notin {"idle", "received", "named", "claimed", "fresh", "stale"}
               /\ UNCHANGED <<channel, ids, begun, dropped>>
               /\ BeginProcessing \/ (worker.phase # "fresh" /\ pending' = pending)
<1> USE DEF At
<1>0. UNCHANGED <<sender, stamp, generation, exactStop, stopper, doomed>>
  BY DEF WorkerStep, Receive, ClaimTurn, DropNamed, CheckGeneration, DropStale,
         BeginProcessing, WriteIntent, ClearFlag, PromoteTurn, AskAgain, BeginTurn,
         DrainSteering, FinishLoop, EndTurn, FinalizeSession, CloseIntent, Release, queue,
         stops, past
<1>1. ASSUME NEW phase, Go(phase) PROVE worker'.msg = worker.msg /\ worker'.phase = phase
  BY <1>1 DEF Go, TypeOK
<1>2. ASSUME NEW error, NEW outcome, GiveUp(error, outcome)
      PROVE  worker'.msg = worker.msg /\ worker'.phase = "closing"
  BY <1>2 DEF GiveUp, TypeOK
<1>3. CASE Receive
  BY <1>0, <1>3
<1>4. CASE DropNamed \/ DropStale \/ Release
  BY <1>0, <1>4 DEF DropNamed, DropStale, Release, past
<1>5. CASE ClaimTurn
  BY <1>0, <1>1, <1>5 DEF ClaimTurn, queue
<1>6. CASE CheckGeneration
  BY <1>0, <1>1, <1>6 DEF CheckGeneration, queue
<1>7. CASE BeginProcessing
  BY <1>0, <1>7 DEF BeginProcessing, past, TypeOK
<1>8. CASE WriteIntent \/ ClearFlag \/ AskAgain \/ BeginTurn \/ EndTurn \/ FinalizeSession
           \/ CloseIntent
  BY <1>0, <1>1, <1>2, <1>8
     DEF WriteIntent, ClearFlag, AskAgain, BeginTurn, EndTurn, FinalizeSession, CloseIntent,
         queue, past
<1>9. CASE PromoteTurn
  BY <1>0, <1>1, <1>2, <1>9 DEF PromoteTurn, queue, past
<1>10. CASE DrainSteering
  BY <1>0, <1>10 DEF DrainSteering, queue, past
<1>11. CASE \E outcome \in Outcomes : FinishLoop(outcome)
  BY <1>0, <1>11 DEF FinishLoop, queue, past, TypeOK
<1> QED BY <1>3, <1>4, <1>5, <1>6, <1>7, <1>8, <1>9, <1>10, <1>11 DEF WorkerStep

\* What enters the channel comes from a call, and is not there yet.
LEMMA SendPlaced ==
  ASSUME TypeOK, Employed, Placed, NEW m \in Msgs, TrySend(m)
  PROVE  Placed'
<1>1. /\ sender[m] = "counted" /\ UNCHANGED <<worker, begun, dropped>>
      /\ \A n \in Msgs : n # m => sender'[n] = sender[n]
  BY DEF TrySend, Pass, TypeOK, past
<1>2. /\ channel \in Seq(Msgs) /\ Len(channel) \in Nat
      /\ \A i \in 1 .. Len(channel) : channel[i] \in Msgs /\ channel[i] # m
  BY <1>1 DEF TypeOK, Placed
<1>3. worker.msg # m
  BY <1>1, IdAssumption DEF Employed, Placed
<1>4. \A n \in begun \cup dropped : n # m /\ n \in Msgs /\ sender'[n] = "sent"
  BY <1>1 DEF TypeOK, Placed
<1>5. worker.phase # "idle" => sender'[worker.msg] = "sent"
  BY <1>1, <1>3 DEF Employed, Placed
<1>6. \A i \in 1 .. Len(channel) :
        /\ sender'[channel[i]] = "sent"
        /\ channel[i] \notin begun \cup dropped
        /\ channel[i] # worker.msg
        /\ \A j \in 1 .. Len(channel) : channel[i] = channel[j] => i = j
  BY <1>1, <1>2 DEF Placed
<1>7. worker.phase \in {"received", "claimed"} => worker.msg \notin begun \cup dropped
  BY DEF Placed
<1>8. CASE Len(channel) < Capacity
  <2>1. sender'[m] = "sent" /\ channel' = Append(channel, m)
    BY <1>8 DEF TrySend, Pass, TypeOK
  <2>2. /\ Len(channel') = Len(channel) + 1
        /\ channel'[Len(channel) + 1] = m
        /\ \A i \in 1 .. Len(channel) : channel'[i] = channel[i]
    BY <1>2, <2>1
  <2>3. ASSUME NEW i \in 1 .. Len(channel')
        PROVE  /\ sender'[channel'[i]] = "sent"
               /\ channel'[i] \notin begun \cup dropped
               /\ channel'[i] # worker.msg
               /\ \A j \in 1 .. Len(channel') : channel'[i] = channel'[j] => i = j
    <3>1. CASE i = Len(channel) + 1
      <4>1. channel'[i] = m
        BY <2>2, <3>1
      <4>2. \A j \in 1 .. Len(channel') : channel'[j] = m => j = i
        BY <1>2, <2>2, <3>1
      <4> QED BY <1>3, <1>4, <2>1, <4>1, <4>2
    <3>2. CASE i # Len(channel) + 1
      <4>1. i \in 1 .. Len(channel) /\ channel'[i] = channel[i]
        BY <1>2, <2>2, <3>2
      <4>2. \A j \in 1 .. Len(channel') : channel'[i] = channel'[j] => j \in 1 .. Len(channel)
        BY <1>2, <2>2, <4>1
      <4> QED BY <1>6, <2>2, <4>1, <4>2
    <3> QED BY <3>1, <3>2
  <2> QED BY <1>1, <1>4, <1>5, <1>7, <2>3 DEF Placed
<1>9. CASE ~(Len(channel) < Capacity)
  <2>1. channel' = channel
    BY <1>9 DEF TrySend
  <2> QED BY <1>1, <1>4, <1>5, <1>6, <1>7, <2>1 DEF Placed
<1> QED BY <1>8, <1>9

\* What leaves the channel goes to the worker.
LEMMA ReceivePlaced ==
  ASSUME TypeOK, Employed, Placed, Receive
  PROVE  Placed'
<1>1. /\ channel # <<>> /\ channel' = Tail(channel)
      /\ worker'.msg = Head(channel) /\ worker'.phase = "received"
      /\ UNCHANGED <<sender, begun, dropped>>
  BY DEF Receive, NoWork, past
<1>2. channel \in Seq(Msgs)
  BY DEF TypeOK
<1>3. /\ Len(channel') = Len(channel) - 1 /\ Len(channel) \in Nat \ {0}
      /\ Head(channel) = channel[1]
      /\ \A i \in 1 .. Len(channel') : channel'[i] = channel[i + 1]
  BY <1>1, <1>2
<1> QED BY <1>1, <1>3 DEF Placed

\* Every step leaves each message in one place.
LEMMA PlacedStep ==
  ASSUME TypeOK, Employed, Placed, [Next]_vars
  PROVE  Placed'
<1>1. ASSUME NEW m \in Msgs, CallerStep(m) PROVE Placed'
  <2>1. CASE TrySend(m)
    BY <2>1, SendPlaced
  <2>2. CASE ~TrySend(m)
    <3>1. UNCHANGED <<worker, channel, begun, dropped>>
          /\ \A n : n \in Msgs /\ sender[n] = "sent" => sender'[n] = "sent"
      BY <1>1, <2>2, CallerMoves DEF past
    <3>2. \A i \in 1 .. Len(channel) : channel[i] \in Msgs
      BY DEF TypeOK
    <3>3. worker.phase # "idle" => worker.msg \in Msgs
      BY DEF Employed
    <3> QED BY <3>1, <3>2, <3>3 DEF Placed, TypeOK
  <2> QED BY <2>1, <2>2
<1>2. CASE WorkerStep
  <2>1. sender' = sender
    BY <1>2, WorkerMoves
  <2>2. CASE Receive
    BY <2>2, ReceivePlaced
  <2>3. CASE worker' = NoWork /\ UNCHANGED <<channel, begun, dropped>>
    <3>1. \A i \in 1 .. Len(channel) : channel[i] # NoMsg
      BY IdAssumption DEF TypeOK
    <3> QED BY <2>1, <2>3, <3>1 DEF Placed, NoWork
  <2>4. CASE ClaimTurn
    <3>1. /\ worker'.msg = worker.msg /\ UNCHANGED <<channel, begun>>
          /\ worker.phase = "received"
          /\ \/ worker'.phase = "claimed" /\ dropped' = dropped
             \/ worker'.phase = "named" /\ dropped' = dropped \cup {worker.msg}
      BY <2>4 DEF ClaimTurn, At, Go, TypeOK, queue
    <3> QED BY <2>1, <3>1 DEF Placed
  <2>5. CASE CheckGeneration
    <3>1. /\ worker'.msg = worker.msg /\ UNCHANGED channel
          /\ worker.phase = "claimed" /\ worker'.phase \in {"fresh", "stale"}
          /\ begun' \cup dropped' = begun \cup dropped \cup {worker.msg}
      BY <2>5 DEF CheckGeneration, At, Go, TypeOK, queue
    <3> QED BY <2>1, <3>1 DEF Placed
  <2>6. CASE /\ worker'.msg = worker.msg
             /\ worker.phase \notin {"idle", "received", "claimed"}
             /\ worker'.phase \notin {"idle", "received", "claimed"}
             /\ UNCHANGED <<channel, begun, dropped>>
    BY <2>1, <2>6 DEF Placed
  <2> QED BY <1>2, <2>2, <2>3, <2>4, <2>5, <2>6, WorkerMoves
<1>3. ASSUME NEW u \in Stops, StopStep(u) PROVE Placed'
  BY <1>3 DEF StopStep, BumpGeneration, ZeroPending, ClearIds, MarkPendingStale,
              ClearSteering, SignalTurn, queue, past, Placed
<1>4. ASSUME NEW m \in Exact, ExactStopStep(m) PROVE Placed'
  BY <1>4 DEF ExactStopStep, PersistStop, InvalidateTurn, SignalExactTurn, queue, past, Placed
<1>5. CASE UNCHANGED vars
  BY <1>5 DEF vars, queue, past, Placed
<1> QED BY <1>1, <1>2, <1>3, <1>4, <1>5 DEF Next

-----------------------------------------------------------------------------
(* A message is discarded only because of a Stop. *)

\* A message whose generation is over was found by a Stop, or was not yet on its way;
\* the registry holds names that were given to it.
FreshInv ==
  /\ \A m \in Msgs : Waiting(m) /\ stamp[m] < generation => m \in doomed
  /\ \A m \in cancelled : exactStop[m] \notin {"idle", "persisted"}
  /\ FreshNeverDropped

\* A call gets the generation of the moment, and is not given it twice.
LEMMA FreshCaller ==
  ASSUME TypeOK, FreshInv, NEW m \in Msgs, CallerStep(m)
  PROVE  FreshInv'
<1>1. UNCHANGED <<generation, begun, dropped, doomed, exactStop, cancelled>>
      /\ \A n \in Msgs : n # m => sender'[n] = sender[n]
  BY CallerMoves DEF past
<1>2. \A n \in Msgs : n # m => stamp'[n] = stamp[n]
  BY DEF CallerStep, LookAround, UpsertIntent, PushSteering, Recheck, Reclaim, Deduplicate,
         StampGeneration, CountPending, TrySend, UncountPending, RejectMessage, TypeOK
<1>3. Waiting(m)' /\ stamp'[m] < generation' => Waiting(m) /\ stamp[m] < generation
  <2>1. CASE StampGeneration(m)
    <3>1. stamp'[m] = generation
      BY <2>1 DEF StampGeneration, TypeOK
    <3> QED BY <1>1, <3>1 DEF TypeOK
  <2>2. CASE ~StampGeneration(m)
    <3>1. stamp' = stamp
      BY <2>2 DEF CallerStep, LookAround, UpsertIntent, PushSteering, Recheck, Reclaim,
                  Deduplicate, CountPending, TrySend, UncountPending, RejectMessage
    <3>2. sender'[m] \in {"stamped", "counted", "full", "uncounted", "sent"} =>
          sender[m] \in {"stamped", "counted", "full", "uncounted", "sent"}
      BY <2>2 DEF CallerStep, LookAround, UpsertIntent, PushSteering, Recheck, Reclaim,
                  Deduplicate, CountPending, TrySend, UncountPending, RejectMessage, Pass, TypeOK
    <3> QED BY <1>1, <3>1, <3>2 DEF Waiting
  <2> QED BY <2>1, <2>2
<1>4. \A n \in Msgs : n # m => (Waiting(n)' <=> Waiting(n))
  BY <1>1 DEF Waiting
<1> QED BY <1>1, <1>2, <1>3, <1>4 DEF FreshInv, FreshNeverDropped

\* The worker drops what it was told to, or what is behind the generation.
LEMMA FreshWorker ==
  ASSUME TypeOK, Employed, Placed, StampInv, FreshInv, WorkerStep
  PROVE  FreshInv'
<1>1. UNCHANGED <<sender, stamp, generation, exactStop, doomed>>
  BY WorkerMoves
<1>2. begun \subseteq begun' /\ dropped \subseteq dropped' /\ cancelled' \subseteq cancelled
  BY DEF WorkerStep, Receive, ClaimTurn, DropNamed, CheckGeneration, DropStale,
         BeginProcessing, WriteIntent, ClearFlag, PromoteTurn, AskAgain, BeginTurn,
         DrainSteering, FinishLoop, EndTurn, FinalizeSession, CloseIntent, Release, past, control
<1>3. \A n \in Msgs : Waiting(n)' => Waiting(n)
  BY <1>1, <1>2 DEF Waiting
<1>4. CASE ClaimTurn
  <2>1. dropped' = dropped \/ (worker.msg \in cancelled /\ dropped' = dropped \cup {worker.msg})
    BY <1>4 DEF ClaimTurn
  <2>2. cancelled \subseteq Exact
    BY DEF TypeOK
  <2> QED BY <1>1, <1>2, <1>3, <2>1, <2>2 DEF FreshInv, FreshNeverDropped
<1>5. CASE CheckGeneration
  <2>1. CASE stamp[worker.msg] = generation
    BY <1>1, <1>2, <1>3, <1>5, <2>1 DEF CheckGeneration, FreshInv, FreshNeverDropped
  <2>2. CASE stamp[worker.msg] # generation
    <3>1. worker.phase = "claimed" /\ dropped' = dropped \cup {worker.msg}
      BY <1>5, <2>2 DEF CheckGeneration, At
    <3>2. worker.msg \in Msgs /\ sender[worker.msg] = "sent"
          /\ worker.msg \notin begun \cup dropped
      BY <3>1 DEF Employed, Placed
    <3>3. stamp[worker.msg] < generation
      BY <2>2, <3>2 DEF StampInv, TypeOK
    <3>4. worker.msg \in doomed
      BY <3>2, <3>3 DEF Waiting, FreshInv
    <3> QED BY <1>1, <1>2, <1>3, <3>1, <3>4 DEF FreshInv, FreshNeverDropped
  <2> QED BY <2>1, <2>2
<1>6. CASE dropped' = dropped
  BY <1>1, <1>2, <1>3, <1>6 DEF FreshInv, FreshNeverDropped
<1>7. ClaimTurn \/ CheckGeneration \/ dropped' = dropped
  BY WorkerMoves DEF Receive, past
<1> QED BY <1>4, <1>5, <1>6, <1>7

\* Nothing but a Stop makes a message that waits stale.
LEMMA FreshStep ==
  ASSUME TypeOK, Employed, Placed, StampInv, FreshInv, [Next]_vars
  PROVE  FreshInv'
<1>1. ASSUME NEW u \in Stops, StopStep(u) PROVE FreshInv'
  <2>1. UNCHANGED <<sender, stamp, begun, dropped, exactStop, cancelled>>
    BY <1>1 DEF StopStep, BumpGeneration, ZeroPending, ClearIds, MarkPendingStale,
                ClearSteering, SignalTurn, queue, past, control
  <2>2. CASE BumpGeneration(u)
    <3>1. doomed' = doomed \cup {m \in Msgs : Waiting(m)}
      BY <2>2 DEF BumpGeneration
    <3>2. \A m \in Msgs : Waiting(m)' <=> Waiting(m)
      BY <2>1 DEF Waiting
    <3> QED BY <2>1, <3>1, <3>2 DEF FreshInv, FreshNeverDropped
  <2>3. CASE ~BumpGeneration(u)
    <3>1. generation' = generation /\ doomed' = doomed
      BY <1>1, <2>3 DEF StopStep, ZeroPending, ClearIds, MarkPendingStale, ClearSteering,
                        SignalTurn, queue, past
    <3> QED BY <2>1, <3>1 DEF FreshInv, FreshNeverDropped, Waiting
  <2> QED BY <2>2, <2>3
<1>2. ASSUME NEW m \in Exact, ExactStopStep(m) PROVE FreshInv'
  <2>1. UNCHANGED <<sender, stamp, generation, begun, dropped, doomed>>
    BY <1>2 DEF ExactStopStep, PersistStop, InvalidateTurn, SignalExactTurn, queue, past
  <2>2. \A n \in Exact : n # m => exactStop'[n] = exactStop[n]
    BY <1>2 DEF ExactStopStep, PersistStop, InvalidateTurn, SignalExactTurn, Name, TypeOK
  <2>3. /\ exactStop[m] \notin {"idle", "persisted"} => exactStop'[m] \notin {"idle", "persisted"}
        /\ m \in cancelled' => exactStop'[m] \notin {"idle", "persisted"} \/ m \in cancelled
        /\ cancelled' \subseteq cancelled \cup {m}
    BY <1>2 DEF ExactStopStep, PersistStop, InvalidateTurn, SignalExactTurn, Name, TypeOK, control
  <2> QED BY <2>1, <2>2, <2>3 DEF FreshInv, FreshNeverDropped, Waiting, TypeOK
<1>3. CASE UNCHANGED vars
  BY <1>3 DEF vars, queue, control, stops, past, FreshInv, FreshNeverDropped, Waiting
<1> QED BY <1>1, <1>2, <1>3, FreshCaller, FreshWorker DEF Next

\* A message is discarded only because of a Stop that found it waiting or named it:
\* one that is sent after a Stop goes through.
THEOREM FreshGoesThrough == Spec => []FreshNeverDropped
<1>1. Init => Placed /\ StampInv /\ FreshInv
  BY DEF Init, Placed, StampInv, StoppedNeverStarts, FreshInv, FreshNeverDropped, Waiting, NoWork
<1>2. TypeOK /\ Employed /\ Placed /\ StampInv /\ FreshInv /\ [Next]_vars
        => Placed' /\ StampInv' /\ FreshInv'
  BY PlacedStep, StampStep, FreshStep
<1>3. FreshInv => FreshNeverDropped
  BY DEF FreshInv
<1> QED BY <1>1, <1>2, <1>3, TypeCorrect, PTL DEF Spec

-----------------------------------------------------------------------------
(* Until the first Stop: one message of each client id, and an exact counter. *)

\* A Stop in progress has bumped the generation, and until then each message in flight
\* is the one its client id remembers.
LiveInv ==
  /\ \A u \in Stops : stopper[u] # "idle" => generation > 0
  /\ generation = 0 =>
       \A m \in Msgs : InFlight(m) /\ ClientOf[m] # NoClient => ids[ClientOf[m]] = m

\* What Append and Tail do to the members of the channel.
LEMMA ChannelMoves ==
  ASSUME TypeOK
  PROVE  /\ \A m \in Msgs : channel' = Append(channel, m) =>
              \A n \in Msgs : Queued(n)' <=> Queued(n) \/ n = m
         /\ channel # <<>> /\ channel' = Tail(channel) =>
              \A n \in Msgs : Queued(n) <=> Queued(n)' \/ n = Head(channel)
<1>1. channel \in Seq(Msgs) /\ Len(channel) \in Nat
  BY DEF TypeOK
<1>2. ASSUME NEW m \in Msgs, channel' = Append(channel, m), NEW n \in Msgs
      PROVE  Queued(n)' <=> Queued(n) \/ n = m
  <2>1. /\ Len(channel') = Len(channel) + 1
        /\ channel'[Len(channel) + 1] = m
        /\ \A i \in 1 .. Len(channel) : channel'[i] = channel[i]
    BY <1>1, <1>2
  <2> QED BY <1>1, <2>1 DEF Queued
<1>3. ASSUME channel # <<>>, channel' = Tail(channel), NEW n \in Msgs
      PROVE  Queued(n) <=> Queued(n)' \/ n = Head(channel)
  <2>1. /\ Len(channel') = Len(channel) - 1 /\ Len(channel) >= 1
        /\ \A i \in 1 .. Len(channel') : channel'[i] = channel[i + 1]
        /\ Head(channel) = channel[1]
    BY <1>1, <1>3
  <2>2. Queued(n)' \/ n = Head(channel) => Queued(n)
    BY <1>1, <2>1 DEF Queued
  <2>3. Queued(n) => Queued(n)' \/ n = Head(channel)
    BY <1>3, ReceiveQueued
  <2> QED BY <2>2, <2>3
<1> QED BY <1>2, <1>3

\* A call brings only its own message into flight, and only past the client ids.
LEMMA CallerFlight ==
  ASSUME TypeOK, Employed, Placed, NEW m \in Msgs, CallerStep(m), NEW n \in Msgs, InFlight(n)'
  PROVE  /\ InFlight(n) \/ (n = m /\ Deduplicate(m) /\ ~Known(m))
         /\ RejectMessage(m) => n # m
<1>1. worker' = worker /\ (n # m => sender'[n] = sender[n])
  BY CallerMoves
<1>2. CASE TrySend(m)
  <2>1. channel' = channel \/ channel' = Append(channel, m)
    BY <1>2 DEF TrySend
  <2>2. Queued(n)' => Queued(n) \/ n = m
    BY <2>1, ChannelMoves DEF Queued
  <2>3. InFlight(m) /\ ~RejectMessage(m)
    BY <1>2 DEF TrySend, Pass, InFlight, RejectMessage
  <2> QED BY <1>1, <2>2, <2>3 DEF InFlight, Queued
<1>3. CASE ~TrySend(m)
  <2>1. channel' = channel
    BY <1>3, CallerMoves
  <2>2. sender'[m] \in Admitting => sender[m] \in Admitting \/ (Deduplicate(m) /\ ~Known(m))
    BY <1>3 DEF CallerStep, LookAround, UpsertIntent, PushSteering, Recheck, Reclaim, Deduplicate,
                StampGeneration, CountPending, UncountPending, RejectMessage, Pass, TypeOK,
                Admitting
  <2>3. ASSUME RejectMessage(m), n = m PROVE FALSE
    <3>1. sender[m] = "uncounted" /\ sender'[m] = "rejected"
      BY <2>3 DEF RejectMessage, Pass, TypeOK
    <3>2. worker.msg # m /\ ~Queued(m)
      BY <3>1, IdAssumption DEF Placed, Employed, Queued
    <3> QED BY <1>1, <2>1, <2>3, <3>1, <3>2 DEF InFlight, Queued
  <2> QED BY <1>1, <2>1, <2>2, <2>3 DEF InFlight, Admitting
<1> QED BY <1>2, <1>3

\* A call enters flight only when its client id is free, and frees only its own.
LEMMA LiveCaller ==
  ASSUME TypeOK, Employed, Placed, LiveInv, NEW m \in Msgs, CallerStep(m)
  PROVE  LiveInv'
<1>1. generation' = generation /\ stopper' = stopper
  BY CallerMoves
<1>2. SUFFICES ASSUME generation = 0, NEW n \in Msgs, InFlight(n)', ClientOf[n] # NoClient
               PROVE  ids'[ClientOf[n]] = n
  BY <1>1 DEF LiveInv
<1>3. ClientOf[n] \in Clients
  BY <1>2, MessageAssumption
<1>4. InFlight(n) => ids[ClientOf[n]] = n
  BY <1>2 DEF LiveInv
<1>5. CASE Deduplicate(m)
  <2>1. CASE Known(m)
    <3>1. ids' = ids
      BY <1>5, <2>1 DEF Deduplicate
    <3> QED BY <1>2, <1>4, <2>1, <3>1, CallerFlight
  <2>2. CASE ~Known(m)
    <3>1. ids' = [c \in Clients |-> IF c = ClientOf[m] THEN m ELSE ids[c]]
      BY <1>5, <2>2 DEF Deduplicate
    <3>2. n # m => InFlight(n) /\ ids[ClientOf[n]] = n
      BY <1>2, <1>4, CallerFlight
    <3>3. n # m => ClientOf[n] # ClientOf[m]
      BY <1>2, <2>2, <3>2, IdAssumption DEF Known
    <3> QED BY <1>3, <3>1, <3>2, <3>3
  <2> QED BY <2>1, <2>2
<1>6. CASE RejectMessage(m)
  <2>1. InFlight(n) /\ n # m
    BY <1>2, <1>6, CallerFlight DEF RejectMessage, Deduplicate, Pass
  <2>2. InFlight(m)
    BY <1>6 DEF RejectMessage, Pass, InFlight
  <2>3. ClientOf[n] # ClientOf[m]
    BY <1>2, <1>4, <2>1, <2>2 DEF LiveInv
  <2> QED BY <1>3, <1>4, <1>6, <2>1, <2>3 DEF RejectMessage, Forget
<1>7. CASE ~Deduplicate(m) /\ ~RejectMessage(m)
  <2>1. ids' = ids
    BY <1>7 DEF CallerStep, LookAround, UpsertIntent, PushSteering, Recheck, Reclaim,
                StampGeneration, CountPending, TrySend, UncountPending, queue
  <2> QED BY <1>2, <1>4, <1>7, <2>1, CallerFlight
<1> QED BY <1>5, <1>6, <1>7

\* The worker forgets the message that it lets go, which is nowhere else.
LEMMA LiveWorker ==
  ASSUME TypeOK, Employed, Placed, LiveInv, WorkerStep
  PROVE  LiveInv'
<1>1. UNCHANGED <<sender, generation, stopper>>
  BY WorkerMoves
<1>2. SUFFICES ASSUME generation = 0, NEW n \in Msgs, InFlight(n)', ClientOf[n] # NoClient
               PROVE  ids'[ClientOf[n]] = n
  BY <1>1 DEF LiveInv
<1>3. ClientOf[n] \in Clients
  BY <1>2, MessageAssumption
<1>4. InFlight(n) => ids[ClientOf[n]] = n
  BY <1>2 DEF LiveInv
<1>5. CASE Receive
  <2>1. /\ channel # <<>> /\ channel' = Tail(channel) /\ worker'.msg = Head(channel)
        /\ ids' = ids
    BY <1>5 DEF Receive, NoWork
  <2>2. Queued(n)' \/ worker'.msg = n => Queued(n)
    BY <2>1, ChannelMoves
  <2>3. InFlight(n)
    BY <1>1, <1>2, <2>2 DEF InFlight, Queued
  <2> QED BY <1>4, <2>1, <2>3
<1>6. CASE DropNamed \/ DropStale \/ Release
  <2>1. /\ worker.msg \in Msgs /\ Forget(worker.msg) /\ channel' = channel
        /\ worker'.msg = NoMsg /\ worker.phase # "idle"
    BY <1>6 DEF DropNamed, DropStale, Release, At, Employed, NoWork
  <2>2. sender[worker.msg] = "sent" /\ ~Queued(worker.msg)
    BY <2>1 DEF Placed, Queued
  <2>3. InFlight(n) /\ n # worker.msg
    BY <1>1, <1>2, <2>1, <2>2, IdAssumption DEF InFlight, Queued
  <2>4. InFlight(worker.msg)
    BY DEF InFlight
  <2>5. ClientOf[n] # ClientOf[worker.msg]
    BY <1>2, <1>4, <2>1, <2>3, <2>4 DEF LiveInv
  <2> QED BY <1>3, <1>4, <2>1, <2>3, <2>5 DEF Forget
<1>7. CASE worker'.msg = worker.msg /\ channel' = channel /\ ids' = ids
  BY <1>1, <1>2, <1>4, <1>7 DEF InFlight
<1> QED BY <1>5, <1>6, <1>7, WorkerMoves

\* Until a Stop was pressed, no Stop does anything.
LEMMA StopBumps ==
  ASSUME TypeOK, LiveInv, NEW u \in Stops, StopStep(u)
  PROVE  /\ generation' > 0
         /\ \A v \in Stops : stopper'[v] # "idle" => generation' > 0
<1>1. CASE BumpGeneration(u)
  BY <1>1 DEF BumpGeneration, TypeOK
<1>2. CASE ~BumpGeneration(u)
  <2>1. generation' = generation /\ stopper[u] # "idle"
    BY <1>2 DEF StopStep, ZeroPending, ClearIds, MarkPendingStale, ClearSteering, SignalTurn,
                Press, queue
  <2> QED BY <2>1 DEF LiveInv
<1> QED BY <1>1, <1>2

\* So do the other steps, for a Stop ends the time that is spoken of.
LEMMA LiveStep ==
  ASSUME TypeOK, Employed, Placed, LiveInv, [Next]_vars
  PROVE  LiveInv'
<1>1. ASSUME NEW u \in Stops, StopStep(u) PROVE LiveInv'
  BY <1>1, StopBumps DEF LiveInv
<1>2. ASSUME NEW m \in Exact, ExactStopStep(m) PROVE LiveInv'
  BY <1>2 DEF ExactStopStep, PersistStop, InvalidateTurn, SignalExactTurn, queue, LiveInv, InFlight
<1>3. CASE UNCHANGED vars
  BY <1>3 DEF vars, queue, stops, LiveInv, InFlight
<1> QED BY <1>1, <1>2, <1>3, LiveCaller, LiveWorker DEF Next

\* While nobody presses Stop, at most one message of a client id is in flight.
THEOREM OneMessageLive == Spec => []OneLivePerClient
<1>1. Init => Placed /\ LiveInv
  BY IdAssumption DEF Init, Placed, LiveInv, InFlight, NoWork
<1>2. TypeOK /\ Employed /\ Placed /\ LiveInv /\ [Next]_vars => Placed' /\ LiveInv'
  BY PlacedStep, LiveStep
<1>3. TypeOK /\ LiveInv => OneLivePerClient
  BY DEF LiveInv, OneLivePerClient
<1> QED BY <1>1, <1>2, <1>3, TypeCorrect, PTL DEF Spec

\* The messages that the counter is about.
CountedMsgs == {m \in Msgs : Counted(m)}

CountInv == generation = 0 => pending = Cardinality(CountedMsgs)

\* One message more or less is one more or less to count.
LEMMA CountOne ==
  ASSUME IsFiniteSet(Msgs), TypeOK, NEW m \in Msgs
  PROVE  /\ Cardinality(CountedMsgs) \in Nat
         /\ Cardinality(CountedMsgs) <= Cardinality(Msgs)
         /\ ~Counted(m) /\ CountedMsgs' = CountedMsgs \cup {m} =>
              Cardinality(CountedMsgs') = Cardinality(CountedMsgs) + 1
         /\ Counted(m) /\ CountedMsgs' = CountedMsgs \ {m} =>
              /\ Cardinality(CountedMsgs) > 0
              /\ Cardinality(CountedMsgs') = Cardinality(CountedMsgs) - 1
<1>1. CountedMsgs \subseteq Msgs /\ (m \in CountedMsgs <=> Counted(m))
  BY DEF CountedMsgs
<1>2. IsFiniteSet(CountedMsgs) /\ Cardinality(CountedMsgs) <= Cardinality(Msgs)
  BY <1>1, FS_Subset
<1>3. Cardinality(CountedMsgs) \in Nat
  BY <1>2, FS_CardinalityType
<1>4. ASSUME ~Counted(m), CountedMsgs' = CountedMsgs \cup {m}
      PROVE  Cardinality(CountedMsgs') = Cardinality(CountedMsgs) + 1
  <2>1. Cardinality(CountedMsgs \cup {m}) = Cardinality(CountedMsgs) + 1
    BY <1>1, <1>2, <1>4, FS_AddElement
  <2> QED BY <1>4, <2>1
<1>5. ASSUME Counted(m), CountedMsgs' = CountedMsgs \ {m}
      PROVE  /\ Cardinality(CountedMsgs) > 0
             /\ Cardinality(CountedMsgs') = Cardinality(CountedMsgs) - 1
  <2>1. Cardinality(CountedMsgs \ {m}) = Cardinality(CountedMsgs) - 1
    BY <1>1, <1>2, <1>5, FS_RemoveElement
  <2>2. CountedMsgs # {}
    BY <1>1, <1>5
  <2>3. Cardinality(CountedMsgs) # 0
    BY <1>2, <2>2, FS_EmptySet
  <2> QED BY <1>3, <1>5, <2>1, <2>3
<1> QED BY <1>2, <1>3, <1>4, <1>5

\* A call counts its message once, before it sends it, and takes back the count of
\* one that was refused.
LEMMA CountCaller ==
  ASSUME IsFiniteSet(Msgs), Cardinality(Msgs) < Wrap,
         TypeOK, Employed, Placed, CountInv, NEW m \in Msgs, CallerStep(m)
  PROVE  CountInv'
<1>1. generation' = generation /\ worker' = worker /\ (\A n \in Msgs : n # m => sender'[n] = sender[n])
  BY CallerMoves
<1>2. SUFFICES ASSUME generation = 0 PROVE pending' = Cardinality(CountedMsgs')
  BY <1>1 DEF CountInv
<1>3. /\ pending = Cardinality(CountedMsgs) /\ pending \in Nat
      /\ Wrap \in Nat \ {0} /\ pending < Wrap
  BY <1>2, MessageAssumption DEF CountInv, TypeOK
<1>4. sender[m] # "sent" => worker.msg # m /\ ~Queued(m)
  BY IdAssumption DEF Placed, Employed, Queued
<1>5. CASE CountPending(m)
  <2>1. /\ sender[m] = "stamped" /\ sender'[m] = "counted" /\ channel' = channel
        /\ pending' = (pending + 1) % Wrap
    BY <1>5 DEF CountPending, Pass, TypeOK
  <2>2. ~Counted(m) /\ CountedMsgs' = CountedMsgs \cup {m}
    BY <1>1, <1>4, <2>1 DEF Counted, CountedMsgs, Queued
  <2>3. Cardinality(CountedMsgs') = pending + 1
    BY <1>3, <2>2, CountOne
  <2>4. pending + 1 <= Cardinality(Msgs)
    <3>1. CountedMsgs' \subseteq Msgs
      BY DEF CountedMsgs
    <3>2. Cardinality(CountedMsgs') <= Cardinality(Msgs)
      BY <3>1, FS_Subset
    <3> QED BY <2>3, <3>2
  <2>5. Cardinality(Msgs) \in Nat
    BY FS_CardinalityType
  <2>6. (pending + 1) % Wrap = pending + 1
    BY <1>3, <2>4, <2>5
  <2> QED BY <2>1, <2>3, <2>6
<1>6. CASE UncountPending(m)
  <2>1. /\ sender[m] = "full" /\ sender'[m] = "uncounted" /\ channel' = channel
        /\ pending' = (pending + Wrap - 1) % Wrap
    BY <1>6 DEF UncountPending, Pass, TypeOK
  <2>2. Counted(m) /\ CountedMsgs' = CountedMsgs \ {m}
    BY <1>1, <1>4, <2>1 DEF Counted, CountedMsgs, Queued
  <2>3. Cardinality(CountedMsgs') = pending - 1 /\ pending > 0
    BY <1>3, <2>2, CountOne
  <2>4. (pending + Wrap - 1) % Wrap = pending - 1
    BY <1>3, <2>3
  <2> QED BY <2>1, <2>3, <2>4
<1>7. CASE TrySend(m)
  <2>1. pending' = pending /\ sender[m] = "counted"
    BY <1>7 DEF TrySend, Pass
  <2>2. CountedMsgs' = CountedMsgs
    <3>1. CASE Len(channel) < Capacity
      <4>1. sender'[m] = "sent" /\ channel' = Append(channel, m)
        BY <1>7, <3>1 DEF TrySend, Pass, TypeOK
      <4>2. \A n \in Msgs : Queued(n)' <=> Queued(n) \/ n = m
        BY <4>1, ChannelMoves
      <4> QED BY <1>1, <2>1, <4>1, <4>2 DEF Counted, CountedMsgs, Queued
    <3>2. CASE ~(Len(channel) < Capacity)
      <4>1. sender'[m] = "full" /\ channel' = channel
        BY <1>7, <3>2 DEF TrySend, Pass, TypeOK
      <4> QED BY <1>1, <2>1, <4>1 DEF Counted, CountedMsgs
    <3> QED BY <3>1, <3>2
  <2> QED BY <1>3, <2>1, <2>2
<1>8. CASE ~CountPending(m) /\ ~UncountPending(m) /\ ~TrySend(m)
  <2>1. pending' = pending /\ channel' = channel
    BY <1>8 DEF CallerStep, LookAround, UpsertIntent, PushSteering, Recheck, Reclaim, Deduplicate,
                StampGeneration, RejectMessage, queue
  <2>2. sender'[m] \notin {"counted", "full"} /\ sender[m] \notin {"counted", "full"}
    BY <1>8 DEF CallerStep, LookAround, UpsertIntent, PushSteering, Recheck, Reclaim, Deduplicate,
                StampGeneration, RejectMessage, Pass, TypeOK
  <2>3. CountedMsgs' = CountedMsgs
    BY <1>1, <2>1, <2>2 DEF Counted, CountedMsgs
  <2> QED BY <1>3, <2>1, <2>3
<1> QED BY <1>5, <1>6, <1>7, <1>8

\* The worker takes a message off the counter when it stops it by its name or begins
\* it; until the first Stop there is no third case.
LEMMA CountWorker ==
  ASSUME IsFiniteSet(Msgs), TypeOK, Employed, Placed, StampInv, CountInv, WorkerStep
  PROVE  CountInv'
<1>1. UNCHANGED <<sender, stamp, generation>>
  BY WorkerMoves
<1>2. SUFFICES ASSUME generation = 0 PROVE pending' = Cardinality(CountedMsgs')
  BY <1>1 DEF CountInv
<1>3. pending = Cardinality(CountedMsgs) /\ pending \in Nat
  BY <1>2 DEF CountInv, TypeOK
<1>4. worker.phase # "idle" => /\ worker.msg \in Msgs /\ sender[worker.msg] = "sent"
                               /\ ~Queued(worker.msg)
  BY DEF Employed, Placed, Queued
<1>5. CASE Receive
  <2>1. /\ channel # <<>> /\ channel' = Tail(channel) /\ pending' = pending
        /\ worker'.msg = Head(channel) /\ worker'.phase = "received" /\ worker.phase = "idle"
    BY <1>5 DEF Receive, NoWork, At
  <2>2. \A n \in Msgs : Queued(n) <=> Queued(n)' \/ n = Head(channel)
    BY <2>1, ChannelMoves
  <2>3. CountedMsgs' = CountedMsgs
    BY <1>1, <2>1, <2>2 DEF Counted, CountedMsgs, Queued
  <2> QED BY <1>3, <2>1, <2>3
<1>6. CASE DropNamed \/ BeginProcessing
  <2>1. /\ worker.phase \in {"named", "fresh"} /\ channel' = channel
        /\ pending' = IF pending = 0 THEN 0 ELSE pending - 1
        /\ worker'.msg = NoMsg \/ worker'.phase = "promoting"
        /\ worker'.msg \in {NoMsg, worker.msg}
    <3>1. CASE DropNamed
      BY <3>1 DEF DropNamed, At, Discount, NoWork
    <3>2. CASE BeginProcessing
      BY <3>2 DEF BeginProcessing, At, Discount, TypeOK
    <3> QED BY <1>6, <3>1, <3>2
  <2>2. Counted(worker.msg) /\ CountedMsgs' = CountedMsgs \ {worker.msg}
    BY <1>1, <1>4, <2>1, IdAssumption DEF Counted, CountedMsgs, Queued
  <2>3. pending > 0 /\ Cardinality(CountedMsgs') = pending - 1
    BY <1>3, <1>4, <2>1, <2>2, CountOne
  <2> QED BY <1>3, <2>1, <2>3
<1>7. CASE DropStale \/ Release
  <2>1. /\ worker.phase \in {"stale", "releasing"} /\ channel' = channel /\ pending' = pending
        /\ worker'.msg = NoMsg
    BY <1>7 DEF DropStale, Release, At, NoWork
  <2>2. CountedMsgs' = CountedMsgs
    BY <1>1, <2>1, IdAssumption DEF Counted, CountedMsgs
  <2> QED BY <1>3, <2>1, <2>2
<1>8. CASE ClaimTurn \/ CheckGeneration
  <2>1. /\ worker.phase \in {"received", "claimed"}
        /\ worker'.phase \in {"named", "claimed", "fresh"}
        /\ worker'.msg = worker.msg /\ UNCHANGED <<channel, pending>>
    <3>1. CASE ClaimTurn
      BY <3>1 DEF ClaimTurn, At, Go, TypeOK, queue
    <3>2. CASE CheckGeneration
      <4>1. worker.phase = "claimed" /\ stamp[worker.msg] = generation
        BY <1>2, <1>4, <3>2 DEF CheckGeneration, At, StampInv, TypeOK
      <4> QED BY <3>2, <4>1 DEF CheckGeneration, Go, TypeOK, queue
    <3> QED BY <1>8, <3>1, <3>2
  <2>2. CountedMsgs' = CountedMsgs
    BY <1>1, <2>1 DEF Counted, CountedMsgs
  <2> QED BY <1>3, <2>1, <2>2
<1>9. CASE /\ worker'.msg = worker.msg /\ UNCHANGED <<channel, pending>>
           /\ worker.phase \notin {"received", "named", "claimed", "fresh"}
           /\ worker'.phase \notin {"received", "named", "claimed", "fresh"}
  <2>1. CountedMsgs' = CountedMsgs
    BY <1>1, <1>9 DEF Counted, CountedMsgs
  <2> QED BY <1>3, <1>9, <2>1
<1> QED BY <1>5, <1>6, <1>7, <1>8, <1>9, WorkerMoves

\* Nothing else touches the counter before the first Stop.
LEMMA CountStep ==
  ASSUME IsFiniteSet(Msgs), Cardinality(Msgs) < Wrap,
         TypeOK, Employed, Placed, StampInv, LiveInv, CountInv, [Next]_vars
  PROVE  CountInv'
<1>1. ASSUME NEW u \in Stops, StopStep(u) PROVE CountInv'
  BY <1>1, StopBumps DEF CountInv
<1>2. ASSUME NEW m \in Exact, ExactStopStep(m) PROVE CountInv'
  BY <1>2 DEF ExactStopStep, PersistStop, InvalidateTurn, SignalExactTurn, queue, CountInv,
              CountedMsgs, Counted
<1>3. CASE UNCHANGED vars
  BY <1>3 DEF vars, queue, CountInv, CountedMsgs, Counted
<1> QED BY <1>1, <1>2, <1>3, CountCaller, CountWorker DEF Next

\* While nobody presses Stop, the counter by which eviction and shutdown decide that
\* nothing is waiting is exact: there are fewer messages than the counter has values.
THEOREM PendingIsExact ==
  ASSUME IsFiniteSet(Msgs), Cardinality(Msgs) < Wrap
  PROVE  Spec => []PendingCounts
<1>1. Init => Placed /\ StampInv /\ LiveInv /\ CountInv
  <2> SUFFICES ASSUME Init PROVE Placed /\ StampInv /\ LiveInv /\ CountInv
    OBVIOUS
  <2>1. Placed /\ StampInv /\ LiveInv
    BY IdAssumption DEF Init, Placed, StampInv, StoppedNeverStarts, LiveInv, InFlight, NoWork
  <2>2. CountedMsgs = {} /\ pending = 0
    BY IdAssumption DEF Init, CountedMsgs, Counted, NoWork
  <2> QED BY <2>1, <2>2, FS_EmptySet DEF CountInv
<1>2. TypeOK /\ Employed /\ Placed /\ StampInv /\ LiveInv /\ CountInv /\ [Next]_vars
        => Placed' /\ StampInv' /\ LiveInv' /\ CountInv'
  BY PlacedStep, StampStep, LiveStep, CountStep
<1>3. TypeOK /\ CountInv => PendingCounts
  <2> SUFFICES ASSUME TypeOK, CountInv, generation = 0
               PROVE  pending = Cardinality(CountedMsgs) % Wrap
    BY DEF PendingCounts, CountedMsgs
  <2>1. pending = Cardinality(CountedMsgs) /\ pending \in 0 .. (Wrap - 1) /\ Wrap \in Nat \ {0}
    BY MessageAssumption DEF CountInv, TypeOK
  <2> QED BY <2>1
<1> QED BY <1>1, <1>2, <1>3, TypeCorrect, PTL DEF Spec
=============================================================================
