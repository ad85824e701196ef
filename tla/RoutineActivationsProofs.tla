---------------------- MODULE RoutineActivationsProofs ----------------------
(***************************************************************************)
(* What RoutineActivations promises for any number of schedulers, fires,   *)
(* occurrences, edits and faults: its types; as long as nobody outlasts a  *)
(* lease it holds, that one run is active at a time; and, as long as the   *)
(* first occurrence is decided in time and no more are missed than a pass  *)
(* looks at, that none is lost behind the watermark.                       *)
(***************************************************************************)
EXTENDS RoutineActivations, TLAPS

USE DEF schedule, time, history

Calls == [at : Places, kind : {"request", "promote"}, key : Keys \cup {NoKey},
          todo : SUBSET Keys, ok : BOOLEAN]
Passes == [stage : {"idle", "promoting", "firing"}, now : 0 .. LastTick, fresh : BOOLEAN,
           queued : SUBSET Keys, due : SUBSET Ticks, retry : BOOLEAN]

Typed ==
  /\ run \in [Keys -> RunStatus] /\ open \subseteq Keys /\ event \in [Keys -> EventStatus]
  /\ guard \in [owner : Threads \cup {Nobody, Gone}, lapsed : BOOLEAN]
  /\ watermark \in {Never} \cup 0 .. LastTick /\ nextFire \in 1 .. LastTick + 1
  /\ clock \in 0 .. LastTick /\ fresh \in BOOLEAN /\ since \in 0 .. LastTick
  /\ call \in [Threads -> Calls] /\ tick \in [Hosts -> Passes]
  /\ applies \in 0 .. MaxApplies /\ faults \in 0 .. MaxFaults /\ passed \subseteq Ticks

LEMMA TypedIsTypeOK == (TypeOK <=> Typed) /\ (TypeOK' <=> Typed')
  BY DEF Typed, TypeOK, Calls, Passes

-----------------------------------------------------------------------------
(* Types. *)

LEMMA NewCallTyped ==
  ASSUME NEW t \in Threads
  PROVE  NewCall(t) \in Calls
  BY DEF NewCall, Calls, Places, Threads, Keys

LEMMA NoTickTyped == NoTick \in Passes
<1>1. LastTick \in Nat
  BY RoutineAssumption
<1> QED
  BY <1>1 DEF NoTick, Passes

LEMMA InitTyped == Init => Typed
<1> SUFFICES ASSUME Init PROVE Typed
  OBVIOUS
<1>1. call \in [Threads -> Calls]
  BY NewCallTyped DEF Init
<1>2. tick \in [Hosts -> Passes]
  BY NoTickTyped DEF Init
<1>3. /\ watermark \in {Never} \cup 0 .. LastTick /\ nextFire \in 1 .. LastTick + 1
      /\ clock \in 0 .. LastTick /\ since \in 0 .. LastTick
      /\ applies \in 0 .. MaxApplies /\ faults \in 0 .. MaxFaults
  BY RoutineAssumption DEF Init
<1>4. guard \in [owner : Threads \cup {Nobody, Gone}, lapsed : BOOLEAN]
  BY DEF Init, NoGuard
<1> QED
  BY <1>1, <1>2, <1>3, <1>4 DEF Init, Typed, RunStatus, EventStatus

\* The assignments that calls make besides Goto.
LEMMA CallTyped ==
  ASSUME Typed, NEW t \in Threads, NEW place \in Places, NEW ok \in BOOLEAN, NEW S \in SUBSET Keys
  PROVE  /\ [call EXCEPT ![t].at = place, ![t].todo = S] \in [Threads -> Calls]
         /\ [call EXCEPT ![t].at = place, ![t].ok = ok] \in [Threads -> Calls]
<1>1. call \in [Threads -> Calls] /\ call[t] \in Calls
  BY DEF Typed
<1>2. /\ [call[t] EXCEPT !.at = place, !.todo = S] \in Calls
      /\ [call[t] EXCEPT !.at = place, !.ok = ok] \in Calls
  BY <1>1 DEF Calls
<1>3. /\ [call EXCEPT ![t].at = place, ![t].todo = S]
           = [call EXCEPT ![t] = [call[t] EXCEPT !.at = place, !.todo = S]]
      /\ [call EXCEPT ![t].at = place, ![t].ok = ok]
           = [call EXCEPT ![t] = [call[t] EXCEPT !.at = place, !.ok = ok]]
  BY <1>1 DEF Calls
<1> QED
  BY <1>1, <1>2, <1>3

LEMMA GotoTyped ==
  ASSUME Typed, NEW t \in Threads, NEW place \in Places, Goto(t, place)
  PROVE  call' \in [Threads -> Calls]
<1>1. [call[t] EXCEPT !.at = place] \in Calls
  BY DEF Typed, Calls
<1>2. call' = [call EXCEPT ![t] = [call[t] EXCEPT !.at = place]]
  BY DEF Goto
<1>3. call \in [Threads -> Calls]
  BY DEF Typed, Calls
<1> QED
  BY <1>1, <1>2, <1>3

LEMMA ReturnTyped ==
  ASSUME Typed, NEW t \in Threads, NEW ok \in BOOLEAN, Return(t, ok)
  PROVE  call' \in [Threads -> Calls] /\ tick' \in [Hosts -> Passes]
<1>1. call' \in [Threads -> Calls]
  BY DEF Typed, Return, Goto, Calls, Places
<1>2. tick' \in [Hosts -> Passes]
  BY DEF Typed, Return, AfterCall, Passes
<1> QED
  BY <1>1, <1>2

LEMMA EventsTyped ==
  ASSUME Typed, NEW k \in Keys
  PROVE  /\ Deferred(k) \in [Keys -> EventStatus]
         /\ \A status \in EventStatus : Finished(k, status) \in [Keys -> EventStatus]
  BY DEF Typed, Deferred, Finished, EventStatus, Deferrals

\* The key of a call is a key, or that of a scheduler before its first call.
LEMMA CallStepTyped ==
  ASSUME Typed, NEW t \in Threads, CallStep(t), call[t].key \in Keys
  PROVE  Typed'
<1> USE DEF Places
<1>1. Typed
  OBVIOUS
<1>2. CASE RequestActivation(t)
  <2>1. call' \in [Threads -> Calls] /\ tick' \in [Hosts -> Passes]
    BY <1>1, <1>2, GotoTyped, ReturnTyped DEF RequestActivation, Typed
  <2> QED
    BY <1>1, <1>2, <2>1 DEF RequestActivation, Typed, tables
<1>3. CASE ClaimGuard(t)
  <2>1. call' \in [Threads -> Calls] /\ tick' \in [Hosts -> Passes]
    BY <1>1, <1>3, GotoTyped, ReturnTyped DEF ClaimGuard, Typed
  <2>2. guard' = [owner |-> t, lapsed |-> FALSE] \/ guard' = guard
    BY <1>3 DEF ClaimGuard
  <2>3. guard' \in [owner : Threads \cup {Nobody, Gone}, lapsed : BOOLEAN]
    <3>1. [owner |-> t, lapsed |-> FALSE] \in [owner : Threads \cup {Nobody, Gone}, lapsed : BOOLEAN]
      OBVIOUS
    <3> QED
      BY <1>1, <2>2, <3>1, Zenon DEF Typed
  <2> QED
    BY <1>1, <1>3, <2>1, <2>3 DEF ClaimGuard, Typed, tables
<1>4. CASE DeferBehindGuard(t)
  <2>1. call' \in [Threads -> Calls] /\ tick' \in [Hosts -> Passes]
    BY <1>1, <1>4, GotoTyped, ReturnTyped DEF DeferBehindGuard, Typed
  <2>2. event' \in [Keys -> EventStatus]
    BY <1>1, <1>4, EventsTyped DEF DeferBehindGuard, Typed
  <2> QED
    BY <1>1, <1>4, <2>1, <2>2 DEF DeferBehindGuard, Typed
<1>5. CASE ReadEvent(t)
  <2>1. call' \in [Threads -> Calls]
    BY <1>5, GotoTyped DEF ReadEvent
  <2> QED
    BY <1>1, <1>5, <2>1 DEF ReadEvent, Typed, tables
<1>6. CASE ListRuns(t)
  <2>1. Running \in SUBSET Keys
    BY DEF Running
  <2>2. call' \in [Threads -> Calls]
    BY <1>6, <2>1, CallTyped DEF ListRuns
  <2> QED
    BY <1>1, <1>6, <2>2 DEF ListRuns, Typed, tables
<1>7. CASE ReconcileRunningRun(t)
  <2>1. call' \in [Threads -> Calls]
    <3>1. CASE \E place \in Places : Goto(t, place)
      BY <3>1, GotoTyped
    <3>2. CASE \E k \in Keys : call' = [call EXCEPT ![t].todo = @ \ {k}]
      BY <1>1, <3>2 DEF Typed, Calls
    <3> QED
      BY <1>1, <1>7, <3>1, <3>2 DEF ReconcileRunningRun, Typed, Calls
  <2>2. run' \in [Keys -> RunStatus]
    BY <1>1, <1>7 DEF ReconcileRunningRun, Typed, RunStatus
  <2> QED
    BY <1>1, <1>7, <2>1, <2>2 DEF ReconcileRunningRun, Typed
<1>8. CASE NoActiveRun(t)
  <2>1. call' \in [Threads -> Calls]
    BY <1>8, GotoTyped DEF NoActiveRun
  <2> QED
    BY <1>1, <1>8, <2>1 DEF NoActiveRun, Typed, tables
<1>9. CASE RecordDeferred(t)
  <2>1. call' \in [Threads -> Calls]
    BY <1>9, GotoTyped DEF RecordDeferred
  <2>2. event' \in [Keys -> EventStatus]
    BY <1>9, EventsTyped DEF RecordDeferred
  <2> QED
    BY <1>1, <1>9, <2>1, <2>2 DEF RecordDeferred, Typed
<1>10. CASE RenewGuard(t)
  <2>1. call' \in [Threads -> Calls]
    <3>1. CASE Goto(t, "invoking")
      BY <3>1, GotoTyped
    <3>2. CASE call' = [call EXCEPT ![t].at = "releasing", ![t].ok = FALSE]
      BY <3>2, CallTyped
    <3> QED
      BY <1>10, <3>1, <3>2 DEF RenewGuard
  <2>2. guard' \in [owner : Threads \cup {Nobody, Gone}, lapsed : BOOLEAN]
    BY <1>1, <1>10 DEF RenewGuard, Typed
  <2> QED
    BY <1>1, <1>10, <2>1, <2>2 DEF RenewGuard, Typed, tables
<1>11. CASE InvokeTarget(t)
  <2>1. call' \in [Threads -> Calls] /\ tick' \in [Hosts -> Passes]
    BY <1>1, <1>11, GotoTyped, ReturnTyped DEF InvokeTarget, Typed
  <2>2. run' \in [Keys -> RunStatus] /\ open' \subseteq Keys
    BY <1>1, <1>11 DEF InvokeTarget, Typed, RunStatus
  <2> QED
    BY <1>1, <1>11, <2>1, <2>2 DEF InvokeTarget, Typed
<1>12. CASE FinishQueued(t)
  <2>1. call' \in [Threads -> Calls]
    BY <1>12, GotoTyped DEF FinishQueued
  <2>2. event' \in [Keys -> EventStatus]
    BY <1>12, EventsTyped DEF FinishQueued, EventStatus
  <2> QED
    BY <1>1, <1>12, <2>1, <2>2 DEF FinishQueued, Typed
<1>13. CASE ReleaseGuard(t)
  <2>1. call[t].ok \in BOOLEAN
    BY <1>1 DEF Typed, Calls
  <2>2. call' \in [Threads -> Calls] /\ tick' \in [Hosts -> Passes]
    BY <1>1, <1>13, <2>1, GotoTyped, ReturnTyped DEF ReleaseGuard, Typed
  <2>3. guard' \in [owner : Threads \cup {Nobody, Gone}, lapsed : BOOLEAN]
    BY <1>1, <1>13 DEF ReleaseGuard, Typed, NoGuard
  <2> QED
    BY <1>1, <1>13, <2>2, <2>3 DEF ReleaseGuard, Typed, tables
<1>14. CASE FailQueued(t)
  <2>1. call' \in [Threads -> Calls] /\ tick' \in [Hosts -> Passes]
    BY <1>14, ReturnTyped DEF FailQueued
  <2>2. event' \in [Keys -> EventStatus]
    BY <1>14, EventsTyped DEF FailQueued, EventStatus
  <2> QED
    BY <1>1, <1>14, <2>1, <2>2 DEF FailQueued, Typed
<1> QED
  BY <1>2, <1>3, <1>4, <1>5, <1>6, <1>7, <1>8, <1>9, <1>10, <1>11, <1>12, <1>13, <1>14 DEF CallStep

LEMMA OthersTyped ==
  ASSUME Typed
  PROVE  /\ \A t \in Threads : AccessFails(t) /\ call[t].key \in Keys => Typed'
         /\ \A t \in Threads : Crash(t) => Typed'
<1> USE DEF Places
<1>1. MaxFaults \in Nat /\ LastTick \in Nat
  BY RoutineAssumption
<1>2. ASSUME NEW t \in Threads, AccessFails(t)
      PROVE  Typed'
  <2>1. faults' \in 0 .. MaxFaults
    BY <1>1, <1>2 DEF AccessFails, Fault, Typed
  <2>2. call' \in [Threads -> Calls] /\ tick' \in [Hosts -> Passes]
    <3>1. CASE UNCHANGED <<call, tick>>
      BY <3>1 DEF Typed
    <3>2. CASE call' = [call EXCEPT ![t].at = "releasing", ![t].ok = FALSE] /\ tick' = tick
      BY <3>2, CallTyped DEF Typed
    <3>3. CASE call' = [call EXCEPT ![t].at = "failing", ![t].ok = FALSE] /\ tick' = tick
      BY <3>3, CallTyped DEF Typed
    <3>4. CASE Return(t, FALSE)
      BY <3>4, ReturnTyped
    <3>5. CASE tick' = tick /\ \E place \in Places : Goto(t, place)
      BY <3>5, GotoTyped DEF Typed
    <3> QED
      BY <1>2, <3>1, <3>2, <3>3, <3>4, <3>5 DEF AccessFails
  <2>3. guard' \in [owner : Threads \cup {Nobody, Gone}, lapsed : BOOLEAN]
    BY <1>2 DEF AccessFails, Typed
  <2> QED
    BY <1>2, <2>1, <2>2, <2>3 DEF AccessFails, Typed, tables
<1>3. ASSUME NEW t \in Threads, Crash(t)
      PROVE  Typed'
  <2>1. faults' \in 0 .. MaxFaults
    BY <1>1, <1>3 DEF Crash, Fault, Typed
  <2>2. \A place \in Places : [NewCall(t) EXCEPT !.at = place] \in Calls
    BY NewCallTyped DEF Calls
  <2>3. call' \in [Threads -> Calls]
    BY <1>3, <2>2 DEF Crash, Typed
  <2>4. tick' \in [Hosts -> Passes]
    BY <1>3, NoTickTyped DEF Crash, Typed
  <2>5. guard' \in [owner : Threads \cup {Nobody, Gone}, lapsed : BOOLEAN]
    BY <1>3 DEF Crash, Typed
  <2> QED
    BY <1>3, <2>1, <2>3, <2>4, <2>5 DEF Crash, Typed, tables
<1> QED
  BY <1>2, <1>3

LEMMA TickTyped ==
  ASSUME Typed, NEW h \in Hosts
  PROVE  /\ TickStep(h) => Typed'
         /\ TickFails(h) => Typed'
<1> USE DEF Places
<1>1. LastTick \in Nat /\ MaxFaults \in Nat
  BY RoutineAssumption
<1>2. h \in Threads /\ h \notin Fires
  BY RoutineAssumption DEF Threads
<1>3. CASE BeginTick(h)
  <2>1. tick' \in [Hosts -> Passes]
    BY <1>3, NoTickTyped DEF BeginTick, Typed, Passes
  <2> QED
    BY <1>3, <2>1 DEF BeginTick, Typed, tables
<1>4. CASE PromoteNext(h)
  <2>1. PICK k \in tick[h].queued :
          call' = [call EXCEPT ![h] = [NewCall(h) EXCEPT !.at = "claiming", !.kind = "promote", !.key = k]]
    BY <1>4 DEF PromoteNext
  <2>2. k \in Keys
    BY <2>1 DEF Typed, Passes
  <2>3. [NewCall(h) EXCEPT !.at = "claiming", !.kind = "promote", !.key = k] \in Calls
    BY <1>2, <2>2, NewCallTyped DEF Calls
  <2> QED
    BY <1>2, <1>4, <2>1, <2>3 DEF PromoteNext, Typed, tables
<1>5. CASE ListDue(h)
  <2>1. DueTimes(tick[h]) \subseteq Ticks /\ CatchUp(DueTimes(tick[h])) \subseteq Ticks
    BY DEF DueTimes, CatchUp
  <2>2. tick' \in [Hosts -> Passes]
    BY <1>5, <2>1, NoTickTyped DEF ListDue, Typed, Passes
  <2>3. passed' \subseteq Ticks
    BY <1>5, <2>1 DEF ListDue, Typed
  <2> QED
    BY <1>5, <2>2, <2>3 DEF ListDue, Typed, tables
<1>6. CASE RequestNext(h)
  <2>1. PICK i \in tick[h].due :
          call' = [call EXCEPT ![h] = [NewCall(h) EXCEPT !.at = "asking", !.key = i]]
    BY <1>6 DEF RequestNext
  <2>2. i \in Keys
    BY <2>1 DEF Typed, Passes, Keys
  <2>3. [NewCall(h) EXCEPT !.at = "asking", !.key = i] \in Calls
    BY <1>2, <2>2, NewCallTyped DEF Calls
  <2> QED
    BY <1>2, <1>6, <2>1, <2>3 DEF RequestNext, Typed, tables
<1>7. CASE MarkEvaluated(h)
  <2>1. tick' \in [Hosts -> Passes]
    BY <1>7, NoTickTyped DEF MarkEvaluated, Typed
  <2>2. tick[h].now \in 0 .. LastTick
    BY DEF Typed, Passes
  <2>3. watermark' \in {Never} \cup 0 .. LastTick /\ nextFire' \in 1 .. LastTick + 1
    BY <1>1, <1>7, <2>2 DEF MarkEvaluated, Evaluate, Typed
  <2> QED
    BY <1>7, <2>1, <2>3 DEF MarkEvaluated, Typed
<1>8. CASE TickFails(h)
  <2>1. tick' \in [Hosts -> Passes]
    BY <1>8, NoTickTyped DEF TickFails, Typed
  <2>2. call' \in [Threads -> Calls]
    BY <1>2, <1>8, GotoTyped DEF TickFails
  <2>3. faults' \in 0 .. MaxFaults
    BY <1>1, <1>8 DEF TickFails, Fault, Typed
  <2> QED
    BY <1>8, <2>1, <2>2, <2>3 DEF TickFails, Typed, tables
<1> QED
  BY <1>3, <1>4, <1>5, <1>6, <1>7, <1>8 DEF TickStep

LEMMA WorldTyped ==
  ASSUME Typed
  PROVE  /\ \A k \in Keys : WorkEnds(k) \/ CancelRun(k) => Typed'
         /\ LeaseLapses \/ Apply \/ ClockAdvances \/ WindowPasses \/ UNCHANGED vars => Typed'
<1>1. LastTick \in Nat /\ MaxApplies \in Nat
  BY RoutineAssumption
<1>2. ASSUME NEW k \in Keys, WorkEnds(k)
      PROVE  Typed'
  BY <1>2 DEF WorkEnds, Typed
<1>3. ASSUME NEW k \in Keys, CancelRun(k)
      PROVE  Typed'
  BY <1>3 DEF CancelRun, Typed, RunStatus
<1>4. CASE LeaseLapses
  BY <1>4 DEF LeaseLapses, Typed, tables
<1>5. CASE ClockAdvances
  BY <1>1, <1>5 DEF ClockAdvances, Typed, tables
<1>6. CASE UNCHANGED vars
  BY <1>6 DEF vars, tables, Typed
<1>7. CASE Apply
  <2>1. nextFire' \in 1 .. LastTick + 1 /\ since' \in 0 .. LastTick /\ watermark' \in {Never} \cup 0 .. LastTick
    BY <1>1, <1>7 DEF Apply, Typed
  <2>2. applies' \in 0 .. MaxApplies
    BY <1>1, <1>7 DEF Apply, Typed
  <2> QED
    BY <1>7, <2>1, <2>2 DEF Apply, Typed
<1>8. CASE WindowPasses
  BY <1>8 DEF WindowPasses, Typed, tables
<1> QED
  BY <1>2, <1>3, <1>4, <1>5, <1>6, <1>7, <1>8

\* A step of a call is about that call alone, and keeps its key and its kind.
Own(t) ==
  /\ \A u \in Threads : u # t => call'[u] = call[u]
  /\ call'[t].key = call[t].key /\ call'[t].kind = call[t].kind
  /\ \A h \in Hosts : h # t => tick'[h] = tick[h]

LEMMA GotoOwn ==
  ASSUME Typed, NEW t \in Threads, NEW place \in Places, Goto(t, place), tick' = tick
  PROVE  Own(t)
  BY DEF Typed, Own, Goto, Calls

LEMMA ReturnOwn ==
  ASSUME Typed, NEW t \in Threads, NEW ok \in BOOLEAN, Return(t, ok)
  PROVE  Own(t)
<1>1. \A h \in Hosts : h # t => tick'[h] = tick[h]
  BY DEF Typed, Return, AfterCall
<1> QED
  BY <1>1 DEF Typed, Own, Return, Goto, Calls

LEMMA CallOwn ==
  ASSUME Typed, NEW t \in Threads, CallStep(t) \/ AccessFails(t)
  PROVE  Own(t)
<1> USE DEF Places
<1>0. call \in [Threads -> Calls] /\ call[t].ok \in BOOLEAN
  BY DEF Typed, Calls
<1>1. CASE RequestActivation(t)
  BY <1>1, GotoOwn, ReturnOwn DEF RequestActivation
<1>2. CASE ClaimGuard(t)
  BY <1>2, GotoOwn, ReturnOwn DEF ClaimGuard
<1>3. CASE DeferBehindGuard(t)
  BY <1>3, GotoOwn, ReturnOwn DEF DeferBehindGuard
<1>4. CASE ReadEvent(t)
  BY <1>4, GotoOwn DEF ReadEvent
<1>5. CASE ListRuns(t)
  BY <1>0, <1>5 DEF ListRuns, Own, Calls
<1>6. CASE ReconcileRunningRun(t)
  <2>1. CASE \E place \in Places : Goto(t, place)
    BY <1>6, <2>1, GotoOwn DEF ReconcileRunningRun
  <2>2. CASE \E k \in call[t].todo : call' = [call EXCEPT ![t].todo = @ \ {k}]
    BY <1>0, <1>6, <2>2 DEF ReconcileRunningRun, Own, Calls
  <2> QED
    BY <1>6, <2>1, <2>2 DEF ReconcileRunningRun
<1>7. CASE NoActiveRun(t)
  BY <1>7, GotoOwn DEF NoActiveRun
<1>8. CASE RecordDeferred(t)
  BY <1>8, GotoOwn DEF RecordDeferred
<1>9. CASE RenewGuard(t)
  <2>1. CASE Goto(t, "invoking")
    BY <1>9, <2>1, GotoOwn DEF RenewGuard
  <2>2. CASE call' = [call EXCEPT ![t].at = "releasing", ![t].ok = FALSE]
    BY <1>0, <1>9, <2>2 DEF RenewGuard, Own, Calls
  <2> QED
    BY <1>9, <2>1, <2>2 DEF RenewGuard
<1>10. CASE InvokeTarget(t)
  BY <1>10, GotoOwn, ReturnOwn DEF InvokeTarget
<1>11. CASE FinishQueued(t)
  BY <1>11, GotoOwn DEF FinishQueued
<1>12. CASE ReleaseGuard(t)
  BY <1>0, <1>12, GotoOwn, ReturnOwn DEF ReleaseGuard
<1>13. CASE FailQueued(t)
  BY <1>13, ReturnOwn DEF FailQueued
<1>14. CASE AccessFails(t)
  <2>1. CASE UNCHANGED <<call, tick>>
    BY <2>1 DEF Own
  <2>2. CASE call' = [call EXCEPT ![t].at = "releasing", ![t].ok = FALSE] /\ tick' = tick
    BY <1>0, <2>2 DEF Own, Calls
  <2>3. CASE call' = [call EXCEPT ![t].at = "failing", ![t].ok = FALSE] /\ tick' = tick
    BY <1>0, <2>3 DEF Own, Calls
  <2>4. CASE Return(t, FALSE)
    BY <2>4, ReturnOwn
  <2>5. CASE tick' = tick /\ \E place \in Places : Goto(t, place)
    BY <2>5, GotoOwn
  <2> QED
    BY <1>14, <2>1, <2>2, <2>3, <2>4, <2>5 DEF AccessFails
<1> QED
  BY <1>1, <1>2, <1>3, <1>4, <1>5, <1>6, <1>7, <1>8, <1>9, <1>10, <1>11, <1>12, <1>13, <1>14 DEF CallStep

\* Whoever is in a call has a key.
Keyed == \A t \in Threads : call[t].key \in Keys \/ At(t, "idle")

LEMMA InitKeyed == Init => Keyed
  BY DEF Init, Keyed, NewCall, At, Threads, Keys

LEMMA CallKeyed ==
  ASSUME Typed, Keyed, NEW t \in Threads, CallStep(t) \/ AccessFails(t) \/ Crash(t)
  PROVE  Keyed'
<1>1. call \in [Threads -> Calls] /\ t \in Threads
  BY DEF Typed
<1>2. CASE Crash(t)
  BY <1>1, <1>2 DEF Crash, NewCall, Keyed, At, Threads, Keys, Calls
<1>3. CASE CallStep(t) \/ AccessFails(t)
  <2>1. ~At(t, "idle")
    BY <1>3 DEF CallStep, AccessFails, RequestActivation, ClaimGuard, DeferBehindGuard, ReadEvent,
         ListRuns, ReconcileRunningRun, NoActiveRun, RecordDeferred, RenewGuard, InvokeTarget,
         FinishQueued, ReleaseGuard, FailQueued, At
  <2>2. \A u \in Threads : call'[u].key = call[u].key /\ (u # t => call'[u].at = call[u].at)
    BY <1>3, CallOwn DEF Own
  <2> QED
    BY <1>1, <2>1, <2>2 DEF Keyed, At
<1> QED
  BY <1>2, <1>3

LEMMA StepTyped ==
  ASSUME Typed, Keyed, [Next]_vars
  PROVE  Typed' /\ Keyed'
<1>1. ASSUME NEW t \in Threads, CallStep(t) \/ AccessFails(t) \/ Crash(t)
      PROVE  Typed' /\ Keyed'
  <2>1. call[t].key \in Keys \/ Crash(t)
    BY <1>1 DEF Keyed, CallStep, AccessFails, RequestActivation, ClaimGuard, DeferBehindGuard, ReadEvent,
         ListRuns, ReconcileRunningRun, NoActiveRun, RecordDeferred, RenewGuard, InvokeTarget,
         FinishQueued, ReleaseGuard, FailQueued, At
  <2> QED
    BY <1>1, <2>1, CallStepTyped, OthersTyped, CallKeyed
<1>2. ASSUME NEW h \in Hosts, TickStep(h) \/ TickFails(h)
      PROVE  Typed' /\ Keyed'
  <2>1. Typed'
    BY <1>2, TickTyped
  <2>2. call \in [Threads -> Calls] /\ h \in Threads
    BY DEF Typed, Threads
  <2>3. tick[h].queued \subseteq Keys /\ tick[h].due \subseteq Keys
    BY DEF Typed, Passes, Keys
  <2>4. Keyed'
    <3>1. CASE call' = call
      BY <3>1 DEF Keyed, At
    <3>2. CASE PromoteNext(h)
      BY <2>2, <2>3, <3>2 DEF PromoteNext, Keyed, At, NewCall
    <3>3. CASE RequestNext(h)
      BY <2>2, <2>3, <3>3 DEF RequestNext, Keyed, At, NewCall
    <3>4. CASE TickFails(h)
      BY <2>2, <3>4 DEF TickFails, Goto, Keyed, At, Calls
    <3> QED
      BY <1>2, <3>1, <3>2, <3>3, <3>4 DEF TickStep, BeginTick, ListDue, MarkEvaluated
  <2> QED
    BY <2>1, <2>4
<1>3. ASSUME NEW k \in Keys, WorkEnds(k) \/ CancelRun(k)
      PROVE  Typed' /\ Keyed'
  BY <1>3, WorldTyped DEF WorkEnds, CancelRun, Keyed, At
<1>4. CASE LeaseLapses \/ Apply \/ ClockAdvances \/ WindowPasses \/ UNCHANGED vars
  BY <1>4, WorldTyped DEF LeaseLapses, Apply, ClockAdvances, WindowPasses, vars, Keyed, At
<1> QED
  BY <1>1, <1>2, <1>3, <1>4 DEF Next

\* Type correctness, for any number of schedulers and fires and under every circumstance.
THEOREM RoutineTyped == Spec => []TypeOK
<1>1. Typed /\ Keyed /\ [Next]_vars => Typed' /\ Keyed'
  BY StepTyped
<1>2. Init => Typed /\ Keyed
  BY InitTyped, InitKeyed
<1> QED
  BY <1>1, <1>2, TypedIsTypeOK, PTL DEF Spec

-----------------------------------------------------------------------------
(* The watermark. *)

\* Without a watermark only the newest occurrence is undecided, and it is in the window.
Prompt ==
  watermark = Never =>
    \A i \in Ticks : since < i /\ i <= clock => Decided(i) \/ (i = clock /\ fresh)

\* A pass looks at everything that came since the watermark.
Reached == watermark # Never => clock <= watermark + MaxDue

\* The time of a pass is not ahead, not more than a window behind, and of its occurrence.
Punctual(h) ==
  tick[h].stage # "idle" =>
    /\ tick[h].now <= clock /\ clock <= tick[h].now + MaxDue
    /\ tick[h].now = clock /\ fresh => tick[h].fresh

\* A pass in which nothing has failed accounts for every occurrence up to its time.
Evaluated(h) ==
  tick[h].stage = "firing" /\ ~tick[h].retry =>
    \A i \in Ticks : since < i /\ i <= tick[h].now => Decided(i) \/ i \in passed \/ i \in tick[h].due

\* A request that is about to report success was decided, a promotion that is about
\* to finish its event has its run.
Answered(t) ==
  \/ At(t, "releasing") /\ call[t].kind = "request" /\ call[t].ok
  \/ At(t, "finishing")
  => Decided(call[t].key)

Honest ==
  /\ WatermarkIsHonest /\ Prompt /\ Reached
  /\ \A h \in Hosts : Punctual(h) /\ Evaluated(h)
  /\ \A t \in Threads : Answered(t)

\* What was decided stays decided, whoever acts.
DecisionsStand == (\A k \in Keys : Decided(k) => Decided(k)') /\ passed \subseteq passed'

\* What most steps leave alone.
Steady == watermark' = watermark /\ since' = since /\ clock' = clock /\ fresh' = fresh

LEMMA EventsStand ==
  ASSUME Typed, NEW k \in Keys
  PROVE  /\ Deferred(k)[k] # "none"
         /\ \A j \in Keys : event[j] # "none" => Deferred(k)[j] # "none"
         /\ \A j \in Keys : event[j] # "none" => Finished(k, "dispatched")[j] # "none"
         /\ \A j \in Keys : event[j] # "none" => Finished(k, "failed")[j] # "none"
  BY DEF Typed, Deferred, Finished

LEMMA CallStands ==
  ASSUME Typed, NEW t \in Threads, call[t].key \in Keys, CallStep(t) \/ AccessFails(t) \/ Crash(t)
  PROVE  DecisionsStand /\ Steady
<1>1. \A j \in Keys : event[j] # "none" => event'[j] # "none"
  <2>1. \/ event' = event \/ event' = Deferred(call[t].key)
        \/ event' = Finished(call[t].key, "dispatched") \/ event' = Finished(call[t].key, "failed")
    BY DEF CallStep, AccessFails, Crash, RequestActivation, ClaimGuard, DeferBehindGuard, ReadEvent,
         ListRuns, ReconcileRunningRun, NoActiveRun, RecordDeferred, RenewGuard, InvokeTarget,
         FinishQueued, ReleaseGuard, FailQueued, tables
  <2> QED
    BY <2>1, EventsStand
<1>2. \A j \in Keys : run[j] # "none" => run'[j] # "none"
  <2>1. CASE run' = run
    BY <2>1
  <2>2. CASE ReconcileRunningRun(t)
    BY <2>2 DEF ReconcileRunningRun, Typed
  <2>3. CASE InvokeTarget(t)
    BY <2>3 DEF InvokeTarget, Typed
  <2> QED
    BY <2>1, <2>2, <2>3 DEF CallStep, AccessFails, Crash, RequestActivation, ClaimGuard, DeferBehindGuard,
         ReadEvent, ListRuns, NoActiveRun, RecordDeferred, RenewGuard, FinishQueued, ReleaseGuard,
         FailQueued, tables
<1>3. passed' = passed /\ Steady
  BY DEF CallStep, AccessFails, Crash, RequestActivation, ClaimGuard, DeferBehindGuard, ReadEvent,
       ListRuns, ReconcileRunningRun, NoActiveRun, RecordDeferred, RenewGuard, InvokeTarget,
       FinishQueued, ReleaseGuard, FailQueued, tables, Steady
<1> QED
  BY <1>1, <1>2, <1>3 DEF DecisionsStand, Decided

\* A step that is about one thread has to account for that thread only.
LEMMA HonestFrame ==
  ASSUME Typed, Honest, DecisionsStand, Steady, NEW t \in Threads, Keyed,
         \A u \in Threads : u # t => call'[u] = call[u],
         \A h \in Hosts : h # t => tick'[h] = tick[h],
         Answered(t)', t \in Hosts => Punctual(t)' /\ Evaluated(t)'
  PROVE  Honest'
<1>1. WatermarkIsHonest'
  BY DEF Honest, WatermarkIsHonest, DecisionsStand, Steady, Keys
<1>0. Prompt' /\ Reached'
  BY DEF Honest, Prompt, Reached, DecisionsStand, Steady, Keys
<1>2. ASSUME NEW u \in Threads
      PROVE  Answered(u)'
  <2>1. CASE u # t
    BY <2>1 DEF Honest, Answered, DecisionsStand, Keyed, At
  <2> QED
    BY <2>1
<1>3. ASSUME NEW h \in Hosts
      PROVE  Punctual(h)' /\ Evaluated(h)'
  <2>1. CASE h # t
    BY <2>1 DEF Honest, Punctual, Evaluated, DecisionsStand, Steady, Keys
  <2> QED
    BY <2>1
<1> QED
  BY <1>0, <1>1, <1>2, <1>3 DEF Honest

\* How a call ends: the scheduler crosses a request off, and keeps in mind that one failed.
LEMMA ReturnEvaluated ==
  ASSUME Typed, Honest, DecisionsStand, Steady, NEW t \in Hosts, NEW ok \in BOOLEAN, Return(t, ok),
         NEW k \in Keys, k = call[t].key, ok /\ call[t].kind = "request" => Decided(k)'
  PROVE  Punctual(t)' /\ Evaluated(t)'
<1>1. tick[t] \in Passes /\ tick \in [Hosts -> Passes]
  BY DEF Typed
<1>0. Punctual(t)'
  <2>1. tick'[t].stage = tick[t].stage /\ tick'[t].now = tick[t].now /\ tick'[t].fresh = tick[t].fresh
    BY <1>1 DEF Return, AfterCall, Passes
  <2> QED
    BY <2>1 DEF Honest, Punctual, Steady
<1>2. CASE call[t].kind = "promote"
  <2>1. /\ tick'[t].stage = tick[t].stage /\ tick'[t].now = tick[t].now
        /\ tick'[t].due = tick[t].due /\ tick'[t].retry = tick[t].retry
    BY <1>1, <1>2 DEF Return, AfterCall, Passes
  <2> QED
    BY <1>0, <2>1 DEF Honest, Evaluated, DecisionsStand, Steady, Keys
<1>3. CASE call[t].kind # "promote"
  <2>1. /\ tick'[t].stage = tick[t].stage /\ tick'[t].now = tick[t].now
        /\ tick'[t].due = tick[t].due \ {call[t].key} /\ (tick'[t].retry <=> tick[t].retry \/ ~ok)
    BY <1>1, <1>3 DEF Return, AfterCall, Passes
  <2>2. call[t].kind = "request"
    BY <1>3 DEF Typed, Calls, Threads
  <2>3. ASSUME tick'[t].stage = "firing", ~tick'[t].retry, NEW i \in Ticks, since' < i, i <= tick'[t].now
        PROVE  Decided(i)' \/ i \in passed' \/ i \in tick'[t].due
    <3>1. Decided(i) \/ i \in passed \/ i \in tick[t].due
      BY <2>1, <2>3 DEF Honest, Evaluated, Steady
    <3>2. i = k => Decided(i)'
      BY <2>1, <2>2, <2>3
    <3> QED
      BY <2>1, <3>1, <3>2 DEF DecisionsStand, Keys
  <2> QED
    BY <1>0, <2>3 DEF Evaluated
<1> QED
  BY <1>2, <1>3

\* A call either leaves the passes alone or ends with an answer that is true.
LEMMA CallHonest ==
  ASSUME Typed, Keyed, Honest, NEW t \in Threads, CallStep(t) \/ AccessFails(t)
  PROVE  Honest'
<1> USE DEF Places
<1>1. ~At(t, "idle") /\ call[t].key \in Keys /\ call[t].ok \in BOOLEAN
  <2>1. ~At(t, "idle")
    BY DEF CallStep, AccessFails, RequestActivation, ClaimGuard, DeferBehindGuard, ReadEvent,
         ListRuns, ReconcileRunningRun, NoActiveRun, RecordDeferred, RenewGuard, InvokeTarget,
         FinishQueued, ReleaseGuard, FailQueued, At
  <2> QED
    BY <2>1 DEF Keyed, Typed, Calls
<1>2. DecisionsStand /\ Steady /\ Own(t)
  BY <1>1, CallStands, CallOwn
<1> DEFINE k == call[t].key
<1>3. k \in Keys /\ k = call'[t].key
  BY <1>1, <1>2 DEF Own
<1>4. ASSUME Answered(t)',
             \/ tick' = tick
             \/ \E ok \in BOOLEAN : Return(t, ok) /\ (ok /\ call[t].kind = "request" => Decided(k)')
      PROVE  Honest'
  <2>1. ASSUME t \in Hosts
        PROVE  Punctual(t)' /\ Evaluated(t)'
    <3>1. CASE tick' = tick
      BY <1>2, <2>1, <3>1 DEF Honest, Punctual, Evaluated, DecisionsStand, Steady, Keys
    <3>2. CASE tick' # tick
      BY <1>2, <1>3, <1>4, <2>1, <3>2, ReturnEvaluated
    <3> QED
      BY <3>1, <3>2
  <2> QED
    BY <1>2, <1>4, <2>1, HonestFrame DEF Own
<1>5. ASSUME NEW place \in Places, Goto(t, place), place \notin {"releasing", "finishing"}
      PROVE  Answered(t)'
  BY <1>5 DEF Goto, Answered, At, Typed
<1>6. ASSUME NEW ok \in BOOLEAN, Return(t, ok)
      PROVE  Answered(t)'
  BY <1>6 DEF Return, Goto, Answered, At, Typed
<1>7. ASSUME Decided(k)'
      PROVE  Answered(t)'
  BY <1>3, <1>7 DEF Answered, Decided
<1>8. CASE RequestActivation(t)
  <2>1. event[k] # "none" => Decided(k)'
    BY <1>2, <1>3 DEF DecisionsStand, Decided
  <2> QED
    BY <1>4, <1>5, <1>6, <1>8, <2>1 DEF RequestActivation
<1>9. CASE ClaimGuard(t)
  BY <1>4, <1>5, <1>6, <1>9 DEF ClaimGuard
<1>10. CASE DeferBehindGuard(t)
  <2>1. event' = Deferred(k) => Decided(k)'
    BY <1>3, EventsStand DEF Decided
  <2> QED
    BY <1>4, <1>5, <1>6, <1>10, <2>1 DEF DeferBehindGuard
<1>11. CASE ReadEvent(t)
  <2>1. event[k] # "none" => Decided(k)'
    BY <1>2, <1>3 DEF DecisionsStand, Decided
  <2>2. Answered(t)'
    BY <1>5, <1>7, <1>11, <2>1 DEF ReadEvent
  <2> QED
    BY <1>4, <1>11, <2>2 DEF ReadEvent
<1>12. CASE ListRuns(t) \/ NoActiveRun(t)
  <2>1. CASE ListRuns(t)
    <3>1. Answered(t)'
      BY <2>1 DEF ListRuns, Answered, At, Typed, Calls
    <3> QED
      BY <1>4, <2>1, <3>1 DEF ListRuns
  <2>2. CASE NoActiveRun(t)
    <3>1. Answered(t)'
      BY <1>5, <2>2 DEF NoActiveRun
    <3> QED
      BY <1>4, <2>2, <3>1 DEF NoActiveRun
  <2> QED
    BY <1>12, <2>1, <2>2
<1>13. CASE ReconcileRunningRun(t)
  <2>1. Answered(t)'
    BY <1>13 DEF ReconcileRunningRun, Goto, Answered, At, Typed, Calls
  <2> QED
    BY <1>4, <1>13, <2>1 DEF ReconcileRunningRun
<1>14. CASE RecordDeferred(t)
  <2>1. Decided(k)'
    BY <1>3, <1>14, EventsStand DEF RecordDeferred, Decided
  <2> QED
    BY <1>4, <1>7, <1>14, <2>1 DEF RecordDeferred
<1>15. CASE RenewGuard(t)
  <2>1. Answered(t)'
    BY <1>15 DEF RenewGuard, Goto, Answered, At, Typed, Calls
  <2> QED
    BY <1>4, <1>15, <2>1 DEF RenewGuard
<1>16. CASE InvokeTarget(t)
  <2>1. Decided(k)'
    BY <1>3, <1>16 DEF InvokeTarget, Decided, Typed, RunStatus
  <2> QED
    BY <1>4, <1>7, <1>16, <2>1 DEF InvokeTarget
<1>17. CASE FinishQueued(t)
  <2>1. Decided(k)'
    BY <1>2, <1>3, <1>17 DEF Honest, Answered, FinishQueued, DecisionsStand
  <2> QED
    BY <1>4, <1>7, <1>17, <2>1 DEF FinishQueued
<1>18. CASE ReleaseGuard(t)
  <2>1. call[t].ok /\ call[t].kind = "request" => Decided(k)'
    BY <1>2, <1>3, <1>18 DEF Honest, Answered, ReleaseGuard, DecisionsStand
  <2>2. Answered(t)'
    BY <1>1, <1>5, <1>6, <1>18 DEF ReleaseGuard
  <2> QED
    BY <1>1, <1>4, <1>18, <2>1, <2>2 DEF ReleaseGuard
<1>19. CASE FailQueued(t)
  BY <1>4, <1>6, <1>19 DEF FailQueued
<1>20. CASE AccessFails(t)
  <2>1. Answered(t)'
    <3>1. CASE UNCHANGED <<call, tick>>
      BY <1>2, <1>3, <3>1 DEF Honest, Answered, At, DecisionsStand
    <3>2. CASE call' = [call EXCEPT ![t].at = "releasing", ![t].ok = FALSE]
      BY <3>2 DEF Answered, At, Typed, Calls
    <3>3. CASE call' = [call EXCEPT ![t].at = "failing", ![t].ok = FALSE]
      BY <3>3 DEF Answered, At, Typed, Calls
    <3>4. CASE Return(t, FALSE)
      BY <1>6, <3>4
    <3>5. CASE Goto(t, IF call[t].kind = "request" THEN "recording" ELSE "releasing")
      BY <3>5 DEF Goto, Answered, At, Typed, Calls
    <3> QED
      BY <1>20, <3>1, <3>2, <3>3, <3>4, <3>5 DEF AccessFails
  <2> QED
    BY <1>4, <1>20, <2>1 DEF AccessFails
<1> QED
  BY <1>8, <1>9, <1>10, <1>11, <1>12, <1>13, <1>14, <1>15, <1>16, <1>17, <1>18, <1>19, <1>20 DEF CallStep

\* A thread that ends takes nothing back: its call is gone, and with it its pass.
LEMMA CrashHonest ==
  ASSUME Typed, Keyed, Honest, NEW t \in Threads, Crash(t)
  PROVE  Honest'
<1>1. DecisionsStand /\ Steady
  BY DEF Crash, tables, DecisionsStand, Steady, Decided
<1>2. \A u \in Threads : u # t => call'[u] = call[u]
  BY DEF Crash, Typed
<1>3. \A h \in Hosts : h # t => tick'[h] = tick[h]
  BY DEF Crash, Typed
<1>4. Answered(t)'
  BY DEF Crash, NewCall, Answered, At, Typed
<1>5. t \in Hosts => Punctual(t)' /\ Evaluated(t)'
  BY DEF Crash, NoTick, Punctual, Evaluated, Typed
<1> QED
  BY <1>1, <1>2, <1>3, <1>4, <1>5, HonestFrame

\* A candidate has every occurrence that is not behind the watermark among its due times.
LEMMA ListHonest ==
  ASSUME Typed, Honest, Steady, NEW h \in Hosts, ListDue(h), nextFire <= tick[h].now
  PROVE  Punctual(h)' /\ Evaluated(h)'
<1> DEFINE due == DueTimes(tick[h])
<1>0. LastTick \in Nat /\ MaxDue \in Nat /\ tick[h].now \in 0 .. LastTick /\ clock \in 0 .. LastTick
      /\ watermark \in {Never} \cup 0 .. LastTick /\ Ticks \subseteq Keys
  BY RoutineAssumption DEF Typed, Passes, Keys
<1>1. tick' = [tick EXCEPT ![h].stage = "firing", ![h].due = CatchUp(due)] /\ tick[h].stage = "promoting"
      /\ passed' = passed \cup (due \ CatchUp(due)) /\ run' = run /\ event' = event
  <2>1. ~(nextFire > tick[h].now)
    BY <1>0 DEF Typed
  <2> QED
    BY <2>1 DEF ListDue, tables
<1>2. tick'[h].now = tick[h].now /\ tick'[h].fresh = tick[h].fresh /\ tick'[h].due = CatchUp(due)
  BY <1>1 DEF Typed, Passes
<1>3. Punctual(h)'
  BY <1>1, <1>2 DEF Honest, Punctual, Steady
<1>4. ASSUME NEW i \in Ticks, since < i, i <= tick[h].now
      PROVE  Decided(i) \/ i \in passed \/ i \in due
  <2>1. tick[h].now <= clock /\ (tick[h].now = clock /\ fresh => tick[h].fresh)
    BY <1>1 DEF Honest, Punctual
  <2>2. CASE watermark = Never
    <3>1. Decided(i) \/ (i = clock /\ fresh)
      BY <1>0, <1>4, <2>1, <2>2 DEF Honest, Prompt, Ticks
    <3> QED
      BY <1>0, <1>4, <2>1, <2>2, <3>1 DEF DueTimes, Ticks
  <2>3. CASE watermark # Never /\ watermark < i
    <3>1. i <= watermark + MaxDue
      BY <1>0, <1>4, <2>1, <2>3 DEF Honest, Reached, Ticks
    <3> QED
      BY <1>4, <2>3, <3>1 DEF DueTimes
  <2>4. CASE watermark # Never /\ ~(watermark < i)
    BY <1>0, <1>4, <2>4 DEF Honest, WatermarkIsHonest, Ticks
  <2> QED
    BY <2>2, <2>3, <2>4
<1>5. Evaluated(h)'
  BY <1>1, <1>2, <1>4 DEF Evaluated, Decided, Steady
<1> QED
  BY <1>3, <1>5

LEMMA TickHonest ==
  ASSUME Typed, Keyed, Honest, NEW h \in Hosts, TickStep(h) \/ TickFails(h)
  PROVE  Honest'
<1>0. h \in Threads /\ h \notin Fires /\ LastTick \in Nat /\ MaxDue \in Nat /\ Ticks \subseteq Keys
  BY RoutineAssumption DEF Threads, Keys
<1>1. DecisionsStand
  BY DEF TickStep, TickFails, BeginTick, PromoteNext, ListDue, RequestNext, MarkEvaluated, tables,
       DecisionsStand, Decided
<1>2. \A g \in Hosts : g # h => tick'[g] = tick[g]
  BY DEF TickStep, TickFails, BeginTick, PromoteNext, ListDue, RequestNext, MarkEvaluated, Typed
<1>3. \A u \in Threads : u # h => call'[u] = call[u]
  BY <1>0 DEF TickStep, TickFails, BeginTick, PromoteNext, ListDue, RequestNext, MarkEvaluated, Goto, Typed
<1>4. Answered(h)'
  <2>1. CASE call' = call
    BY <1>0, <1>1, <2>1 DEF Honest, Answered, DecisionsStand, At, Keyed, Decided
  <2>2. CASE PromoteNext(h) \/ RequestNext(h)
    <3>1. call'[h].at \in {"claiming", "asking"}
      <4>1. CASE PromoteNext(h)
        BY <1>0, <4>1 DEF PromoteNext, NewCall, Typed
      <4>2. CASE RequestNext(h)
        BY <1>0, <4>2 DEF RequestNext, NewCall, Typed
      <4> QED
        BY <2>2, <4>1, <4>2
    <3> QED
      BY <3>1 DEF Answered, At
  <2>3. CASE TickFails(h)
    BY <1>0, <2>3 DEF TickFails, Goto, Answered, At, Typed
  <2> QED
    BY <2>1, <2>2, <2>3 DEF TickStep, BeginTick, ListDue, MarkEvaluated
<1>5. CASE ~MarkEvaluated(h)
  <2>1. Steady
    BY <1>5 DEF TickStep, TickFails, BeginTick, PromoteNext, ListDue, RequestNext, tables, Steady
  <2>2. Punctual(h)' /\ Evaluated(h)'
    <3>1. CASE tick' = tick
      BY <1>1, <2>1, <3>1 DEF Honest, Punctual, Evaluated, DecisionsStand, Steady, Keys
    <3>2. CASE tick' = [tick EXCEPT ![h] = NoTick]
      BY <3>2 DEF NoTick, Punctual, Evaluated, Typed
    <3>3. CASE BeginTick(h)
      BY <1>0, <2>1, <3>3 DEF BeginTick, NoTick, Punctual, Evaluated, Steady, Typed
    <3>4. CASE ListDue(h) /\ nextFire <= tick[h].now
      BY <2>1, <3>4, ListHonest
    <3> QED
      BY <1>5, <3>1, <3>2, <3>3, <3>4 DEF TickStep, PromoteNext, ListDue, RequestNext, TickFails
  <2> QED
    BY <1>0, <1>1, <1>2, <1>3, <1>4, <2>1, <2>2, HonestFrame
<1>6. CASE MarkEvaluated(h)
  <2>0. /\ since' = since /\ clock' = clock /\ fresh' = fresh
        /\ tick[h].retry => watermark' = watermark
        /\ ~tick[h].retry => watermark' = tick[h].now
        /\ tick[h].now \in 0 .. LastTick /\ tick[h].stage = "firing" /\ tick[h].due = {}
    BY <1>6 DEF MarkEvaluated, Evaluate, Typed, Passes
  <2>1. WatermarkIsHonest'
    <3>1. CASE tick[h].retry
      BY <1>1, <2>0, <3>1 DEF Honest, WatermarkIsHonest, DecisionsStand, Keys
    <3>2. CASE ~tick[h].retry
      <4>1. \A i \in Ticks : since < i /\ i <= tick[h].now => Decided(i) \/ i \in passed
        BY <2>0, <3>2 DEF Honest, Evaluated
      <4> QED
        BY <1>1, <2>0, <3>2, <4>1 DEF WatermarkIsHonest, DecisionsStand, Keys
    <3> QED
      BY <3>1, <3>2
  <2>2. Prompt' /\ Reached'
    <3>1. CASE tick[h].retry
      BY <1>1, <2>0, <3>1 DEF Honest, Prompt, Reached, DecisionsStand, Keys
    <3>2. CASE ~tick[h].retry
      BY <2>0, <3>2 DEF Honest, Punctual, Prompt, Reached, Never
    <3> QED
      BY <3>1, <3>2
  <2>3. \A g \in Hosts : Punctual(g)' /\ Evaluated(g)'
    <3>1. Punctual(h)' /\ Evaluated(h)'
      BY <1>6 DEF MarkEvaluated, NoTick, Punctual, Evaluated, Typed
    <3>2. \A g \in Hosts : g # h => Punctual(g)' /\ Evaluated(g)'
      BY <1>1, <1>2, <2>0 DEF Honest, Punctual, Evaluated, DecisionsStand, Keys
    <3> QED
      BY <3>1, <3>2
  <2>4. \A u \in Threads : Answered(u)'
    BY <1>6 DEF MarkEvaluated, Honest, Answered, At, Decided
  <2> QED
    BY <2>1, <2>2, <2>3, <2>4 DEF Honest
<1> QED
  BY <1>5, <1>6

\* Nothing else moves but the schedule and its clock.
LEMMA TimeHonest ==
  ASSUME Typed, Keyed, Honest, "first_late" \notin Circumstances, "long_pause" \notin Circumstances,
         Apply \/ ClockAdvances \/ WindowPasses
  PROVE  Honest'
<1>0. MaxDue \in Nat \ {0} /\ LastTick \in Nat /\ clock \in 0 .. LastTick /\ since \in 0 .. LastTick
      /\ watermark \in {Never} \cup 0 .. LastTick
  BY RoutineAssumption DEF Typed
<1>1. call' = call /\ tick' = tick /\ passed' = passed /\ \A k \in Keys : Decided(k)' = Decided(k)
  BY DEF Apply, ClockAdvances, WindowPasses, tables, Decided
<1>2. \A h \in Hosts : tick[h].now \in 0 .. LastTick /\ tick[h].fresh \in BOOLEAN
  BY DEF Typed, Passes
<1>3. \A t \in Threads : Answered(t)'
  BY <1>1 DEF Honest, Answered, At, Keyed
<1>4. CASE Apply
  <2>1. /\ clock' = clock /\ fresh' = fresh
        /\ (watermark' = Never /\ since' = clock) \/ (watermark' = watermark /\ since' = since)
    BY <1>4 DEF Apply
  <2>2. WatermarkIsHonest' /\ Prompt' /\ Reached'
    BY <1>0, <1>1, <2>1 DEF Honest, WatermarkIsHonest, Prompt, Reached, Never, Ticks, Keys
  <2>3. ASSUME NEW h \in Hosts
        PROVE  Punctual(h)' /\ Evaluated(h)'
    <3>1. Punctual(h)'
      BY <1>1, <2>1 DEF Honest, Punctual
    <3>2. Evaluated(h)'
      BY <1>0, <1>1, <1>2, <2>1 DEF Honest, Punctual, Evaluated, Ticks, Keys
    <3> QED
      BY <3>1, <3>2
  <2> QED
    BY <1>3, <2>2, <2>3 DEF Honest
<1>5. CASE ClockAdvances
  <2>1. watermark' = watermark /\ since' = since /\ clock' = clock + 1 /\ fresh' = TRUE
    BY <1>5 DEF ClockAdvances, tables
  <2>2. /\ watermark = Never /\ since < clock => Decided(clock)
        /\ watermark # Never => clock < watermark + MaxDue
        /\ \A h \in Hosts : tick[h].stage # "idle" => clock < tick[h].now + MaxDue
    BY <1>5 DEF ClockAdvances, InTime, WithinMaxDue
  <2>3. WatermarkIsHonest'
    BY <1>1, <2>1 DEF Honest, WatermarkIsHonest, Keys
  <2>4. Prompt'
    BY <1>0, <1>1, <2>1, <2>2 DEF Honest, Prompt, Ticks, Keys
  <2>5. Reached'
    BY <1>0, <2>1, <2>2 DEF Reached, Never
  <2>6. ASSUME NEW h \in Hosts
        PROVE  Punctual(h)' /\ Evaluated(h)'
    <3>1. Punctual(h)'
      BY <1>0, <1>1, <1>2, <2>1, <2>2 DEF Honest, Punctual
    <3>2. Evaluated(h)'
      BY <1>1, <2>1 DEF Honest, Evaluated, Keys
    <3> QED
      BY <3>1, <3>2
  <2> QED
    BY <1>3, <2>3, <2>4, <2>5, <2>6 DEF Honest
<1>6. CASE WindowPasses
  <2>1. watermark' = watermark /\ since' = since /\ clock' = clock /\ fresh' = FALSE
    BY <1>6 DEF WindowPasses, tables
  <2>2. since < clock => Decided(clock)
    BY <1>6 DEF WindowPasses, InTime
  <2>3. WatermarkIsHonest' /\ Reached'
    BY <1>1, <2>1 DEF Honest, WatermarkIsHonest, Reached, Keys
  <2>4. Prompt'
    BY <1>1, <2>1, <2>2 DEF Honest, Prompt, Keys
  <2>5. \A h \in Hosts : Punctual(h)' /\ Evaluated(h)'
    BY <1>1, <2>1 DEF Honest, Punctual, Evaluated, Keys
  <2> QED
    BY <1>3, <2>3, <2>4, <2>5 DEF Honest
<1> QED
  BY <1>4, <1>5, <1>6

LEMMA WorldHonest ==
  ASSUME Typed, Keyed, Honest, (\E k \in Keys : WorkEnds(k) \/ CancelRun(k)) \/ LeaseLapses \/ UNCHANGED vars
  PROVE  Honest'
<1>1. call' = call /\ tick' = tick /\ Steady /\ passed' = passed /\ event' = event
  BY DEF WorkEnds, CancelRun, LeaseLapses, vars, tables, Steady
<1>2. \A k \in Keys : run[k] # "none" => run'[k] # "none"
  BY DEF WorkEnds, CancelRun, LeaseLapses, vars, tables, Typed
<1>3. \A k \in Keys : Decided(k) => Decided(k)'
  BY <1>1, <1>2 DEF Decided
<1>4. WatermarkIsHonest' /\ Prompt' /\ Reached'
  BY <1>1, <1>3 DEF Honest, WatermarkIsHonest, Prompt, Reached, Steady, Keys
<1>5. \A h \in Hosts : Punctual(h)' /\ Evaluated(h)'
  BY <1>1, <1>3 DEF Honest, Punctual, Evaluated, Steady, Keys
<1>6. \A t \in Threads : Answered(t)'
  BY <1>1, <1>3 DEF Honest, Answered, At, Keyed
<1> QED
  BY <1>4, <1>5, <1>6 DEF Honest

LEMMA StepHonest ==
  ASSUME Typed, Keyed, Honest, "first_late" \notin Circumstances, "long_pause" \notin Circumstances,
         [Next]_vars
  PROVE  Honest'
  BY CrashHonest, CallHonest, TickHonest, TimeHonest, WorldHonest DEF Next

\* No occurrence that came since the Routine got its spec is lost behind the watermark,
\* whatever fails, ends or is written anew, for any number of schedulers and occurrences
\* and every catch-up policy: as long as, without a watermark, no occurrence is more than
\* 30 seconds old before it is decided, and no more are missed than MAX_DUE.
THEOREM WatermarkHonest ==
  ASSUME "first_late" \notin Circumstances, "long_pause" \notin Circumstances
  PROVE  Spec => []WatermarkIsHonest
<1>1. Init => Typed /\ Keyed /\ Honest
  <2>1. ASSUME Init
        PROVE  Honest
    <3>1. WatermarkIsHonest /\ Prompt /\ Reached
      BY <2>1, RoutineAssumption DEF Init, WatermarkIsHonest, Prompt, Reached, Never, Ticks
    <3>2. \A h \in Hosts : Punctual(h) /\ Evaluated(h)
      BY <2>1 DEF Init, NoTick, Punctual, Evaluated
    <3>3. \A t \in Threads : Answered(t)
      BY <2>1 DEF Init, NewCall, Answered, At
    <3> QED
      BY <3>1, <3>2, <3>3 DEF Honest
  <2> QED
    BY <2>1, InitTyped, InitKeyed
<1>2. Typed /\ Keyed /\ Honest /\ [Next]_vars => Typed' /\ Keyed' /\ Honest'
  BY StepTyped, StepHonest
<1>3. Honest => WatermarkIsHonest
  BY DEF Honest
<1> QED
  BY <1>1, <1>2, <1>3, PTL DEF Spec

-----------------------------------------------------------------------------
(* One active run: who decides owns the guard, only a dead owner's lease lapses, *)
(* and what the owner has found out about the runs stays true until it acts on it. *)

\* Between its claim of the guard and its release a thread owns it.
Holds(t) ==
  \/ call[t].at \in {"checking", "listing", "reconciling", "recording", "renewing", "finishing"}
  \/ At(t, "invoking") /\ call[t].key \in Gated
Guarded(t) == Holds(t) => guard.owner = t

\* No run that came since the list was read is missing from it, and whoever is
\* about to start a run has seen all others end.
Surveyed(t) == At(t, "reconciling") => \A k \in Gated : run[k] = "running" => k \in call[t].todo
Alone(t) ==
  At(t, "renewing") \/ (At(t, "invoking") /\ call[t].key \in Gated) =>
    \A k \in Gated : run[k] # "running"

LapsedIsGone == guard.lapsed => guard.owner = Gone

Exclusive ==
  /\ OneActiveRun
  /\ LapsedIsGone
  /\ \A t \in Threads : Guarded(t) /\ Surveyed(t) /\ Alone(t)

\* No run of a gated policy starts.
NoStart == \A k \in Gated : run'[k] = "running" => run[k] = "running"

\* A step of one thread that starts no run has to account for that thread only.
LEMMA ExclusiveFrame ==
  ASSUME Exclusive, NoStart, NEW t \in Threads,
         \A u \in Threads : u # t => call'[u] = call[u] /\ (Holds(u) => guard'.owner = u),
         LapsedIsGone', Guarded(t)', Surveyed(t)', Alone(t)'
  PROVE  Exclusive'
<1>1. OneActiveRun'
  BY DEF Exclusive, OneActiveRun, NoStart, Gated
<1>2. ASSUME NEW u \in Threads, u # t
      PROVE  Guarded(u)' /\ Surveyed(u)' /\ Alone(u)'
  <2>1. call'[u] = call[u] /\ (Holds(u) => guard'.owner = u)
    BY <1>2
  <2>2. Guarded(u)'
    BY <2>1 DEF Guarded, Holds, At
  <2>3. Surveyed(u)'
    BY <2>1 DEF Exclusive, Surveyed, At, NoStart, Gated
  <2>4. Alone(u)'
    BY <2>1 DEF Exclusive, Alone, At, NoStart, Gated
  <2> QED
    BY <2>2, <2>3, <2>4
<1> QED
  BY <1>1, <1>2 DEF Exclusive

\* A thread that is not deciding has nothing to account for.
LEMMA OutsideGuard ==
  ASSUME NEW t \in Threads, ~Holds(t)'
  PROVE  Guarded(t)' /\ Surveyed(t)' /\ Alone(t)'
  BY DEF Holds, Guarded, Surveyed, Alone, At

LEMMA GotoAt ==
  ASSUME Typed, NEW t \in Threads, NEW place \in Places, Goto(t, place)
  PROVE  call'[t].at = place /\ call'[t].key = call[t].key /\ call'[t].todo = call[t].todo
  BY DEF Goto, Typed, Calls

LEMMA ReturnOutside ==
  ASSUME Typed, NEW t \in Threads, NEW ok \in BOOLEAN, Return(t, ok)
  PROVE  ~Holds(t)'
<1>1. call'[t].at \in {"done", "idle"}
  BY DEF Return, Goto, Typed, Calls
<1> QED
  BY <1>1 DEF Holds, At

\* What the steps before the run is started have in common.
LEMMA DecidingExclusive ==
  ASSUME Typed, Exclusive, NEW t \in Threads, NoStart, guard' = guard, Own(t),
         Guarded(t)', Surveyed(t)', Alone(t)'
  PROVE  Exclusive'
<1>1. \A u \in Threads : u # t => call'[u] = call[u] /\ (Holds(u) => guard'.owner = u)
  BY DEF Own, Exclusive, Guarded
<1>2. LapsedIsGone'
  BY DEF Exclusive, LapsedIsGone
<1> QED
  BY <1>1, <1>2, ExclusiveFrame

LEMMA CallExclusive ==
  ASSUME Typed, Keyed, Exclusive, NEW t \in Threads, CallStep(t)
  PROVE  Exclusive'
<1> USE DEF Places
<1>1. Own(t) /\ call[t].ok \in BOOLEAN
  BY CallOwn DEF Typed, Calls
<1>2. call[t].key \in Keys
  BY DEF Keyed, CallStep, RequestActivation, ClaimGuard, DeferBehindGuard, ReadEvent,
       ListRuns, ReconcileRunningRun, NoActiveRun, RecordDeferred, RenewGuard, InvokeTarget,
       FinishQueued, ReleaseGuard, FailQueued, At
<1>3. Guarded(t) /\ Surveyed(t) /\ Alone(t)
  BY DEF Exclusive
<1>4. ASSUME run' = run
      PROVE  NoStart
  BY <1>4 DEF NoStart
<1>5. CASE RequestActivation(t)
  <2>1. ~Holds(t)'
    <3>1. CASE \E ok \in BOOLEAN : Return(t, ok)
      BY <3>1, ReturnOutside
    <3>2. CASE call[t].key \in Gated /\ Goto(t, "claiming")
      BY <3>2, GotoAt DEF Holds, At
    <3>3. CASE call[t].key \notin Gated /\ Goto(t, "invoking")
      BY <3>3, GotoAt DEF Holds, At
    <3> QED
      BY <1>2, <1>5, <3>1, <3>2, <3>3 DEF RequestActivation, Gated
  <2> QED
    BY <1>1, <1>4, <1>5, <2>1, OutsideGuard, DecidingExclusive DEF RequestActivation, tables
<1>6. CASE ClaimGuard(t)
  <2>1. CASE guard' = guard /\ ((\E ok \in BOOLEAN : Return(t, ok)) \/ Goto(t, "busy"))
    <3>1. CASE \E ok \in BOOLEAN : Return(t, ok)
      BY <1>1, <1>4, <1>6, <2>1, <3>1, ReturnOutside, OutsideGuard, DecidingExclusive DEF ClaimGuard, tables
    <3>2. CASE Goto(t, "busy")
      <4>1. ~Holds(t)'
        BY <3>2, GotoAt DEF Holds, At
      <4> QED
        BY <1>1, <1>4, <1>6, <2>1, <4>1, OutsideGuard, DecidingExclusive DEF ClaimGuard, tables
    <3> QED
      BY <2>1, <3>1, <3>2
  <2>2. CASE /\ guard.owner = Nobody \/ guard.lapsed
             /\ guard' = [owner |-> t, lapsed |-> FALSE]
             /\ Goto(t, "checking") \/ Goto(t, "listing")
    <3>1. \A u \in Threads : ~Holds(u)
      BY <2>2, RoutineAssumption DEF Exclusive, Guarded, LapsedIsGone
    <3>2. LapsedIsGone' /\ Guarded(t)'
      BY <2>2 DEF LapsedIsGone, Guarded
    <3>3. call'[t].at \in {"checking", "listing"}
      BY <2>2, GotoAt
    <3>4. Surveyed(t)' /\ Alone(t)'
      BY <3>3 DEF Surveyed, Alone, At
    <3> QED
      BY <1>1, <1>4, <1>6, <3>1, <3>2, <3>4, ExclusiveFrame DEF ClaimGuard, tables, Own
  <2> QED
    BY <1>6, <2>1, <2>2 DEF ClaimGuard
<1>7. CASE DeferBehindGuard(t)
  <2>1. ~Holds(t)'
    <3>1. CASE \E ok \in BOOLEAN : Return(t, ok)
      BY <3>1, ReturnOutside
    <3>2. CASE Goto(t, "claiming")
      BY <3>2, GotoAt DEF Holds, At
    <3> QED
      BY <1>7, <3>1, <3>2 DEF DeferBehindGuard
  <2> QED
    BY <1>1, <1>4, <1>7, <2>1, OutsideGuard, DecidingExclusive DEF DeferBehindGuard
<1>8. CASE ReadEvent(t)
  <2>1. call'[t].at \in {"releasing", "listing"}
    BY <1>8, GotoAt DEF ReadEvent
  <2>2. guard.owner = t
    BY <1>3, <1>8 DEF ReadEvent, Guarded, Holds, At
  <2>3. Guarded(t)' /\ Surveyed(t)' /\ Alone(t)'
    BY <1>8, <2>1, <2>2 DEF ReadEvent, Guarded, Surveyed, Alone, At
  <2> QED
    BY <1>1, <1>4, <1>8, <2>3, DecidingExclusive DEF ReadEvent, tables
<1>9. CASE ListRuns(t)
  <2>1. call'[t].at = "reconciling" /\ call'[t].todo = Running
    BY <1>9 DEF ListRuns, Typed, Calls
  <2>2. guard.owner = t
    BY <1>3, <1>9 DEF ListRuns, Guarded, Holds, At
  <2>3. Guarded(t)' /\ Surveyed(t)' /\ Alone(t)'
    BY <1>9, <2>1, <2>2 DEF ListRuns, tables, Running, Guarded, Surveyed, Alone, At, Gated
  <2> QED
    BY <1>1, <1>4, <1>9, <2>3, DecidingExclusive DEF ListRuns, tables
<1>10. CASE ReconcileRunningRun(t)
  <2>1. guard.owner = t /\ guard' = guard
    BY <1>3, <1>10 DEF ReconcileRunningRun, Guarded, Holds, At
  <2>2. NoStart
    BY <1>10 DEF ReconcileRunningRun, NoStart, Typed, Gated
  <2>3. Guarded(t)'
    BY <2>1 DEF Guarded
  <2>4. Surveyed(t)' /\ Alone(t)'
    <3>1. CASE Goto(t, "recording") \/ Goto(t, "releasing")
      <4>1. call'[t].at \in {"recording", "releasing"}
        BY <3>1, GotoAt
      <4> QED
        BY <4>1 DEF Surveyed, Alone, At
    <3>2. ASSUME NEW k \in call[t].todo,
                 run' = [run EXCEPT ![k] = IF @ = "running" THEN "ended" ELSE @],
                 call' = [call EXCEPT ![t].todo = @ \ {k}]
          PROVE  Surveyed(t)' /\ Alone(t)'
      <4>1. call'[t].at = "reconciling" /\ call'[t].todo = call[t].todo \ {k}
        BY <1>10, <3>2 DEF ReconcileRunningRun, At, Typed, Calls
      <4>2. \A j \in Gated : run'[j] = "running" => run[j] = "running" /\ j # k
        BY <3>2 DEF Typed, Gated, Calls
      <4>3. At(t, "reconciling")
        BY <1>10 DEF ReconcileRunningRun
      <4> QED
        BY <1>3, <4>1, <4>2, <4>3 DEF Surveyed, Alone, At, Gated
    <3> QED
      BY <1>10, <3>1, <3>2 DEF ReconcileRunningRun
  <2> QED
    BY <1>1, <2>1, <2>2, <2>3, <2>4, DecidingExclusive
<1>11. CASE NoActiveRun(t)
  <2>1. call'[t].at = "renewing"
    BY <1>11, GotoAt DEF NoActiveRun
  <2>2. guard.owner = t
    BY <1>3, <1>11 DEF NoActiveRun, Guarded, Holds, At
  <2>3. \A k \in Gated : run[k] # "running"
    BY <1>3, <1>11 DEF NoActiveRun, Surveyed
  <2>4. Guarded(t)' /\ Surveyed(t)' /\ Alone(t)'
    BY <1>11, <2>1, <2>2, <2>3 DEF NoActiveRun, tables, Guarded, Surveyed, Alone, At, Gated
  <2> QED
    BY <1>1, <1>4, <1>11, <2>4, DecidingExclusive DEF NoActiveRun, tables
<1>12. CASE RecordDeferred(t) \/ FinishQueued(t)
  <2>1. call'[t].at = "releasing"
    <3>1. CASE RecordDeferred(t)
      BY <3>1, GotoAt DEF RecordDeferred
    <3>2. CASE FinishQueued(t)
      BY <3>2, GotoAt DEF FinishQueued
    <3> QED
      BY <1>12, <3>1, <3>2
  <2>2. ~Holds(t)'
    BY <2>1 DEF Holds, At
  <2> QED
    BY <1>1, <1>4, <1>12, <2>2, OutsideGuard, DecidingExclusive DEF RecordDeferred, FinishQueued
<1>13. CASE RenewGuard(t)
  <2>1. guard.owner = t
    BY <1>3, <1>13 DEF RenewGuard, Guarded, Holds, At
  <2>2. guard' = [guard EXCEPT !.lapsed = FALSE] /\ Goto(t, "invoking")
    BY <1>13, <2>1 DEF RenewGuard
  <2>3. guard'.owner = t /\ ~guard'.lapsed
    BY <2>1, <2>2 DEF Typed
  <2>4. call'[t].at = "invoking"
    BY <2>2, GotoAt
  <2>5. \A k \in Gated : run[k] # "running"
    BY <1>3, <1>13 DEF RenewGuard, Alone
  <2>6. \A u \in Threads : u # t => ~Holds(u)
    BY <2>1 DEF Exclusive, Guarded
  <2>7. LapsedIsGone' /\ Guarded(t)' /\ Surveyed(t)' /\ Alone(t)'
    BY <1>13, <2>3, <2>4, <2>5 DEF RenewGuard, tables, LapsedIsGone, Guarded, Surveyed, Alone, At, Gated
  <2> QED
    BY <1>1, <1>4, <1>13, <2>6, <2>7, ExclusiveFrame DEF RenewGuard, tables, Own
<1>14. CASE InvokeTarget(t)
  <2>1. guard' = guard /\ At(t, "invoking")
    BY <1>14 DEF InvokeTarget
  <2>2. CASE call[t].key \notin Gated
    <3>1. ~Holds(t)'
      BY <1>1, <1>2, <1>14, <2>2, ReturnOutside DEF InvokeTarget, Gated
    <3>2. NoStart
      BY <1>14, <2>2 DEF InvokeTarget, NoStart, Typed, Gated
    <3> QED
      BY <1>1, <2>1, <3>1, <3>2, OutsideGuard, DecidingExclusive
  <2>3. CASE call[t].key \in Gated
    <3>1. guard.owner = t
      BY <1>3, <2>1, <2>3 DEF Guarded, Holds
    <3>2. \A k \in Gated : run[k] # "running"
      BY <1>3, <2>1, <2>3 DEF Alone
    <3>3. \A k \in Gated : run'[k] = "running" => k = call[t].key
      BY <1>14, <3>2 DEF InvokeTarget, Typed, Gated
    <3>4. OneActiveRun'
      BY <3>3 DEF OneActiveRun, Gated
    <3>5. call'[t].at \in {"releasing", "finishing"}
      BY <1>14, <2>3, GotoAt DEF InvokeTarget, Gated
    <3>6. Guarded(t)' /\ Surveyed(t)' /\ Alone(t)'
      BY <2>1, <3>1, <3>5 DEF Guarded, Surveyed, Alone, At
    <3>7. ASSUME NEW u \in Threads, u # t
          PROVE  Guarded(u)' /\ Surveyed(u)' /\ Alone(u)'
      <4>1. ~Holds(u)
        BY <3>1, <3>7 DEF Exclusive, Guarded
      <4>2. ~Holds(u)'
        BY <1>1, <3>7, <4>1 DEF Own, Holds, At, Gated
      <4> QED
        BY <4>2, OutsideGuard
    <3> QED
      BY <2>1, <3>4, <3>6, <3>7 DEF Exclusive, LapsedIsGone
  <2> QED
    BY <2>2, <2>3
<1>15. CASE ReleaseGuard(t)
  <2>1. ~Holds(t)'
    <3>1. CASE \E ok \in BOOLEAN : Return(t, ok)
      BY <3>1, ReturnOutside
    <3>2. CASE Goto(t, "failing")
      BY <3>2, GotoAt DEF Holds, At
    <3> QED
      BY <1>1, <1>15, <3>1, <3>2 DEF ReleaseGuard
  <2>2. guard' = guard \/ (guard.owner = t /\ guard' = NoGuard)
    BY <1>15 DEF ReleaseGuard
  <2>3. \A u \in Threads : u # t => (Holds(u) => guard'.owner = u)
    BY <2>2 DEF Exclusive, Guarded
  <2>4. LapsedIsGone'
    BY <2>2 DEF Exclusive, LapsedIsGone, NoGuard
  <2> QED
    BY <1>1, <1>4, <1>15, <2>1, <2>3, <2>4, OutsideGuard, ExclusiveFrame DEF ReleaseGuard, tables, Own
<1>16. CASE FailQueued(t)
  <2>1. ~Holds(t)'
    BY <1>16, ReturnOutside DEF FailQueued
  <2> QED
    BY <1>1, <1>4, <1>16, <2>1, OutsideGuard, DecidingExclusive DEF FailQueued
<1> QED
  BY <1>5, <1>6, <1>7, <1>8, <1>9, <1>10, <1>11, <1>12, <1>13, <1>14, <1>15, <1>16 DEF CallStep

\* A failed access or the end of a thread starts no run; its guard goes to nobody alive.
LEMMA FaultExclusive ==
  ASSUME Typed, Keyed, Exclusive, NEW t \in Threads, AccessFails(t) \/ Crash(t)
  PROVE  Exclusive'
<1> USE DEF Places
<1>1. NoStart
  BY DEF AccessFails, Crash, tables, NoStart
<1>2. \A u \in Threads : u # t => call'[u] = call[u]
  BY CallOwn DEF Own, Crash, Typed
<1>3. guard' = guard \/ (guard.owner = t /\ guard' = [guard EXCEPT !.owner = Gone])
  BY DEF AccessFails, Crash
<1>4. \A u \in Threads : u # t => (Holds(u) => guard'.owner = u)
  BY <1>3 DEF Exclusive, Guarded
<1>5. LapsedIsGone'
  BY <1>3 DEF Exclusive, LapsedIsGone, Typed
<1>6. Guarded(t)' /\ Surveyed(t)' /\ Alone(t)'
  <2>1. CASE Crash(t)
    <3>1. call'[t].at \in {"done", "idle"}
      BY <2>1 DEF Crash, NewCall, Typed
    <3> QED
      BY <3>1, OutsideGuard DEF Holds, At
  <2>2. CASE At(t, "releasing") /\ call' = call
    BY <2>2, OutsideGuard DEF Holds, At
  <2>3. CASE call' = [call EXCEPT ![t].at = "releasing", ![t].ok = FALSE]
             \/ call' = [call EXCEPT ![t].at = "failing", ![t].ok = FALSE]
    <3>1. call'[t].at \in {"releasing", "failing"}
      BY <2>3 DEF Typed, Calls
    <3> QED
      BY <3>1, OutsideGuard DEF Holds, At
  <2>4. CASE Return(t, FALSE)
    BY <2>4, ReturnOutside, OutsideGuard
  <2>5. CASE At(t, "reconciling") /\ guard' = guard /\ \E place \in {"recording", "releasing"} : Goto(t, place)
    <3>1. call'[t].at \in {"recording", "releasing"}
      BY <2>5 DEF Goto, Typed, Calls
    <3> QED
      BY <2>5, <3>1 DEF Exclusive, Guarded, Holds, Surveyed, Alone, At
  <2> QED
    BY <2>1, <2>2, <2>3, <2>4, <2>5 DEF AccessFails
<1> QED
  BY <1>1, <1>2, <1>4, <1>5, <1>6, ExclusiveFrame

LEMMA OthersExclusive ==
  ASSUME Typed, Exclusive, "slow" \notin Circumstances
  PROVE  /\ \A h \in Hosts : TickStep(h) \/ TickFails(h) => Exclusive'
         /\ (\E k \in Keys : WorkEnds(k) \/ CancelRun(k)) \/ LeaseLapses \/ Apply \/ ClockAdvances
              \/ WindowPasses \/ UNCHANGED vars => Exclusive'
<1>1. ASSUME NEW h \in Hosts, TickStep(h) \/ TickFails(h)
      PROVE  Exclusive'
  <2>0. h \in Threads /\ h \notin Fires
    BY RoutineAssumption DEF Threads
  <2>1. run' = run /\ guard' = guard
    BY <1>1 DEF TickStep, TickFails, BeginTick, PromoteNext, ListDue, RequestNext, MarkEvaluated, tables
  <2>2. \A u \in Threads : u # h => call'[u] = call[u]
    BY <1>1, <2>0 DEF TickStep, TickFails, BeginTick, PromoteNext, ListDue, RequestNext, MarkEvaluated,
         Goto, Typed
  <2>3. Guarded(h)' /\ Surveyed(h)' /\ Alone(h)'
    <3>1. CASE call' = call
      BY <2>0, <2>1, <3>1 DEF Exclusive, Guarded, Holds, Surveyed, Alone, At
    <3>2. CASE call'[h].at \in {"idle", "claiming", "asking"}
      BY <3>2 DEF Guarded, Holds, Surveyed, Alone, At
    <3>3. CASE PromoteNext(h)
      BY <2>0, <3>2, <3>3 DEF PromoteNext, NewCall, Typed
    <3>4. CASE RequestNext(h)
      BY <2>0, <3>2, <3>4 DEF RequestNext, NewCall, Typed
    <3>5. CASE TickFails(h)
      BY <2>0, <3>2, <3>5, GotoAt DEF TickFails, Places
    <3> QED
      BY <1>1, <3>1, <3>3, <3>4, <3>5 DEF TickStep, BeginTick, ListDue, MarkEvaluated
  <2>4. NoStart /\ LapsedIsGone' /\ (\A u \in Threads : Holds(u) => guard'.owner = u)
    BY <2>1 DEF NoStart, Exclusive, LapsedIsGone, Guarded
  <2> QED
    BY <2>0, <2>2, <2>3, <2>4, ExclusiveFrame
<1>2. ASSUME (\E k \in Keys : WorkEnds(k) \/ CancelRun(k)) \/ LeaseLapses \/ Apply \/ ClockAdvances
             \/ WindowPasses \/ UNCHANGED vars
      PROVE  Exclusive'
  <2>1. call' = call
    BY <1>2 DEF WorkEnds, CancelRun, LeaseLapses, Apply, ClockAdvances, WindowPasses, vars
  <2>2. NoStart
    BY <1>2 DEF WorkEnds, CancelRun, LeaseLapses, Apply, ClockAdvances, WindowPasses, vars, tables, NoStart, Typed, Gated
  <2>3. guard'.owner = guard.owner /\ LapsedIsGone'
    BY <1>2 DEF WorkEnds, CancelRun, LeaseLapses, Apply, ClockAdvances, WindowPasses, vars, LapsedIsGone, Exclusive, Typed
  <2>4. OneActiveRun'
    BY <2>2 DEF Exclusive, OneActiveRun, NoStart, Gated
  <2>5. \A t \in Threads : Guarded(t)' /\ Surveyed(t)' /\ Alone(t)'
    BY <2>1, <2>2, <2>3 DEF Exclusive, Guarded, Holds, Surveyed, Alone, At, NoStart, Gated
  <2> QED
    BY <2>3, <2>4, <2>5 DEF Exclusive
<1> QED
  BY <1>1, <1>2

\* One run of the gated policies is active at a time, however many processes, fires and
\* promotions decide at once and wherever they end, as long as nobody outlasts its lease.
THEOREM OneRunIsActive ==
  ASSUME "slow" \notin Circumstances
  PROVE  Spec => []OneActiveRun
<1>1. Init => Typed /\ Keyed /\ Exclusive
  <2>1. ASSUME Init
        PROVE  Exclusive
    <3>1. OneActiveRun /\ LapsedIsGone
      BY <2>1 DEF Init, OneActiveRun, LapsedIsGone, NoGuard, Gated
    <3>2. \A t \in Threads : call[t].at \in {"new", "idle"}
      BY <2>1 DEF Init, NewCall
    <3> QED
      BY <3>1, <3>2 DEF Exclusive, Guarded, Holds, Surveyed, Alone, At
  <2> QED
    BY <2>1, InitTyped, InitKeyed
<1>2. Typed /\ Keyed /\ Exclusive /\ [Next]_vars => Typed' /\ Keyed' /\ Exclusive'
  BY StepTyped, CallExclusive, FaultExclusive, OthersExclusive DEF Next
<1>3. Exclusive => OneActiveRun
  BY DEF Exclusive
<1> QED
  BY <1>1, <1>2, <1>3, PTL DEF Spec
=============================================================================
