------------------------- MODULE RoutineActivations -------------------------
(***************************************************************************)
(* The activations of one portable Routine: what decides whether an        *)
(* occurrence of its schedule or a manual fire starts a Routine run now,   *)
(* waits in the durable queue, or is suppressed by the run that is active  *)
(* (routine_service/mod.rs), and the scheduler that asks for the due       *)
(* occurrences and promotes the queue (routine_scheduler.rs).              *)
(*                                                                         *)
(* Several processes share the tables.  A decision is made under a guard:  *)
(* a row with an owner and a lease, taken by compare-and-set.  Each access *)
(* of the tables is a step; between two of them anybody may act, and the   *)
(* process may end.                                                        *)
(***************************************************************************)
EXTENDS Integers

CONSTANTS
  Hosts,          \* processes with a routine scheduler
  Fires,          \* manual fires, each a call with a fresh invoke key
  LastTick,       \* occurrences of the schedule are numbered 1 .. LastTick
  Policy,         \* the concurrency policy that each invoke key is requested with
  MaxCatchUp,     \* apply_catch_up_policy: how many of the missed occurrences are fired
  MaxDue,         \* MAX_DUE of due_times: how many missed occurrences are looked at
  MaxApplies,     \* how often the definition of the Routine is written anew
  MaxFaults,      \* ends of a process or thread and failed accesses of the tables, in all
  MaxEvents,      \* definitions written and faults, all together
  Circumstances,  \* what may happen besides: see AllCircumstances
  Nobody, Gone,   \* owners of the guard: no row, a row whose owner is dead
  NoKey

AllCircumstances == {
  "slow",         \* a living owner of the guard outlasts its lease of 60 seconds
  "first_late",   \* 30 seconds pass after an occurrence that is not decided while
                  \* the Routine has no watermark: its activation failed, or nobody looked
  "reprojected",  \* the definition is projected anew, as at each start of the desktop,
                  \* while an occurrence is due
  "long_pause"}   \* more than MaxDue occurrences come between two passes

Ticks == 1 .. LastTick
Keys == Fires \cup Ticks
Threads == Fires \cup Hosts
Policies == {"queue", "coalesce", "skip", "always"}

ASSUME RoutineAssumption ==
  /\ LastTick \in Nat /\ MaxCatchUp \in Nat \ {0} /\ MaxDue \in Nat \ {0}
  /\ MaxApplies \in Nat /\ MaxFaults \in Nat /\ MaxEvents \in Nat
  /\ Fires \cap Ticks = {} /\ Fires \cap Hosts = {} /\ NoKey \notin Keys
  /\ Nobody \notin Threads /\ Gone \notin Threads /\ Nobody # Gone
  /\ Policy \in [Keys -> Policies]
  /\ Circumstances \subseteq AllCircumstances

VARIABLES
  run,        \* pm_routine_runs: the run of each invoke key
  open,       \* keys whose run has generated Work Items that are not terminal
  event,      \* pm_routine_activation_events: the event of each invoke key
  guard,      \* pm_routine_activation_guards: the row of this Routine
  watermark,  \* last_evaluated_at: the occurrences up to here are evaluated; or Never
  nextFire,   \* next_fire_at: the first occurrence that makes the Routine a candidate
  call,       \* where each thread is in request_activation or promote_queued_activation
  tick,       \* the pass of each scheduler
  clock,      \* the last occurrence that has come
  fresh,      \* it came at most 30 seconds ago
  applies,    \* how often the definition was written
  faults,     \* how many crashes and failed accesses there were
  since,      \* history: the last occurrence before the Routine got its present spec
  passed      \* history: missed occurrences that the catch-up policy left out

schedule == <<watermark, nextFire>>
tables == <<run, open, event, schedule>>
time == <<clock, fresh>>
history == <<since, passed>>
vars == <<tables, guard, call, tick, time, applies, faults, history>>

\* last_evaluated_at IS NULL: no pass has evaluated the present spec.
Never == -1

\* queued: in the durable queue; skipped, coalesced: suppressed.
Deferrals == {"queued", "skipped", "coalesced"}
EventStatus == {"none", "dispatched", "failed"} \cup Deferrals

\* succeeded, failed and cancelled are told apart by nobody here: ended.
RunStatus == {"none", "running", "ended"}

\* Where a thread is: before and after its call, or at the next access of it.
Places == {"new", "idle", "done", "asking", "claiming", "busy", "checking", "listing",
           "reconciling", "recording", "renewing", "invoking", "finishing", "releasing", "failing"}

NoGuard == [owner |-> Nobody, lapsed |-> FALSE]
NoTick == [stage |-> "idle", now |-> 0, fresh |-> FALSE, queued |-> {}, due |-> {}, retry |-> FALSE]

\* What a fire and a scheduler are before their first call.
NewCall(t) == [at |-> IF t \in Fires THEN "new" ELSE "idle", kind |-> "request",
               key |-> IF t \in Fires THEN t ELSE NoKey, todo |-> {}, ok |-> TRUE]

\* The Routine has just been applied, or it has been evaluated before.
Init ==
  /\ run = [k \in Keys |-> "none"]
  /\ open = {}
  /\ event = [k \in Keys |-> "none"]
  /\ guard = NoGuard
  /\ watermark \in {Never, 0} /\ nextFire = 1
  /\ call = [t \in Threads |-> NewCall(t)]
  /\ tick = [h \in Hosts |-> NoTick]
  /\ clock = 0 /\ fresh = FALSE
  /\ applies = 0 /\ faults = 0
  /\ since = 0 /\ passed = {}

Fault == faults < MaxFaults /\ faults + applies < MaxEvents /\ faults' = faults + 1

At(t, place) == call[t].at = place
Goto(t, place) == call' = [call EXCEPT ![t].at = place]

Running == {k \in Keys : run[k] = "running"}

\* An occurrence or fire of which a run or an event exists.
Decided(k) == run[k] # "none" \/ event[k] # "none"

-----------------------------------------------------------------------------
(* The end of a call: the fire reports to its user, the scheduler goes on with its pass. *)

AfterCall(t, ok) ==
  IF t \notin Hosts THEN tick' = tick
  ELSE IF call[t].kind = "promote"
  THEN tick' = [tick EXCEPT ![t].queued = @ \ {call[t].key}]
  ELSE tick' = [tick EXCEPT ![t].due = @ \ {call[t].key}, ![t].retry = @ \/ ~ok]

Return(t, ok) ==
  /\ Goto(t, IF t \in Fires THEN "done" ELSE "idle")
  /\ AfterCall(t, ok)

-----------------------------------------------------------------------------
(* request_activation, and promote_queued_activation, which shares its guard. *)

\* record_deferred_activation_in: the first event of a key stays.
Deferred(k) == [event EXCEPT ![k] =
  CASE @ # "none" -> @
    [] Policy[k] = "queue" -> "queued"
    [] Policy[k] = "coalesce" -> "coalesced"
    [] OTHER -> "skipped"]

\* A key that has its event is answered from it; always does not ask the guard.
RequestActivation(t) ==
  /\ call[t].at \in {"new", "asking"}
  /\ \/ /\ event[call[t].key] # "none"
        /\ Return(t, TRUE)
     \/ /\ event[call[t].key] = "none"
        /\ Goto(t, IF Policy[call[t].key] = "always" THEN "invoking" ELSE "claiming")
        /\ UNCHANGED tick
  /\ UNCHANGED <<tables, guard, time, applies, faults, history>>

\* Mutant: the row is replaced whether or not its lease is over.
ClaimGuard_Steals(t) ==
  /\ At(t, "claiming")
  /\ guard' = [owner |-> t, lapsed |-> FALSE]
  /\ Goto(t, IF call[t].kind = "request" THEN "checking" ELSE "listing")
  /\ UNCHANGED <<tables, tick, time, applies, faults, history>>

\* Mutant: the expired row of a dead owner is not deleted.
ClaimGuard_WaitsForOwner(t) ==
  /\ At(t, "claiming")
  /\ IF guard.owner = Nobody
     THEN /\ guard' = [owner |-> t, lapsed |-> FALSE]
          /\ Goto(t, IF call[t].kind = "request" THEN "checking" ELSE "listing")
          /\ UNCHANGED tick
     ELSE /\ IF call[t].kind = "request" THEN Goto(t, "busy") /\ UNCHANGED tick ELSE Return(t, TRUE)
          /\ UNCHANGED guard
  /\ UNCHANGED <<tables, time, applies, faults, history>>

\* claim_activation_guard: a row whose lease is over is nobody's.
ClaimGuard(t) ==
  /\ At(t, "claiming")
  /\ \/ /\ guard.owner = Nobody \/ guard.lapsed
        /\ guard' = [owner |-> t, lapsed |-> FALSE]
        /\ Goto(t, IF call[t].kind = "request" THEN "checking" ELSE "listing")
        /\ UNCHANGED tick
     \/ /\ guard.owner # Nobody /\ ~guard.lapsed /\ call[t].kind = "request"
        /\ Goto(t, "busy")
        /\ UNCHANGED <<guard, tick>>
     \/ /\ guard.owner # Nobody /\ ~guard.lapsed /\ call[t].kind = "promote"
        /\ Return(t, TRUE)
        /\ UNCHANGED guard
  /\ UNCHANGED <<tables, time, applies, faults, history>>

\* defer_behind_activation_guard: behind whoever owns the guard now, or again.
DeferBehindGuard(t) ==
  /\ At(t, "busy")
  /\ \/ /\ guard.owner = Nobody
        /\ Goto(t, "claiming")
        /\ UNCHANGED <<event, tick>>
     \/ /\ guard.owner # Nobody
        /\ event' = Deferred(call[t].key)
        /\ Return(t, TRUE)
  /\ UNCHANGED <<run, open, schedule, guard, time, applies, faults, history>>

\* The event is read again under the guard.
ReadEvent(t) ==
  /\ At(t, "checking")
  /\ Goto(t, IF event[call[t].key] # "none" THEN "releasing" ELSE "listing")
  /\ UNCHANGED <<tables, guard, tick, time, applies, faults, history>>

\* active_run_id: the runs that are not terminal.
ListRuns(t) ==
  /\ At(t, "listing")
  /\ call' = [call EXCEPT ![t].at = "reconciling", ![t].todo = Running]
  /\ UNCHANGED <<tables, guard, tick, time, applies, faults, history>>

\* reconcile_running_run on each of them: one whose items are all terminal is
\* ended, the first one with open items is the active run.
ReconcileRunningRun(t) ==
  /\ At(t, "reconciling")
  /\ \E k \in call[t].todo :
       \/ /\ k \in open
          /\ Goto(t, IF call[t].kind = "request" THEN "recording" ELSE "releasing")
          /\ UNCHANGED run
       \/ /\ k \notin open
          /\ run' = [run EXCEPT ![k] = IF @ = "running" THEN "ended" ELSE @]
          /\ call' = [call EXCEPT ![t].todo = @ \ {k}]
  /\ UNCHANGED <<open, event, schedule, guard, tick, time, applies, faults, history>>

NoActiveRun(t) ==
  /\ At(t, "reconciling") /\ call[t].todo = {}
  /\ Goto(t, "renewing")
  /\ UNCHANGED <<tables, guard, tick, time, applies, faults, history>>

RecordDeferred(t) ==
  /\ At(t, "recording")
  /\ event' = Deferred(call[t].key)
  /\ Goto(t, "releasing")
  /\ UNCHANGED <<run, open, schedule, guard, tick, time, applies, faults, history>>

\* ActivationGuard::renew: only of a guard that is still owned.
RenewGuard(t) ==
  /\ At(t, "renewing")
  /\ \/ /\ guard.owner = t
        /\ guard' = [guard EXCEPT !.lapsed = FALSE]
        /\ Goto(t, "invoking")
     \/ /\ guard.owner # t
        /\ call' = [call EXCEPT ![t].at = "releasing", ![t].ok = FALSE]
        /\ UNCHANGED guard
  /\ UNCHANGED <<tables, tick, time, applies, faults, history>>

\* invoke_target: the run and its items in one transaction, once for each key.
InvokeTarget(t) ==
  /\ At(t, "invoking")
  /\ \/ /\ run[call[t].key] = "none"
        /\ run' = [run EXCEPT ![call[t].key] = "running"]
        /\ open' = open \cup {call[t].key}
     \/ /\ run[call[t].key] # "none"
        /\ UNCHANGED <<run, open>>
  /\ \/ /\ Policy[call[t].key] = "always"
        /\ Return(t, TRUE)
     \/ /\ Policy[call[t].key] # "always"
        /\ Goto(t, IF call[t].kind = "request" THEN "releasing" ELSE "finishing")
        /\ UNCHANGED tick
  /\ UNCHANGED <<event, schedule, guard, time, applies, faults, history>>

\* finish_queued_activation of an event that is still queued.
Finished(k, status) == [event EXCEPT ![k] = IF @ = "queued" THEN status ELSE @]

FinishQueued(t) ==
  /\ At(t, "finishing")
  /\ event' = Finished(call[t].key, "dispatched")
  /\ Goto(t, "releasing")
  /\ UNCHANGED <<run, open, schedule, guard, tick, time, applies, faults, history>>

\* ActivationGuard::release, or its drop: only of a guard that is still owned.
\* A promotion that failed still has to be written to its event.
ReleaseGuard(t) ==
  /\ At(t, "releasing")
  /\ guard' = IF guard.owner = t THEN NoGuard ELSE guard
  /\ IF call[t].kind = "promote" /\ ~call[t].ok
     THEN Goto(t, "failing") /\ UNCHANGED tick
     ELSE Return(t, call[t].ok)
  /\ UNCHANGED <<tables, time, applies, faults, history>>

\* routine_scheduler.rs: the error of a promotion ends its event.
FailQueued(t) ==
  /\ At(t, "failing")
  /\ event' = Finished(call[t].key, "failed")
  /\ Return(t, FALSE)
  /\ UNCHANGED <<run, open, schedule, guard, time, applies, faults, history>>

\* An access of the tables fails.  The error of a release is ignored, so its row
\* stays; an owner drops its guard; the others return.  A run of which a Work Item
\* cannot be read counts as active.
AccessFails(t) ==
  /\ Fault
  /\ \/ /\ At(t, "releasing") /\ guard.owner = t
        /\ guard' = [guard EXCEPT !.owner = Gone]
        /\ UNCHANGED <<call, tick>>
     \/ /\ At(t, "reconciling") /\ call[t].todo # {}
        /\ Goto(t, IF call[t].kind = "request" THEN "recording" ELSE "releasing")
        /\ UNCHANGED <<guard, tick>>
     \/ /\ \/ call[t].at \in {"checking", "listing", "reconciling", "recording", "renewing", "finishing"}
           \/ At(t, "invoking") /\ Policy[call[t].key] # "always"
        /\ call' = [call EXCEPT ![t].at = "releasing", ![t].ok = FALSE]
        /\ UNCHANGED <<guard, tick>>
     \/ /\ \/ call[t].at \in {"asking", "busy"}
           \/ At(t, "claiming") /\ call[t].kind = "request"
           \/ At(t, "invoking") /\ Policy[call[t].key] = "always"
        /\ Return(t, FALSE)
        /\ UNCHANGED guard
     \/ /\ At(t, "claiming") /\ call[t].kind = "promote"
        /\ call' = [call EXCEPT ![t].at = "failing", ![t].ok = FALSE]
        /\ UNCHANGED <<guard, tick>>
  /\ UNCHANGED <<tables, time, applies, history>>

-----------------------------------------------------------------------------
(* portable_tick. *)

\* A pass begins with the queue; `now` was read by its caller.
BeginTick(h) ==
  /\ tick[h].stage = "idle"
  /\ tick' = [tick EXCEPT ![h] = [NoTick EXCEPT !.stage = "promoting", !.now = clock, !.fresh = fresh,
                                    !.queued = {k \in Keys : event[k] = "queued"}]]
  /\ UNCHANGED <<tables, guard, call, time, applies, faults, history>>

PromoteNext(h) ==
  /\ tick[h].stage = "promoting" /\ At(h, "idle")
  /\ \E k \in tick[h].queued :
       call' = [call EXCEPT ![h] = [NewCall(h) EXCEPT !.at = "claiming", !.kind = "promote", !.key = k]]
  /\ UNCHANGED <<tables, guard, tick, time, applies, faults, history>>

\* due_times: the oldest MAX_DUE occurrences since the watermark.  Without one it looks
\* at the last 30 seconds; occurrences are a minute apart at least.
DueTimes(p) ==
  {i \in Ticks : /\ i <= p.now
                 /\ IF watermark = Never THEN i = p.now /\ p.fresh
                    ELSE watermark < i /\ i <= watermark + MaxDue}

\* apply_catch_up_policy: the last of them, which follow one another.
CatchUp(due) == {i \in due : i + MaxCatchUp \notin due}

\* scheduled_candidates: a Routine is a candidate when next_fire_at has come.
ListDue(h) ==
  /\ tick[h].stage = "promoting" /\ At(h, "idle") /\ tick[h].queued = {}
  /\ \/ /\ nextFire <= tick[h].now
        /\ LET due == DueTimes(tick[h]) IN
           /\ tick' = [tick EXCEPT ![h].stage = "firing", ![h].due = CatchUp(due)]
           /\ passed' = passed \cup (due \ CatchUp(due))
     \/ /\ nextFire > tick[h].now
        /\ tick' = [tick EXCEPT ![h] = NoTick]
        /\ passed' = passed
  /\ UNCHANGED <<tables, guard, call, time, applies, faults, since>>

RequestNext(h) ==
  /\ tick[h].stage = "firing" /\ At(h, "idle")
  /\ \E i \in tick[h].due :
       /\ \A j \in tick[h].due : i <= j
       /\ call' = [call EXCEPT ![h] = [NewCall(h) EXCEPT !.at = "asking", !.key = i]]
  /\ UNCHANGED <<tables, guard, tick, time, applies, faults, history>>

\* The watermark is written together with the next occurrence after it.
Evaluate(now) == watermark' = now /\ nextFire' = now + 1

\* Mutant: the watermark moves although an activation failed.
MarkEvaluated_IgnoresFailure(h) ==
  /\ tick[h].stage = "firing" /\ At(h, "idle") /\ tick[h].due = {}
  /\ Evaluate(tick[h].now)
  /\ tick' = [tick EXCEPT ![h] = NoTick]
  /\ UNCHANGED <<run, open, event, guard, call, time, applies, faults, history>>

\* Mutant: the watermark is the time at the end of the pass, not at its beginning.
MarkEvaluated_Late(h) ==
  /\ tick[h].stage = "firing" /\ At(h, "idle") /\ tick[h].due = {}
  /\ IF tick[h].retry THEN UNCHANGED schedule ELSE Evaluate(clock)
  /\ tick' = [tick EXCEPT ![h] = NoTick]
  /\ UNCHANGED <<run, open, event, guard, call, time, applies, faults, history>>

\* mark_evaluated, unless an activation failed.
MarkEvaluated(h) ==
  /\ tick[h].stage = "firing" /\ At(h, "idle") /\ tick[h].due = {}
  /\ IF tick[h].retry THEN UNCHANGED schedule ELSE Evaluate(tick[h].now)
  /\ tick' = [tick EXCEPT ![h] = NoTick]
  /\ UNCHANGED <<run, open, event, guard, call, time, applies, faults, history>>

\* An error outside of the activations ends the pass.
TickFails(h) ==
  /\ Fault
  /\ tick[h].stage # "idle" /\ call[h].at \in {"idle", "failing"}
  /\ Goto(h, "idle")
  /\ tick' = [tick EXCEPT ![h] = NoTick]
  /\ UNCHANGED <<tables, guard, time, applies, history>>

-----------------------------------------------------------------------------
(* The world around. *)

\* The last generated item of a run reaches a terminal state.
WorkEnds(k) ==
  /\ k \in open
  /\ open' = open \ {k}
  /\ UNCHANGED <<run, event, schedule, guard, call, tick, time, applies, faults, history>>

\* cancel_run: the run ends, its Work Items stay as they are.
CancelRun(k) ==
  /\ run[k] = "running"
  /\ run' = [run EXCEPT ![k] = "ended"]
  /\ UNCHANGED <<open, event, schedule, guard, call, tick, time, applies, faults, history>>

LeaseLapses ==
  /\ guard.owner # Nobody /\ ~guard.lapsed
  /\ guard.owner = Gone \/ "slow" \in Circumstances
  /\ guard' = [guard EXCEPT !.lapsed = TRUE]
  /\ UNCHANGED <<tables, call, tick, time, applies, faults, history>>

\* A thread ends, with its process or alone; a scheduler begins anew.
Crash(t) ==
  /\ Fault
  /\ call[t].at \notin {"new", "done"}
  /\ call' = [call EXCEPT ![t] = [NewCall(t) EXCEPT !.at = IF t \in Fires THEN "done" ELSE "idle"]]
  /\ guard' = IF guard.owner = t THEN [guard EXCEPT !.owner = Gone] ELSE guard
  /\ tick' = IF t \in Hosts THEN [tick EXCEPT ![t] = NoTick] ELSE tick
  /\ UNCHANGED <<tables, time, applies, history>>

\* apply_in_transaction and sync_definition_in: a spec that changed begins without a
\* watermark; one that did not keeps it.  Either is due from its next occurrence on.
Apply ==
  /\ applies < MaxApplies /\ faults + applies < MaxEvents /\ applies' = applies + 1
  /\ \/ watermark' = Never /\ since' = clock
     \/ /\ nextFire > clock \/ "reprojected" \in Circumstances
        /\ UNCHANGED <<watermark, since>>
  /\ nextFire' = clock + 1
  /\ UNCHANGED <<run, open, event, guard, call, tick, time, faults, passed>>

\* Without a watermark time waits for the newest occurrence to be decided.
InTime ==
  watermark = Never /\ since < clock => Decided(clock) \/ "first_late" \in Circumstances

\* Neither since the watermark nor during a pass do more occurrences come than are looked at.
WithinMaxDue ==
  \/ "long_pause" \in Circumstances
  \/ /\ watermark # Never => clock < watermark + MaxDue
     /\ \A h \in Hosts : tick[h].stage # "idle" => clock < tick[h].now + MaxDue

\* Another occurrence of the schedule comes.
ClockAdvances ==
  /\ clock < LastTick /\ InTime /\ WithinMaxDue
  /\ clock' = clock + 1 /\ fresh' = TRUE
  /\ UNCHANGED <<tables, guard, call, tick, applies, faults, history>>

\* The newest occurrence is more than 30 seconds ago; only a Routine without a watermark
\* tells the difference.
WindowPasses ==
  /\ watermark = Never /\ fresh /\ InTime
  /\ fresh' = FALSE
  /\ UNCHANGED <<tables, guard, call, tick, clock, applies, faults, history>>

-----------------------------------------------------------------------------
CallStep(t) ==
  \/ RequestActivation(t) \/ ClaimGuard(t) \/ DeferBehindGuard(t) \/ ReadEvent(t)
  \/ ListRuns(t) \/ ReconcileRunningRun(t) \/ NoActiveRun(t) \/ RecordDeferred(t)
  \/ RenewGuard(t) \/ InvokeTarget(t) \/ FinishQueued(t) \/ ReleaseGuard(t) \/ FailQueued(t)

TickStep(h) ==
  \/ BeginTick(h) \/ PromoteNext(h) \/ ListDue(h) \/ RequestNext(h) \/ MarkEvaluated(h)

Next ==
  \/ \E t \in Threads : CallStep(t) \/ AccessFails(t) \/ Crash(t)
  \/ \E h \in Hosts : TickStep(h) \/ TickFails(h)
  \/ \E k \in Keys : WorkEnds(k) \/ CancelRun(k)
  \/ LeaseLapses \/ Apply \/ ClockAdvances \/ WindowPasses

Spec == Init /\ [][Next]_vars

\* Threads run, the scheduler polls, work is finished one day and leases are
\* measured in time; nobody has to fire or to cancel.
Fairness ==
  /\ \A t \in Threads : WF_vars(call[t].at # "new" /\ CallStep(t))
  /\ \A h \in Hosts : WF_vars(TickStep(h))
  /\ \A k \in Keys : WF_vars(WorkEnds(k))
  /\ WF_vars(LeaseLapses)

FairSpec == Spec /\ Fairness

-----------------------------------------------------------------------------
(* Properties. *)

\* What the tables and the threads hold.
TypeOK ==
  /\ run \in [Keys -> RunStatus]
  /\ open \subseteq Keys
  /\ event \in [Keys -> EventStatus]
  /\ guard \in [owner : Threads \cup {Nobody, Gone}, lapsed : BOOLEAN]
  /\ watermark \in {Never} \cup 0 .. LastTick /\ nextFire \in 1 .. LastTick + 1
  /\ clock \in 0 .. LastTick /\ fresh \in BOOLEAN /\ since \in 0 .. LastTick
  /\ call \in [Threads -> [at : Places, kind : {"request", "promote"}, key : Keys \cup {NoKey},
                           todo : SUBSET Keys, ok : BOOLEAN]]
  /\ tick \in [Hosts -> [stage : {"idle", "promoting", "firing"}, now : 0 .. LastTick, fresh : BOOLEAN,
                         queued : SUBSET Keys, due : SUBSET Ticks, retry : BOOLEAN]]
  /\ applies \in 0 .. MaxApplies /\ faults \in 0 .. MaxFaults
  /\ passed \subseteq Ticks

Gated == {k \in Keys : Policy[k] # "always"}

\* queue, skip and coalesce never let two runs be active at once, whichever process,
\* fire or promotion starts them (mod.rs:1126, "Linearization point").
OneActiveRun == \A j, k \in Gated : run[j] = "running" /\ run[k] = "running" => j = k

\* No occurrence since the Routine got its spec is behind the watermark, which never looks
\* back, that was neither decided nor left out by the catch-up policy: not if a sibling
\* failed, if the process ended, or if two schedulers or an edit of the definition passed
\* each other (routine_scheduler.rs:248).
WatermarkIsHonest ==
  \A i \in Ticks : since < i /\ i <= watermark => Decided(i) \/ i \in passed

\* A revisit of an occurrence that has its run is idempotent
\* (routine_scheduler.rs:250).
RevisitIsIdempotent ==
  [][\A k \in Keys : run[k] # "none" /\ event[k] = "none" => event'[k] = "none"]_vars

\* Nothing stays in the durable queue: again and again it is empty, its entries
\* dispatched or, where an access failed, marked as failed (mod.rs:1318).
ActivationsDrain == []<>(\A k \in Keys : event[k] # "queued")

\* Every occurrence that comes is started, recorded or left out by the catch-up policy,
\* after failures and restarts too (routine_scheduler.rs:248), unless its spec was replaced.
OccurrencesAreDecided ==
  []<>(\A i \in Ticks : since < i /\ i <= clock => Decided(i) \/ i \in passed)
=============================================================================
