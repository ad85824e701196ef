# ORG-2 in TLA+

ORG-2 is a desktop application (a Rust back end under `src/src-tauri`, a React front end under
`src/src`) in which teams plan Work Items and agents execute them.  This directory models the part of
it that decides whether the work of an agent is delivered, executed and accounted for exactly once:
in the back end the durable **Work Item Runs** and everything that moves them, and the **Routines** that start
work on a schedule; in the front end the
**turns** of a Session as a window sees them and the **queue** of messages that waits for them.

Paths below are relative to `src-tauri/crates` unless they start with `src-tauri` or `src`; files of the
client (`*.ts`) are named without their directories, which `PROJECT.json` gives.

## 1. The system

| Component | State it keeps | Operations | Talks to | What makes it correct |
| --- | --- | --- | --- | --- |
| Work Item Run store (`project-management/src/work_run_service`) | tables `pm_work_item_runs`, `pm_dispatch_outbox`, `pm_work_item_path_locks` | enqueue, claim, acknowledge, nack, terminal, retry, cancel escalations | called by everybody below, one IMMEDIATE transaction at a time | a Run is never lost between its tables, ends once, owns its directory while active, gives it back |
| Run dispatcher (`agent-core/src/core/coordination/work_item_run_dispatcher.rs`) | none that lasts | loop: claim, deliver, acknowledge or nack; at startup: settle interrupted Runs | store, Session launch, scheduler | every accepted Run ends; a delivery that died is repeated without executing the turn again |
| Inline launch (`agent-core/src/state/commands/session/launch.rs`) | none that lasts | the same delivery for one's own Run, in the request of the user | store, Session launch | competes with the dispatcher without harm |
| Session launch (`agent-core/src/core/session/launch`) | Session row | create or reuse a Session, send its first turn | turn intents, scheduler | a Run has one Session and one turn |
| DialogScheduler (`agent-core/src/core/session/scheduler.rs`) | bounded channel, pending counter, generation, client message ids, targeted cancellations | enqueue, invalidate, worker loop | turn intents, turn execution | turns of a Session run one after another, a discarded one never runs, no id is left behind |
| Turn execution (`state/commands/session/message/send.rs`, `lifecycle.rs`) | active turn, Session status and marker | promote, run, settle the Run, finalise the Session, notify | store, turn intents, orchestrator | a turn settles exactly the Run it belongs to |
| Turn intents (`session-persistence/src/turn_intents.rs`) | `session_turn_intents` | upsert, guarded transitions, stale, restart reconciliation | scheduler, launch, dispatcher | no intent leaves a terminal status |
| Startup recovery (`src-tauri/src/app/startup_recovery.rs`) | none | close intents, settle Sessions | intents, Sessions, then the dispatcher | whatever the crash interrupted is seen and settled |
| Orchestrator (`agent-core/src/orchestrator_notify`) | Work Item workflow | react to ends of Sessions and Runs | store, Routine fires | a Work Item follows its own Runs only |
| Routine service (`project-management/src/routine_service`, `agent-core/src/core/coordination/routine_scheduler.rs`) | Routines, Routine runs, activation events, activation guards, the watermark of each schedule | apply, request and promote activations, invoke, pause, resume, cancel; a pass of the scheduler every 30 s in each process | store, Work Items | no occurrence is lost or runs twice, one run at a time where the policy says so, the durable queue drains |
| Discussion (`project-management/src/work_item_features/discussion.rs`) | comments, open wake windows | post, route, merge, escalate | store | a comment wakes whom it addresses, once, within a bounded time |
| Agent Org (`agent-core/src/core/coordination/agent_org_*`) | org runs, tasks, inboxes, pauses, turn contexts | dispatch, hand over, pause, watch, complete | scheduler, intents | task and member state agree; a paused team does nothing; completion is final |
| Mobile relay (`mobile-relay-server`) | pairings, peers, queues of 64 frames | pair, connect, forward, revoke | desktop bridge | a phone sees its desktop come and go in order, a full queue blocks nobody else |
| CLI sessions (`src-tauri/src/agent_sessions/cli`) | process, Session row | spawn, stream, finalise, resume | store through the orchestrator, websocket of the client | an ended process settles its Run once; message and cancel exclude each other |
| Client turn lifecycle (`turnLifecycle.ts`) | phase and generation of each Session, timers of the locked phases | dispatch, running, stopping, terminal, force idle | everybody below | a turn is released by its own end, and is released |
| CLI turns in the client (`cliTurnLifecycleCoordinator.ts`, `useBackgroundSessionMonitor.ts`) | active turn of each Session, terminals seen, a read under way | receipt, pushed status, batch after a reconnect | lifecycle, websocket, commands | the end of a turn is applied once, to the turn it is about, however it is told |
| User intents (`userIntentDispatch.ts`) | generation of each intent | prepare, send, confirm, fail | lifecycle, back end | what was accepted is never shown as failed |
| Message queue (`messageQueueAtom.ts`, `useQueueDispatch.ts`, `useUserIntentSubmit.ts`) | rows, dispatch lock, interrupts asked for | submit, drain, Send Now, edit, remove, reorder, park | lifecycle, intents, boundaries, status of the Session | each message is sent once, in its turn, and not after a Stop |
| Timeline boundaries (`sessionTimelineBoundary.ts`) | interrupts in flight, post-Stop episode | Stop, Send Now, rewind | lifecycle, queue, cancel commands | a Stop holds, a refused cancel is undone |
| Delivery registry (`messageQueueDeliveryRecords.ts`, `messageQueueRepository.ts`) | durable rows and canonical executions | hydrate, hand off, recover | queue | a restart loses and repeats nothing |
| Sync, team inbox, event pipeline, other engines of the UI | caches and projections | see the source | | convergence |
| Git, LSP, terminal, browser, search, key vault, market, gateways | processes, files, remote services | wrappers | | outside of this project |

The behaviours that are hard:

* **Interleavings.** The dispatcher, inline launchers, Session workers, retry requests, the user and
  the orchestrator share one database and step between each other's transactions.
* **At-least-once delivery.** A lease expires while its holder still works; the row is claimed again.
* **Crash.** The process may die between any two transactions; what is in channels and tasks is lost.
* **Order.** A terminal may arrive before the acknowledgement of its own delivery, Stop may fall between
  the admission of a turn and its enqueueing, and the user may talk to the Session a Run resumes.
* **Told twice, late or not at all.** A window learns of a turn from the answer of its command, from a
  pushed status, from a batch it reads after a reconnect and from a process-wide event, in any order, some
  of which do not say which turn they mean.
* **Several processes.**  The desktop and the command line share the tables of the Routines: a decision is made
  under a leased row of a table, whose owner may die or be late.
* **Stop against start.** A Stop is six writes to four places; a message passes as many on its way from
  the caller to the provider, and any of them may come in between.

`PROJECT.json` lists the hazards one by one, each at its line.

## 2. Modules

```
ExclusiveDispatch      what the store promises: a queue with exclusive holders
      ^ implements
   WorkRun             the store: one action per transaction, callers unconstrained
      ^ INSTANCE                      ^ EXTENDS
   WorkRunDispatch     the callers,   WorkRunProofs <- WorkRunLockProofs
                       Sessions and                      ^ EXTENDS
                       crashes                      WorkRunRefinement
      ^ EXTENDS                                          ^ INSTANCE
   WorkRunDispatchProofs: what is proved of the store carries over to the whole

   DialogScheduler     the queue of one Session, its callers, its worker and its Stops,
                       at the grain of single accesses to memory
                       ^ EXTENDS: DialogSchedulerProofs

   TurnLifecycle          turnLifecycle.ts as operators: one for each function
      ^ EXTENDS      ^ EXTENDS
   CliTurns       MessageQueue        a CLI Session and its coordinator; the queue of an agent Session
      ^ EXTENDS      ^ EXTENDS
   CliTurnsProofs MessageQueueProofs

   RoutineActivations  the activations of one Routine and the schedulers that ask for them
                       ^ EXTENDS: RoutineActivationsProofs

   MCWorkRun, MCWorkRunDispatch, MCDialogScheduler,
   MCCliTurns, MCMessageQueue, MCRoutineActivations    the instances that TLC checks
```

`WorkRunDispatch` joins the Run store with a coarse scheduler, in which enqueueing, Stop and the start of a
turn are a step each; `DialogScheduler` is that scheduler in detail and knows no Runs.  `CliTurns` and
`MessageQueue` are two users of one lifecycle, one for each kind of Session; to them the back end is what
accepts, runs and ends messages.

### WorkRun

| TLA+ | Code |
| --- | --- |
| `run[r]`: status, session, failure, attempt, parent, resume | a row of `pm_work_item_runs`; `failure` is what `failure_json` tells `retry` (disposition and retryable), `resume` the `ResumeSession` target |
| `outbox[r]`: status, due, token, tries | its row of `pm_dispatch_outbox`; `due` says that `available_at` or `lease_expires_at` has passed |
| `byKey` | the unique index on the idempotency key |
| `owner`, `lapsed` | `pm_work_item_path_locks`; `lapsed` are the locks older than seven days |
| `overdue` | history: active Runs whose lock lapsed |
| `Enqueue`, `Retry` | `enqueue`, `enqueue_for_inline_dispatch`; the transaction at the end of `retry` |
| `ClaimNextDispatch`, `ClaimDispatchForRun` | the functions of these names, which lease the row, take the directory and set the Run `dispatching` in one transaction |
| `AcknowledgeDispatchStarted`, `RecordDispatchFailure` | acknowledgement and nack |
| `RecordRunTerminal`, `MarkWaiting`, `CancelAssigneeEscalations` | `terminal.rs` |
| `CancelRoutineRun` | the writes of `routine_service::cancel_run` to the three tables |
| `ExtendWakeWindow` | the postponement in `discussion.rs` |
| `DeadlinePasses`, `PathLockLapses` | the clock |

In this module anybody may call any operation at any time, so its invariants hold whatever the callers do.
An operation that returns an error rolls back and is no step.  Which pending row `claim_next_dispatch`
takes (the oldest) and the length of the back-off are left open.  `mark_waiting` has no caller in the
repository and is kept because it is public.

### ExclusiveDispatch

Five stages of a Run, how often it was held, and the overdue holders: no tables, tokens, keys or clock.
`WorkRun` implements it under the mapping `StageOf`; a claim whose lease expired is a second `Hold`, a
nack that retries is a `Return`, and all ends are one action `End`.

### WorkRunDispatch

The store with its callers.  One step is one transaction or one access to shared memory:

| TLA+ | Code |
| --- | --- |
| `session` | status and `last_terminal_turn_status` of `agent_sessions` |
| `intent` | the row of `session_turn_intents` whose id is the Run's id |
| `queue`, `known`, `turn` | channel, `client_message_ids` and worker of a `DialogScheduler` |
| `job[p]` | program counter of a launcher: reserved, claimed, sending, admitted, accepted, acknowledged, failed |
| `ask[c]` | a call of `retry` between its reading and its writing transaction |
| `owes[x]` | the epilogue of an operation that ended a Run: cancel its escalations |
| `host`, `todo` | the process: up, down, booted, recovering with the list it read |
| `started`, `done`, `spent` | history and bounds |

`Take` … `GiveBack` are the dispatcher and the inline launchers, `DropStale` … `CloseTurn` the worker of a
Session with `send.rs` and `lifecycle.rs` inside, `Say`, `Stop` and `CancelRoutineRun` the user, `Click` …
`RetryRefused` a retry, `Crash` … `FinishRecovery` the end of the process and the next start.

The turn itself is one step with any outcome.  `Stop` is `invalidate_pending`; the cancel flag it also
sets is in the free choice of the outcome.  `clientMessageId` is the id of the Run, unless an input gives its own
(`dispatcher.rs:523`), which a retry would share with its parent; the model has the former.  Failing database calls
(also the one that ends a promotion without settling the Run, `send.rs:1088`, and the early return at `send.rs:1226`), panics of an executor, deleted
Sessions, CLI Sessions, Agent Org turns, steering and targeted cancellation are not in this module.

### DialogScheduler

One Session.  A message is either ordinary (`Steerable` when it is plain user text, which may join a
running turn) or `Exact`, a mention of a Member in a Group chat, which has a durable delivery and may be
stopped by its name.

| TLA+ | Code |
| --- | --- |
| `sender[m]` | where the call of `agent_send_message` for `m` is |
| `channel`, `pending`, `generation`, `ids` | the fields of `DialogScheduler` (`ids[c]` is `client_message_ids[c]`) |
| `current`, `cancelled` | `SchedulerTurnControl` |
| `processing`, `steering`, `flag`, `active` | `processing_turn`, and `steering_queue`, `cancel_flag`, `active_turn` of the Session runtime |
| `intent`, `delivery` | rows of `session_turn_intents` and `agent_org_execution_user_directed_deliveries` |
| `worker` | the worker task and the executor it runs: message, program counter, the intent status it has read, result |
| `stopper[u]`, `exactStop[m]` | calls of `cancel_active_turn` and of `agent_org_stop_group_delivery` |
| `begun`, `dropped`, `doomed` | history |
| `LookAround`, `UpsertIntent`, `PushSteering`, `Recheck`, `Reclaim` | the steering divert of `send.rs` and the admission |
| `Deduplicate`, `StampGeneration`, `CountPending`, `TrySend`, `UncountPending`, `RejectMessage` | `DialogScheduler::enqueue` |
| `Receive`, `ClaimTurn`, `DropNamed`, `CheckGeneration`, `DropStale`, `BeginProcessing`, `WriteIntent`, `CloseIntent`, `Release` | `WorkerTask::run` |
| `ClearFlag`, `PromoteTurn`, `AskAgain`, `BeginTurn`, `EndTurn`, `FinalizeSession` | the executor in `send.rs` |
| `DrainSteering`, `FinishLoop` | `drain_steering_queue` and the end of the turn loop |
| `BumpGeneration`, `ZeroPending`, `ClearIds`, `MarkPendingStale`, `ClearSteering`, `SignalTurn` | `invalidate_pending` and the rest of `cancel_active_turn` |
| `PersistStop`, `InvalidateTurn`, `SignalExactTurn` | `prepare_exact_group_cancellation`, `invalidate_turn`, `cancel_active_turn_if_intent` |

`try_lock` in a Stop fails only while somebody else may hold the lock (`IdsInUse`, `SteeringInUse`).  The
registry of targeted cancellations is a hash set, so which name it gives up is a free choice.  That a mention
must be the head of its Member's queue, that the Session row exists and that the runtime is the one reserved
appear as a promotion that may be refused (`GiveUp`), and a turn may end with any outcome the flag and the
steering buffer allow.

Left out: maintenance jobs and forced sends, the closed channel of a scheduler that shuts down, a second
submission under the same intent, panics, Coordinator turns, and what a Stop does to background workers.

### TurnLifecycle

`turn` is `[phase, generation]`.  Each exported function of `turnLifecycle.ts` that changes it is an operator
of the same name from one value to the next; `RunningAccepted` and `TerminalAccepted` are what
`markTurnRunning` and `markTurnTerminal` answer, on which their callers decide whether to go on.  A report that
names no generation has `NoGeneration`.  `DeadmanArmed` says in which phases a timer runs (60 s for
`dispatching`, 10 s for `stopping`); `working` has none.

### CliTurns

One CLI Session seen from one window: the intents it sends (`Own`) and those that others send (`Foreign`).

| TLA+ | Code |
| --- | --- |
| `active`, `terminals` | `activeBySession`, `recentTerminalIntents` of `CliTurnLifecycleCoordinator` |
| `step[x]`, `dispatchOf[x]` | where `dispatchUserIntent` is for `x`; the generation it published (`turnIntentDispatchLifecycle.ts`) |
| `interrupt` | `interruptInFlightByBoundary` and the generation in which it was asked (history) |
| `connected`, `wire` | the websocket and the `code_session.status_changed` messages on it |
| `reading` | the batch under way: asked, intents read (with the intent they name), answered (with the status of the row); `repair` says that a reconnection asked for it |
| `runner`, `latest`, `row`, `gated` | the process that runs, the last accepted intent and the status in the row of the Session, which a batch reports; whether the process has announced a plan |
| `ended[x]` | history: how often a terminal of `x` was applied |
| `PrepareUserIntent` ... `ConfirmSent` | `userIntentDispatch.ts`, `optimisticOutgoingDelivery.ts`, `cliTransport.ts` |
| `HandleRunning`, `HandleTerminal` | the two halves of `handleStatus`, called by `RegisterReceipt`, `DeliverStatus`, `ApplyBatch` |
| `Stop`, `CancelAnswered`, `StopFailed` | `interruptSession` in `useSessionActions.ts`, `cancelTurnForTimelineBoundary` |
| `Lose`, `Reconnect`, `Reconcile` | the websocket is lost, connects; the window gets the focus |
| `ReadIntents`, `ReadRows`, `BatchFails`, `ApplyBatch` | `cli_agent_status_batch`, which reads the last intents and then the rows, its failure, and the continuation of the `await` in `reconcile`; who asks while a read is under way shares it |
| `AcceptMessage`, `RefuseMessage`, `ForeignSend`, `CancelSession`, `CancelTimesOut`, `PlanGate`, `RunnerEnds` | `cli_agent_message`, `cancel_session` and the runner in `src-tauri/src/agent_sessions/cli` |

A coordinator that is at its capacity of 256 Sessions may ignore a turn it does not know.  Left out: launches
and native continuations, notifications, the eviction of remembered intents (200 and 256), messages of a
project Session (which wait in the store of Runs), and the failing of a write to the row.

What a batch says may be old in two ways: it is applied an `await` after it was read, and after the plan gate the row
says `completed` although the process still drains (`transport_standard.rs:373`), so that a batch ends the turn the
window tracks, as the gate intends.  The pushed message of the gate does not: it names no intent, and the
coordinator ignores such a terminal while it tracks a turn (`cliTurnLifecycleCoordinator.ts:121`).  The comment at the
gate, "Unlock the composer immediately" (`transport_standard.rs:361`), is therefore true of a window that reads a batch, and of the
others when the process has ended.

### MessageQueue

One agent Session in one window.  Messages are numbered in the order of their submission.

| TLA+ | Code |
| --- | --- |
| `queue`, `now`, `held`, `failed` | rows of `messageQueueAtom`, and which of them have priority `"now"`, `requiresExplicitDispatch`, a `deliveryError` |
| `lock`, `verdict`, `natural` | `dispatchLockRef` with `inFlightMessageIdRef`, the answer of `getBackendDispatchVerdict`, `turnIntentSource` |
| `editing`, `asked`, `postStop` | `queueEditTargetAtom`, `interruptRequestedByMessageIdRef`, `postStopDispatchSessionsAtom` |
| `cancel[b]` | the interrupt in flight of each boundary, with the row and the generation it is for |
| `jobs`, `running`, `dead` | what the scheduler of the Session has accepted, whether the first of it runs, whether the Session failed |
| `channel`, `events` | status events of the Session, which name the intent; `session-status-changed`, which does not |
| `SubmitDirect`, `Enqueue` | `useUserIntentSubmit.ts` |
| `ForceSend`, `StartEdit`, `EndEdit`, `ClearRow`, `Reorder`, `Stop` | the write atoms of `messageQueueAtom.ts`, the boundary of `sessionTimelineBoundary.ts` |
| `DispatchNow`, `InterruptFor`, `AskVerdict`, `BackOff`, `ParkDead`, `Rebusied`, `DispatchNatural` | one pass of `tryDispatchNext`, and the continuation of its question to the back end |
| `AppendFails` ... `ConfirmSent`, `FailRow`, `DropRow` | `dispatchUserIntent`, `settleQueuedMessageFailure`, `acceptQueuedMessage` |
| `StopRefused`, `ForceSendRefused` | `onError` of a Stop, `handleInterruptFailure` of a Send Now |
| `DeliverChannel`, `DeliverEvent` | `onStatusChange` in `sessionSyncStateHelpers.ts`, `useNativeSessionStatusMonitor.ts` |
| `AcceptMessage` ... `Cancel` | the scheduler and `cancel_active_turn`, as the window sees them |

An edit that is saved and an edit that is given up differ in the error of the row only; texts, models and
intent ids are data.  A row is moved to the front, which composes to every order.  Left out: canonical
conversations and their executions, the time between ending the turn of a failed send and settling its row
(`SendFails` is one step), the durable registry, rewind, other Sessions of the window (each has a
lifecycle of its own; they share the dispatch lock) and the limits on size and number of rows.

### RoutineActivations

One portable Routine with a schedule, the schedulers of several processes, and manual fires.  A key is an
occurrence of the schedule, numbered, or a fire; the code derives the invoke key of both.

| TLA+ | Code |
| --- | --- |
| `run[k]`, `open` | the row of `pm_routine_runs` of the key; whether it has a Work Item that is not terminal |
| `event[k]` | the row of `pm_routine_activation_events`: a queued activation, or the record of a suppressed one |
| `guard` | the row of `pm_routine_activation_guards`; `Gone` is an owner whose process or thread ended |
| `watermark`, `nextFire` | `last_evaluated_at` (`Never` when it is NULL) and `next_fire_at` of the Routine |
| `call[t]`, `tick[h]` | a call of `request_activation` or `promote_queued_activation`; a pass of `portable_tick` |
| `clock`, `fresh` | the last occurrence that has come; whether that was at most 30 s ago |
| `applies`, `faults` | bounds |
| `passed`, `since` | history: what the catch-up policy left out; the last occurrence before the Routine got its present spec |
| `RequestActivation`, `DeferBehindGuard`, `ReadEvent`, `RecordDeferred` | `request_activation` and its helpers |
| `ClaimGuard`, `RenewGuard`, `ReleaseGuard` | the compare-and-set, `ActivationGuard` and its drop |
| `ListRuns`, `ReconcileRunningRun`, `NoActiveRun` | `active_run_id` and the reconciliation of each run |
| `InvokeTarget` | `invoke_target`: the run, its Work Items and their Runs in one transaction |
| `FinishQueued`, `FailQueued` | `finish_queued_activation` |
| `BeginTick`, `PromoteNext`, `ListDue`, `RequestNext`, `MarkEvaluated` | `portable_tick` in `routine_scheduler.rs` |
| `AccessFails`, `TickFails`, `Crash` | an error of the database in a call or between calls, the end of a thread or a process |
| `DueTimes`, `CatchUp` | `due_times` with its limit and its window, `apply_catch_up_policy` |
| `Apply` | `apply_in_transaction`, also through `sync_definition_in`: a changed spec loses its watermark, an unchanged one keeps it, and both get a new `next_fire_at` |
| `WorkEnds`, `CancelRun`, `LeaseLapses`, `ClockAdvances`, `WindowPasses` | the world |

A Routine begins without a watermark or with one.  Without one a pass looks at the last 30 seconds only; occurrences
are a minute apart at least (cron has five fields), so this is the newest occurrence or none.  A run of which a Work Item cannot be
read counts as active; fairness supposes that this passes.

Left out: several Routines in one pass (each has rows of its own), one-time Routines, enabling, pause and resume, edits of the
cron expression itself (a pass under way would write the `next_fire_at` of the old one) and of the target
between a request and its start, the older `routine_fires`, runs that wait for Work Items to be
created, webhook and command line (which start runs without the guard), the order and the limit of 256 entries
of the queue, two activations that share the key of one instant, and the schedules of Work Items.

## 3. What is checked

Bounds of the Run modules: `MaxAttempts` (of requests; 3 in the code), `MaxDeliveries` (claims of one row),
`QueueCapacity` (of a Session channel), `MaxCrashes`, `MaxStops`, `MaxUserTurns`, `MaxCancels`.  `Clicks` are
the retry requests of users, `Earlier` the Sessions that have had a turn.  Two Runs are enough for every race
over a directory and for one retry, three for two retries of one Run; two deliveries are enough for an
expired lease with a late first holder; a channel of one message is full as soon as a user has spoken.

Bounds of `DialogScheduler`: `Msgs`, `Stops`, `Capacity`, `MaxTargeted` (64 in the code) and `Wrap` (the width
of the counter).  With one place in the channel and one message in the worker a third message finds the
channel full; two messages of one client are a repetition; one name in the registry makes the second Stop
evict the first; a Stop is one pass over six steps, and a second one would find nothing the first has not.

Bounds of `CliTurns`: `Own`, `Foreign`, `MaxActs` (presses of Stop, and returns to the window, which read a batch),
`MaxFaults` (losses of the websocket, failed sends), `MaxGates` (plans) and `MaxEvents` (all of them together).  Two own messages
give an older turn whose reports are late and a newer one; the foreign one opens a turn that nobody here dispatched; one act, one fault
and one plan are allowed, and each two of them meet at every step (733,112 states).

Bounds of `MessageQueue`: `MaxMessages`, `MaxCommands` (Stop, Send Now, edit, removal, reordering, together) and
`MaxFaults` (failed sends, reads, cancels and turns, together).  With three messages one runs, one is sent and
one waits.  The same properties were also checked once with two commands (1.8 million states); a Stop
followed by a Send Now is the shortest way to a row that is parked and comes back.

Bounds of `RoutineActivations`: `Hosts`, `Fires`, `LastTick`, `MaxCatchUp` (set by the user in the code), `MaxDue` (1000 in the
code), `MaxApplies`, `MaxFaults` and `MaxEvents` (applies and faults together).  With three occurrences all are missed
together, one of them is left out by the catch-up policy, or the last ones come during the pass; with a fire and a
scheduler one of them finds the guard of the other; one fault leaves a guard to nobody, a run without its event, or a watermark
behind, and one apply takes the watermark away (719,276 states).  The same properties were also checked once with two
schedulers, no fire and two occurrences (1,573,858 states).

`Circumstances` (`CliTurns`, `MessageQueue`, `RoutineActivations`) is the set of unlikely timings a run allows; the
passing runs allow none, and each is there because a property fails with it (see below).

Deadlock is checked for `WorkRun` alone: the bounds of the other modules let everything come to rest.

| Run | Asks |
| --- | --- |
| `retries` | two Runs of one directory, both deferred escalations of one Discussion, either of which may retry the other or be cancelled by its end: `NoRunStranded`, `NoLeakedLock`, `PathExclusion`, `RetryLineage`, `Finality`, and the refinement `ImplementsDispatch` |
| `crash` | a crash anywhere, recovery, and the retries it inserts: `OwnTurnDecides`, `TurnStartsOnce`, `TurnRunsUnderItsLock`, `NoPhantomSession`, `TypeOK` |
| `progress` | no crash and no Stop, one retry click, fairness: `EveryRunEnds`, `ActiveRunAttended` |
| `launchers` | inline caller against dispatcher: `TurnRunsUnderItsLock` |
| `people` | a user talks in, stops and cancels what a Run resumes, while an inline caller outlives its lease: `NoPhantomSession`, `NoLeakedMessageId` |
| `session` | three ordinary messages, two of them the same, one Stop: `NoLeakedClientId`, `OneLivePerClient`, `StoppedNeverStarts`, `FreshNeverDropped`, `PendingCounts` |
| `group` | two mentions and their exact Stops, fairness: `NamedStopHolds`, `StartedIsExecuted`, `EveryIdReturns` |
| `cli` | two messages of this window and one of another; two of a Stop or a return to the window, a fault, and a plan; fairness: `TerminalAppliedOnce`, `TrackedTurnCanEnd`, `ReleasedByItsOwnEnd`, `StopHolds`, `NoStrandedTurn`, `TurnIsReleased` |
| `queue` | three messages, one command, one failure, fairness: `SentOnce`, `FailedWasNotSent`, `NaturalWaitsForBackend`, `HeldNeverDrained`, `NoStrandedTurn`, `QueueDrains` |
| `routine` | a schedule of three occurrences, two that queue and one that always fires, a manual fire that skips, begun with or without a watermark, one fault or one edit of the definition, fairness: `OneActiveRun`, `WatermarkIsHonest`, `ActivationsDrain`, `OccurrencesAreDecided` |

The types of every module are proved (section 4); those of `WorkRunDispatch` are checked in `crash` as well.

### What the code says and does not do

Each of these statements of a comment is a property that TLC refutes: the first two in the run of that name,
the others in a passing run whose configuration is changed as the table says.

| Run, or change | Property | Statement | What happens |
| --- | --- | --- | --- |
| `stop_lost` | `StopReachesTheTurn` | "queued work invalidated by Stop ... is discarded before this callback runs" (`send.rs:999`) | Stop falls between the generation check and `cancel_flag.store(false)` (`send.rs:1001`): it finds no active turn, its flag is cleared, the turn runs |
| `held_sent` | `ParkedStaysParked` | "only Send Now (or queue edit actions) can dispatch them afterwards" (`messageQueueAtom.ts:326`) | a Stop after a Send Now parks the row and leaves its priority, which the loop over explicit rows obeys |
| `cli` with `Circumstances = {"early_stop"}` | `NoStrandedTurn` | "A terminal without a generation is discarded while "dispatching" (before the running ack ...)" (`turnLifecycle.ts:31`) | Stop makes it `stopping` before the running ack, and a cancel that found nothing to cancel ends it; the receipt of the message then opens the next generation, with which its own terminal is never compared |
| `ActiveRunAttended` in `crash` | `ActiveRunAttended` | "A process crash at any boundary is reconciled" (`work_item_run_dispatcher.rs:6`) | acknowledged, turn not begun, crash: the Session is idle, recovery skips it, the Run runs for ever and keeps its directory |
| `OneOpenRetryChild` in `crash` with three Runs, Sessions and keys, `Clicks = {c1, c2}`, one delivery and no crash | `OneOpenRetryChild` | "Repeated retry requests converge on the same open child" (`terminal.rs:797`) | two requests both see no child, then both insert one |
| `SteeringIsRead` in `session` | `SteeringIsRead` | "must not be silently deferred to a turn that may never come" (`completion.rs:53`) | after its last drain a turn still counts as processing until the worker is done with it; a message steered meanwhile is answered "steered" and stays in the buffer |
| `TerminalIntentsFinal` in `group` | `TerminalIntentsFinal` | "a terminal can never walk backwards into a non-terminal" (`turn_intents.rs:235`) | the worker has read `queued`, an exact Stop writes `cancelled`, the worker writes `running`; the delivery is settled, so nobody ends the intent in this process |
| `FailedStopUnlocksItsTurn` in `cli` | `FailedStopUnlocksItsTurn` | "Interrupt RPC failed — no terminal will arrive, unlock now." (`useSessionActions.ts:258`) | a cancel that timed out has broadcast the terminal before it answers with an error (`lifecycle.rs:295`); the terminal ends the turn, the next one is dispatched, and the late error unlocks that one |
| `RevisitIsIdempotent` in `routine`, as a PROPERTY | `RevisitIsIdempotent` | "Successful siblings are safe to revisit because their stable invoke keys make `request_activation` idempotent" (`routine_scheduler.rs:250`) | the scheduler dies after a run started and before the watermark is written; the next pass asks for the occurrence again, finds the guard of the dead one and records the occurrence as queued, coalesced or skipped although it has its run.  No second run starts |

### Circumstances of the properties

The invariants of `WorkRun` hold for any caller and any order of calls.  Other properties hold only under
the circumstances of their run.  What TLC refutes above is one reason; the others were found by changing one
bound of a passing run, and can be found again that way:

| Property | Fails in | Because |
| --- | --- | --- |
| `OwnTurnDecides` | `crash` with `Earlier = {s0}`, `Sessions = {s0, s1}` | recovery settles a Run from the status of its Session (`work_item_run_dispatcher.rs:230`): a Session that had completed an earlier turn, or whose marker of that turn was never cleared (`ops.rs:467`), makes the Run succeed although its own turn never ended |
| `OwnTurnDecides` | any run with an `Earlier` Session and `MaxUserTurns = 1` | the end of a user's turn settles the Run whose turn is queued behind it (`orchestrator_notify/mod.rs:342`, against `terminal.rs:495`, "into the exact owning Run") |
| `OwnTurnDecides` | `crash` with three Runs, Sessions and keys, no directories, `MaxAttempts = 3`, `MaxDeliveries = 1`, `Clicks = {c1}` | recovery and a user both retry the Run that recovery settled as abandoned (the race of `OneOpenRetryChild`, `terminal.rs:797`); both children resume its Session, and the end of the turn of the first settles the second (`orchestrator_notify/mod.rs:342`).  Two clicks do it without a crash |
| `TurnRunsUnderItsLock` | `launchers` with `MaxDeliveries = 2` | the nack of a second delivery gives back the directory in which the turn of the first one executes (`terminal.rs:465`) |
| `TurnRunsUnderItsLock` | `crash` with `Clicks = {c1}` | a user retries between the settlement of a Run and the notification that its Session ended; the retry is acknowledged in the same Session, the late notification settles it (`orchestrator_notify/mod.rs:342`), and its turn runs without the directory |
| `TurnRunsUnderItsLock` | `crash` with `Earlier = {s0}`, `Sessions = {s0, s1, s2}`, or with `MaxUserTurns = 1` | the same notification at the end of another turn of the Session, of a second Run that resumes it or of the user, settles the Run that was acknowledged meanwhile, whose turn then runs without the directory |
| `TurnRunsUnderItsLock` | any run with `MaxCancels = 1` | cancelling a routine run does not stop agents |
| `TurnRunsUnderItsLock` | `crash` with `MaxStops = 1` | a Stop falls between the persisting of the intent (`send.rs`, admission) and the stamp of the message (`scheduler.rs:316`): it makes the intent stale (`scheduler.rs:384`), but the message gets the new generation.  `reconcile_terminal_intent` (`work_item_run_dispatcher.rs:578`) fails the Run for its stale intent, and its turn then runs without the directory |
| `TurnStartsOnce` | `launchers` with `MaxDeliveries = 2` | a slow launcher and its successor both find no intent (`launch/mod.rs:1104`); the turn runs again after it ended |
| `ActiveRunAttended` | `progress` with `MaxStops = 1` | Stop after the acknowledgement makes the queued turn stale, and the Run is left running (`scheduler.rs:501`) |
| `OneLivePerClient`, without `generation = 0` | `session` | a Stop clears the ids; the worker, dropping the old message, then removes the id of a fresh one (`scheduler.rs:516`) |
| `PendingCounts`, without `generation = 0` | `session` | a Stop zeroes the counter while a message is stamped but not counted, or counted and refused (`scheduler.rs:319`, `:332`) |

So `OwnTurnDecides` is claimed where no Session has a turn that is not a Run's own and only recovery retries,
`TurnRunsUnderItsLock` where in addition a Run has one deliverer at a time, is not cancelled, and no Stop hits an admission,
`TurnStartsOnce` for one launcher,
`ActiveRunAttended` and `EveryRunEnds` without crashes and Stop, and `OneLivePerClient` and `PendingCounts`
until the first Stop.

The modules of the client and `RoutineActivations` name such conditions in `Circumstances`.  Each is a timing that
the code does not exclude, and with it in the set TLC refutes, in `cli`, `queue` or `routine`:

| Circumstance | Refutes | Because |
| --- | --- | --- |
| `early_stop`: Stop before the window sees its message accepted | `NoStrandedTurn`, `TrackedTurnCanEnd` | see above |
| `late_confirm`: a message is sent before the previous one is marked as sent, after the timer of 60 s made the Session idle | `NoStrandedTurn`, `TrackedTurnCanEnd` | `confirmSent` calls `confirmTurnRunning` without looking whether the turn is still its own (`userIntentDispatch.ts:614`), which makes the newer dispatch `working` |
| `end_lost`: the websocket loses the end of a turn, and another window starts the next one | `NoStrandedTurn` | a batch reports the last intent alone; it is not the active one and is ignored (`cliTurnLifecycleCoordinator.ts:125`), and the end of the active one is never told again |
| `receipt_overtaken`: a batch is applied while the answer of a message is on its way | `NoStrandedTurn` | the batch already says that the turn ended, but nothing is tracked yet; then the receipt opens it |
| `read_shared`: the websocket comes back while a batch is being read | `NoStrandedTurn` | `reconcile` hands out the read under way (`cliTurnLifecycleCoordinator.ts:164`), which was made before the websocket lost the end of the turn: it says "running", and nothing reads again |
| `read_fails`: the batch that is read after a reconnection fails | `NoStrandedTurn` | nothing reads again until the window gets the focus (`useBackgroundSessionMonitor.ts:143`) |
| `end_passed_over`: the end of a turn is told while the window does not take it up, and a batch that says that it runs is on its way | `NoStrandedTurn` | a coordinator with 256 active Sessions has passed the turn over, and its end arrives while a message of this window is dispatched; it is not remembered (`cliTurnLifecycleCoordinator.ts:129`), and the batch then opens the turn |
| `cancel_overtaken`: a message is dispatched, or Stop pressed, while the cancel of a Send Now is on its way | `FailedWasNotSent`, `NoStrandedTurn`; `SentOnce` with two commands | when the cancel then fails, its handler shows as failed, or puts back, the row that was sent meanwhile (`useQueueDispatch.ts`, `handleInterruptFailure`), and Send Now sends it again |
| `verdict_overtaken`: the user acts on the queue while the back end is being asked whether it is idle | `HeldNeverDrained` | the continuation looks at the phase again, but not at whether its row is still there and not parked (`useQueueDispatch.ts:262`) |
| `slow_start`: the timer of a dispatch expires, or the back end is asked, before an accepted turn starts | `NaturalWaitsForBackend` | a Session whose turn is queued is not running, and is answered to be ready |
| `channel_behind`: the process-wide event tells the end of a turn before the channel of the Session tells its start | `NoStrandedTurn` | an end by event ends whatever is there (`useNativeSessionStatusMonitor.ts:108`); the start, late, opens a turn (`turnLifecycle.ts:28`), and the terminal of the channel carries the generation of the dispatch, which is older |
| `slow`: a living owner of a guard outlasts its lease of 60 s | `OneActiveRun` | the guard is renewed before the run is inserted, but the insertion does not look at it (`routine_service/mod.rs:1310`); if its owner is late, another has decided meanwhile that no run is active |
| `first_late`: 30 s pass after an occurrence that is not decided, while the Routine has no watermark | `WatermarkIsHonest`, `OccurrencesAreDecided` | nothing writes the watermark before the first occurrence; if its activation fails, the next pass is 30 s later (`poll_deadline`), looks back 30 s (`routine_scheduler.rs:151`), finds nothing due and writes the watermark behind the failed one, against "leave it untouched so the failed occurrence remains due" (`routine_scheduler.rs:250`).  The same if nobody looked in time |
| `reprojected`: the definition is projected anew while an occurrence is due | `OccurrencesAreDecided` | each start of the desktop projects every definition (`convert_all`), and the projection moves `next_fire_at` to the next occurrence (`legacy_bridge.rs:102`): what came while the desktop was down waits until that one comes, and is lost if the Routine has no watermark.  `types/routines.rs:185` says "Triggers due in `(last_evaluated_at, now]` are fired on each scheduler tick" |
| `long_pause`: more than `MaxDue` occurrences come between two passes; with `MaxDue = 2` | `WatermarkIsHonest`, `OccurrencesAreDecided` | `due_times` returns the oldest 1000 (`routine_schedule.rs:53`); the watermark then passes the others, the newest included, which "fire once" would have fired |

`NaturalWaitsForBackend` speaks of messages whose row is in the queue when they are accepted.  Without `Queued(m)` it
fails with `MaxMessages = 4` and `MaxCommands = 2`: the user removes the row while it is being sent, which does not
take the send back; an old report makes the Session idle; and a message submitted now finds no row to wait behind and is
accepted first.  The bounds of `queue` are too small for that; the attempt to prove the property without
`Queued(m)` showed it.

A hidden window puts off the reading of its batch until it is shown, which is a late `ReadIntents`.

### Fairness

`WorkRunDispatch!FairSpec` assumes weak fairness of the dispatcher loop, of each launcher, each worker, each
retry call, each epilogue, of recovery, and of the deadline of each row: Tokio polls every ready task, the
loop sleeps no longer than the next deadline (`dispatcher_wait_duration`), provider calls have timeouts, and
clocks advance.  Nothing is assumed of producers, users, crashes and of locks that lapse.

`DialogScheduler!FairSpec` assumes weak fairness of each call once it was made, of the worker with the turn it
executes, and of each Stop once it was pressed: they are tasks that Tokio polls, and a turn ends because its
provider has timeouts.  Nobody has to send anything or to press Stop.

`CliTurns!Spec` assumes weak fairness of each step of a send once it was begun, of the messages on the websocket,
of its reconnection and of the steps of a batch that is under way, of the process and of the timers: promises settle, the
socket reconnects with a back-off, and a process that never ends would be a turn that never ends.  Nothing is
assumed of who sends, of Stop, and of the loss of the connection.  `MessageQueue!Spec` assumes the same of sends,
cancels, channel, events and turns, that an edit is closed some day, and that the loop looks again when the
queue, the lifecycle or its timer changes (`useQueueDispatch` runs on each of them); nobody has to press
anything.

`RoutineActivations!FairSpec` assumes weak fairness of each call once it was begun, of the passes of each scheduler
(a loop that polls every 30 s), of the end of the Work Items of each run, and of the lease of a dead owner.  Nothing
is assumed of fires, cancels, faults, edits and of the clock; without `first_late` and `long_pause` the clock waits for the passes,
which says that a pass is quicker than the schedule.

## 4. What is proved

TLAPS proves the following for all values of the constants.  The proofs about `WorkRun` rest on its
`IdAssumption` (the null values are no ids) and `RequestAssumption` (the types of the request constants) alone.

* `WorkRunProofs`: `TypeCorrect` and `NothingStranded`.  `NoRunStranded` is inductive with `TypeOK`; the
  proof needs one case per operation, and the one that can go wrong is the acknowledgement of a Run that has
  ended already.
* `WorkRunLockProofs`: `LocksConsistent` is the invariant `LockInv`, which joins `NoLeakedLock`,
  `ActiveRunHoldsItsPath`, `LapsedLockOverdue` and `OverdueIsActive`.  None of the four is inductive: a claim
  deletes lapsed locks, which is harmless only because their owners are known to be overdue; a nack may
  release a lock only because its Run is not active any more.  `OneRunPerPath` (`PathExclusion`) and
  `LocksReturned` (`NoLeakedLock`) follow.
  The module also holds `ResumableRunsHaveSessions`, `RunsAreFinal` (`Finality`, an action property) and
  `RetriesFormChains` (`RetryLineage`, which needs that an ended Run never changes and that a Run to be
  resumed has a Session).
* `WorkRunRefinement`: `InductiveInvariantHolds` (`IndInv`) and `StoreImplementsQueue`
  (`ImplementsDispatch`): the initial states correspond, and each action of `WorkRun` is an action of
  `ExclusiveDispatch` or a stutter.  The claim is the step that needs the invariants: the rivals of a
  Run that may be claimed are all overdue.
* `WorkRunDispatchProofs`, from `SessionAssumption`, `ProcessAssumption` and the assumptions of the store, for any
  numbers of Runs, Sessions, launchers, crashes and user turns:
  * `DispatchTyped` (`TypeOK`), from the stronger `Typed`, which says of each process in which phases it has a Run.
  * `DispatchRunsTheStore`: every step of a process, of recovery and of the people is a transaction of `WorkRun`
    or leaves the tables alone.  The guard that matters is the one each process keeps from an earlier step: it
    must still be a valid argument of the transaction that it calls later.  So what is proved of the store holds
    of the composition: `StoreStaysSound` (`IndInv`), `RunsExcludeAndEndOnce` (`PathExclusion` and `Finality`) and
    `DispatchIsExclusive` (`ImplementsDispatch`).
  * `NoIdLeaks` (`NoLeakedMessageId`): an id is known only if its message is queued or is the turn of the worker
    (`Accounted`).
  * `NoPhantoms` (`NoPhantomSession`): a Session is `running` only from the promotion of its turn to the end
    of it (`Occupied`).
  * `TurnsStartOnce` (`TurnStartsOnce`): as long as no two launchers send one Run at the same time (`OneSender`), its turn starts at
    most once.  The invariant is `OnceFor`: before the Run is admitted it was never queued (`Unsent`), afterwards its
    intent says so and turns the next delivery away.  The hypothesis is needed: in `people` TLC finds an
    inline caller that outlives its lease and sends what was claimed again, and section 3 shows the turn that starts twice.
    `DispatcherStartsOnce` has no hypothesis about behaviours: without inline callers, `OneSender` always holds.
  * `LeasesAreExclusive`: two launchers never hold the lease of one Run, for the token of a lease is the number of
    claims of its outbox row (`TokensDiffer`).  With it `TurnsStartOnceUnlessOvertaken` puts the hypothesis in terms
    of leases: a turn starts once unless a launcher sends a Run that was claimed again behind its back.
  * `OwnTurnsDecide` (`OwnTurnDecides`), for any numbers of Runs, launchers, deliveries, crashes, Stops, cancellations and
    retries by recovery, under the hypothesis `OwnTurnsOnly` on the constants: no Session has a turn that is not a Run's
    own, and no user retries.  The three counterexamples of section 3 lie outside it.  Two places settle a Run from its
    Session and not from its turn, the notification and recovery, so the invariant `OwnInv` is about whom a Session
    works for.  Retries put several Runs into one Session, but only one of them has no retry (`LastOfSession`), and one
    that was retried is in no queue, worker or launcher any more (`Retired`); so the Run that is active in a
    Session is that of the turn that ends there.  A Session that shows `completed`, as status or as marker, completed
    the turn of that last Run (`Marked`), so recovery does not take the marker of one Run for the outcome of
    another.  A retry may take over a Session because it was abandoned and nobody uses it until the retry is
    inserted (`Abandoned`, `Recovering`).
  * `ActiveRunsAreAttended` (`ActiveRunAttended`), for any numbers of Runs, launchers, deliveries, retries, cancellations
    and user turns, under `Undisturbed` (no crash, no Stop; section 3 has the counterexample for each) and as long as
    no Run has two deliverers (`OneDeliverer`).  "Somebody will still do something" must follow from the steps
    of the delivery: `Unbound` says that a Run has no Session before it is acknowledged; `Delivered`, for each Run that has not
    ended, that who delivers it holds its lease, and that its turn is remembered nowhere before it was accepted;
    `Followed`, that once it was accepted a message waits, not stale, or a turn executes (`Underway`).  The
    step that carries weight is `EndsOneRun`: the end of a turn ends the Run it was executed for.
    `DispatcherForgetsNoRun` has no hypothesis about behaviours, for without inline callers there is one launcher.
  * `TurnsRunUnderTheirLocks` (`TurnRunsUnderItsLock`), for any numbers of Runs, launchers, deliveries, crashes and retries
    by recovery.  Each hypothesis answers a counterexample of section 3: `OwnTurnsOnly`, no cancellation,
    `OneDeliverer`, and `StopsMissAdmissions`, no Stop makes the intent stale between admission and
    enqueueing; other Stops are allowed.  The directory follows from the store (`ActiveRunHoldsItsPath`); what is left is that
    no turn outlives its Run (`Outlasted`).  Five places end Runs, and each needs a reason why it leaves an
    executing one alone, the parts of `Guarded`: the reconciliation after an acknowledgement reads an intent that says
    where the turn is (`Intended`); the notification comes after the end of the turn has settled its Run
    (`TurnSettles`); recovery settles only what was in nobody's hands when it listed the interrupted Runs (`Forsaken`),
    although callers may insert and deliver Runs between the start of the process and that listing (`Anew`);
    a nack gives back only what was not accepted (`Delivered`); and the Run that an epilogue cancels waits in the
    queue of the store.
    Two corollaries have no hypothesis about behaviours: `DispatcherKeepsItsLocks`, the case of `crash`, and
    `LaunchersKeepTheirLocks`, that of `launchers`, where a Run that is delivered once has one deliverer (`OneDelivery`).

* `DialogSchedulerProofs`, from `IdAssumption` and `MessageAssumption`, for any numbers of messages, clients and
  Stops, any capacity, registry size and width of the counter:
  * `TypeCorrect` (with `Employed`: a worker that is not idle has a message).
  * `StoppedStaysStopped` (`StoppedNeverStarts`) from `StampInv`: a stamp is never ahead of the generation, and
    what a Stop found waiting has a stamp behind it.
  * `StartedDeliveriesExecute` (`StartedIsExecuted`) from `CurrentInv` and `DeliveryInv`, which tie the message of
    the worker to `current` and to its delivery through all phases.
  * `NamedStopsHold` (`NamedStopHolds`) adds `SignalInv`.  A Stop settles a delivery that is still pending, so
    a turn it found waiting can never be promoted, whatever the registry forgets; a turn that is promoted
    already is the current one, whose name the registry never gives up, so that the executor finds it at its
    next question or the Stop finds the active turn.  This is why the bound of the registry is harmless.
  * `ClientIdsReturn` (`NoLeakedClientId`) is inductive with the types.
  * `FreshGoesThrough` (`FreshNeverDropped`) from `Placed`, `StampInv` and `FreshInv`: a message whose generation is over was
    found waiting by the Stop that ended it, although stamp, counter and channel are three steps of the sender.
  * `OneMessageLive` (`OneLivePerClient`) from `LiveInv`: until the first Stop, a message in flight is the one its client id remembers.
  * `PendingIsExact` (`PendingCounts`), for finitely many messages and a counter that can hold their number (the code's
    is as wide as a pointer), from `CountInv` with the theorems about cardinalities.

* `CliTurnsProofs`, from `CliAssumption`, for any numbers of intents, Stops and faults, whatever the circumstances:
  `CliTyped`, `CliTerminalAppliedOnce` (`TerminalAppliedOnce`, inductive with `Once`: an intent whose end
  was applied is among the remembered ones, which no handler applies again) and `CliStopHolds` (`StopHolds`, an
  action property; only a report that names the generation of the turn itself makes it run, and only from
  `dispatching`).
  * `CliNumbered`: whatever the circumstances, each dispatch has a generation of its own, the
    coordinator keeps a turn under the generation of its dispatch (`Generations`), reports speak of accepted turns only, and the
    end of a turn is pushed only when it does not run (`Reports`).  A batch may say so earlier: what it reads is
    the last intent and then a row that says `completed` from the plan gate on, so it denies a running turn only when that
    turn has announced its plan (`Answers`).  `CliReleasedByItsOwnEnd` (`ReleasedByItsOwnEnd`, an action property)
    follows, with batches that are applied arbitrarily late: a report that ends the turn the Session is in
    speaks of a turn that is over or waits for the approval of its plan.
  * `CliTrackedTurnCanEnd` (`TrackedTurnCanEnd`), unless `early_stop` or `late_confirm` is among the circumstances, from
    `Orderly`: the message on its way is the one dispatched last (`Ordered`), a dispatch is of a message that was not
    taken up, and a `working` Session has the turn it works for.  TLC refutes the property under each of the two.
  * `CliNoStrandedTurn` (`NoStrandedTurn`), when none of the circumstances occurs.  `NoStrandedTurn` speaks of quiet states
    only; the inductive invariant says what is on its way in the others.  `WireTruthful`: a running report is
    followed by the end of its turn, unless the turn still runs.  `BatchTruthful`: so is a batch that says that a turn runs, or
    may come to say it, unless a newer turn was dispatched meanwhile or its end was applied.  `Steady`: the active turn has not ended, and what
    is on its way is not being stopped.  `Chased`: the end of each turn that the Session works for, or is about to take up, will
    still be told, by the process, by the websocket or by a batch that is asked for after a reconnection (`BatchComes`), unless a turn
    of another window will be taken up instead; and while the coordinator keeps an older turn than the one that was answered, the
    running report of that one is still to come.  TLC refutes the property under each single circumstance.
* `MessageQueueProofs`, from `QueueAssumption`: `QueueTyped` whatever the circumstances, and, unless
  `cancel_overtaken` is among them, `QueueSentOnce` (`SentOnce`) and `QueueFailedWasNotSent` (`FailedWasNotSent`).  How often
  a message was accepted must follow from where its send is (`SentByStep`), which each step has to keep although
  rows come back to the queue.  `Inv` therefore also says that a row is in the queue once, that visible rows
  wait or are locked, that a failed row waits, and that the row a cancel makes way for waits until that
  cancel is answered (`CancelWaits`).  The last part is the one `cancel_overtaken` breaks.
  * `QueueHeldNeverDrained` (`HeldNeverDrained`), unless `cancel_overtaken` or `verdict_overtaken` is among the circumstances, from
    `ParkedInv`: what is sent naturally was not parked when it was taken up, and a Stop that parks it afterwards
    supersedes it.
  * `QueueNaturalWaits` (`NaturalWaitsForBackend`), unless `cancel_overtaken` or `slow_start` is among them, from `ReadyInv`: from
    the answer that it is ready until the message is accepted the back end has nothing else to do, and nobody else
    sends; who would send directly waits behind the row, or is told to queue since a Stop parked it.
  * `QueueNoStrandedTurn` (`NoStrandedTurn`), unless `cancel_overtaken` or `channel_behind` is among them.  Again the property
    speaks of quiet states and `Attended` of all others: a start that was told is followed by its end (`EndsFollow`), a
    dispatch has its message and no Stop (`DispatchLive`), and while the Session works, or will again if a Send Now is
    refused, a turn, an event or a message that no Stop discards is still to release it (`WorkLive`).

* `RoutineActivationsProofs`, from `RoutineAssumption`, for any numbers of schedulers, fires, occurrences, edits and faults:
  `RoutineTyped`; `WatermarkHonest` (`WatermarkIsHonest`), unless `first_late` or `long_pause` is among the circumstances,
  each of which refutes it, from `Honest`: without a watermark only the newest occurrence is undecided, and still in the window of
  30 s (`Prompt`); no more came since the watermark, or since a pass began, than a pass looks at (`Reached`, `Punctual`); what a pass
  has taken off its list is decided or will be repeated (`Evaluated`), a call that reports success leaves its
  key decided (`Answered`), and no decision is taken back (`DecisionsStand`).  `OneRunIsActive` (`OneActiveRun`), unless `slow` is
  among the circumstances, from `Exclusive`: who decides owns the guard (`Guarded`), what its list of runs
  misses is not running (`Surveyed`), who is about to start a run knows of none (`Alone`), and only the
  lease of a dead owner is over (`LapsedIsGone`).  The last part is the one `slow` breaks.

Only checked by TLC:

* The liveness properties `EveryRunEnds`, `EveryIdReturns`, `TurnIsReleased`, `QueueDrains`, `ActivationsDrain` and
  `OccurrencesAreDecided`: liveness under fairness and `ENABLED` are out of the reach of TLAPS.
* The refutations.

No module uses recursion.

## 5. Plan

1. *Done*: `ExclusiveDispatch`, `WorkRun` with its proofs, `WorkRunDispatch`.
2. *Done*: `DialogScheduler` and its proofs, which cover all of its safety.  To add: an abstract specification, "each accepted message
   is executed once or discarded with a reason", for it to implement.
3. *Done*: `TurnLifecycle`, `CliTurns` and `MessageQueue` with their proofs, which cover all of the safety
   that `CliTurns` and `MessageQueue` are checked for.  To add: launches, canonical conversations and the
   `DeliveryRegistry` (restart of the window: what was handed off is not sent again), rewind.
4. `CliSession`: the back end of `CliTurns`, as one more executor of Runs.
5. `DiscussionWake`: routing, wake windows, merging, escalation and their cancellation on top of the
   store.  Properties: an explicit comment is never lost, the wait has a ceiling.
6. `RunReview` and Work Item workflow (`project-management/src/orchestrator`): exactly one projection
   per success, across a crash.
7. *Done*: `RoutineActivations` with its proofs.  To add: several Routines and the order of their queue,
   one-time Routines, changes of the schedule, pause, webhook and command line, the schedules of Work Items.
8. `MobileRelay`: pairing, presence, bounded queues, revocation; then the task machine of the Agent Org.
9. *Done*: proofs about `WorkRunDispatch`.

Not modelled and not planned: gateways, market, key vault, git, LSP, terminal, browser and the rendering
of the UI, whose logic is I/O or sequential data handling.
