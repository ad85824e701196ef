--------------------------- MODULE WorkRunDispatch ---------------------------
(***************************************************************************)
(* Everything that moves a Work Item Run, around the store of WorkRun: the *)
(* desktop dispatcher loop (work_item_run_dispatcher.rs), the inline       *)
(* launchers (session/launch.rs), the DialogScheduler of each Session with *)
(* the turn it executes (scheduler.rs, message/send.rs, lifecycle.rs), the *)
(* retry requests, the user who talks to a Session or stops it, and the    *)
(* process that dies and recovers (startup_recovery.rs).                   *)
(*                                                                         *)
(* Every database transaction is one step of the process that runs it, and *)
(* so is every access to shared memory; between two of them any other      *)
(* process may step or the host may die.  Only native Sessions are here; a *)
(* CLI Session is delivered along another path.                            *)
(***************************************************************************)
EXTENDS Naturals, Sequences

CONSTANTS
  Runs, Sessions, Paths, Keys, Agents, Workspace, AgentOf, Escalations,
  MaxAttempts, MaxDeliveries, NoRun, NoSession, NoPath,   \* those of WorkRun
  Desktop,        \* the dispatcher loop of the desktop process
  Inline,         \* callers of session_launch, each delivers its own Run
  Clicks,         \* retry requests of users
  Home,           \* Runs -> the Session whose durable key is the Run's id
  Earlier,        \* Sessions that completed a turn before the model starts
  QueueCapacity,  \* capacity of the channel of a DialogScheduler
  MaxCrashes, MaxStops, MaxUserTurns, MaxCancels   \* bounds of the model

Launchers == Inline \cup {Desktop}
Retriers == Clicks \cup {Desktop}

ASSUME SessionAssumption ==
  /\ Home \in [Runs -> Sessions]
  /\ \A q, r \in Runs : Home[q] = Home[r] => q = r
  /\ Earlier \subseteq Sessions
  /\ \A r \in Runs : Home[r] \notin Earlier

ASSUME ProcessAssumption ==
  /\ Desktop \notin Inline \cup Clicks
  /\ QueueCapacity \in Nat \ {0}
  /\ {MaxCrashes, MaxStops, MaxUserTurns, MaxCancels} \subseteq Nat

VARIABLES
  run, outbox, byKey, owner, lapsed, overdue,   \* the tables of WorkRun
  session,   \* agent_sessions: status and marker of the last ended turn
  intent,    \* session_turn_intents: the turn intent named after each Run
  queue,     \* the channel of each scheduler
  known,     \* client_message_ids of each scheduler
  turn,      \* what the worker of each scheduler is doing
  job,       \* what each launcher is doing
  ask,       \* what each retrier is doing
  owes,      \* a Run whose escalations a process has still to cancel
  host,      \* the desktop process
  todo,      \* the interrupted Runs that startup recovery has still to settle
  started,   \* history: how often the turn of each Run was started
  done,      \* history: the Runs whose own turn the provider completed
  spent      \* history: crashes, stops, user turns and cancellations so far

Store == INSTANCE WorkRun

ASSUME StoreAssumption == Store!IdAssumption /\ Store!RequestAssumption

store == <<run, outbox, byKey, owner, lapsed, overdue>>
disk == <<session, intent>>
workers == <<queue, known, turn>>
callers == <<job, ask>>
history == <<started, done, spent>>
vars == <<store, disk, workers, callers, owes, host, todo, history>>

Outcomes == {"completed", "failed", "cancelled"}

IntentStatus == {"absent", "queued", "running", "stale", "rejected"} \cup Outcomes

SessionStatus == {"absent", "idle", "running", "abandoned"} \cup Outcomes

\* A queued turn of Run r, or of the user (NoRun); Stop leaves it there, stale.
Message(r) == [run |-> r, stale |-> FALSE]

NoTurn == [run |-> NoRun, phase |-> "idle", outcome |-> "none"]
NoJob == [run |-> NoRun, phase |-> "idle", token |-> 0, failure |-> "none"]
NoAsk == [run |-> NoRun, phase |-> "idle"]

Init ==
  /\ Store!Init
  /\ session = [s \in Sessions |->
       IF s \in Earlier THEN [status |-> "completed", marker |-> "completed"]
                        ELSE [status |-> "absent", marker |-> "none"]]
  /\ intent = [r \in Runs |-> "absent"]
  /\ queue = [s \in Sessions |-> <<>>]
  /\ known = [s \in Sessions |-> {}]
  /\ turn = [s \in Sessions |-> NoTurn]
  /\ job = [p \in Launchers |-> NoJob]
  /\ ask = [c \in Retriers |-> NoAsk]
  /\ owes = [x \in Launchers \cup Sessions |-> NoRun]
  /\ host = "up"
  /\ todo = {}
  /\ started = [r \in Runs |-> 0]
  /\ done = {}
  /\ spent = [crashes |-> 0, stops |-> 0, said |-> 0, cancels |-> 0]

Alive == host # "down"

\* A Run starts a Session of its own or resumes the one it names.
Target(r) == IF run[r].resume = NoSession THEN Home[r] ELSE run[r].resume

\* Keys are uuids and only compared: any unused one will do.
FreshKey ==
  LET unused == {k \in Keys : byKey[k] = NoRun} IN
  IF unused = {} THEN {} ELSE {CHOOSE k \in unused : TRUE}

\* The state machine of a turn intent; an illegal transition is refused.
TransitionAllowed(from, to) ==
  \/ from = to
  \/ from = "queued" /\ to \in {"running", "cancelled", "stale", "rejected"}
  \/ from = "running" /\ to \in Outcomes

UpdateIntent(r, to) ==
  intent' = [intent EXCEPT ![r] = IF TransitionAllowed(@, to) THEN to ELSE @]

-----------------------------------------------------------------------------
(* Ends of Runs.  After its transaction an operation that ended a Run goes  *)
(* on to cancel the escalations that Run has made pointless.                *)

Owe(x, r) == owes' = IF Escalations = {} THEN owes ELSE [owes EXCEPT ![x] = r]

EndRun(x, r, s, verdict) == Store!RecordRunTerminal(r, s, verdict) /\ Owe(x, r)

Epilogue(x) ==
  /\ owes[x] # NoRun
  /\ IF run[owes[x]].status \in Store!Terminal
     THEN Store!CancelAssigneeEscalations(owes[x])
     ELSE UNCHANGED store
  /\ owes' = [owes EXCEPT ![x] = NoRun]
  /\ UNCHANGED <<disk, workers, callers, host, todo, history>>

-----------------------------------------------------------------------------
(* Launchers. *)

Produce(r, s) ==
  /\ s \in Earlier \cup {NoSession}
  /\ \E k \in FreshKey : Store!Enqueue(r, k, s, FALSE)
  /\ UNCHANGED <<disk, workers, callers, owes, host, todo, history>>

\* Quiet(x): the process has finished the epilogue of its last transaction.
Quiet(x) == Alive /\ owes[x] = NoRun

At(p, phase) == Quiet(p) /\ job[p].phase = phase

Move(p, phase) == job' = [job EXCEPT ![p].phase = phase]

Rest(p) == job' = [job EXCEPT ![p] = NoJob]

Claimed(p, r) ==
  job' = [job EXCEPT ![p] = [NoJob EXCEPT !.run = r, !.phase = "claimed",
                                          !.token = outbox[r].tries + 1]]

\* The dispatcher loop starts its work when recovery is over.
Take(r) ==
  /\ host = "up"
  /\ At(Desktop, "idle")
  /\ Store!ClaimNextDispatch(r)
  /\ Claimed(Desktop, r)
  /\ UNCHANGED <<disk, workers, ask, owes, host, todo, history>>

Reserve(p, r) ==
  /\ p \in Inline
  /\ At(p, "idle")
  /\ \E k \in FreshKey : Store!Enqueue(r, k, NoSession, TRUE)
  /\ job' = [job EXCEPT ![p] = [NoJob EXCEPT !.run = r, !.phase = "reserved"]]
  /\ UNCHANGED <<disk, workers, ask, owes, host, todo, history>>

\* The caller is told when the directory is taken, and the Run stays queued.
TakeReserved(p) ==
  LET r == job[p].run IN
  /\ At(p, "reserved")
  /\ IF Store!Claimable(r) /\ Store!PathFree(r)
     THEN Store!ClaimDispatchForRun(r) /\ Claimed(p, r)
     ELSE UNCHANGED store /\ Rest(p)
  /\ UNCHANGED <<disk, workers, ask, owes, host, todo, history>>

\* The Session of a start is created under the Run's id, or found again.
CreateSession(s) ==
  session' = IF session[s].status = "absent"
             THEN [session EXCEPT ![s].status = "idle"] ELSE session

\* Mutant: the intent of an earlier delivery is not looked up.
Prepare_Resends(p) ==
  LET s == Target(job[p].run) IN
  /\ At(p, "claimed")
  /\ CreateSession(s)
  /\ Move(p, "sending")
  /\ UNCHANGED <<store, intent, workers, ask, owes, host, todo, history>>

\* An intent with the Run's id proves that the turn was accepted before.
Prepare(p) ==
  LET r == job[p].run  s == Target(r) IN
  /\ At(p, "claimed")
  /\ CreateSession(s)
  /\ Move(p, IF intent[r] = "absent" THEN "sending" ELSE "accepted")
  /\ UNCHANGED <<store, intent, workers, ask, owes, host, todo, history>>

Abort(p, failure) == job' = [job EXCEPT ![p].phase = "failed", ![p].failure = failure]

\* A start that cannot send its first turn marks its Session failed.
MarkSessionFailed(r) ==
  session' = IF run[r].resume = NoSession
             THEN [session EXCEPT ![Home[r]].status = "failed"] ELSE session

\* Consent, workspace, model or runtime: anything before the turn is accepted.
CannotLaunch(p, failure) ==
  /\ \/ At(p, "claimed") /\ UNCHANGED session
     \/ At(p, "sending") /\ MarkSessionFailed(job[p].run)
  /\ Abort(p, failure)
  /\ UNCHANGED <<store, intent, workers, ask, owes, host, todo, history>>

Admit(p) ==
  LET r == job[p].run IN
  /\ At(p, "sending")
  /\ intent' = [intent EXCEPT ![r] = IF @ = "absent" THEN "queued" ELSE @]
  /\ Move(p, "admitted")
  /\ UNCHANGED <<store, session, workers, ask, owes, host, todo, history>>

EnqueueTurn(p) ==
  LET r == job[p].run  s == Target(r) IN
  /\ At(p, "admitted")
  /\ r \in known[s] \/ Len(queue[s]) < QueueCapacity
  /\ queue' = [queue EXCEPT ![s] = IF r \in known[s] THEN @ ELSE Append(@, Message(r))]
  /\ known' = [known EXCEPT ![s] = @ \cup {r}]
  /\ Move(p, "accepted")
  /\ UNCHANGED <<store, disk, turn, ask, owes, host, todo, history>>

\* The text of this error names no retryable class.
QueueFull(p) ==
  LET r == job[p].run  s == Target(r) IN
  /\ At(p, "admitted")
  /\ r \notin known[s]
  /\ Len(queue[s]) = QueueCapacity
  /\ UpdateIntent(r, "rejected")
  /\ MarkSessionFailed(r)
  /\ Abort(p, "final")
  /\ UNCHANGED <<store, workers, ask, owes, host, todo, history>>

\* Only the dispatcher looks at the intent once more after its acknowledgement,
\* and only the dispatcher nacks a delivery whose acknowledgement is refused.
Acknowledge(p) ==
  LET r == job[p].run  token == job[p].token IN
  /\ At(p, "accepted")
  /\ \/ /\ Store!AcknowledgeDispatchStarted(r, token, Target(r))
        /\ IF p = Desktop THEN Move(p, "acknowledged") ELSE Rest(p)
     \/ /\ ~Store!MayAcknowledge(r, token, Target(r))
        /\ UNCHANGED store
        /\ IF p = Desktop THEN Abort(p, "final") ELSE Rest(p)
  /\ UNCHANGED <<disk, workers, ask, owes, host, todo, history>>

\* What a persisted intent says of its Run.
IntentVerdict ==
  [completed |-> <<"succeeded", "none">>, cancelled |-> <<"cancelled", "final">>,
   failed |-> <<"failed", "fresh">>, stale |-> <<"failed", "final">>,
   rejected |-> <<"failed", "final">>]

ReconcileTerminalIntent ==
  LET r == job[Desktop].run IN
  /\ At(Desktop, "acknowledged")
  /\ IF intent[r] \in DOMAIN IntentVerdict
     THEN EndRun(Desktop, r, Target(r), IntentVerdict[intent[r]])
     ELSE UNCHANGED <<store, owes>>
  /\ Rest(Desktop)
  /\ UNCHANGED <<disk, workers, ask, host, todo, history>>

GiveBack(p) ==
  LET r == job[p].run IN
  /\ At(p, "failed")
  /\ IF Store!Leased(r, job[p].token)
     THEN Store!RecordDispatchFailure(r, job[p].token, job[p].failure) /\ Owe(p, r)
     ELSE UNCHANGED <<store, owes>>
  /\ Rest(p)
  /\ UNCHANGED <<disk, workers, ask, host, todo, history>>

-----------------------------------------------------------------------------
(* The worker of a Session.                                                *)

Working(s, phase) == Quiet(s) /\ turn[s].phase = phase

Proceed(s, phase) == turn' = [turn EXCEPT ![s].phase = phase]

\* A message of an earlier generation is dropped when it is received.
DropStale(s) ==
  LET r == Head(queue[s]).run IN
  /\ Working(s, "idle")
  /\ queue[s] # <<>> /\ Head(queue[s]).stale
  /\ queue' = [queue EXCEPT ![s] = Tail(@)]
  /\ known' = [known EXCEPT ![s] = @ \ {r}]
  /\ IF r = NoRun THEN UNCHANGED intent ELSE UpdateIntent(r, "stale")
  /\ UNCHANGED <<store, session, turn, callers, owes, host, todo, history>>

StartTurn(s) ==
  LET r == Head(queue[s]).run IN
  /\ Working(s, "idle")
  /\ queue[s] # <<>> /\ ~Head(queue[s]).stale
  /\ queue' = [queue EXCEPT ![s] = Tail(@)]
  /\ turn' = [turn EXCEPT ![s] = [NoTurn EXCEPT !.run = r, !.phase = "started"]]
  /\ IF r = NoRun THEN UNCHANGED <<intent, started>>
     ELSE UpdateIntent(r, "running") /\ started' = [started EXCEPT ![r] = @ + 1]
  /\ UNCHANGED <<store, session, known, callers, owes, host, todo, done, spent>>

\* The marker of an earlier turn stays.
PromoteTurnToRunning(s) ==
  /\ Working(s, "started")
  /\ session' = [session EXCEPT ![s].status = "running"]
  /\ Proceed(s, "executing")
  /\ UNCHANGED <<store, intent, queue, known, callers, owes, host, todo, history>>

OutcomeVerdicts ==
  [completed |-> {<<"succeeded", "none">>}, cancelled |-> {<<"cancelled", "final">>},
   failed |-> {<<"failed", f>> : f \in {"resume", "fresh", "final"}}]

\* The provider is done: the turn settles the Run whose id it carries.
EndTurn(s, outcome) ==
  LET r == turn[s].run IN
  /\ Working(s, "executing")
  /\ turn' = [turn EXCEPT ![s].phase = "ended", ![s].outcome = outcome]
  /\ IF r = NoRun THEN UNCHANGED <<store, owes, done>>
     ELSE /\ \E v \in OutcomeVerdicts[outcome] : EndRun(s, r, s, v)
          /\ done' = IF outcome = "completed" THEN done \cup {r} ELSE done
  /\ UNCHANGED <<disk, queue, known, callers, host, todo, started, spent>>

\* Mutant: a cancelled turn leaves its Session as it was.
FinalizeSession_Unless_Cancelled(s) ==
  /\ Working(s, "ended")
  /\ session' = IF turn[s].outcome = "cancelled" THEN session
                ELSE [session EXCEPT ![s] = [status |-> turn[s].outcome,
                                             marker |-> turn[s].outcome]]
  /\ Proceed(s, "finalized")
  /\ UNCHANGED <<store, intent, queue, known, callers, owes, host, todo, history>>

FinalizeSession(s) ==
  /\ Working(s, "ended")
  /\ session' = [session EXCEPT ![s] = [status |-> turn[s].outcome,
                                        marker |-> turn[s].outcome]]
  /\ Proceed(s, "finalized")
  /\ UNCHANGED <<store, intent, queue, known, callers, owes, host, todo, history>>

SessionVerdict ==
  [completed |-> <<"succeeded", "none">>, cancelled |-> <<"cancelled", "final">>,
   failed |-> <<"failed", "final">>]

\* The end of a Session's turn settles whatever Run is active in that Session.
\* The code takes the newest one.
NotifySessionTerminal(s) ==
  LET active == {r \in Runs : run[r].session = s /\ run[r].status \in Store!Active} IN
  /\ Working(s, "finalized")
  /\ IF active = {} THEN UNCHANGED <<store, owes>>
     ELSE \E r \in active : EndRun(s, r, s, SessionVerdict[turn[s].outcome])
  /\ Proceed(s, "notified")
  /\ UNCHANGED <<disk, queue, known, callers, host, todo, history>>

\* Mutant: the ended turn stays known.
CloseTurn_Remembers(s) ==
  LET r == turn[s].run IN
  /\ Working(s, "notified")
  /\ IF r = NoRun THEN UNCHANGED intent ELSE UpdateIntent(r, turn[s].outcome)
  /\ turn' = [turn EXCEPT ![s] = NoTurn]
  /\ UNCHANGED <<store, session, queue, known, callers, owes, host, todo, history>>

CloseTurn(s) ==
  LET r == turn[s].run IN
  /\ Working(s, "notified")
  /\ IF r = NoRun THEN UNCHANGED intent ELSE UpdateIntent(r, turn[s].outcome)
  /\ known' = [known EXCEPT ![s] = @ \ {r}]
  /\ turn' = [turn EXCEPT ![s] = NoTurn]
  /\ UNCHANGED <<store, session, queue, callers, owes, host, todo, history>>

-----------------------------------------------------------------------------
(* The user. *)

Say(s) ==
  /\ Alive
  /\ spent.said < MaxUserTurns
  /\ session[s].status # "absent"
  /\ Len(queue[s]) < QueueCapacity
  /\ queue' = [queue EXCEPT ![s] = Append(@, Message(NoRun))]
  /\ spent' = [spent EXCEPT !.said = @ + 1]
  /\ UNCHANGED <<store, disk, known, turn, callers, owes, host, todo, started, done>>

\* Stop makes stale what is queued.  The ids are cleared if their lock is free.
\* The running turn ends as soon as it notices, with any outcome.
Stop(s) ==
  /\ Alive
  /\ spent.stops < MaxStops
  /\ queue' = [queue EXCEPT ![s] =
                [i \in DOMAIN @ |-> [@[i] EXCEPT !.stale = TRUE]]]
  /\ \E ids \in {known[s], {}} : known' = [known EXCEPT ![s] = ids]
  /\ intent' = [r \in Runs |-> IF intent[r] = "queued" /\ Target(r) = s
                                THEN "stale" ELSE intent[r]]
  /\ spent' = [spent EXCEPT !.stops = @ + 1]
  /\ UNCHANGED <<store, session, turn, callers, owes, host, todo, started, done>>

\* The command only writes the tables: no Session is interrupted.
CancelRoutineRun(S) ==
  /\ Alive
  /\ spent.cancels < MaxCancels
  /\ Store!CancelRoutineRun(S)
  /\ spent' = [spent EXCEPT !.cancels = @ + 1]
  /\ UNCHANGED <<disk, workers, callers, owes, host, todo, started, done>>

-----------------------------------------------------------------------------
(* Retries.  Reading the store and inserting the new Run are two steps.    *)

OpenChild(p) ==
  \E c \in Runs : run[c].parent = p /\ run[c].status \in Store!Open \cup {"running"}

Click(c, p) ==
  /\ Alive
  /\ c \in Clicks
  /\ ask[c] = NoAsk
  /\ run[p].status = "failed"
  /\ ask' = [ask EXCEPT ![c] = [run |-> p, phase |-> "asked"]]
  /\ UNCHANGED <<store, disk, workers, job, owes, host, todo, history>>

CheckRetry(c) ==
  LET p == ask[c].run IN
  /\ Alive
  /\ c = Desktop => Quiet(c)
  /\ ask[c].phase = "asked"
  /\ ask' = IF Store!MayRetry(p) /\ ~OpenChild(p)
            THEN [ask EXCEPT ![c].phase = "checked"]
            ELSE [ask EXCEPT ![c] = NoAsk]
  /\ UNCHANGED <<store, disk, workers, job, owes, host, todo, history>>

InsertRetry(c, r) ==
  /\ Alive
  /\ ask[c].phase = "checked"
  /\ \E k \in FreshKey : Store!Retry(r, k, ask[c].run)
  /\ ask' = [ask EXCEPT ![c] = NoAsk]
  /\ UNCHANGED <<disk, workers, job, owes, host, todo, history>>

\* The Work Item may be gone.
RetryRefused(c) ==
  /\ Alive
  /\ ask[c].phase = "checked"
  /\ ask' = [ask EXCEPT ![c] = NoAsk]
  /\ UNCHANGED <<store, disk, workers, job, owes, host, todo, history>>

-----------------------------------------------------------------------------
(* Crash and recovery. *)

Crash ==
  /\ Alive
  /\ spent.crashes < MaxCrashes
  /\ host' = "down"
  /\ queue' = [s \in Sessions |-> <<>>]
  /\ known' = [s \in Sessions |-> {}]
  /\ turn' = [s \in Sessions |-> NoTurn]
  /\ job' = [p \in Launchers |-> NoJob]
  /\ ask' = [c \in Retriers |-> NoAsk]
  /\ owes' = [x \in Launchers \cup Sessions |-> NoRun]
  /\ todo' = {}
  /\ spent' = [spent EXCEPT !.crashes = @ + 1]
  /\ UNCHANGED <<store, disk, started, done>>

\* Mutants: recovery copies the marker though there is none, or does not look at
\* Sessions at all.
Recovery_Copies_Marker ==
  /\ host = "down"
  /\ intent' = [r \in Runs |-> CASE intent[r] = "queued" -> "stale"
                                 [] intent[r] = "running" -> "failed"
                                 [] OTHER -> intent[r]]
  /\ session' = [s \in Sessions |->
       IF session[s].status # "running" THEN session[s]
       ELSE [session[s] EXCEPT !.status = session[s].marker]]
  /\ host' = "booted"
  /\ UNCHANGED <<store, workers, callers, owes, todo, history>>

Recovery_Skips_Sessions ==
  /\ host = "down"
  /\ intent' = [r \in Runs |-> CASE intent[r] = "queued" -> "stale"
                                 [] intent[r] = "running" -> "failed"
                                 [] OTHER -> intent[r]]
  /\ host' = "booted"
  /\ UNCHANGED <<store, session, workers, callers, owes, todo, history>>

\* A Session that was executing takes the outcome of the marker, if it has one.
RunPersistenceStartupRecovery ==
  /\ host = "down"
  /\ intent' = [r \in Runs |-> CASE intent[r] = "queued" -> "stale"
                                 [] intent[r] = "running" -> "failed"
                                 [] OTHER -> intent[r]]
  /\ session' = [s \in Sessions |->
       IF session[s].status # "running" THEN session[s]
       ELSE [session[s] EXCEPT !.status = IF session[s].marker = "none"
                                          THEN "abandoned" ELSE session[s].marker]]
  /\ host' = "booted"
  /\ UNCHANGED <<store, workers, callers, owes, todo, history>>

ListInterrupted ==
  /\ host = "booted"
  /\ todo' = {[run |-> r, status |-> session[run[r].session].status] :
                r \in {q \in Runs : run[q].status \in Store!Active
                                    /\ run[q].session # NoSession}}
  /\ host' = "recovering"
  /\ UNCHANGED <<store, disk, workers, callers, owes, history>>

\* Mutant: whatever ended the Session, its work is done.
InterruptedVerdict_Optimistic ==
  [completed |-> <<"succeeded", "none">>, abandoned |-> <<"succeeded", "none">>,
   failed |-> <<"failed", "fresh">>, cancelled |-> <<"cancelled", "final">>]

\* What the status of a Session says of an interrupted Run.
InterruptedVerdict ==
  [completed |-> <<"succeeded", "none">>, abandoned |-> <<"failed", "resume">>,
   failed |-> <<"failed", "fresh">>, cancelled |-> <<"cancelled", "final">>]

SettleInterrupted(c) ==
  LET r == c.run IN
  /\ host = "recovering"
  /\ Quiet(Desktop)
  /\ ask[Desktop] = NoAsk
  /\ c \in todo
  /\ todo' = todo \ {c}
  /\ IF c.status \in DOMAIN InterruptedVerdict
     THEN EndRun(Desktop, r, run[r].session, InterruptedVerdict[c.status])
     ELSE UNCHANGED <<store, owes>>
  /\ ask' = IF c.status = "abandoned" /\ run'[r].failure \in Store!Retryable
            THEN [ask EXCEPT ![Desktop] = [run |-> r, phase |-> "asked"]] ELSE ask
  /\ UNCHANGED <<disk, workers, job, host, history>>

FinishRecovery ==
  /\ host = "recovering"
  /\ todo = {}
  /\ ask[Desktop] = NoAsk
  /\ Quiet(Desktop)
  /\ host' = "up"
  /\ UNCHANGED <<store, disk, workers, callers, owes, todo, history>>

-----------------------------------------------------------------------------
DeadlinePasses(r) ==
  /\ Store!DeadlinePasses(r)
  /\ UNCHANGED <<disk, workers, callers, owes, host, todo, history>>

PathLockLapses(p) ==
  /\ Store!PathLockLapses(p)
  /\ UNCHANGED <<disk, workers, callers, owes, host, todo, history>>

LauncherStep(p) ==
  \/ TakeReserved(p) \/ Prepare(p) \/ Admit(p) \/ EnqueueTurn(p) \/ QueueFull(p)
  \/ Acknowledge(p) \/ GiveBack(p)
  \/ \E f \in Store!DispatchFailures : CannotLaunch(p, f)

WorkerStep(s) ==
  \/ DropStale(s) \/ StartTurn(s) \/ PromoteTurnToRunning(s) \/ FinalizeSession(s)
  \/ NotifySessionTerminal(s) \/ CloseTurn(s)
  \/ \E o \in Outcomes : EndTurn(s, o)

RetrierStep(c) ==
  \/ CheckRetry(c) \/ RetryRefused(c) \/ \E r \in Runs : InsertRetry(c, r)

RecoveryStep ==
  \/ RunPersistenceStartupRecovery \/ ListInterrupted \/ FinishRecovery
  \/ \E c \in todo : SettleInterrupted(c)

UserStep ==
  \/ \E s \in Sessions : Say(s) \/ Stop(s)
  \/ \E c \in Clicks, p \in Runs : Click(c, p)
  \/ \E r \in Runs : \/ \E s \in Sessions \cup {NoSession} : Produce(r, s)
                     \/ \E p \in Inline : Reserve(p, r)
  \/ \E S \in SUBSET Runs : CancelRoutineRun(S)

Next ==
  \/ UserStep
  \/ \E r \in Runs : Take(r)
  \/ ReconcileTerminalIntent
  \/ \E p \in Launchers : LauncherStep(p)
  \/ \E s \in Sessions : WorkerStep(s)
  \/ \E c \in Retriers : RetrierStep(c)
  \/ \E x \in Launchers \cup Sessions : Epilogue(x)
  \/ RecoveryStep
  \/ Crash
  \/ \E r \in Runs : DeadlinePasses(r)
  \/ \E p \in Paths : PathLockLapses(p)

Spec == Init /\ [][Next]_vars

\* Tokio polls every task that is ready, a provider call ends because it has a
\* timeout, and clocks advance.  Nothing is assumed of users, of producers, of
\* crashes and of locks that outlive their seven days.
Fairness ==
  /\ WF_vars(\E r \in Runs : Take(r))
  /\ WF_vars(ReconcileTerminalIntent)
  /\ \A p \in Launchers : WF_vars(LauncherStep(p))
  /\ \A s \in Sessions : WF_vars(WorkerStep(s))
  /\ \A c \in Retriers : WF_vars(RetrierStep(c))
  /\ \A x \in Launchers \cup Sessions : WF_vars(Epilogue(x))
  /\ WF_vars(RecoveryStep)
  /\ \A r \in Runs : WF_vars(DeadlinePasses(r))

FairSpec == Spec /\ Fairness

-----------------------------------------------------------------------------
(* Properties. *)

\* What the disk and the memory of the process hold.
TypeOK ==
  /\ Store!TypeOK
  /\ session \in [Sessions -> [status: SessionStatus, marker: Outcomes \cup {"none"}]]
  /\ intent \in [Runs -> IntentStatus]
  /\ \A s \in Sessions : /\ queue[s] \in Seq([run: Runs \cup {NoRun}, stale: BOOLEAN])
                         /\ Len(queue[s]) <= QueueCapacity
  /\ known \in [Sessions -> SUBSET Runs]
  /\ \A s \in Sessions : turn[s].run \in Runs \cup {NoRun}
  /\ \A p \in Launchers : job[p].run \in Runs \cup {NoRun}
  /\ \A c \in Retriers : ask[c].run \in Runs \cup {NoRun}
  /\ owes \in [Launchers \cup Sessions -> Runs \cup {NoRun}]
  /\ host \in {"up", "down", "booted", "recovering"}
  /\ done \subseteq Runs

\* A Run owns exactly its own turn: it succeeds only if the provider completed
\* the turn that carries its id (send.rs, terminal.rs).
OwnTurnDecides == \A r \in Runs : run[r].status = "succeeded" => r \in done

\* However often a Run is delivered, its turn is started once.
TurnStartsOnce == \A r \in Runs : started[r] <= 1

Executing(s, r) == turn[s].run = r /\ turn[s].phase \in {"started", "executing"}

\* An agent works in a directory only while its Run is active and, until the
\* lock is overdue, holds the directory: no turn outlives its Run or its lock.
TurnRunsUnderItsLock ==
  \A s \in Sessions, r \in Runs :
    Executing(s, r) =>
      /\ run[r].status \in Store!Active
      /\ Workspace[r] # NoPath => owner[Workspace[r]] = r \/ r \in overdue

\* Somebody will still do something about Run r.
Attended(r) ==
  \/ host \in {"down", "booted"}
  \/ \E c \in todo : c.run = r
  \/ \E p \in Launchers : job[p].run = r
  \/ \E s \in Sessions :
       \/ Executing(s, r)
       \/ \E i \in DOMAIN queue[s] : queue[s][i] = Message(r)

\* No Session shows as running without a turn that will end it (ops.rs).
NoPhantomSession ==
  host \in {"recovering", "up"} =>
    \A s \in Sessions : session[s].status = "running" =>
      turn[s].phase \in {"executing", "ended"}

\* A client message id is remembered only while its message is queued or
\* executes, so no later message is mistaken for a duplicate of it.
NoLeakedMessageId ==
  \A s \in Sessions : \A r \in known[s] :
    turn[s].run = r \/ \E i \in DOMAIN queue[s] : queue[s][i].run = r

\* A Run that executes, and holds its directory, is never forgotten.
ActiveRunAttended ==
  \A r \in Runs : run[r].status \in {"running", "waiting"} => Attended(r)

\* Retry requests for one Run converge on the same open child.
OneOpenRetryChild ==
  \A b, c \in Runs :
    (/\ b # c
     /\ run[b].parent # NoRun
     /\ run[b].parent = run[c].parent
     /\ run[b].status \in Store!Open \cup {"running"})
    => run[c].status \notin Store!Open \cup {"running"}

\* Every Run that was accepted ends.
EveryRunEnds ==
  \A r \in Runs : run[r].status = "queued" ~> run[r].status \in Store!Terminal
=============================================================================
