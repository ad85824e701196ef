------------------------ MODULE WorkRunDispatchProofs ------------------------
(***************************************************************************)
(* Proofs about WorkRunDispatch: its processes do nothing to the tables    *)
(* but run the transactions of the store, so what WorkRunRefinement proves *)
(* of the store holds of the whole; and what its memory and its Sessions   *)
(* promise, for any number of Runs, Sessions, launchers and crashes: how   *)
(* often a turn starts, and that a Run succeeds by its own turn.           *)
(***************************************************************************)
EXTENDS WorkRunDispatch, TLAPS

\* The store with what is proved about it.
Proved == INSTANCE WorkRunRefinement

-----------------------------------------------------------------------------
(* The two instances of the store are the same. *)

LEMMA SameAssumptions == Proved!IdAssumption /\ Proved!RequestAssumption
BY StoreAssumption DEF Store!IdAssumption, Store!RequestAssumption, Proved!IdAssumption,
                       Proved!RequestAssumption

\* The same names stand for the same sets.
LEMMA SameSets ==
  /\ Proved!Open = Store!Open /\ Proved!Active = Store!Active
  /\ Proved!Terminal = Store!Terminal /\ Proved!RunStatus = Store!RunStatus
  /\ Proved!Undelivered = Store!Undelivered /\ Proved!OutboxStatus = Store!OutboxStatus
  /\ Proved!Retryable = Store!Retryable /\ Proved!Failures = Store!Failures
  /\ Proved!DispatchFailures = Store!DispatchFailures /\ Proved!Verdicts = Store!Verdicts
BY DEF Proved!Open, Store!Open, Proved!Active, Store!Active, Proved!Terminal,
       Store!Terminal, Proved!RunStatus, Store!RunStatus, Proved!Undelivered,
       Store!Undelivered, Proved!OutboxStatus, Store!OutboxStatus, Proved!Retryable,
       Store!Retryable, Proved!Failures, Store!Failures, Proved!DispatchFailures,
       Store!DispatchFailures, Proved!Verdicts, Store!Verdicts

LEMMA SameTypes == Proved!TypeOK <=> Store!TypeOK
BY SameSets DEF Proved!TypeOK, Store!TypeOK, Proved!RunRow, Store!RunRow, Proved!OutboxRow,
                Store!OutboxRow

LEMMA SameFreshRows ==
  Proved!NoRunRow = Store!NoRunRow /\ Proved!NoOutboxRow = Store!NoOutboxRow
BY DEF Proved!NoRunRow, Store!NoRunRow, Proved!NoOutboxRow, Store!NoOutboxRow

LEMMA SameInsert ==
  ASSUME NEW r, NEW k, NEW parent, NEW attempt, NEW resume, NEW delayed
  PROVE  Proved!Insert(r, k, parent, attempt, resume, delayed)
           <=> Store!Insert(r, k, parent, attempt, resume, delayed)
BY SameFreshRows DEF Proved!Insert, Store!Insert

LEMMA SameRetry ==
  ASSUME NEW r, NEW k, NEW p
  PROVE  Proved!Retry(r, k, p) <=> Store!Retry(r, k, p)
BY SameInsert, SameSets DEF Proved!Retry, Store!Retry, Proved!MayRetry, Store!MayRetry, Proved!SameRequest,
                  Store!SameRequest, Proved!RetryTarget, Store!RetryTarget

LEMMA SameClaims ==
  ASSUME NEW r
  PROVE  /\ Proved!ClaimNextDispatch(r) <=> Store!ClaimNextDispatch(r)
         /\ Proved!ClaimDispatchForRun(r) <=> Store!ClaimDispatchForRun(r)
BY SameSets DEF Proved!ClaimNextDispatch, Store!ClaimNextDispatch, Proved!ClaimDispatchForRun, Store!ClaimDispatchForRun, Proved!Lease, Store!Lease,
       Proved!Claimable, Store!Claimable, Proved!PathFree, Store!PathFree, Proved!AcquirePathLock, Store!AcquirePathLock

LEMMA SameAcknowledge ==
  ASSUME NEW r, NEW token, NEW s
  PROVE  Proved!AcknowledgeDispatchStarted(r, token, s) <=> Store!AcknowledgeDispatchStarted(r, token, s)
BY SameSets DEF Proved!AcknowledgeDispatchStarted, Store!AcknowledgeDispatchStarted, Proved!MayAcknowledge, Store!MayAcknowledge, Proved!Leased, Store!Leased

LEMMA SameNack ==
  ASSUME NEW r, NEW token, NEW f
  PROVE  Proved!RecordDispatchFailure(r, token, f) <=> Store!RecordDispatchFailure(r, token, f)
BY SameSets DEF Proved!RecordDispatchFailure, Store!RecordDispatchFailure, Proved!WillRetry, Store!WillRetry, Proved!Nack, Store!Nack, Proved!Leased, Store!Leased, Proved!ReleasePathLock, Store!ReleasePathLock

LEMMA SameEnds ==
  ASSUME NEW r, NEW s, NEW v
  PROVE  /\ Proved!RecordRunTerminal(r, s, v) <=> Store!RecordRunTerminal(r, s, v)
         /\ Proved!CancelAssigneeEscalations(r) <=> Store!CancelAssigneeEscalations(r)
         /\ Proved!CancelRoutineRun(r) <=> Store!CancelRoutineRun(r)
BY SameSets DEF Proved!RecordRunTerminal, Store!RecordRunTerminal, Proved!ReleasePathLock, Store!ReleasePathLock,
  Proved!CancelAssigneeEscalations, Store!CancelAssigneeEscalations, Proved!Matching, Store!Matching, Proved!CancelRoutineRun, Store!CancelRoutineRun

LEMMA SameClock ==
  ASSUME NEW r
  PROVE  /\ Proved!DeadlinePasses(r) <=> Store!DeadlinePasses(r)
         /\ Proved!PathLockLapses(r) <=> Store!PathLockLapses(r)
BY SameSets DEF Proved!DeadlinePasses, Store!DeadlinePasses, Proved!PathLockLapses, Store!PathLockLapses


\* So the two are one specification, with the same invariants.
LEMMA SameStore ==
  /\ Proved!Init <=> Store!Init
  /\ Proved!Next <=> Store!Next
  /\ Proved!vars = Store!vars
<1>1. Proved!Init <=> Store!Init
  BY SameFreshRows DEF Proved!Init, Store!Init
<1>2. Proved!Submission <=> Store!Submission
  BY SameInsert, SameRetry DEF Proved!Submission, Store!Submission, Proved!Enqueue, Store!Enqueue
<1>3. Proved!Delivery <=> Store!Delivery
  BY SameClaims, SameAcknowledge, SameNack, SameSets DEF Proved!Delivery, Store!Delivery
<1>4. Proved!Ending <=> Store!Ending
  <2>1. ASSUME NEW r PROVE Proved!MarkWaiting(r) <=> Store!MarkWaiting(r)
    BY DEF Proved!MarkWaiting, Store!MarkWaiting
  <2> QED BY <2>1, SameEnds, SameSets DEF Proved!Ending, Store!Ending
<1>5. Proved!Passing <=> Store!Passing
  <2>1. ASSUME NEW r PROVE Proved!ExtendWakeWindow(r) <=> Store!ExtendWakeWindow(r)
    BY DEF Proved!ExtendWakeWindow, Store!ExtendWakeWindow
  <2> QED BY <2>1, SameClock DEF Proved!Passing, Store!Passing
<1>6. Proved!vars = Store!vars
  BY DEF Proved!vars, Store!vars
<1> QED BY <1>1, <1>2, <1>3, <1>4, <1>5, <1>6 DEF Proved!Next, Store!Next

-----------------------------------------------------------------------------
(* Types. *)

JobPhases ==
  {"idle", "reserved", "claimed", "sending", "admitted", "accepted", "acknowledged", "failed"}

TurnPhases == {"idle", "started", "executing", "ended", "finalized", "notified"}

JobRow == [run: Runs \cup {NoRun}, phase: JobPhases, token: Nat,
           failure: {"none"} \cup Store!DispatchFailures]
TurnRow == [run: Runs \cup {NoRun}, phase: TurnPhases, outcome: Outcomes \cup {"none"}]
AskRow == [run: Runs \cup {NoRun}, phase: {"idle", "asked", "checked"}]
MessageRow == [run: Runs \cup {NoRun}, stale: BOOLEAN]

\* The memory of the process: who is busy is busy with a Run, a worker that is not
\* has no Run, and a turn that has ended has an outcome.
QueueTyped ==
  /\ queue \in [Sessions -> Seq(MessageRow)]
  /\ \A s \in Sessions : Len(queue[s]) <= QueueCapacity
  /\ known \in [Sessions -> SUBSET Runs]

TurnTyped ==
  /\ turn \in [Sessions -> TurnRow]
  /\ \A s \in Sessions :
       /\ turn[s].phase = "idle" => turn[s].run = NoRun
       /\ turn[s].phase \in {"ended", "finalized", "notified"} => turn[s].outcome \in Outcomes

JobTyped ==
  /\ job \in [Launchers -> JobRow]
  /\ \A p \in Launchers :
       /\ job[p].phase # "idle" => job[p].run \in Runs
       /\ job[p].phase = "failed" => job[p].failure \in Store!DispatchFailures

AskTyped ==
  /\ ask \in [Retriers -> AskRow]
  /\ \A c \in Retriers : ask[c].phase # "idle" => ask[c].run \in Runs

HostTyped ==
  /\ owes \in [Launchers \cup Sessions -> Runs \cup {NoRun}]
  /\ host \in {"up", "down", "booted", "recovering"}
  /\ todo \subseteq [run: Runs, status: SessionStatus]

MemoryTyped == QueueTyped /\ TurnTyped /\ JobTyped /\ AskTyped /\ HostTyped

DiskTyped ==
  /\ session \in [Sessions -> [status: SessionStatus, marker: Outcomes \cup {"none"}]]
  /\ intent \in [Runs -> IntentStatus]
  /\ started \in [Runs -> Nat]
  /\ done \subseteq Runs

\* The tables; a lease has a token that a claim gave it, and a Run that recovery has
\* to settle was bound to a Session.
TablesTyped ==
  /\ Store!TypeOK
  /\ Store!ResumableHasSession
  /\ \A r \in Runs : outbox[r].status = "leased" => outbox[r].token \in 1 .. MaxDeliveries
  /\ \A c \in todo : run[c.run].status # "absent" /\ run[c.run].session \in Sessions

Typed == TablesTyped /\ DiskTyped /\ MemoryTyped

-----------------------------------------------------------------------------
(* Every step runs a transaction of the store, or leaves the tables alone. *)

\* The Session of a delivery is a Session.
LEMMA TargetIsSession ==
  ASSUME Store!TypeOK, NEW r \in Runs
  PROVE  Target(r) \in Sessions
<1>1. run[r].resume \in Sessions \cup {NoSession}
  BY DEF Store!TypeOK, Store!RunRow
<1> QED BY <1>1, SessionAssumption DEF Target

\* An unused key is a key.
LEMMA FreshKeyIsKey == FreshKey \subseteq Keys
BY DEF FreshKey

\* What ends a Run is one transaction.
LEMMA EndRunIsStore ==
  ASSUME NEW x, NEW r \in Runs, NEW s \in Sessions, NEW v \in Store!Verdicts, EndRun(x, r, s, v)
  PROVE  Store!Next
BY DEF EndRun, Store!Next, Store!Ending

\* The verdicts of the dispatcher, of a turn, of a Session and of recovery are
\* verdicts of the store.
LEMMA VerdictsOfStore ==
  /\ \A i \in DOMAIN IntentVerdict : IntentVerdict[i] \in Store!Verdicts
  /\ \A o \in Outcomes : OutcomeVerdicts[o] \subseteq Store!Verdicts
  /\ \A o \in Outcomes : SessionVerdict[o] \in Store!Verdicts
  /\ \A t \in DOMAIN InterruptedVerdict : InterruptedVerdict[t] \in Store!Verdicts
BY DEF IntentVerdict, OutcomeVerdicts, SessionVerdict, InterruptedVerdict, Store!Verdicts,
       Outcomes

\* A launcher claims, acknowledges and gives back.
LEMMA LauncherIsStore ==
  ASSUME TablesTyped, MemoryTyped, NEW p \in Launchers, LauncherStep(p)
  PROVE  Store!Next \/ UNCHANGED store
<1>0. job[p].phase # "idle" => /\ job[p].run \in Runs
                              /\ Target(job[p].run) \in Sessions
  BY TargetIsSession DEF MemoryTyped, JobTyped, TablesTyped
<1>1. CASE TakeReserved(p)
  <2>1. job[p].run \in Runs
    BY <1>0, <1>1 DEF TakeReserved, At
  <2>2. Store!ClaimDispatchForRun(job[p].run) \/ UNCHANGED store
    BY <1>1 DEF TakeReserved
  <2> QED BY <2>1, <2>2 DEF Store!Next, Store!Delivery
<1>2. CASE Acknowledge(p)
  <2>1. job[p].run \in Runs /\ Target(job[p].run) \in Sessions
    BY <1>0, <1>2 DEF Acknowledge, At
  <2>2. CASE Store!AcknowledgeDispatchStarted(job[p].run, job[p].token, Target(job[p].run))
    <3>1. Store!Leased(job[p].run, job[p].token)
      BY <2>2 DEF Store!AcknowledgeDispatchStarted, Store!MayAcknowledge
    <3>2. job[p].token \in 1 .. MaxDeliveries
      BY <2>1, <3>1 DEF Store!Leased, TablesTyped
    <3> QED BY <2>1, <2>2, <3>2 DEF Store!Next, Store!Delivery
  <2> QED BY <1>2, <2>2 DEF Acknowledge
<1>3. CASE GiveBack(p)
  <2>1. job[p].run \in Runs /\ job[p].failure \in Store!DispatchFailures
    BY <1>0, <1>3 DEF GiveBack, At, MemoryTyped, JobTyped
  <2>2. CASE /\ Store!Leased(job[p].run, job[p].token)
             /\ Store!RecordDispatchFailure(job[p].run, job[p].token, job[p].failure)
    <3>1. job[p].token \in 1 .. MaxDeliveries
      BY <2>1, <2>2 DEF Store!Leased, TablesTyped
    <3> QED BY <2>1, <2>2, <3>1 DEF Store!Next, Store!Delivery
  <2> QED BY <1>3, <2>2 DEF GiveBack
<1>4. CASE \/ Prepare(p) \/ Admit(p) \/ EnqueueTurn(p) \/ QueueFull(p)
           \/ \E f \in Store!DispatchFailures : CannotLaunch(p, f)
  BY <1>4 DEF Prepare, Admit, EnqueueTurn, QueueFull, CannotLaunch
<1> QED BY <1>1, <1>2, <1>3, <1>4 DEF LauncherStep

\* A worker ends Runs.
LEMMA WorkerIsStore ==
  ASSUME TablesTyped, MemoryTyped, NEW s \in Sessions, WorkerStep(s)
  PROVE  Store!Next \/ UNCHANGED store
<1>1. CASE \E o \in Outcomes : EndTurn(s, o)
  <2>1. PICK o \in Outcomes : EndTurn(s, o)
    BY <1>1
  <2>2. CASE turn[s].run = NoRun
    BY <2>1, <2>2 DEF EndTurn
  <2>3. CASE turn[s].run # NoRun
    <3>1. turn[s].run \in Runs
      BY <2>3 DEF MemoryTyped, TurnTyped, TurnRow
    <3>2. PICK v \in OutcomeVerdicts[o] : EndRun(s, turn[s].run, s, v)
      BY <2>1, <2>3 DEF EndTurn
    <3> QED BY <2>1, <3>1, <3>2, EndRunIsStore, VerdictsOfStore
  <2> QED BY <2>2, <2>3
<1>2. CASE NotifySessionTerminal(s)
  <2>1. turn[s].outcome \in Outcomes
    BY <1>2 DEF NotifySessionTerminal, Working, MemoryTyped, TurnTyped
  <2>2. SUFFICES ASSUME ~ UNCHANGED store PROVE Store!Next
    OBVIOUS
  <2>3. PICK r \in Runs : EndRun(s, r, s, SessionVerdict[turn[s].outcome])
    BY <1>2, <2>2 DEF NotifySessionTerminal
  <2> QED BY <2>1, <2>3, EndRunIsStore, VerdictsOfStore
<1>3. CASE DropStale(s) \/ StartTurn(s) \/ PromoteTurnToRunning(s) \/ FinalizeSession(s)
           \/ CloseTurn(s)
  BY <1>3 DEF DropStale, StartTurn, PromoteTurnToRunning, FinalizeSession, CloseTurn
<1> QED BY <1>1, <1>2, <1>3 DEF WorkerStep

\* A retrier inserts, and recovery ends what was interrupted.
LEMMA RetrierIsStore ==
  ASSUME TablesTyped, MemoryTyped, NEW c \in Retriers, RetrierStep(c)
  PROVE  Store!Next \/ UNCHANGED store
<1>1. ASSUME NEW r \in Runs, InsertRetry(c, r) PROVE Store!Next
  <2>1. ask[c].run \in Runs
    BY <1>1 DEF InsertRetry, MemoryTyped, AskTyped
  <2>2. PICK k \in Keys : Store!Retry(r, k, ask[c].run)
    BY <1>1, FreshKeyIsKey DEF InsertRetry
  <2> QED BY <2>1, <2>2 DEF Store!Next, Store!Submission
<1> QED BY <1>1 DEF RetrierStep, CheckRetry, RetryRefused

LEMMA RecoveryIsStore ==
  ASSUME TablesTyped, MemoryTyped, RecoveryStep
  PROVE  Store!Next \/ UNCHANGED store
<1>1. ASSUME NEW c \in todo, SettleInterrupted(c) PROVE Store!Next \/ UNCHANGED store
  <2>1. c.run \in Runs /\ run[c.run].session \in Sessions
    BY <1>1 DEF TablesTyped, MemoryTyped, HostTyped
  <2>2. CASE c.status \in DOMAIN InterruptedVerdict
    <3>1. EndRun(Desktop, c.run, run[c.run].session, InterruptedVerdict[c.status])
      BY <1>1, <2>2 DEF SettleInterrupted
    <3> QED BY <2>1, <2>2, <3>1, EndRunIsStore, VerdictsOfStore
  <2> QED BY <1>1, <2>2 DEF SettleInterrupted
<1> QED BY <1>1 DEF RecoveryStep, RunPersistenceStartupRecovery, ListInterrupted, FinishRecovery

\* The user and the producers submit, or cancel a routine run.
LEMMA UserIsStore ==
  ASSUME UserStep
  PROVE  Store!Next \/ UNCHANGED store
<1>1. ASSUME NEW r \in Runs, NEW s \in Sessions \cup {NoSession}, Produce(r, s)
      PROVE  Store!Next
  <2>1. PICK k \in Keys : Store!Enqueue(r, k, s, FALSE)
    BY <1>1, FreshKeyIsKey DEF Produce
  <2> QED BY <2>1 DEF Store!Next, Store!Submission
<1>2. ASSUME NEW r \in Runs, NEW p \in Inline, Reserve(p, r) PROVE Store!Next
  <2>1. PICK k \in Keys : Store!Enqueue(r, k, NoSession, TRUE)
    BY <1>2, FreshKeyIsKey DEF Reserve
  <2> QED BY <2>1 DEF Store!Next, Store!Submission
<1>3. ASSUME NEW S \in SUBSET Runs, CancelRoutineRun(S) PROVE Store!Next
  BY <1>3 DEF CancelRoutineRun, Store!Next, Store!Ending
<1> QED BY <1>1, <1>2, <1>3 DEF UserStep, Say, Stop, Click

\* Whoever steps, the tables move by one transaction of the store or not at all.
LEMMA StepIsStore ==
  ASSUME TablesTyped, MemoryTyped, [Next]_vars
  PROVE  Store!Next \/ UNCHANGED store
<1>1. ASSUME NEW r \in Runs, Take(r) PROVE Store!Next
  BY <1>1 DEF Take, Store!Next, Store!Delivery
<1>2. CASE ReconcileTerminalIntent
  <2>1. job[Desktop].run \in Runs /\ Target(job[Desktop].run) \in Sessions
    BY <1>2, TargetIsSession DEF ReconcileTerminalIntent, At, MemoryTyped, JobTyped, HostTyped, TablesTyped, Launchers
  <2> QED BY <1>2, <2>1, EndRunIsStore, VerdictsOfStore DEF ReconcileTerminalIntent
<1>3. ASSUME NEW x \in Launchers \cup Sessions, Epilogue(x) PROVE Store!Next \/ UNCHANGED store
  <2>1. owes[x] \in Runs
    BY <1>3 DEF Epilogue, MemoryTyped, JobTyped, HostTyped
  <2> QED BY <1>3, <2>1 DEF Epilogue, Store!Next, Store!Ending
<1>4. CASE \/ Crash \/ UNCHANGED vars
  BY <1>4 DEF Crash, vars
<1>5. ASSUME NEW r \in Runs, DeadlinePasses(r) PROVE Store!Next
  BY <1>5 DEF DeadlinePasses, Store!Next, Store!Passing
<1>6. ASSUME NEW p \in Paths, PathLockLapses(p) PROVE Store!Next
  BY <1>6 DEF PathLockLapses, Store!Next, Store!Passing
<1> QED BY <1>1, <1>2, <1>3, <1>4, <1>5, <1>6, LauncherIsStore, WorkerIsStore, RetrierIsStore,
           RecoveryIsStore, UserIsStore DEF Next

-----------------------------------------------------------------------------
(* The types are kept. *)

\* Only recovery finds interrupted Runs.
LEMMA TodoShrinks ==
  ASSUME [Next]_vars
  PROVE  todo' \subseteq todo \/ ListInterrupted
<1>1. ASSUME NEW p \in Launchers, LauncherStep(p) PROVE todo' = todo
  BY <1>1 DEF LauncherStep, TakeReserved, Prepare, Admit, EnqueueTurn, QueueFull, Acknowledge,
              GiveBack, CannotLaunch
<1>2. ASSUME NEW s \in Sessions, WorkerStep(s) PROVE todo' = todo
  BY <1>2 DEF WorkerStep, DropStale, StartTurn, PromoteTurnToRunning, FinalizeSession,
              NotifySessionTerminal, CloseTurn, EndTurn
<1>3. ASSUME NEW c \in Retriers, RetrierStep(c) PROVE todo' = todo
  BY <1>3 DEF RetrierStep, CheckRetry, RetryRefused, InsertRetry
<1>4. CASE RecoveryStep
  BY <1>4 DEF RecoveryStep, RunPersistenceStartupRecovery, FinishRecovery, SettleInterrupted
<1>5. CASE UserStep
  BY <1>5 DEF UserStep, Say, Stop, Click, Produce, Reserve, CancelRoutineRun
<1>6. CASE \/ Crash \/ ReconcileTerminalIntent \/ UNCHANGED vars
           \/ \E r \in Runs : Take(r) \/ DeadlinePasses(r)
           \/ \E x \in Launchers \cup Sessions : Epilogue(x)
           \/ \E p \in Paths : PathLockLapses(p)
  BY <1>6 DEF Crash, ReconcileTerminalIntent, vars, Take, DeadlinePasses, Epilogue, PathLockLapses
<1> QED BY <1>1, <1>2, <1>3, <1>4, <1>5, <1>6 DEF Next

\* The tables stay typed, a claim gives a token, and a Run keeps its Session.
LEMMA TablesStep ==
  ASSUME Typed, [Next]_vars
  PROVE  TablesTyped'
<1>1. [Proved!Next]_(Proved!vars)
  <2>1. Proved!Next \/ UNCHANGED store
    BY StepIsStore, SameStore DEF Typed
  <2>2. CASE UNCHANGED store
    BY <2>2 DEF store, Proved!vars
  <2> QED BY <2>1, <2>2
<1>2. Proved!TypeOK /\ Proved!ResumableHasSession
  BY SameTypes DEF Typed, TablesTyped, Proved!ResumableHasSession, Store!ResumableHasSession
<1>3. Store!TypeOK'
  <2>1. Proved!TypeOK'
    BY <1>1, <1>2, SameAssumptions, Proved!TypeStep
  <2> QED BY <2>1, SameSets DEF Proved!TypeOK, Store!TypeOK, Proved!RunRow, Store!RunRow,
                                Proved!OutboxRow, Store!OutboxRow
<1>4. \A q \in Runs : Proved!Kept(q) /\ Proved!KeptResumable(q)
  BY <1>1, <1>2, SameAssumptions, Proved!StepKeeps
<1>5. Store!ResumableHasSession'
  BY <1>4 DEF Proved!KeptResumable, Store!ResumableHasSession
<1>6. \A r \in Runs : (outbox[r].status = "leased" => outbox[r].token \in 1 .. MaxDeliveries)'
  <2>1. \A r \in Runs : Proved!TokenGiven(r)
    BY DEF Typed, TablesTyped, Proved!TokenGiven
  <2>2. \A r \in Runs : Proved!TokenGiven(r)'
    BY <1>1, <1>2, <2>1, SameAssumptions, Proved!TokenStep
  <2> QED BY <2>2 DEF Proved!TokenGiven
<1>7. \A c \in todo' : run'[c.run].status # "absent" /\ run'[c.run].session \in Sessions
  <2>1. CASE todo' \subseteq todo
    <3> SUFFICES ASSUME NEW c \in todo'
                 PROVE  run'[c.run].status # "absent" /\ run'[c.run].session \in Sessions
      OBVIOUS
    <3>1. /\ c.run \in Runs /\ run[c.run].status # "absent" /\ run[c.run].session \in Sessions
      BY <2>1 DEF Typed, TablesTyped, MemoryTyped, HostTyped
    <3>2. run[c.run].session # NoSession
      BY <3>1, StoreAssumption DEF Store!IdAssumption
    <3> QED BY <1>4, <3>1, <3>2 DEF Proved!Kept
  <2>2. CASE ListInterrupted
    <3>1. run' = run
      BY <2>2 DEF ListInterrupted, store
    <3>2. \A r \in Runs : run[r].session \in Sessions \cup {NoSession}
      BY DEF Typed, TablesTyped, Store!TypeOK, Store!RunRow
    <3>3. \A c \in todo' : /\ c.run \in Runs /\ run[c.run].status \in Store!Active
                           /\ run[c.run].session # NoSession
      BY <2>2 DEF ListInterrupted
    <3> QED BY <3>1, <3>2, <3>3 DEF Store!Active
  <2> QED BY <2>1, <2>2, TodoShrinks
<1> QED BY <1>3, <1>5, <1>6, <1>7 DEF TablesTyped

\* A launcher that moves, gives up or rests keeps its row.
LEMMA JobMoves ==
  ASSUME JobTyped, Store!TypeOK, NEW p \in Launchers
  PROVE  /\ \A phase \in JobPhases \ {"idle", "failed"} :
              job[p].phase # "idle" /\ Move(p, phase) => JobTyped'
         /\ \A failure \in Store!DispatchFailures :
              job[p].phase # "idle" /\ Abort(p, failure) => JobTyped'
         /\ Rest(p) => JobTyped'
         /\ \A r \in Runs : Claimed(p, r) => JobTyped'
<1>0. NoJob \in JobRow
  BY DEF NoJob, JobRow, JobPhases
<1>1. ASSUME NEW phase \in JobPhases \ {"idle", "failed"}, job[p].phase # "idle", Move(p, phase)
      PROVE  JobTyped'
  BY <1>1 DEF Move, JobTyped, JobRow
<1>2. ASSUME NEW failure \in Store!DispatchFailures, job[p].phase # "idle", Abort(p, failure)
      PROVE  JobTyped'
  BY <1>2 DEF Abort, JobTyped, JobRow, JobPhases
<1>3. ASSUME Rest(p) PROVE JobTyped'
  BY <1>0, <1>3 DEF Rest, JobTyped, NoJob
<1>4. ASSUME NEW r \in Runs, Claimed(p, r) PROVE JobTyped'
  <2>1. outbox[r].tries + 1 \in Nat
    BY DEF Store!TypeOK, Store!OutboxRow
  <2>2. job'[p] \in JobRow /\ job'[p].run = r /\ job'[p].phase = "claimed"
    BY <1>0, <1>4, <2>1 DEF Claimed, JobTyped, JobRow, JobPhases
  <2> QED BY <1>4, <2>2 DEF Claimed, JobTyped
<1> QED BY <1>1, <1>2, <1>3, <1>4

\* What an operation owes is a Run.
LEMMA OweTyped ==
  ASSUME HostTyped, NEW x \in Launchers \cup Sessions, NEW r \in Runs, Owe(x, r),
         UNCHANGED <<host, todo>>
  PROVE  HostTyped'
BY DEF Owe, HostTyped

\* Sending a message, taking one and forgetting one keep the queues.
LEMMA QueueMoves ==
  ASSUME QueueTyped, NEW s \in Sessions
  PROVE  /\ \A m \in MessageRow :
              (/\ Len(queue[s]) < QueueCapacity
               /\ queue' = [queue EXCEPT ![s] = Append(@, m)]
               /\ known' \in [Sessions -> SUBSET Runs]) => QueueTyped'
         /\ (/\ queue[s] # <<>>
             /\ queue' = [queue EXCEPT ![s] = Tail(@)]
             /\ known' \in [Sessions -> SUBSET Runs]) => QueueTyped'
         /\ queue[s] # <<>> => Head(queue[s]) \in MessageRow
<1>1. /\ queue[s] \in Seq(MessageRow) /\ Len(queue[s]) <= QueueCapacity
      /\ QueueCapacity \in Nat /\ Len(queue[s]) \in Nat
  BY ProcessAssumption DEF QueueTyped
<1>2. ASSUME NEW m \in MessageRow, Len(queue[s]) < QueueCapacity,
             queue' = [queue EXCEPT ![s] = Append(@, m)],
             known' \in [Sessions -> SUBSET Runs]
      PROVE  QueueTyped'
  <2>1. Append(queue[s], m) \in Seq(MessageRow) /\ Len(Append(queue[s], m)) <= QueueCapacity
    BY <1>1, <1>2
  <2> QED BY <1>2, <2>1 DEF QueueTyped
<1>3. ASSUME queue[s] # <<>>, queue' = [queue EXCEPT ![s] = Tail(@)],
             known' \in [Sessions -> SUBSET Runs]
      PROVE  QueueTyped'
  <2>1. Tail(queue[s]) \in Seq(MessageRow) /\ Len(Tail(queue[s])) <= QueueCapacity
    BY <1>1, <1>3
  <2> QED BY <1>3, <2>1 DEF QueueTyped
<1>4. queue[s] # <<>> => Head(queue[s]) \in MessageRow
  BY <1>1
<1> QED BY <1>2, <1>3, <1>4

\* The steps of a launcher keep the memory.
LEMMA LauncherMemory ==
  ASSUME Typed, NEW p \in Launchers, LauncherStep(p)
  PROVE  MemoryTyped'
<1> USE DEF At, workers, callers
<1>0. /\ QueueTyped /\ TurnTyped /\ JobTyped /\ AskTyped /\ HostTyped /\ Store!TypeOK
      /\ (job[p].phase # "idle" => job[p].run \in Runs /\ Target(job[p].run) \in Sessions)
  BY TargetIsSession DEF Typed, MemoryTyped, TablesTyped, JobTyped
<1>1. TurnTyped' /\ AskTyped'
  <2>1. UNCHANGED <<turn, ask>>
    BY DEF LauncherStep, TakeReserved, Prepare, Admit, EnqueueTurn, QueueFull, Acknowledge,
           GiveBack, CannotLaunch
  <2> QED BY <1>0, <2>1 DEF TurnTyped, AskTyped
<1>2. JobTyped'
  <2>1. CASE TakeReserved(p)
    BY <1>0, <2>1, JobMoves DEF TakeReserved
  <2>2. CASE Prepare(p)
    BY <1>0, <2>2, JobMoves DEF Prepare, JobPhases
  <2>3. CASE Admit(p) \/ EnqueueTurn(p)
    BY <1>0, <2>3, JobMoves DEF Admit, EnqueueTurn, JobPhases
  <2>4. CASE QueueFull(p) \/ GiveBack(p)
    BY <1>0, <2>4, JobMoves DEF QueueFull, GiveBack, Store!DispatchFailures
  <2>5. CASE Acknowledge(p)
    BY <1>0, <2>5, JobMoves DEF Acknowledge, JobPhases, Store!DispatchFailures
  <2>6. CASE \E f \in Store!DispatchFailures : CannotLaunch(p, f)
    BY <1>0, <2>6, JobMoves DEF CannotLaunch
  <2> QED BY <2>1, <2>2, <2>3, <2>4, <2>5, <2>6 DEF LauncherStep
<1>3. HostTyped'
  <2>1. CASE GiveBack(p)
    BY <1>0, <2>1, OweTyped DEF GiveBack, HostTyped
  <2>2. CASE ~GiveBack(p)
    BY <1>0, <2>2 DEF LauncherStep, TakeReserved, Prepare, Admit, EnqueueTurn, QueueFull,
                      Acknowledge, CannotLaunch, HostTyped
  <2> QED BY <2>1, <2>2
<1>4. QueueTyped'
  <2>1. CASE EnqueueTurn(p)
    <3> DEFINE r == job[p].run
               s == Target(r)
    <3>1. r \in Runs /\ s \in Sessions /\ Message(r) \in MessageRow
      BY <1>0, <2>1 DEF EnqueueTurn, Message, MessageRow
    <3>2. known' \in [Sessions -> SUBSET Runs]
      BY <1>0, <2>1, <3>1 DEF EnqueueTurn, QueueTyped
    <3>3. CASE r \in known[s]
      <4>1. queue' = queue
        BY <1>0, <2>1, <3>3 DEF EnqueueTurn, QueueTyped
      <4> QED BY <1>0, <3>2, <4>1 DEF QueueTyped
    <3>4. CASE r \notin known[s]
      <4>1. Len(queue[s]) < QueueCapacity /\ queue' = [queue EXCEPT ![s] = Append(@, Message(r))]
        BY <2>1, <3>4 DEF EnqueueTurn
      <4> QED BY <1>0, <3>1, <3>2, <4>1, QueueMoves
    <3> QED BY <3>3, <3>4
  <2>2. CASE ~EnqueueTurn(p)
    BY <1>0, <2>2 DEF LauncherStep, TakeReserved, Prepare, Admit, QueueFull, Acknowledge,
                      GiveBack, CannotLaunch, QueueTyped
  <2> QED BY <2>1, <2>2
<1> QED BY <1>1, <1>2, <1>3, <1>4 DEF MemoryTyped

\* A worker that proceeds keeps its turn; idle, it has none.
LEMMA TurnMoves ==
  ASSUME TurnTyped, NEW s \in Sessions
  PROVE  /\ \A phase \in TurnPhases \ {"idle", "ended"} :
              (turn[s].phase \in {"ended", "finalized", "notified"}
                 \/ phase \notin {"finalized", "notified"})
              /\ Proceed(s, phase) => TurnTyped'
         /\ \A o \in Outcomes :
              turn' = [turn EXCEPT ![s].phase = "ended", ![s].outcome = o] => TurnTyped'
         /\ \A r \in Runs \cup {NoRun} :
              turn' = [turn EXCEPT ![s] = [NoTurn EXCEPT !.run = r, !.phase = "started"]]
                => TurnTyped'
         /\ turn' = [turn EXCEPT ![s] = NoTurn] => TurnTyped'
<1>0. NoTurn \in TurnRow /\ NoTurn.run = NoRun /\ NoTurn.phase = "idle"
  BY DEF NoTurn, TurnRow, TurnPhases
<1>1. ASSUME NEW phase \in TurnPhases \ {"idle", "ended"},
             turn[s].phase \in {"ended", "finalized", "notified"}
               \/ phase \notin {"finalized", "notified"},
             Proceed(s, phase)
      PROVE  TurnTyped'
  BY <1>1 DEF Proceed, TurnTyped, TurnRow
<1>2. ASSUME NEW o \in Outcomes, turn' = [turn EXCEPT ![s].phase = "ended", ![s].outcome = o]
      PROVE  TurnTyped'
  BY <1>2 DEF TurnTyped, TurnRow, TurnPhases
<1>3. ASSUME NEW r \in Runs \cup {NoRun},
             turn' = [turn EXCEPT ![s] = [NoTurn EXCEPT !.run = r, !.phase = "started"]]
      PROVE  TurnTyped'
  <2>1. turn'[s] \in TurnRow /\ turn'[s].phase = "started"
    BY <1>0, <1>3 DEF TurnTyped, TurnRow, TurnPhases
  <2> QED BY <1>3, <2>1 DEF TurnTyped
<1>4. ASSUME turn' = [turn EXCEPT ![s] = NoTurn] PROVE TurnTyped'
  BY <1>0, <1>4 DEF TurnTyped
<1> QED BY <1>1, <1>2, <1>3, <1>4

\* The steps of a worker keep the memory.
LEMMA WorkerMemory ==
  ASSUME Typed, NEW s \in Sessions, WorkerStep(s)
  PROVE  MemoryTyped'
<1> USE DEF Working, callers
<1>0. /\ QueueTyped /\ TurnTyped /\ JobTyped /\ AskTyped /\ HostTyped /\ Store!TypeOK
  BY DEF Typed, MemoryTyped, TablesTyped
<1>1. JobTyped' /\ AskTyped'
  <2>1. UNCHANGED <<job, ask>>
    BY DEF WorkerStep, DropStale, StartTurn, PromoteTurnToRunning, FinalizeSession,
           NotifySessionTerminal, CloseTurn, EndTurn
  <2> QED BY <1>0, <2>1 DEF JobTyped, AskTyped
<1>2. TurnTyped'
  <2>1. CASE DropStale(s)
    BY <1>0, <2>1 DEF DropStale, TurnTyped
  <2>2. CASE StartTurn(s)
    <3>1. Head(queue[s]).run \in Runs \cup {NoRun}
      BY <1>0, <2>2, QueueMoves DEF StartTurn, MessageRow
    <3> QED BY <1>0, <2>2, <3>1, TurnMoves DEF StartTurn
  <2>3. CASE PromoteTurnToRunning(s)
    BY <1>0, <2>3, TurnMoves DEF PromoteTurnToRunning, TurnPhases
  <2>4. CASE FinalizeSession(s) \/ NotifySessionTerminal(s)
    BY <1>0, <2>4, TurnMoves DEF FinalizeSession, NotifySessionTerminal, TurnPhases
  <2>5. CASE CloseTurn(s)
    BY <1>0, <2>5, TurnMoves DEF CloseTurn
  <2>6. CASE \E o \in Outcomes : EndTurn(s, o)
    BY <1>0, <2>6, TurnMoves DEF EndTurn
  <2> QED BY <2>1, <2>2, <2>3, <2>4, <2>5, <2>6 DEF WorkerStep
<1>3. QueueTyped'
  <2>1. CASE DropStale(s)
    <3>1. known' \in [Sessions -> SUBSET Runs]
      BY <1>0, <2>1 DEF DropStale, QueueTyped
    <3> QED BY <1>0, <2>1, <3>1, QueueMoves DEF DropStale
  <2>2. CASE StartTurn(s)
    <3>1. known' \in [Sessions -> SUBSET Runs]
      BY <1>0, <2>2 DEF StartTurn, QueueTyped
    <3> QED BY <1>0, <2>2, <3>1, QueueMoves DEF StartTurn
  <2>3. CASE CloseTurn(s)
    BY <1>0, <2>3 DEF CloseTurn, QueueTyped
  <2>4. CASE PromoteTurnToRunning(s) \/ FinalizeSession(s) \/ NotifySessionTerminal(s)
             \/ \E o \in Outcomes : EndTurn(s, o)
    BY <1>0, <2>4 DEF PromoteTurnToRunning, FinalizeSession, NotifySessionTerminal, EndTurn,
                      QueueTyped
  <2> QED BY <2>1, <2>2, <2>3, <2>4 DEF WorkerStep
<1>4. HostTyped'
  <2>0. s \in Launchers \cup Sessions
    OBVIOUS
  <2>1. CASE NotifySessionTerminal(s)
    <3>1. UNCHANGED <<host, todo>>
      BY <2>1 DEF NotifySessionTerminal
    <3>2. owes' = owes \/ \E r \in Runs : Owe(s, r)
      BY <2>1 DEF NotifySessionTerminal, EndRun
    <3> QED BY <1>0, <2>0, <3>1, <3>2, OweTyped DEF HostTyped
  <2>2. CASE \E o \in Outcomes : EndTurn(s, o)
    <3>1. UNCHANGED <<host, todo>>
      BY <2>2 DEF EndTurn
    <3>2. turn[s].run \in Runs \cup {NoRun}
      BY <1>0 DEF TurnTyped, TurnRow
    <3>3. owes' = owes \/ \E r \in Runs : Owe(s, r)
      BY <2>2, <3>2 DEF EndTurn, EndRun
    <3> QED BY <1>0, <2>0, <3>1, <3>3, OweTyped DEF HostTyped
  <2>3. CASE DropStale(s) \/ StartTurn(s) \/ PromoteTurnToRunning(s) \/ FinalizeSession(s)
             \/ CloseTurn(s)
    BY <1>0, <2>3 DEF DropStale, StartTurn, PromoteTurnToRunning, FinalizeSession, CloseTurn,
                      HostTyped
  <2> QED BY <2>1, <2>2, <2>3 DEF WorkerStep
<1> QED BY <1>1, <1>2, <1>3, <1>4 DEF MemoryTyped

\* The steps of a retrier keep the memory.
LEMMA RetrierMemory ==
  ASSUME Typed, NEW c \in Retriers, RetrierStep(c)
  PROVE  MemoryTyped'
<1>0. /\ QueueTyped /\ TurnTyped /\ JobTyped /\ AskTyped /\ HostTyped
  BY DEF Typed, MemoryTyped
<1>1. /\ UNCHANGED <<queue, known, turn, job, owes, host, todo>>
      /\ \/ ask' = [ask EXCEPT ![c] = NoAsk]
         \/ ask[c].phase = "asked" /\ ask' = [ask EXCEPT ![c].phase = "checked"]
  BY DEF RetrierStep, CheckRetry, RetryRefused, InsertRetry, workers
<1>2. AskTyped'
  BY <1>0, <1>1 DEF AskTyped, AskRow, NoAsk
<1> QED BY <1>0, <1>1, <1>2 DEF MemoryTyped, QueueTyped, TurnTyped, JobTyped, HostTyped

\* Recovery starts with an empty memory and asks for what it retries.
LEMMA RecoveryMemory ==
  ASSUME Typed, RecoveryStep
  PROVE  MemoryTyped'
<1>0. /\ QueueTyped /\ TurnTyped /\ JobTyped /\ AskTyped /\ HostTyped
  BY DEF Typed, MemoryTyped
<1>1. UNCHANGED workers /\ UNCHANGED job
  BY DEF RecoveryStep, RunPersistenceStartupRecovery, ListInterrupted, FinishRecovery,
         SettleInterrupted, callers
<1>2. QueueTyped' /\ TurnTyped' /\ JobTyped'
  BY <1>0, <1>1 DEF workers, QueueTyped, TurnTyped, JobTyped
<1>3. AskTyped' /\ HostTyped'
  <2>1. CASE ListInterrupted
    <3>1. \A r \in Runs : run[r].session # NoSession => run[r].session \in Sessions
      BY DEF Typed, TablesTyped, Store!TypeOK, Store!RunRow
    <3>2. todo' \subseteq [run: Runs, status: SessionStatus]
      BY <2>1, <3>1 DEF ListInterrupted, Typed, DiskTyped
    <3> QED BY <1>0, <2>1, <3>2 DEF ListInterrupted, callers, AskTyped, HostTyped
  <2>2. ASSUME NEW c \in todo, SettleInterrupted(c) PROVE AskTyped' /\ HostTyped'
    <3>1. c.run \in Runs /\ Desktop \in Retriers /\ Desktop \in Launchers
      BY <1>0 DEF HostTyped, Retriers, Launchers
    <3>2. AskTyped'
      BY <1>0, <2>2, <3>1 DEF SettleInterrupted, AskTyped, AskRow
    <3>3. /\ owes' = owes \/ Owe(Desktop, c.run)
          /\ host' = host /\ todo' \subseteq todo
      BY <2>2 DEF SettleInterrupted, EndRun
    <3>4. owes' \in [Launchers \cup Sessions -> Runs \cup {NoRun}]
      BY <1>0, <3>1, <3>3 DEF Owe, HostTyped
    <3> QED BY <1>0, <3>2, <3>3, <3>4 DEF HostTyped
  <2>3. CASE RunPersistenceStartupRecovery \/ FinishRecovery
    BY <1>0, <2>3 DEF RunPersistenceStartupRecovery, FinishRecovery, callers, AskTyped, HostTyped
  <2> QED BY <2>1, <2>2, <2>3 DEF RecoveryStep
<1> QED BY <1>2, <1>3 DEF MemoryTyped

\* Messages that are made stale are messages.
LEMMA MadeStale ==
  ASSUME NEW old \in Seq(MessageRow)
  PROVE  /\ [i \in DOMAIN old |-> [old[i] EXCEPT !.stale = TRUE]] \in Seq(MessageRow)
         /\ Len([i \in DOMAIN old |-> [old[i] EXCEPT !.stale = TRUE]]) = Len(old)
<1> DEFINE new == [i \in DOMAIN old |-> [old[i] EXCEPT !.stale = TRUE]]
<1>1. DOMAIN old = 1 .. Len(old) /\ Len(old) \in Nat
  OBVIOUS
<1>2. ASSUME NEW m \in MessageRow PROVE [m EXCEPT !.stale = TRUE] \in MessageRow
  BY DEF MessageRow
<1>3. ASSUME NEW i \in 1 .. Len(old) PROVE [old[i] EXCEPT !.stale = TRUE] \in MessageRow
  <2>1. old[i] \in MessageRow
    OBVIOUS
  <2> QED BY <1>2, <2>1
<1>4. new \in [1 .. Len(old) -> MessageRow]
  BY <1>1, <1>3
<1> QED BY <1>1, <1>4

\* So do the user and the producers.
LEMMA UserMemory ==
  ASSUME Typed, UserStep
  PROVE  MemoryTyped'
<1>0. /\ QueueTyped /\ TurnTyped /\ JobTyped /\ AskTyped /\ HostTyped /\ Store!TypeOK
  BY DEF Typed, MemoryTyped, TablesTyped
<1>1. TurnTyped' /\ HostTyped'
  BY <1>0 DEF UserStep, Say, Stop, Click, Produce, Reserve, CancelRoutineRun, workers, TurnTyped,
              HostTyped
<1>2. QueueTyped'
  <2>1. ASSUME NEW s \in Sessions, Say(s) PROVE QueueTyped'
    <3>1. Message(NoRun) \in MessageRow /\ known' \in [Sessions -> SUBSET Runs]
      BY <1>0, <2>1 DEF Say, Message, MessageRow, QueueTyped
    <3> QED BY <1>0, <2>1, <3>1, QueueMoves DEF Say
  <2>2. ASSUME NEW s \in Sessions, Stop(s) PROVE QueueTyped'
    <3> DEFINE old == queue[s]
               new == [i \in DOMAIN old |-> [old[i] EXCEPT !.stale = TRUE]]
    <3>1. old \in Seq(MessageRow) /\ Len(old) <= QueueCapacity
      BY <1>0 DEF QueueTyped
    <3>2. new \in Seq(MessageRow) /\ Len(new) = Len(old)
      BY <3>1, MadeStale
    <3>3. queue' = [queue EXCEPT ![s] = new] /\ known' \in [Sessions -> SUBSET Runs]
      BY <1>0, <2>2 DEF Stop, QueueTyped
    <3> HIDE DEF old, new
    <3> QED BY <1>0, <3>1, <3>2, <3>3 DEF QueueTyped
  <2>3. CASE UNCHANGED workers
    BY <1>0, <2>3 DEF workers, QueueTyped
  <2> QED BY <2>1, <2>2, <2>3 DEF UserStep, Click, Produce, Reserve, CancelRoutineRun
<1>3. AskTyped' /\ JobTyped'
  <2>1. ASSUME NEW c \in Clicks, NEW p \in Runs, Click(c, p) PROVE AskTyped' /\ JobTyped'
    BY <1>0, <2>1 DEF Click, AskTyped, AskRow, JobTyped, Retriers
  <2>2. ASSUME NEW r \in Runs, NEW p \in Inline, Reserve(p, r) PROVE AskTyped' /\ JobTyped'
    <3>1. NoJob \in JobRow /\ p \in Launchers
      BY DEF NoJob, JobRow, JobPhases, Launchers
    <3>2. job' = [job EXCEPT ![p] = [NoJob EXCEPT !.run = r, !.phase = "reserved"]]
      BY <2>2 DEF Reserve
    <3>3. [NoJob EXCEPT !.run = r, !.phase = "reserved"] \in JobRow
      BY <3>1 DEF JobRow, JobPhases
    <3>4. job'[p].run = r /\ job'[p].phase = "reserved" /\ job'[p] \in JobRow
      BY <1>0, <3>1, <3>2, <3>3 DEF JobTyped, JobRow
    <3> QED BY <1>0, <2>2, <3>2, <3>4 DEF Reserve, JobTyped, AskTyped
  <2>3. CASE UNCHANGED callers
    BY <1>0, <2>3 DEF callers, JobTyped, AskTyped
  <2> QED BY <2>1, <2>2, <2>3 DEF UserStep, Say, Stop, Produce, CancelRoutineRun
<1> QED BY <1>1, <1>2, <1>3 DEF MemoryTyped

\* And so does everything else.
LEMMA MemoryStep ==
  ASSUME Typed, [Next]_vars
  PROVE  MemoryTyped'
<1>0. /\ QueueTyped /\ TurnTyped /\ JobTyped /\ AskTyped /\ HostTyped /\ Store!TypeOK
      /\ Desktop \in Launchers
  BY DEF Typed, MemoryTyped, TablesTyped, Launchers
<1>1. ASSUME NEW r \in Runs, Take(r) PROVE MemoryTyped'
  <2>1. JobTyped'
    BY <1>0, <1>1, JobMoves DEF Take
  <2> QED BY <1>0, <1>1, <2>1 DEF Take, workers, MemoryTyped, QueueTyped, TurnTyped, AskTyped,
                                  HostTyped
<1>2. CASE ReconcileTerminalIntent
  <2>1. JobTyped'
    BY <1>0, <1>2, JobMoves DEF ReconcileTerminalIntent
  <2>2. job[Desktop].run \in Runs
    BY <1>0, <1>2 DEF ReconcileTerminalIntent, At, JobTyped
  <2>3. HostTyped'
    BY <1>0, <1>2, <2>2, OweTyped DEF ReconcileTerminalIntent, EndRun, HostTyped
  <2> QED BY <1>0, <1>2, <2>1, <2>3 DEF ReconcileTerminalIntent, workers, MemoryTyped,
                                        QueueTyped, TurnTyped, AskTyped
<1>3. ASSUME NEW x \in Launchers \cup Sessions, Epilogue(x) PROVE MemoryTyped'
  BY <1>0, <1>3 DEF Epilogue, workers, callers, MemoryTyped, QueueTyped, TurnTyped, JobTyped,
                    AskTyped, HostTyped
<1>4. CASE Crash
  <2>1. NoJob \in JobRow /\ NoTurn \in TurnRow /\ NoAsk \in AskRow
    BY DEF NoJob, JobRow, JobPhases, NoTurn, TurnRow, TurnPhases, NoAsk, AskRow
  <2>2. QueueTyped'
    BY <1>4, ProcessAssumption DEF Crash, QueueTyped
  <2>3. TurnTyped' /\ JobTyped' /\ AskTyped'
    BY <1>4, <2>1 DEF Crash, TurnTyped, JobTyped, AskTyped, NoJob, NoTurn, NoAsk
  <2>4. HostTyped'
    BY <1>4 DEF Crash, HostTyped
  <2> QED BY <2>2, <2>3, <2>4 DEF MemoryTyped
<1>5. CASE \/ UNCHANGED vars
           \/ \E r \in Runs : DeadlinePasses(r)
           \/ \E p \in Paths : PathLockLapses(p)
  BY <1>0, <1>5 DEF vars, DeadlinePasses, PathLockLapses, workers, callers, MemoryTyped,
                    QueueTyped, TurnTyped, JobTyped, AskTyped, HostTyped
<1> QED BY <1>1, <1>2, <1>3, <1>4, <1>5, LauncherMemory, WorkerMemory, RetrierMemory,
           RecoveryMemory, UserMemory DEF Next

\* An intent that is updated takes a status of the state machine or keeps its own.
LEMMA IntentMoves ==
  ASSUME DiskTyped, NEW r, NEW to \in IntentStatus, UpdateIntent(r, to)
  PROVE  intent' \in [Runs -> IntentStatus]
BY DEF UpdateIntent, DiskTyped

\* A Session that is created, marked failed, promoted or finalized keeps its row.
LEMMA SessionMoves ==
  ASSUME DiskTyped, NEW s
  PROVE  /\ CreateSession(s)
              => session' \in [Sessions -> [status: SessionStatus,
                                            marker: Outcomes \cup {"none"}]]
         /\ \A status \in SessionStatus :
              session' = [session EXCEPT ![s].status = status]
              => session' \in [Sessions -> [status: SessionStatus,
                                            marker: Outcomes \cup {"none"}]]
         /\ \A o \in Outcomes :
              session' = [session EXCEPT ![s] = [status |-> o, marker |-> o]]
              => session' \in [Sessions -> [status: SessionStatus,
                                            marker: Outcomes \cup {"none"}]]
BY DEF DiskTyped, CreateSession, SessionStatus

\* A step keeps the types of what is on the disk.
LEMMA DiskStep ==
  ASSUME Typed, [Next]_vars
  PROVE  DiskTyped'
<1> USE DEF disk, history
<1>0. DiskTyped /\ QueueTyped /\ TurnTyped /\ JobTyped
  BY DEF Typed, MemoryTyped
<1>1. ASSUME NEW p \in Launchers, LauncherStep(p) PROVE DiskTyped'
  <2>1. CASE Prepare(p)
    BY <1>0, <2>1, SessionMoves DEF Prepare, DiskTyped
  <2>2. CASE Admit(p)
    BY <1>0, <2>2 DEF Admit, DiskTyped, IntentStatus
  <2>3. ASSUME NEW r, MarkSessionFailed(r)
        PROVE  session' \in [Sessions -> [status: SessionStatus, marker: Outcomes \cup {"none"}]]
    BY <1>0, <2>3 DEF MarkSessionFailed, DiskTyped, SessionStatus, Outcomes
  <2>4. CASE QueueFull(p)
    BY <1>0, <2>3, <2>4, IntentMoves DEF QueueFull, DiskTyped, IntentStatus
  <2>5. CASE \E f \in Store!DispatchFailures : CannotLaunch(p, f)
    BY <1>0, <2>3, <2>5 DEF CannotLaunch, DiskTyped
  <2>6. CASE TakeReserved(p) \/ EnqueueTurn(p) \/ Acknowledge(p) \/ GiveBack(p)
    BY <1>0, <2>6 DEF TakeReserved, EnqueueTurn, Acknowledge, GiveBack, DiskTyped
  <2> QED BY <1>1, <2>1, <2>2, <2>4, <2>5, <2>6 DEF LauncherStep
<1>2. ASSUME NEW s \in Sessions, WorkerStep(s) PROVE DiskTyped'
  <2>1. CASE DropStale(s)
    BY <1>0, <2>1, IntentMoves DEF DropStale, DiskTyped, IntentStatus
  <2>2. CASE StartTurn(s)
    <3>1. intent' \in [Runs -> IntentStatus]
      BY <1>0, <2>2, IntentMoves DEF StartTurn, DiskTyped, IntentStatus
    <3>2. started' \in [Runs -> Nat]
      BY <1>0, <2>2 DEF StartTurn, DiskTyped
    <3> QED BY <1>0, <2>2, <3>1, <3>2 DEF StartTurn, DiskTyped
  <2>3. CASE PromoteTurnToRunning(s)
    BY <1>0, <2>3, SessionMoves DEF PromoteTurnToRunning, DiskTyped, SessionStatus
  <2>4. CASE FinalizeSession(s)
    <3>1. turn[s].outcome \in Outcomes
      BY <1>0, <2>4 DEF FinalizeSession, Working, TurnTyped
    <3> QED BY <1>0, <2>4, <3>1, SessionMoves DEF FinalizeSession, DiskTyped
  <2>5. CASE CloseTurn(s)
    <3>1. turn[s].outcome \in IntentStatus
      BY <1>0, <2>5 DEF CloseTurn, Working, TurnTyped, IntentStatus
    <3> QED BY <1>0, <2>5, <3>1, IntentMoves DEF CloseTurn, DiskTyped
  <2>6. CASE NotifySessionTerminal(s)
    BY <1>0, <2>6 DEF NotifySessionTerminal, DiskTyped
  <2>7. CASE \E o \in Outcomes : EndTurn(s, o)
    <3>1. turn[s].run = NoRun \/ turn[s].run \in Runs
      BY <1>0 DEF TurnTyped, TurnRow
    <3> QED BY <1>0, <2>7, <3>1 DEF EndTurn, DiskTyped
  <2> QED BY <1>2, <2>1, <2>2, <2>3, <2>4, <2>5, <2>6, <2>7 DEF WorkerStep
<1>3. ASSUME NEW c \in Retriers, RetrierStep(c) PROVE DiskTyped'
  BY <1>0, <1>3 DEF RetrierStep, CheckRetry, RetryRefused, InsertRetry, DiskTyped
<1>4. CASE RecoveryStep
  <2>1. CASE RunPersistenceStartupRecovery
    <3>1. intent' \in [Runs -> IntentStatus]
      BY <1>0, <2>1 DEF RunPersistenceStartupRecovery, DiskTyped, IntentStatus, Outcomes
    <3>2. session' \in [Sessions -> [status: SessionStatus, marker: Outcomes \cup {"none"}]]
      BY <1>0, <2>1 DEF RunPersistenceStartupRecovery, DiskTyped, SessionStatus
    <3> QED BY <1>0, <2>1, <3>1, <3>2 DEF RunPersistenceStartupRecovery, DiskTyped
  <2>2. CASE ~RunPersistenceStartupRecovery
    BY <1>0, <1>4, <2>2 DEF RecoveryStep, ListInterrupted, FinishRecovery, SettleInterrupted,
                            DiskTyped
  <2> QED BY <2>1, <2>2
<1>5. CASE UserStep
  <2>1. ASSUME NEW s \in Sessions, Stop(s) PROVE DiskTyped'
    BY <1>0, <2>1 DEF Stop, DiskTyped, IntentStatus
  <2>2. CASE ~\E s \in Sessions : Stop(s)
    BY <1>0, <1>5, <2>2 DEF UserStep, Say, Click, Produce, Reserve, CancelRoutineRun, DiskTyped
  <2> QED BY <2>1, <2>2
<1>6. CASE \/ Crash \/ ReconcileTerminalIntent \/ UNCHANGED vars
           \/ \E r \in Runs : Take(r) \/ DeadlinePasses(r)
           \/ \E x \in Launchers \cup Sessions : Epilogue(x)
           \/ \E p \in Paths : PathLockLapses(p)
  BY <1>0, <1>6 DEF Crash, ReconcileTerminalIntent, vars, Take, DeadlinePasses, Epilogue,
                    PathLockLapses, DiskTyped
<1> QED BY <1>1, <1>2, <1>3, <1>4, <1>5, <1>6 DEF Next

\* A process that starts has nothing in hand.
LEMMA InitTyped == Init => Typed
<1> SUFFICES ASSUME Init PROVE Typed
  OBVIOUS
<1>1. TablesTyped
  <2>1. \A r \in Runs : run[r] = Store!NoRunRow /\ outbox[r] = Store!NoOutboxRow
    BY DEF Init, Store!Init
  <2>2. Store!TypeOK
    BY DEF Init, Store!Init, Store!TypeOK, Store!NoRunRow, Store!NoOutboxRow, Store!RunRow,
           Store!OutboxRow, Store!RunStatus, Store!OutboxStatus, Store!Failures, Store!Undelivered
  <2> QED BY <2>1, <2>2 DEF Init, TablesTyped, Store!ResumableHasSession, Store!NoRunRow,
                            Store!NoOutboxRow
<1>2. DiskTyped
  BY DEF Init, DiskTyped, SessionStatus, IntentStatus, Outcomes
<1>3. QueueTyped
  BY ProcessAssumption DEF Init, QueueTyped
<1>4. TurnTyped /\ JobTyped /\ AskTyped /\ HostTyped
  BY DEF Init, TurnTyped, JobTyped, AskTyped, HostTyped, NoTurn, NoJob, NoAsk, TurnRow, JobRow,
         AskRow, TurnPhases, JobPhases
<1> QED BY <1>1, <1>2, <1>3, <1>4 DEF Typed, MemoryTyped

\* The types, with what a busy process knows of itself, are an invariant.
LEMMA AlwaysTyped == Spec => []Typed
<1>1. Typed /\ [Next]_vars => Typed'
  BY TablesStep, DiskStep, MemoryStep DEF Typed
<1> QED BY <1>1, InitTyped, PTL DEF Spec

\* The tables, the Sessions, the queues and the processes always hold what they are
\* declared to hold: no process is busy without a Run, and a queue never outgrows its
\* channel.
THEOREM DispatchTyped == Spec => []TypeOK
<1>1. Typed => TypeOK
  BY DEF Typed, TablesTyped, DiskTyped, MemoryTyped, QueueTyped, TurnTyped, JobTyped, AskTyped,
         HostTyped, TypeOK, TurnRow, JobRow, AskRow, MessageRow
<1> QED BY <1>1, AlwaysTyped, PTL

\* The processes together behave as the store says: whatever they do to the tables,
\* crashes and recovery included, is a transaction of WorkRun.
THEOREM DispatchRunsTheStore == Spec => Store!Spec
<1>1. Init => Store!Init
  BY DEF Init
<1>2. Typed /\ [Next]_vars => [Store!Next]_(Store!vars)
  BY StepIsStore DEF Typed, store, Store!vars
<1> QED BY <1>1, <1>2, AlwaysTyped, PTL DEF Spec, Store!Spec

\* Every behaviour of the store is one that WorkRunRefinement speaks of.
LEMMA SameBehaviours == Store!Spec => Proved!Spec
<1>1. Store!Init => Proved!Init
  BY SameStore
<1>2. [Store!Next]_(Store!vars) => [Proved!Next]_(Proved!vars)
  BY SameStore DEF Store!vars, Proved!vars
<1> QED BY <1>1, <1>2, PTL DEF Store!Spec, Proved!Spec

\* So what is proved of the store holds of the whole: no Run is lost between its two
\* rows, no lock is left behind, retries form chains.
THEOREM StoreStaysSound == Spec => []Store!IndInv
<1>1. Proved!Spec => []Proved!IndInv
  BY SameAssumptions, Proved!InductiveInvariantHolds
<1>2. Proved!IndInv => Store!IndInv
  <2>1. Proved!NoRunStranded => Store!NoRunStranded
    BY SameSets DEF Proved!NoRunStranded, Store!NoRunStranded, Proved!RowsAgree, Store!RowsAgree
  <2>2. /\ Proved!NoLeakedLock => Store!NoLeakedLock
        /\ Proved!ActiveRunHoldsItsPath => Store!ActiveRunHoldsItsPath
        /\ Proved!LapsedLockOverdue => Store!LapsedLockOverdue
        /\ Proved!OverdueIsActive => Store!OverdueIsActive
    BY SameSets DEF Proved!NoLeakedLock, Store!NoLeakedLock, Proved!ActiveRunHoldsItsPath,
       Store!ActiveRunHoldsItsPath, Proved!LapsedLockOverdue, Store!LapsedLockOverdue,
       Proved!OverdueIsActive, Store!OverdueIsActive
  <2>3. Proved!RetryLineage => Store!RetryLineage
    BY SameSets DEF Proved!RetryLineage, Store!RetryLineage, Proved!Lineage, Store!Lineage,
       Proved!SameRequest, Store!SameRequest
  <2>4. Proved!ResumableHasSession => Store!ResumableHasSession
    BY DEF Proved!ResumableHasSession, Store!ResumableHasSession
  <2> QED BY SameTypes, <2>1, <2>2, <2>3, <2>4 DEF Proved!IndInv, Store!IndInv
<1> QED BY <1>1, <1>2, SameBehaviours, DispatchRunsTheStore, PTL

\* One Run at a time is delivered or executed in a directory, and an ended Run keeps
\* its outcome, whichever of the processes race for it.
THEOREM RunsExcludeAndEndOnce == Spec => []Store!PathExclusion /\ Store!Finality
<1>1. Proved!Spec => []Proved!PathExclusion /\ Proved!Finality
  BY SameAssumptions, Proved!OneRunPerPath, Proved!RunsAreFinal
<1>2. Proved!PathExclusion => Store!PathExclusion
  BY SameSets DEF Proved!PathExclusion, Store!PathExclusion
<1>3. [Proved!FinalityStep]_(Proved!vars) => [Store!FinalityStep]_(Store!vars)
  BY SameSets DEF Proved!FinalityStep, Store!FinalityStep, Store!vars, Proved!vars
<1>4. Proved!Finality => Store!Finality
  BY <1>3, PTL DEF Proved!Finality, Store!Finality
<1> QED BY <1>1, <1>2, <1>4, SameBehaviours, DispatchRunsTheStore, PTL

\* And the processes together implement the exclusive queue of ExclusiveDispatch.
THEOREM DispatchIsExclusive == Spec => Store!ImplementsDispatch
<1>1. Proved!Spec => Proved!ImplementsDispatch
  BY SameAssumptions, Proved!StoreImplementsQueue
<1>2. Proved!StageOf = Store!StageOf
  BY DEF Proved!StageOf, Store!StageOf
<1>3. Proved!Dispatch!Init => Store!Dispatch!Init
  BY <1>2 DEF Proved!Dispatch!Init, Store!Dispatch!Init
<1>4. [Proved!Dispatch!Next]_(Proved!Dispatch!vars) => [Store!Dispatch!Next]_(Store!Dispatch!vars)
  <2>1. Proved!StageOf' = Store!StageOf'
    BY DEF Proved!StageOf, Store!StageOf
  <2>2. Proved!Dispatch!vars = Store!Dispatch!vars /\ Proved!Dispatch!vars' = Store!Dispatch!vars'
    BY <1>2, <2>1 DEF Proved!Dispatch!vars, Store!Dispatch!vars
  <2>3. ASSUME NEW r \in Runs PROVE Proved!Dispatch!Rivals(r) = Store!Dispatch!Rivals(r)
    BY <1>2 DEF Proved!Dispatch!Rivals, Store!Dispatch!Rivals
  <2>4. ASSUME NEW r \in Runs
        PROVE  /\ Proved!Dispatch!Submit(r) => Store!Dispatch!Submit(r)
               /\ Proved!Dispatch!Accept(r) => Store!Dispatch!Accept(r)
               /\ Proved!Dispatch!Return(r) => Store!Dispatch!Return(r)
               /\ Proved!Dispatch!Overstay(r) => Store!Dispatch!Overstay(r)
    BY <1>2, <2>1 DEF Proved!Dispatch!Submit, Store!Dispatch!Submit, Proved!Dispatch!Accept,
       Store!Dispatch!Accept, Proved!Dispatch!Return, Store!Dispatch!Return,
       Proved!Dispatch!Overstay, Store!Dispatch!Overstay
  <2>5. ASSUME NEW r \in Runs
        PROVE  Proved!Dispatch!Hold(r) => Store!Dispatch!Hold(r)
    BY <1>2, <2>1, <2>3 DEF Proved!Dispatch!Hold, Store!Dispatch!Hold
  <2>6. ASSUME NEW S \in SUBSET Runs
        PROVE  Proved!Dispatch!End(S) => Store!Dispatch!End(S)
    BY <1>2, <2>1 DEF Proved!Dispatch!End, Store!Dispatch!End
  <2> QED BY <2>2, <2>4, <2>5, <2>6 DEF Proved!Dispatch!Next, Store!Dispatch!Next
<1> QED BY <1>1, <1>3, <1>4, SameBehaviours, DispatchRunsTheStore, PTL
        DEF Proved!ImplementsDispatch, Store!ImplementsDispatch, Proved!Dispatch!Spec,
            Store!Dispatch!Spec

-----------------------------------------------------------------------------
(* The schedulers of the Sessions. *)

\* Only these steps touch a queue, the ids it knows, or the turn of a worker.
LEMMA WhoMovesWorkers ==
  ASSUME [Next]_vars
  PROVE  \/ UNCHANGED workers
         \/ \E p \in Launchers : EnqueueTurn(p)
         \/ \E s \in Sessions : WorkerStep(s) \/ Say(s) \/ Stop(s)
         \/ Crash
<1>1. ASSUME NEW p \in Launchers, LauncherStep(p), ~EnqueueTurn(p) PROVE UNCHANGED workers
  BY <1>1 DEF LauncherStep, TakeReserved, Prepare, Admit, QueueFull, Acknowledge, GiveBack,
              CannotLaunch
<1>2. ASSUME NEW c \in Retriers, RetrierStep(c) PROVE UNCHANGED workers
  BY <1>2 DEF RetrierStep, CheckRetry, RetryRefused, InsertRetry
<1>3. ASSUME RecoveryStep PROVE UNCHANGED workers
  BY <1>3 DEF RecoveryStep, RunPersistenceStartupRecovery, ListInterrupted, FinishRecovery,
              SettleInterrupted
<1>4. ASSUME UserStep, ~\E s \in Sessions : Say(s) \/ Stop(s) PROVE UNCHANGED workers
  BY <1>4 DEF UserStep, Click, Produce, Reserve, CancelRoutineRun
<1>5. CASE \/ ReconcileTerminalIntent \/ UNCHANGED vars
           \/ \E r \in Runs : Take(r) \/ DeadlinePasses(r)
           \/ \E x \in Launchers \cup Sessions : Epilogue(x)
           \/ \E p \in Paths : PathLockLapses(p)
  BY <1>5 DEF ReconcileTerminalIntent, vars, Take, DeadlinePasses, Epilogue, PathLockLapses
<1> QED BY <1>1, <1>2, <1>3, <1>4, <1>5 DEF Next

\* The ids of the messages that wait in a queue.
IdsOf(q) == {q[i].run : i \in DOMAIN q}

\* Message id r is remembered in Session s for a reason.
Accounted(s, r) == turn[s].run = r \/ r \in IdsOf(queue[s])

\* What a message that is appended, taken or made stale does to the ids.
LEMMA QueueIds ==
  ASSUME NEW old \in Seq(MessageRow)
  PROVE  /\ \A m \in MessageRow : IdsOf(Append(old, m)) = IdsOf(old) \cup {m.run}
         /\ old # <<>> => IdsOf(old) = IdsOf(Tail(old)) \cup {Head(old).run}
         /\ IdsOf([i \in DOMAIN old |-> [old[i] EXCEPT !.stale = TRUE]]) = IdsOf(old)
<1>0. DOMAIN old = 1 .. Len(old) /\ Len(old) \in Nat
  OBVIOUS
<1>1. ASSUME NEW m \in MessageRow
      PROVE  IdsOf(Append(old, m)) = IdsOf(old) \cup {m.run}
  <2>1. DOMAIN Append(old, m) = 1 .. Len(old) + 1
    BY <1>0
  <2>2. Append(old, m)[Len(old) + 1] = m /\ \A j \in 1 .. Len(old) : Append(old, m)[j] = old[j]
    BY <1>0
  <2>3. \A j : j \in 1 .. Len(old) + 1 <=> j \in 1 .. Len(old) \/ j = Len(old) + 1
    BY <1>0
  <2> QED BY <1>0, <2>1, <2>2, <2>3 DEF IdsOf
<1>2. ASSUME old # <<>>
      PROVE  IdsOf(old) = IdsOf(Tail(old)) \cup {Head(old).run}
  <2>1. DOMAIN Tail(old) = 1 .. Len(old) - 1 /\ Head(old) = old[1] /\ 1 \in 1 .. Len(old)
    BY <1>0, <1>2
  <2>2. \A j \in 1 .. Len(old) - 1 : Tail(old)[j] = old[j + 1] /\ j + 1 \in 1 .. Len(old)
    BY <1>0, <1>2
  <2>3. \A j \in 1 .. Len(old) : j = 1 \/ (j - 1 \in 1 .. Len(old) - 1 /\ Tail(old)[j - 1] = old[j])
    <3> SUFFICES ASSUME NEW j \in 1 .. Len(old), j # 1
                 PROVE  j - 1 \in 1 .. Len(old) - 1 /\ Tail(old)[j - 1] = old[j]
      OBVIOUS
    <3>1. j - 1 \in 1 .. Len(old) - 1 /\ (j - 1) + 1 = j
      BY <1>0
    <3> QED BY <2>2, <3>1
  <2>4. IdsOf(old) \subseteq IdsOf(Tail(old)) \cup {Head(old).run}
    <3> SUFFICES ASSUME NEW j \in 1 .. Len(old)
                 PROVE  old[j].run \in IdsOf(Tail(old)) \cup {Head(old).run}
      BY <1>0 DEF IdsOf
    <3>1. CASE j = 1
      BY <2>1, <3>1
    <3>2. CASE j # 1
      <4>1. j - 1 \in DOMAIN Tail(old) /\ Tail(old)[j - 1] = old[j]
        BY <2>1, <2>3, <3>2
      <4> QED BY <4>1 DEF IdsOf
    <3> QED BY <3>1, <3>2
  <2>5. IdsOf(Tail(old)) \cup {Head(old).run} \subseteq IdsOf(old)
    BY <1>0, <2>1, <2>2 DEF IdsOf
  <2> QED BY <2>4, <2>5
<1>3. IdsOf([i \in DOMAIN old |-> [old[i] EXCEPT !.stale = TRUE]]) = IdsOf(old)
  <2>1. \A i \in DOMAIN old : old[i] \in MessageRow
    OBVIOUS
  <2>2. \A i \in DOMAIN old : [old[i] EXCEPT !.stale = TRUE].run = old[i].run
    BY <2>1 DEF MessageRow
  <2> QED BY <2>2 DEF IdsOf
<1> QED BY <1>1, <1>2, <1>3

\* A worker whose phase moves keeps its Run.
LEMMA SameRunExecutes ==
  ASSUME TurnTyped, NEW w \in Sessions, NEW s \in Sessions,
         \/ PromoteTurnToRunning(w) \/ FinalizeSession(w) \/ NotifySessionTerminal(w)
         \/ \E o \in Outcomes : EndTurn(w, o)
  PROVE  UNCHANGED <<queue, known>> /\ turn'[s].run = turn[s].run
<1>1. /\ UNCHANGED <<queue, known>>
      /\ \/ \E phase : turn' = [turn EXCEPT ![w].phase = phase]
         \/ \E o : turn' = [turn EXCEPT ![w].phase = "ended", ![w].outcome = o]
  BY DEF PromoteTurnToRunning, FinalizeSession, NotifySessionTerminal, EndTurn, Proceed
<1> QED BY <1>1 DEF TurnTyped, TurnRow

\* A client message id is remembered only while its message is queued or executes.
THEOREM NoIdLeaks == Spec => []NoLeakedMessageId
<1>1. Init => NoLeakedMessageId
  BY DEF Init, NoLeakedMessageId
<1>2. Typed /\ NoLeakedMessageId /\ [Next]_vars => NoLeakedMessageId'
  <2> SUFFICES ASSUME Typed, NoLeakedMessageId, [Next]_vars
               PROVE  NoLeakedMessageId'
    OBVIOUS
  <2> SUFFICES ASSUME NEW s \in Sessions, NEW r \in Runs, r \in known'[s]
               PROVE  Accounted(s, r)'
    <3>1. known' \in [Sessions -> SUBSET Runs]
      BY MemoryStep DEF MemoryTyped, QueueTyped
    <3> QED BY <3>1 DEF NoLeakedMessageId, Accounted, IdsOf
  <2>0. /\ queue \in [Sessions -> Seq(MessageRow)] /\ queue[s] \in Seq(MessageRow)
        /\ known \in [Sessions -> SUBSET Runs]
        /\ turn \in [Sessions -> TurnRow] /\ TurnTyped /\ r # NoRun
        /\ r \in known[s] => Accounted(s, r)
    BY StoreAssumption DEF Typed, MemoryTyped, QueueTyped, TurnTyped, Store!IdAssumption,
                           NoLeakedMessageId, Accounted, IdsOf
  <2> DEFINE old == queue[s]
  <2>a. /\ \A m \in MessageRow : IdsOf(Append(old, m)) = IdsOf(old) \cup {m.run}
        /\ old # <<>> => IdsOf(old) = IdsOf(Tail(old)) \cup {Head(old).run}
        /\ IdsOf([i \in DOMAIN old |-> [old[i] EXCEPT !.stale = TRUE]]) = IdsOf(old)
    BY <2>0, QueueIds
  <2>1. CASE UNCHANGED workers
    BY <2>0, <2>1 DEF workers, Accounted
  <2>2. ASSUME NEW p \in Launchers, EnqueueTurn(p) PROVE Accounted(s, r)'
    <3> DEFINE q == job[p].run
    <3>1. q \in Runs /\ Message(q) \in MessageRow /\ Message(q).run = q /\ turn' = turn
      BY <2>2 DEF EnqueueTurn, At, Typed, MemoryTyped, JobTyped, Message, MessageRow
    <3>2. queue'[s] = queue[s] \/ queue'[s] = Append(queue[s], Message(q))
      BY <2>0, <2>2 DEF EnqueueTurn
    <3>3. CASE r \in known[s]
      BY <2>0, <3>1, <3>2, <3>3, <2>a DEF Accounted
    <3>4. CASE r \notin known[s]
      <4>1. s = Target(q) /\ r = q /\ queue'[s] = Append(queue[s], Message(q))
        BY <2>0, <2>2, <3>4 DEF EnqueueTurn
      <4> QED BY <2>0, <3>1, <4>1, <2>a DEF Accounted
    <3> QED BY <3>3, <3>4
  <2>3. ASSUME NEW w \in Sessions, WorkerStep(w) PROVE Accounted(s, r)'
    <3>1. CASE DropStale(w)
      <4>1. /\ r \in known[s] /\ turn' = turn
            /\ \/ queue'[s] = queue[s]
               \/ queue[s] # <<>> /\ queue'[s] = Tail(queue[s]) /\ r # Head(queue[s]).run
        BY <2>0, <3>1 DEF DropStale
      <4> QED BY <2>0, <4>1, <2>a DEF Accounted
    <3>2. CASE StartTurn(w)
      <4>1. r \in known[s]
        BY <3>2 DEF StartTurn
      <4>2. CASE s = w
        <5>1. queue[s] # <<>> /\ queue'[s] = Tail(queue[s]) /\ turn[s].run = NoRun
          BY <2>0, <3>2, <4>2 DEF StartTurn, Working, TurnTyped
        <5>2. turn'[s].run = Head(queue[s]).run
          BY <2>0, <3>2, <4>2 DEF StartTurn, NoTurn
        <5> QED BY <2>0, <4>1, <5>1, <5>2, <2>a DEF Accounted
      <4>3. CASE s # w
        BY <2>0, <3>2, <4>1, <4>3 DEF StartTurn, Accounted
      <4> QED BY <4>2, <4>3
    <3>3. CASE CloseTurn(w)
      <4>1. /\ r \in known[s] /\ queue' = queue
            /\ turn'[s] = turn[s] \/ turn[s].run # r
        BY <2>0, <3>3 DEF CloseTurn
      <4> QED BY <2>0, <4>1 DEF Accounted
    <3>4. CASE \/ PromoteTurnToRunning(w) \/ FinalizeSession(w) \/ NotifySessionTerminal(w)
               \/ \E o \in Outcomes : EndTurn(w, o)
      BY <2>0, <3>4, SameRunExecutes DEF Accounted
    <3> QED BY <2>3, <3>1, <3>2, <3>3, <3>4 DEF WorkerStep
  <2>4. ASSUME NEW u \in Sessions, Say(u) PROVE Accounted(s, r)'
    <3>1. Message(NoRun) \in MessageRow
      BY DEF Message, MessageRow
    <3>2. /\ r \in known[s] /\ turn' = turn
          /\ queue'[s] = queue[s] \/ queue'[s] = Append(queue[s], Message(NoRun))
      BY <2>0, <2>4 DEF Say
    <3> QED BY <2>0, <3>1, <3>2, <2>a DEF Accounted
  <2>5. ASSUME NEW u \in Sessions, Stop(u) PROVE Accounted(s, r)'
    <3>1. /\ r \in known[s] /\ turn' = turn
          /\ \/ queue'[s] = queue[s]
             \/ queue'[s] = [i \in DOMAIN queue[s] |-> [queue[s][i] EXCEPT !.stale = TRUE]]
      BY <2>0, <2>5 DEF Stop
    <3> QED BY <2>0, <3>1, <2>a DEF Accounted
  <2>6. CASE Crash
    BY <2>6 DEF Crash
  <2> QED BY <2>1, <2>2, <2>3, <2>4, <2>5, <2>6, WhoMovesWorkers
<1> QED BY <1>1, <1>2, AlwaysTyped, PTL DEF Spec

-----------------------------------------------------------------------------
(* The Sessions on the disk. *)

\* A Session that is marked as running executes a turn.
Occupied(s) == session[s].status = "running" => turn[s].phase \in {"executing", "ended"}

\* It does from the moment at which recovery has looked at the Sessions.
SessionsOccupied == host # "down" => \A s \in Sessions : Occupied(s)

\* A launcher marks no Session as running.
LEMMA LauncherStartsNoTurn ==
  ASSUME Typed, NEW p \in Launchers, LauncherStep(p), NEW s \in Sessions
  PROVE  /\ UNCHANGED <<turn, host>>
         /\ session'[s].status = "running" => session[s].status = "running"
<1>0. session \in [Sessions -> [status: SessionStatus, marker: Outcomes \cup {"none"}]]
  BY DEF Typed, DiskTyped
<1>1. UNCHANGED <<turn, host>>
  BY DEF LauncherStep, TakeReserved, Prepare, Admit, EnqueueTurn, QueueFull, Acknowledge,
         GiveBack, CannotLaunch, workers
<1>2. CASE \E r : MarkSessionFailed(r)
  BY <1>0, <1>1, <1>2 DEF MarkSessionFailed
<1>3. CASE \E t : CreateSession(t)
  BY <1>0, <1>1, <1>3 DEF CreateSession
<1>4. CASE session' = session
  BY <1>1, <1>4
<1>5. \/ session' = session \/ \E r : MarkSessionFailed(r) \/ \E t : CreateSession(t)
  BY DEF LauncherStep, TakeReserved, Prepare, Admit, EnqueueTurn, QueueFull, Acknowledge,
         GiveBack, CannotLaunch, disk
<1> QED BY <1>1, <1>2, <1>3, <1>4, <1>5

\* A worker marks its Session as running while it executes, and as ended after that.
LEMMA WorkerOccupies ==
  ASSUME Typed, NEW w \in Sessions, WorkerStep(w), NEW s \in Sessions, Occupied(s)
  PROVE  Occupied(s)' /\ host' = host
<1>0. /\ session \in [Sessions -> [status: SessionStatus, marker: Outcomes \cup {"none"}]]
      /\ turn \in [Sessions -> TurnRow]
      /\ turn[w].phase = "ended" => turn[w].outcome \in Outcomes
  BY DEF Typed, DiskTyped, MemoryTyped, TurnTyped
<1>1. CASE PromoteTurnToRunning(w)
  BY <1>0, <1>1 DEF PromoteTurnToRunning, Proceed, Occupied, TurnRow
<1>2. CASE FinalizeSession(w)
  BY <1>0, <1>2 DEF FinalizeSession, Working, Proceed, Occupied, Outcomes
<1>3. CASE NotifySessionTerminal(w)
  BY <1>0, <1>3 DEF NotifySessionTerminal, Working, Proceed, Occupied, disk
<1>4. CASE \E o \in Outcomes : EndTurn(w, o)
  BY <1>0, <1>4 DEF EndTurn, Working, Occupied, disk, TurnRow
<1>5. CASE DropStale(w) \/ StartTurn(w) \/ CloseTurn(w)
  BY <1>0, <1>5 DEF DropStale, StartTurn, CloseTurn, Working, Occupied
<1> QED BY <1>1, <1>2, <1>3, <1>4, <1>5 DEF WorkerStep

\* No Session shows as running without a turn that will end it.
THEOREM NoPhantoms == Spec => []NoPhantomSession
<1>1. Init => SessionsOccupied
  BY DEF Init, SessionsOccupied, Occupied
<1>2. Typed /\ SessionsOccupied /\ [Next]_vars => SessionsOccupied'
  <2> SUFFICES ASSUME Typed, SessionsOccupied, [Next]_vars, host' # "down",
                      NEW s \in Sessions
               PROVE  Occupied(s)'
    BY DEF SessionsOccupied
  <2>1. CASE RunPersistenceStartupRecovery
    <3>1. /\ session[s].marker \in Outcomes \cup {"none"}
          /\ session'[s] = IF session[s].status # "running" THEN session[s]
                           ELSE [session[s] EXCEPT !.status = IF session[s].marker = "none"
                                                   THEN "abandoned" ELSE session[s].marker]
          /\ session[s] \in [status: SessionStatus, marker: Outcomes \cup {"none"}]
      BY <2>1 DEF RunPersistenceStartupRecovery, Typed, DiskTyped
    <3> QED BY <3>1 DEF Occupied, Outcomes
  <2>2. ASSUME NEW p \in Launchers, LauncherStep(p) PROVE Occupied(s)'
    BY <2>2, LauncherStartsNoTurn DEF SessionsOccupied, Occupied
  <2>3. ASSUME NEW w \in Sessions, WorkerStep(w) PROVE Occupied(s)'
    <3>1. host # "down"
      BY <2>3 DEF WorkerStep, DropStale, StartTurn, PromoteTurnToRunning, FinalizeSession,
                  NotifySessionTerminal, CloseTurn, EndTurn, Working, Quiet, Alive
    <3> QED BY <2>3, <3>1, WorkerOccupies DEF SessionsOccupied
  <2>4. CASE Crash
    BY <2>4 DEF Crash
  <2>5. CASE /\ UNCHANGED <<session, turn>>
             /\ host # "down"
    BY <2>5 DEF SessionsOccupied, Occupied
  <2>6. ASSUME NEW c \in Retriers, RetrierStep(c) PROVE UNCHANGED <<session, turn, host>>
    BY <2>6 DEF RetrierStep, CheckRetry, RetryRefused, InsertRetry, disk, workers
  <2>7. ASSUME RecoveryStep, ~RunPersistenceStartupRecovery
        PROVE  UNCHANGED <<session, turn>> /\ host # "down"
    BY <2>7 DEF RecoveryStep, ListInterrupted, FinishRecovery, SettleInterrupted, disk, workers
  <2>8. CASE UserStep
    BY <2>5, <2>8 DEF UserStep, Say, Stop, Click, Produce, Reserve, CancelRoutineRun, disk, workers
  <2>9. ASSUME \/ ReconcileTerminalIntent \/ UNCHANGED vars
               \/ \E r \in Runs : Take(r) \/ DeadlinePasses(r)
               \/ \E x \in Launchers \cup Sessions : Epilogue(x)
               \/ \E p \in Paths : PathLockLapses(p)
        PROVE  UNCHANGED <<session, turn, host>>
    BY <2>9 DEF ReconcileTerminalIntent, vars, Take, DeadlinePasses, Epilogue, PathLockLapses,
                disk, workers
  <2> QED BY <2>1, <2>2, <2>3, <2>4, <2>5, <2>6, <2>7, <2>8, <2>9 DEF Next
<1>3. SessionsOccupied => NoPhantomSession
  BY DEF SessionsOccupied, Occupied, NoPhantomSession
<1> QED BY <1>1, <1>2, <1>3, AlwaysTyped, PTL DEF Spec

-----------------------------------------------------------------------------
(* One start per Run.  Two launchers that send the turn of one Run at the    *)
(* same time could start it twice; one of them has then outlived its lease.  *)

Sending(p, r) == job[p].run = r /\ job[p].phase = "sending"

Admitted(p, r) == job[p].run = r /\ job[p].phase = "admitted"

Sends(p, r) == Sending(p, r) \/ Admitted(p, r)

OneSender == \A r \in Runs : \A p, q \in Launchers : Sends(p, r) /\ Sends(q, r) => p = q

\* Only a launcher that found no intent sends, and only one that sends admits.
LEMMA WhoSends ==
  ASSUME Typed, [Next]_vars, NEW r \in Runs, NEW q \in Launchers
  PROVE  /\ Sending(q, r)' => \/ Sending(q, r)
                              \/ Prepare(q) /\ job[q].run = r /\ intent[r] = "absent"
         /\ Admitted(q, r)' => Admitted(q, r) \/ (Admit(q) /\ Sending(q, r))
<1> USE DEF Sending, Admitted
<1>0. job \in [Launchers -> JobRow] /\ NoJob.phase = "idle"
  BY DEF Typed, MemoryTyped, JobTyped, NoJob
<1>1. ASSUME NEW p \in Launchers, LauncherStep(p)
      PROVE  /\ Sending(q, r)' => \/ Sending(q, r)
                                  \/ Prepare(q) /\ job[q].run = r /\ intent[r] = "absent"
             /\ Admitted(q, r)' => Admitted(q, r) \/ (Admit(q) /\ Sending(q, r))
  <2>1. CASE Prepare(p)
    BY <1>0, <2>1 DEF Prepare, Move, JobRow
  <2>2. CASE Admit(p)
    BY <1>0, <2>2 DEF Admit, At, Move, JobRow
  <2>3. CASE EnqueueTurn(p)
    BY <1>0, <2>3 DEF EnqueueTurn, Move, JobRow
  <2>4. CASE QueueFull(p) \/ \E f \in Store!DispatchFailures : CannotLaunch(p, f)
    BY <1>0, <2>4 DEF QueueFull, CannotLaunch, Abort, JobRow
  <2>5. CASE TakeReserved(p)
    BY <1>0, <2>5 DEF TakeReserved, Claimed, Rest, NoJob
  <2>6. CASE Acknowledge(p)
    BY <1>0, <2>6 DEF Acknowledge, Move, Abort, Rest, JobRow
  <2>7. CASE GiveBack(p)
    BY <1>0, <2>7 DEF GiveBack, Rest
  <2> QED BY <1>1, <2>1, <2>2, <2>3, <2>4, <2>5, <2>6, <2>7 DEF LauncherStep
<1>2. CASE ReconcileTerminalIntent
  BY <1>0, <1>2 DEF ReconcileTerminalIntent, Rest
<1>3. ASSUME NEW x \in Runs, Take(x) PROVE ~Sending(q, r)' \/ Sending(q, r)
  BY <1>0, <1>3 DEF Take, Claimed, NoJob
<1>4. ASSUME NEW x \in Runs, Take(x) PROVE ~Admitted(q, r)' \/ Admitted(q, r)
  BY <1>0, <1>4 DEF Take, Claimed, NoJob
<1>5. ASSUME NEW x \in Runs, NEW p \in Inline, Reserve(p, x)
      PROVE  /\ ~Sending(q, r)' \/ Sending(q, r)
             /\ ~Admitted(q, r)' \/ Admitted(q, r)
  BY <1>0, <1>5 DEF Reserve, NoJob
<1>6. CASE Crash
  BY <1>0, <1>6 DEF Crash
<1>7. ASSUME NEW s \in Sessions, WorkerStep(s) PROVE job' = job
  BY <1>7 DEF WorkerStep, DropStale, StartTurn, PromoteTurnToRunning, FinalizeSession,
              NotifySessionTerminal, CloseTurn, EndTurn, callers
<1>8. ASSUME NEW c \in Retriers, RetrierStep(c) PROVE job' = job
  BY <1>8 DEF RetrierStep, CheckRetry, RetryRefused, InsertRetry
<1>9. ASSUME RecoveryStep PROVE job' = job
  BY <1>9 DEF RecoveryStep, RunPersistenceStartupRecovery, ListInterrupted, FinishRecovery,
              SettleInterrupted, callers
<1>10. ASSUME UserStep, ~\E x \in Runs, p \in Inline : Reserve(p, x) PROVE job' = job
  BY <1>10 DEF UserStep, Say, Stop, Click, Produce, CancelRoutineRun, callers
<1>11. ASSUME \/ UNCHANGED vars
              \/ \E x \in Runs : DeadlinePasses(x)
              \/ \E x \in Launchers \cup Sessions : Epilogue(x)
              \/ \E p \in Paths : PathLockLapses(p)
       PROVE  job' = job
  BY <1>11 DEF vars, DeadlinePasses, Epilogue, PathLockLapses, callers
<1> QED BY <1>1, <1>2, <1>3, <1>4, <1>5, <1>6, <1>7, <1>8, <1>9, <1>10, <1>11 DEF Next

\* A Run gets its first intent from the launcher that admits its turn.
LEMMA WhoAdmits ==
  ASSUME Typed, [Next]_vars, NEW r \in Runs
  PROVE  \/ intent'[r] = "absent" <=> intent[r] = "absent"
         \/ intent'[r] # "absent" /\ \E p \in Launchers : Admit(p) /\ Sending(p, r)
<1>0. intent \in [Runs -> IntentStatus]
  BY DEF Typed, DiskTyped
<1>1. ASSUME NEW x, NEW to, to # "absent", UpdateIntent(x, to)
      PROVE  intent'[r] = "absent" <=> intent[r] = "absent"
  BY <1>0, <1>1 DEF UpdateIntent, TransitionAllowed
<1>2. ASSUME NEW p \in Launchers, LauncherStep(p), ~Admit(p)
      PROVE  intent'[r] = "absent" <=> intent[r] = "absent"
  BY <1>1, <1>2 DEF LauncherStep, TakeReserved, Prepare, EnqueueTurn, QueueFull, Acknowledge,
                    GiveBack, CannotLaunch, disk
<1>3. ASSUME NEW p \in Launchers, Admit(p)
      PROVE  \/ intent'[r] = "absent" <=> intent[r] = "absent"
             \/ intent'[r] # "absent" /\ Sending(p, r)
  BY <1>0, <1>3 DEF Admit, At, Sending
<1>4. ASSUME NEW s \in Sessions, WorkerStep(s)
      PROVE  intent'[r] = "absent" <=> intent[r] = "absent"
  <2>1. CASE CloseTurn(s)
    <3>1. turn[s].outcome # "absent"
      BY <2>1 DEF CloseTurn, Working, Typed, MemoryTyped, TurnTyped, Outcomes
    <3> QED BY <1>1, <2>1, <3>1 DEF CloseTurn
  <2>2. CASE ~CloseTurn(s)
    BY <1>1, <1>4, <2>2 DEF WorkerStep, DropStale, StartTurn, PromoteTurnToRunning,
                            FinalizeSession, NotifySessionTerminal, EndTurn, disk
  <2> QED BY <2>1, <2>2
<1>5. CASE UserStep
  BY <1>0, <1>5 DEF UserStep, Say, Stop, Click, Produce, Reserve, CancelRoutineRun, disk
<1>6. CASE RecoveryStep
  BY <1>0, <1>6 DEF RecoveryStep, RunPersistenceStartupRecovery, ListInterrupted,
                    FinishRecovery, SettleInterrupted, disk
<1>7. ASSUME NEW c \in Retriers, RetrierStep(c) PROVE intent' = intent
  BY <1>7 DEF RetrierStep, CheckRetry, RetryRefused, InsertRetry, disk
<1>8. ASSUME \/ Crash \/ ReconcileTerminalIntent \/ UNCHANGED vars
             \/ \E x \in Runs : Take(x) \/ DeadlinePasses(x)
             \/ \E x \in Launchers \cup Sessions : Epilogue(x)
             \/ \E p \in Paths : PathLockLapses(p)
      PROVE  intent' = intent
  BY <1>8 DEF Crash, ReconcileTerminalIntent, vars, Take, DeadlinePasses, Epilogue,
              PathLockLapses, disk
<1> QED BY <1>2, <1>3, <1>4, <1>5, <1>6, <1>7, <1>8 DEF Next

\* A turn is started by the worker that takes its message.
LEMMA WhoStarts ==
  ASSUME Typed, [Next]_vars, NEW r \in Runs
  PROVE  \/ started'[r] = started[r]
         \/ /\ started'[r] = started[r] + 1
            /\ \E s \in Sessions : /\ queue[s] # <<>> /\ Head(queue[s]).run = r
                                   /\ queue' = [queue EXCEPT ![s] = Tail(@)]
<1>0. started \in [Runs -> Nat]
  BY DEF Typed, DiskTyped
<1>1. ASSUME NEW s \in Sessions, StartTurn(s), started'[r] # started[r]
      PROVE  /\ started'[r] = started[r] + 1
             /\ queue[s] # <<>> /\ Head(queue[s]).run = r
             /\ queue' = [queue EXCEPT ![s] = Tail(@)]
  BY <1>0, <1>1 DEF StartTurn
<1>2. ASSUME NEW s \in Sessions, WorkerStep(s), ~StartTurn(s) PROVE started' = started
  BY <1>2 DEF WorkerStep, DropStale, PromoteTurnToRunning, FinalizeSession,
              NotifySessionTerminal, CloseTurn, EndTurn, history
<1>3. ASSUME NEW p \in Launchers, LauncherStep(p) PROVE started' = started
  BY <1>3 DEF LauncherStep, TakeReserved, Prepare, Admit, EnqueueTurn, QueueFull, Acknowledge,
              GiveBack, CannotLaunch, history
<1>4. ASSUME NEW c \in Retriers, RetrierStep(c) PROVE started' = started
  BY <1>4 DEF RetrierStep, CheckRetry, RetryRefused, InsertRetry, history
<1>5. ASSUME RecoveryStep \/ UserStep PROVE started' = started
  BY <1>5 DEF RecoveryStep, RunPersistenceStartupRecovery, ListInterrupted, FinishRecovery,
              SettleInterrupted, UserStep, Say, Stop, Click, Produce, Reserve, CancelRoutineRun,
              history
<1>6. ASSUME \/ Crash \/ ReconcileTerminalIntent \/ UNCHANGED vars
             \/ \E x \in Runs : Take(x) \/ DeadlinePasses(x)
             \/ \E x \in Launchers \cup Sessions : Epilogue(x)
             \/ \E p \in Paths : PathLockLapses(p)
      PROVE  started' = started
  BY <1>6 DEF Crash, ReconcileTerminalIntent, vars, Take, DeadlinePasses, Epilogue,
              PathLockLapses, history
<1> QED BY <1>1, <1>2, <1>3, <1>4, <1>5, <1>6 DEF Next

\* Run r waits at most once in a queue.
Once(q, r) == \A i, j \in DOMAIN q : q[i].run = r /\ q[j].run = r => i = j

\* It still does after another message was appended, or the first one taken.
LEMMA OnceInQueue ==
  ASSUME NEW old \in Seq(MessageRow), NEW r, Once(old, r)
  PROVE  /\ \A m \in MessageRow :
              m.run # r \/ r \notin IdsOf(old) => Once(Append(old, m), r)
         /\ old # <<>> => /\ Once(Tail(old), r)
                          /\ Head(old).run = r => r \notin IdsOf(Tail(old))
         /\ Once([i \in DOMAIN old |-> [old[i] EXCEPT !.stale = TRUE]], r)
<1>0. DOMAIN old = 1 .. Len(old) /\ Len(old) \in Nat
  OBVIOUS
<1>1. ASSUME NEW m \in MessageRow, m.run # r \/ r \notin IdsOf(old)
      PROVE  Once(Append(old, m), r)
  <2>1. DOMAIN Append(old, m) = 1 .. Len(old) + 1
    BY <1>0
  <2>2. Append(old, m)[Len(old) + 1] = m /\ \A j \in 1 .. Len(old) : Append(old, m)[j] = old[j]
    BY <1>0
  <2>3. \A j : j \in 1 .. Len(old) + 1 <=> j \in 1 .. Len(old) \/ j = Len(old) + 1
    BY <1>0
  <2>4. \A j \in 1 .. Len(old) : m.run # r \/ old[j].run # r
    BY <1>0, <1>1 DEF IdsOf
  <2> QED BY <1>0, <2>1, <2>2, <2>3, <2>4 DEF Once
<1>2. ASSUME old # <<>>
      PROVE  /\ Once(Tail(old), r)
             /\ Head(old).run = r => r \notin IdsOf(Tail(old))
  <2>1. DOMAIN Tail(old) = 1 .. Len(old) - 1 /\ Head(old) = old[1] /\ 1 \in 1 .. Len(old)
    BY <1>0, <1>2
  <2>2. \A j \in 1 .. Len(old) - 1 :
          Tail(old)[j] = old[j + 1] /\ j + 1 \in 1 .. Len(old) /\ j + 1 # 1 /\ j \in Nat
    BY <1>0, <1>2
  <2>3. Once(Tail(old), r)
    <3> SUFFICES ASSUME NEW i \in 1 .. Len(old) - 1, NEW j \in 1 .. Len(old) - 1,
                        Tail(old)[i].run = r, Tail(old)[j].run = r
                 PROVE  i = j
      BY <2>1 DEF Once
    <3>1. i + 1 = j + 1
      BY <1>0, <2>2 DEF Once
    <3> QED BY <3>1
  <2>4. Head(old).run = r => r \notin IdsOf(Tail(old))
    BY <1>0, <2>1, <2>2 DEF Once, IdsOf
  <2> QED BY <2>3, <2>4
<1>3. Once([i \in DOMAIN old |-> [old[i] EXCEPT !.stale = TRUE]], r)
  <2>1. \A i \in DOMAIN old : [old[i] EXCEPT !.stale = TRUE].run = old[i].run
    <3>1. \A i \in DOMAIN old : old[i] \in MessageRow
      OBVIOUS
    <3> QED BY <3>1 DEF MessageRow
  <2> QED BY <2>1 DEF Once
<1> QED BY <1>1, <1>2, <1>3

\* A Run is put into a queue only by the launcher that has admitted its turn.
LEMMA WhoQueues ==
  ASSUME Typed, [Next]_vars, NEW r \in Runs, NEW s \in Sessions
  PROVE  \/ /\ r \in IdsOf(queue'[s]) => r \in IdsOf(queue[s])
            /\ Once(queue[s], r) => Once(queue'[s], r)
         \/ /\ s = Target(r) /\ queue' = [queue EXCEPT ![s] = Append(@, Message(r))]
            /\ \E p \in Launchers : EnqueueTurn(p) /\ Admitted(p, r)
<1>0. /\ queue \in [Sessions -> Seq(MessageRow)] /\ queue[s] \in Seq(MessageRow)
      /\ NoRun \notin Runs /\ r # NoRun
  BY StoreAssumption DEF Typed, MemoryTyped, QueueTyped, Store!IdAssumption
<1> DEFINE old == queue[s]
           Calm == /\ r \in IdsOf(queue'[s]) => r \in IdsOf(old)
                   /\ Once(old, r) => Once(queue'[s], r)
<1>1. /\ \A m \in MessageRow : IdsOf(Append(old, m)) = IdsOf(old) \cup {m.run}
      /\ old # <<>> => IdsOf(old) = IdsOf(Tail(old)) \cup {Head(old).run}
      /\ IdsOf([i \in DOMAIN old |-> [old[i] EXCEPT !.stale = TRUE]]) = IdsOf(old)
  BY <1>0, QueueIds
<1>2. Once(old, r) =>
        /\ \A m \in MessageRow : m.run # r => Once(Append(old, m), r)
        /\ old # <<>> => Once(Tail(old), r)
        /\ Once([i \in DOMAIN old |-> [old[i] EXCEPT !.stale = TRUE]], r)
  BY <1>0, OnceInQueue
<1>3. CASE queue'[s] = old
  BY <1>3
<1>4. CASE old # <<>> /\ queue'[s] = Tail(old)
  BY <1>1, <1>2, <1>4
<1>5. ASSUME NEW m \in MessageRow, m.run # r, queue'[s] = Append(old, m) PROVE Calm
  BY <1>1, <1>2, <1>5
<1>6. CASE queue'[s] = [i \in DOMAIN old |-> [old[i] EXCEPT !.stale = TRUE]]
  BY <1>1, <1>2, <1>6
<1>7. ASSUME NEW p \in Launchers, EnqueueTurn(p)
      PROVE  \/ Calm
             \/ /\ s = Target(r) /\ queue' = [queue EXCEPT ![s] = Append(@, Message(r))]
                /\ Admitted(p, r)
  <2> DEFINE q == job[p].run
  <2>1. q \in Runs /\ Message(q) \in MessageRow /\ Message(q).run = q /\ job[p].phase = "admitted"
    BY <1>7 DEF EnqueueTurn, At, Typed, MemoryTyped, JobTyped, Message, MessageRow
  <2>2. \/ queue'[s] = old
        \/ s = Target(q) /\ queue' = [queue EXCEPT ![s] = Append(@, Message(q))]
    BY <1>0, <1>7 DEF EnqueueTurn
  <2>3. s = Target(q) /\ queue' = [queue EXCEPT ![s] = Append(@, Message(q))]
          => queue'[s] = Append(old, Message(q))
    BY <1>0
  <2> QED BY <1>3, <1>5, <2>1, <2>2, <2>3 DEF Admitted
<1>8. ASSUME NEW w \in Sessions, WorkerStep(w)
      PROVE  queue'[s] = old \/ (old # <<>> /\ queue'[s] = Tail(old))
  <2>1. CASE DropStale(w) \/ StartTurn(w)
    BY <1>0, <2>1 DEF DropStale, StartTurn
  <2>2. CASE CloseTurn(w)
    BY <2>2 DEF CloseTurn
  <2>3. CASE \/ PromoteTurnToRunning(w) \/ FinalizeSession(w) \/ NotifySessionTerminal(w)
             \/ \E o \in Outcomes : EndTurn(w, o)
    BY <2>3, SameRunExecutes DEF Typed, MemoryTyped
  <2> QED BY <1>8, <2>1, <2>2, <2>3 DEF WorkerStep
<1>9. ASSUME NEW u \in Sessions, Say(u) PROVE Calm
  <2>1. Message(NoRun) \in MessageRow /\ Message(NoRun).run # r
    BY <1>0 DEF Message, MessageRow
  <2>2. queue'[s] = old \/ queue'[s] = Append(old, Message(NoRun))
    BY <1>0, <1>9 DEF Say
  <2> QED BY <1>3, <1>5, <2>1, <2>2
<1>10. ASSUME NEW u \in Sessions, Stop(u)
       PROVE  \/ queue'[s] = old
              \/ queue'[s] = [i \in DOMAIN old |-> [old[i] EXCEPT !.stale = TRUE]]
  BY <1>0, <1>10 DEF Stop
<1>11. CASE Crash
  BY <1>11 DEF Crash, IdsOf, Once
<1>12. CASE UNCHANGED workers
  BY <1>3, <1>12 DEF workers
<1> QED BY <1>3, <1>4, <1>6, <1>7, <1>8, <1>9, <1>10, <1>11, <1>12, WhoMovesWorkers

\* No turn of Run r was started and none will be but by the one that sends it.
Unsent(r) == started[r] = 0 /\ \A s \in Sessions : r \notin IdsOf(queue[s])

\* What "started once" rests on: whoever sends the turn of a Run has found no intent of
\* it, without an intent nothing was sent, what is admitted was not sent before, and
\* what waits in a queue waits there alone and was not started.
OnceFor(r) ==
  /\ \A p \in Launchers : Sending(p, r) => intent[r] = "absent"
  /\ intent[r] = "absent" => Unsent(r) /\ \A p \in Launchers : ~Admitted(p, r)
  /\ \A p \in Launchers : Admitted(p, r) => Unsent(r)
  /\ \A s \in Sessions : r \in IdsOf(queue[s]) => started[r] = 0
  /\ \A s \in Sessions : Once(queue[s], r)
  /\ \A s, t \in Sessions : r \in IdsOf(queue[s]) /\ r \in IdsOf(queue[t]) => s = t
  /\ started[r] <= 1

LEMMA OnceStep ==
  ASSUME Typed, OneSender, [Next]_vars, NEW r \in Runs, OnceFor(r)
  PROVE  OnceFor(r)'
<1>0. /\ queue \in [Sessions -> Seq(MessageRow)] /\ started[r] \in Nat
  BY DEF Typed, MemoryTyped, QueueTyped, DiskTyped
<1> DEFINE Starts(s) == /\ queue[s] # <<>> /\ Head(queue[s]).run = r
                        /\ queue' = [queue EXCEPT ![s] = Tail(@)]
           Arrives(s) == s = Target(r) /\ queue' = [queue EXCEPT ![s] = Append(@, Message(r))]
<1>1. \/ started'[r] = started[r]
      \/ started'[r] = started[r] + 1 /\ \E s \in Sessions : Starts(s)
  BY WhoStarts
<1>2. \A s \in Sessions :
        \/ /\ r \in IdsOf(queue'[s]) => r \in IdsOf(queue[s])
           /\ Once(queue[s], r) => Once(queue'[s], r)
        \/ Arrives(s) /\ \E p \in Launchers : EnqueueTurn(p) /\ Admitted(p, r)
  BY WhoQueues
<1>3. \A p \in Launchers :
        /\ Sending(p, r)' => \/ Sending(p, r)
                             \/ Prepare(p) /\ intent[r] = "absent"
        /\ Admitted(p, r)' => Admitted(p, r) \/ (Admit(p) /\ Sending(p, r))
  BY WhoSends
<1>4. \/ intent'[r] = "absent" <=> intent[r] = "absent"
      \/ intent'[r] # "absent" /\ \E p \in Launchers : Admit(p) /\ Sending(p, r)
  BY WhoAdmits
\* Who starts the turn takes it from the only queue it is in.
<1>5. ASSUME NEW s \in Sessions, Starts(s)
      PROVE  r \in IdsOf(queue[s]) /\ r \notin IdsOf(queue'[s])
  <2>1. queue[s] \in Seq(MessageRow) /\ queue'[s] = Tail(queue[s])
    BY <1>0, <1>5
  <2>2. IdsOf(queue[s]) = IdsOf(Tail(queue[s])) \cup {Head(queue[s]).run}
    BY <1>5, <2>1, QueueIds
  <2>3. Once(queue[s], r)
    BY DEF OnceFor
  <2>4. r \notin IdsOf(Tail(queue[s]))
    BY <1>5, <2>1, <2>3, OnceInQueue
  <2> QED BY <1>5, <2>1, <2>2, <2>4
\* Who puts it into a queue sends no more, and nobody starts it meanwhile.
<1>6. ASSUME NEW p \in Launchers, EnqueueTurn(p), Admitted(p, r)
      PROVE  /\ Unsent(r) /\ started' = started
             /\ \A q \in Launchers : ~Admitted(q, r)' /\ ~Sending(q, r)
  <2>1. started' = started /\ job' = [job EXCEPT ![p].phase = "accepted"]
    BY <1>6 DEF EnqueueTurn, Move, history
  <2>2. \A q \in Launchers : Sends(q, r) => q = p
    BY <1>6 DEF OneSender, Sends
  <2>3. job \in [Launchers -> JobRow]
    BY DEF Typed, MemoryTyped, JobTyped
  <2> QED BY <1>6, <2>1, <2>2, <2>3 DEF OnceFor, Admitted, Sending, Sends, JobRow
\* Who admits it was the only one that sends, and has found nothing sent.
<1>7. ASSUME NEW p \in Launchers, Admit(p), Sending(p, r)
      PROVE  /\ Unsent(r) /\ started' = started /\ queue' = queue
             /\ \A q \in Launchers : ~Sending(q, r)'
  <2>1. started' = started /\ queue' = queue /\ job' = [job EXCEPT ![p].phase = "admitted"]
    BY <1>7 DEF Admit, Move, history, workers
  <2>2. \A q \in Launchers : Sends(q, r) => q = p
    BY <1>7 DEF OneSender, Sends
  <2>3. job \in [Launchers -> JobRow]
    BY DEF Typed, MemoryTyped, JobTyped
  <2> QED BY <1>7, <2>1, <2>2, <2>3 DEF OnceFor, Sending, Sends, JobRow
<1>8. \A p \in Launchers : Sending(p, r)' => intent'[r] = "absent"
  <2> SUFFICES ASSUME NEW p \in Launchers, Sending(p, r)' PROVE intent'[r] = "absent"
    OBVIOUS
  <2>1. intent[r] = "absent"
    BY <1>3 DEF OnceFor
  <2> QED BY <1>4, <1>7, <2>1
<1>9. intent'[r] = "absent" => Unsent(r)' /\ \A p \in Launchers : ~Admitted(p, r)'
  <2> SUFFICES ASSUME intent'[r] = "absent"
               PROVE  Unsent(r)' /\ \A p \in Launchers : ~Admitted(p, r)'
    OBVIOUS
  <2>1. Unsent(r) /\ (\A p \in Launchers : ~Admitted(p, r)) /\ intent[r] = "absent"
    BY <1>4 DEF OnceFor
  <2>2. Unsent(r)'
    BY <1>1, <1>2, <1>5, <2>1 DEF Unsent
  <2>3. ASSUME NEW p \in Launchers, Admit(p), Sending(p, r) PROVE FALSE
    BY <2>1, <2>3 DEF Admit, Sending, Typed, DiskTyped
  <2> QED BY <1>3, <2>1, <2>2, <2>3
<1>10. \A p \in Launchers : Admitted(p, r)' => Unsent(r)'
  <2> SUFFICES ASSUME NEW p \in Launchers, Admitted(p, r)' PROVE Unsent(r)'
    OBVIOUS
  <2>1. CASE Admitted(p, r)
    <3>1. Unsent(r)
      BY <2>1 DEF OnceFor
    <3>2. \A s \in Sessions : r \notin IdsOf(queue'[s])
      BY <1>2, <1>6, <3>1 DEF Unsent
    <3> QED BY <1>1, <1>5, <3>1, <3>2 DEF Unsent
  <2>2. CASE Admit(p) /\ Sending(p, r)
    BY <1>7, <2>2 DEF Unsent
  <2> QED BY <1>3, <2>1, <2>2
<1>11. \A s \in Sessions : r \in IdsOf(queue'[s]) => started'[r] = 0
  <2> SUFFICES ASSUME NEW s \in Sessions, r \in IdsOf(queue'[s]) PROVE started'[r] = 0
    OBVIOUS
  <2>1. CASE r \in IdsOf(queue[s])
    <3>1. started[r] = 0
      BY <2>1 DEF OnceFor
    <3>2. ASSUME NEW t \in Sessions, Starts(t) PROVE FALSE
      <4>1. s = t
        BY <1>5, <2>1, <3>2 DEF OnceFor
      <4> QED BY <1>5, <3>2, <4>1
    <3> QED BY <1>1, <3>1, <3>2
  <2>2. CASE \E p \in Launchers : EnqueueTurn(p) /\ Admitted(p, r)
    BY <1>6, <2>2 DEF Unsent
  <2> QED BY <1>2, <2>1, <2>2
<1>12. \A s \in Sessions : Once(queue'[s], r)
  <2> SUFFICES ASSUME NEW s \in Sessions, Arrives(s), Unsent(r) PROVE Once(queue'[s], r)
    BY <1>2, <1>6 DEF OnceFor
  <2>1. /\ queue[s] \in Seq(MessageRow) /\ Message(r) \in MessageRow
        /\ queue'[s] = Append(queue[s], Message(r))
    BY <1>0 DEF Message, MessageRow
  <2>2. Once(queue[s], r) /\ r \notin IdsOf(queue[s])
    BY DEF OnceFor, Unsent
  <2>3. \A m \in MessageRow :
          m.run # r \/ r \notin IdsOf(queue[s]) => Once(Append(queue[s], m), r)
    BY <2>1, <2>2, OnceInQueue
  <2> QED BY <2>1, <2>2, <2>3
<1>13. \A s, t \in Sessions : r \in IdsOf(queue'[s]) /\ r \in IdsOf(queue'[t]) => s = t
  <2>1. CASE \E p \in Launchers : EnqueueTurn(p) /\ Admitted(p, r)
    BY <1>2, <1>6, <2>1 DEF Unsent
  <2>2. CASE ~\E p \in Launchers : EnqueueTurn(p) /\ Admitted(p, r)
    BY <1>2, <2>2 DEF OnceFor
  <2> QED BY <2>1, <2>2
<1>14. started'[r] <= 1
  <2>1. ASSUME NEW s \in Sessions, Starts(s) PROVE started[r] = 0
    BY <1>5, <2>1 DEF OnceFor
  <2> QED BY <1>1, <2>1 DEF OnceFor
<1> QED BY <1>8, <1>9, <1>10, <1>11, <1>12, <1>13, <1>14 DEF OnceFor

LEMMA AlwaysOnce == Spec /\ []OneSender => []\A r \in Runs : OnceFor(r)
<1> DEFINE Inv == \A r \in Runs : OnceFor(r)
<1>1. Init => Inv
  <2> SUFFICES ASSUME Init, NEW r \in Runs PROVE OnceFor(r)
    OBVIOUS
  <2>1. /\ \A s \in Sessions : IdsOf(queue[s]) = {} /\ Once(queue[s], r)
        /\ \A p \in Launchers : ~Sending(p, r) /\ ~Admitted(p, r)
        /\ started[r] = 0
    BY DEF Init, NoJob, Sending, Admitted, IdsOf, Once
  <2> QED BY <2>1 DEF OnceFor, Unsent
<1>2. Typed /\ OneSender /\ Inv /\ [Next]_vars => Inv'
  BY OnceStep
<1> HIDE DEF Inv
<1>3. Spec /\ []OneSender => []Inv
  BY <1>1, <1>2, AlwaysTyped, PTL DEF Spec
<1> QED BY <1>3 DEF Inv

\* However often a Run is delivered, its turn is started once, as long as no two
\* launchers send it at the same time.
THEOREM TurnsStartOnce == Spec /\ []OneSender => []TurnStartsOnce
<1>1. (\A r \in Runs : OnceFor(r)) => TurnStartsOnce
  BY DEF OnceFor, TurnStartsOnce
<1> QED BY <1>1, AlwaysOnce, PTL

\* The dispatcher alone starts every turn once, whatever crashes, stops and retries do.
THEOREM DispatcherStartsOnce ==
  ASSUME Inline = {}
  PROVE  Spec => []TurnStartsOnce
<1>1. OneSender
  BY DEF OneSender, Launchers
<1> QED BY <1>1, TurnsStartOnce, PTL

-----------------------------------------------------------------------------
(* Leases.  A claim of a Run gives its launcher a token nobody else has, so  *)
(* that only a launcher that was overtaken can send what another one sends.  *)

Delivering(p) == job[p].phase \notin {"idle", "reserved"}

\* No launcher has a token that was not given yet, and no two have the same.
TokensDiffer ==
  /\ \A p \in Launchers : Delivering(p) =>
       /\ run[job[p].run].status # "absent"
       /\ job[p].token <= outbox[job[p].run].tries
  /\ \A p, q \in Launchers :
       (/\ Delivering(p) /\ Delivering(q)
        /\ job[p].run = job[q].run /\ job[p].token = job[q].token) => p = q

\* A launcher delivers what it delivered before, or claims.
LEMMA WhoDelivers ==
  ASSUME Typed, [Next]_vars, NEW q \in Launchers, Delivering(q)'
  PROVE  \/ /\ Delivering(q)
            /\ job'[q].run = job[q].run /\ job'[q].token = job[q].token
         \/ \E r \in Runs : Claimed(q, r) /\ Store!Lease(r)
<1> USE DEF Delivering
<1>0. job \in [Launchers -> JobRow] /\ NoJob.phase = "idle" /\ Desktop \in Launchers
      /\ \A p \in Launchers : job[p].phase # "idle" => job[p].run \in Runs
  BY DEF Typed, MemoryTyped, JobTyped, NoJob, Launchers
<1> DEFINE Same == /\ Delivering(q)
                   /\ job'[q].run = job[q].run /\ job'[q].token = job[q].token
<1>1. ASSUME NEW p \in Launchers, NEW phase, At(p, phase), phase \notin {"idle", "reserved"},
             \/ \E to : Move(p, to)
             \/ \E failure : Abort(p, failure)
             \/ Rest(p)
      PROVE  Same
  BY <1>0, <1>1 DEF At, Move, Abort, Rest, JobRow
<1>2. ASSUME NEW p \in Launchers, LauncherStep(p)
      PROVE  Same \/ \E r \in Runs : Claimed(q, r) /\ Store!Lease(r)
  <2>1. CASE TakeReserved(p)
    <3>1. CASE Rest(p)
      BY <1>0, <3>1 DEF Rest
    <3>2. CASE Store!ClaimDispatchForRun(job[p].run) /\ Claimed(p, job[p].run)
      <4>1. job[p].run \in Runs /\ Store!Lease(job[p].run)
        BY <1>0, <2>1, <3>2 DEF TakeReserved, At, Store!ClaimDispatchForRun
      <4>2. p = q \/ job'[q] = job[q]
        BY <1>0, <3>2 DEF Claimed
      <4> QED BY <3>2, <4>1, <4>2
    <3> QED BY <2>1, <3>1, <3>2 DEF TakeReserved
  <2>2. CASE \/ Prepare(p) \/ Admit(p) \/ EnqueueTurn(p) \/ QueueFull(p) \/ Acknowledge(p)
             \/ GiveBack(p) \/ \E f \in Store!DispatchFailures : CannotLaunch(p, f)
    BY <1>1, <2>2 DEF Prepare, Admit, EnqueueTurn, QueueFull, Acknowledge, GiveBack, CannotLaunch
  <2> QED BY <1>2, <2>1, <2>2 DEF LauncherStep
<1>3. CASE ReconcileTerminalIntent
  BY <1>0, <1>1, <1>3 DEF ReconcileTerminalIntent
<1>4. ASSUME NEW x \in Runs, Take(x)
      PROVE  Same \/ \E r \in Runs : Claimed(q, r) /\ Store!Lease(r)
  <2>1. Store!Lease(x) /\ Claimed(Desktop, x)
    BY <1>4 DEF Take, Store!ClaimNextDispatch
  <2>2. q = Desktop \/ job'[q] = job[q]
    BY <1>0, <2>1 DEF Claimed
  <2> QED BY <2>1, <2>2
<1>5. ASSUME NEW x \in Runs, NEW p \in Inline, Reserve(p, x) PROVE Same
  BY <1>0, <1>5 DEF Reserve, NoJob
<1>6. CASE Crash
  BY <1>0, <1>6 DEF Crash
<1>7. ASSUME NEW s \in Sessions, WorkerStep(s) PROVE job' = job
  BY <1>7 DEF WorkerStep, DropStale, StartTurn, PromoteTurnToRunning, FinalizeSession,
              NotifySessionTerminal, CloseTurn, EndTurn, callers
<1>8. ASSUME NEW c \in Retriers, RetrierStep(c) PROVE job' = job
  BY <1>8 DEF RetrierStep, CheckRetry, RetryRefused, InsertRetry
<1>9. ASSUME RecoveryStep PROVE job' = job
  BY <1>9 DEF RecoveryStep, RunPersistenceStartupRecovery, ListInterrupted, FinishRecovery,
              SettleInterrupted, callers
<1>10. ASSUME UserStep, ~\E x \in Runs, p \in Inline : Reserve(p, x) PROVE job' = job
  BY <1>10 DEF UserStep, Say, Stop, Click, Produce, CancelRoutineRun, callers
<1>11. ASSUME \/ UNCHANGED vars
              \/ \E x \in Runs : DeadlinePasses(x)
              \/ \E x \in Launchers \cup Sessions : Epilogue(x)
              \/ \E p \in Paths : PathLockLapses(p)
       PROVE  job' = job
  BY <1>11 DEF vars, DeadlinePasses, Epilogue, PathLockLapses, callers
<1> QED BY <1>2, <1>3, <1>4, <1>5, <1>6, <1>7, <1>8, <1>9, <1>10, <1>11 DEF Next

\* The tokens in the hands of the launchers stay different.
LEMMA TokensStep ==
  ASSUME Typed, TokensDiffer, [Next]_vars
  PROVE  TokensDiffer'
<1>0. /\ job \in [Launchers -> JobRow]
      /\ \A p \in Launchers : Delivering(p) => job[p].run \in Runs /\ job[p].token \in Nat
      /\ \A r \in Runs : outbox[r].tries \in Nat
      /\ outbox \in [Runs -> Store!OutboxRow]
  BY DEF Typed, MemoryTyped, JobTyped, JobRow, Delivering, TablesTyped, Store!TypeOK,
         Store!OutboxRow
<1>1. [Proved!Next]_(Proved!vars)
  <2>1. Proved!Next \/ UNCHANGED store
    BY StepIsStore, SameStore DEF Typed
  <2>2. CASE UNCHANGED store
    BY <2>2 DEF store, Proved!vars
  <2> QED BY <2>1, <2>2
<1>2. Proved!TypeOK /\ Proved!ResumableHasSession
  BY SameTypes DEF Typed, TablesTyped, Proved!ResumableHasSession, Store!ResumableHasSession
\* A Run that was submitted stays, and its deliveries are counted.
<1>3. \A r \in Runs : run[r].status # "absent" =>
        /\ run'[r].status # "absent"
        /\ outbox'[r].tries \in Nat /\ outbox'[r].tries >= outbox[r].tries
  <2>1. \A r \in Runs : Proved!Kept(r)
    BY <1>1, <1>2, SameAssumptions, Proved!StepKeeps
  <2>2. \A r \in Runs : run[r].status # "absent" =>
          outbox'[r].tries \in Nat /\ outbox'[r].tries >= outbox[r].tries
    BY <1>1, <1>2, SameAssumptions, Proved!TriesGrow
  <2> QED BY <2>1, <2>2 DEF Proved!Kept
<1> DEFINE Goes(q) == /\ Delivering(q)
                      /\ job'[q].run = job[q].run /\ job'[q].token = job[q].token
           Takes(q, r) == Claimed(q, r) /\ Store!Lease(r)
<1>4. \A q \in Launchers : Delivering(q)' => Goes(q) \/ \E r \in Runs : Takes(q, r)
  BY WhoDelivers
\* A claim gives the token that comes next.
<1>5. ASSUME NEW q \in Launchers, NEW r \in Runs, Takes(q, r)
      PROVE  /\ job'[q].run = r /\ job'[q].token = outbox[r].tries + 1
             /\ outbox'[r].tries = outbox[r].tries + 1 /\ run'[r].status # "absent"
             /\ \A p \in Launchers \ {q} : job'[p] = job[p]
  <2>1. /\ job'[q].run = r /\ job'[q].token = outbox[r].tries + 1
        /\ \A p \in Launchers \ {q} : job'[p] = job[p]
    BY <1>0, <1>5 DEF Claimed, NoJob
  <2>2. outbox'[r].tries = outbox[r].tries + 1
    BY <1>0, <1>5 DEF Store!Lease, Store!OutboxRow
  <2>3. run[r].status # "absent"
    BY <1>5 DEF Store!Lease, Store!Claimable, Store!Open
  <2> QED BY <1>3, <2>1, <2>2, <2>3
<1>6. ASSUME NEW p \in Launchers, Delivering(p)'
      PROVE  run'[job'[p].run].status # "absent" /\ job'[p].token <= outbox'[job'[p].run].tries
  <2>1. CASE Goes(p)
    <3>1. /\ job[p].run \in Runs /\ run[job[p].run].status # "absent"
          /\ job[p].token \in Nat /\ job[p].token <= outbox[job[p].run].tries
      BY <1>0, <2>1 DEF TokensDiffer
    <3> QED BY <1>0, <1>3, <2>1, <3>1
  <2>2. ASSUME NEW r \in Runs, Takes(p, r)
        PROVE  run'[job'[p].run].status # "absent" /\ job'[p].token <= outbox'[job'[p].run].tries
    BY <1>0, <1>5, <2>2
  <2> QED BY <1>4, <1>6, <2>1, <2>2
<1>7. ASSUME NEW p \in Launchers, NEW q \in Launchers, Delivering(p)', Delivering(q)',
             job'[p].run = job'[q].run, job'[p].token = job'[q].token
      PROVE  p = q
  <2>1. CASE Goes(p) /\ Goes(q)
    BY <1>7, <2>1 DEF TokensDiffer
  \* Of two that meet, one that claimed has a token the other cannot have.
  <2>2. ASSUME NEW x \in Launchers, NEW y \in Launchers, NEW r \in Runs, x # y, Takes(x, r),
               Delivering(y)', job'[x].run = job'[y].run, job'[x].token = job'[y].token
        PROVE  FALSE
    <3>1. job'[y] = job[y] /\ job'[x].run = r /\ job'[x].token = outbox[r].tries + 1
      BY <1>5, <2>2
    <3>2. Delivering(y)
      BY <2>2, <3>1 DEF Delivering
    <3>3. job[y].token \in Nat /\ job[y].token <= outbox[r].tries
      BY <1>0, <2>2, <3>1, <3>2 DEF TokensDiffer
    <3> QED BY <1>0, <2>2, <3>1, <3>3
  <2> QED BY <1>4, <1>7, <2>1, <2>2
<1> QED BY <1>6, <1>7 DEF TokensDiffer

\* A launcher that sends was not overtaken: the Run was not claimed again since.
NotOvertaken ==
  \A p \in Launchers : job[p].phase \in {"sending", "admitted"} =>
    outbox[job[p].run].tries = job[p].token

\* A lease has one holder, whoever claims the Run and whenever leases expire.
LeaseHasOneHolder ==
  \A p, q \in Launchers :
    (/\ Delivering(p) /\ Store!Leased(job[p].run, job[p].token)
     /\ Delivering(q) /\ Store!Leased(job[q].run, job[q].token)
     /\ job[p].run = job[q].run) => p = q

LEMMA TokensAlwaysDiffer == Spec => []TokensDiffer
<1>1. Init => TokensDiffer
  BY DEF Init, NoJob, Delivering, TokensDiffer
<1>2. Typed /\ TokensDiffer /\ [Next]_vars => TokensDiffer'
  BY TokensStep
<1> QED BY <1>1, <1>2, AlwaysTyped, PTL DEF Spec

\* Two launchers never hold the lease of one Run: acknowledging and giving back are
\* open to one of them only.
THEOREM LeasesAreExclusive == Spec => []LeaseHasOneHolder
<1>1. TokensDiffer => LeaseHasOneHolder
  BY DEF TokensDiffer, LeaseHasOneHolder, Store!Leased
<1> QED BY <1>1, TokensAlwaysDiffer, PTL

\* So a turn is started once unless a launcher outlives its lease, is overtaken by
\* another claim of its Run and sends nevertheless.
THEOREM TurnsStartOnceUnlessOvertaken == Spec /\ []NotOvertaken => []TurnStartsOnce
<1>1. TokensDiffer /\ NotOvertaken => OneSender
  BY DEF TokensDiffer, NotOvertaken, OneSender, Sends, Sending, Admitted, Delivering
<1> QED BY <1>1, TokensAlwaysDiffer, TurnsStartOnce, PTL

-----------------------------------------------------------------------------
(* Who a Session works for.  Each retry in the Session of its parent makes   *)
(* that Session one of several Runs; the last of them alone may still use    *)
(* it.                                                                       *)

Present(r) == run[r].status # "absent"

HasRetry(r) == \E c \in Runs : run[c].parent = r

\* A process, a queue or a worker has Run r in its memory.
Busy(r) == (\E p \in Launchers : job[p].run = r) \/ \E s \in Sessions : Accounted(s, r)

\* Recovery is about to end Run r as abandoned, or to retry it.
Settling(r) ==
  ask[Desktop].run = r \/ \E c \in todo : c.run = r /\ c.status = "abandoned"

\* The turns and the rows of a Run are those of its target, which some start created.
Placed ==
  /\ \A r \in Runs : /\ run[r].session \in {NoSession, Target(r)}
                     /\ Present(r) => \E x \in Runs : Present(x) /\ Target(r) = Home[x]
                     /\ Busy(r) => Present(r)
                     /\ run[r].parent # NoRun => Present(r)
  /\ \A s \in Sessions :
       /\ \A r \in Runs : Accounted(s, r) => Target(r) = s
       /\ NoRun \notin IdsOf(queue[s])
       /\ turn[s].phase # "idle" => turn[s].run # NoRun
       /\ session[s].status # "absent" => \E x \in Runs : Present(x) /\ s = Home[x]

\* A process that is down remembers nothing, and only recovery settles and retries.
Recovering ==
  /\ host = "down" => \A r \in Runs : ~Busy(r)
  /\ host # "recovering" => todo = {} /\ ask[Desktop].run = NoRun

\* One Run of a Session has no retry.
LastOfSession ==
  \A q, r \in Runs :
    (/\ Present(q) /\ Present(r) /\ Target(q) = Target(r)
     /\ ~HasRetry(q) /\ ~HasRetry(r)) => q = r

\* A Run that was retried is over.
Retired == \A r \in Runs : HasRetry(r) => ~Busy(r) /\ ~Settling(r)

\* What recovery settles waits for it: nobody uses an abandoned Session meanwhile.
Abandoned ==
  /\ host \in {"booted", "recovering"} =>
       \A s \in Sessions, r \in Runs :
         session[s].status = "abandoned" /\ Busy(r) => Target(r) # s
  /\ \A r \in Runs :
       Settling(r) => Present(r) /\ session[Target(r)].status = "abandoned"
  /\ \A c, d \in todo : c.run = d.run => c = d
  /\ \A c \in todo : c.run # ask[Desktop].run

\* A Session that shows a completed turn completed that of its last Run.
Marked ==
  \A s \in Sessions :
    /\ "completed" \in {session[s].status, session[s].marker} =>
         \E q \in done : Present(q) /\ Target(q) = s /\ ~HasRetry(q)
    /\ session[s].status = "abandoned" => session[s].marker = "none"

\* Whatever says of a Run or of its turn that it completed is right.
Truthful ==
  /\ \A r \in Runs : run[r].status = "succeeded" \/ intent[r] = "completed" => r \in done
  /\ \A s \in Sessions : turn[s].outcome = "completed" => turn[s].run \in done
  /\ \A c \in todo : c.status = "completed" => c.run \in done

OwnInv == Placed /\ Recovering /\ LastOfSession /\ Retired /\ Abandoned /\ Marked /\ Truthful

\* What a transaction on the row of Run r, other than its insertion, may do to it.
RowKept(r) ==
  /\ run'[r].resume = run[r].resume /\ run'[r].parent = run[r].parent
  /\ Present(r)' <=> Present(r)

\* The transactions that insert no Run.
Transaction(r, t, s, f, v, S) ==
  \/ Store!Lease(r) \/ Store!AcknowledgeDispatchStarted(r, t, s)
  \/ Store!RecordDispatchFailure(r, t, f) \/ Store!RecordRunTerminal(r, s, v)
  \/ Store!CancelAssigneeEscalations(r) \/ Store!CancelRoutineRun(S)
  \/ Store!DeadlinePasses(r) \/ (\E p \in Paths : Store!PathLockLapses(p))
  \/ UNCHANGED store

\* No transaction but an insertion touches what a Run resumes and whose retry it is.
LEMMA StoreKeepsRows ==
  ASSUME Store!TypeOK, NEW r \in Runs, NEW t, NEW s, NEW f, NEW v \in Store!Verdicts,
         NEW S \in SUBSET Runs,
         Transaction(r, t, s, f, v, S),
         NEW q \in Runs
  PROVE  /\ RowKept(q)
         /\ \/ run'[q].session = run[q].session
            \/ /\ q = r /\ run'[q].session = s
               /\ \/ Store!AcknowledgeDispatchStarted(r, t, s)
                  \/ Store!RecordRunTerminal(r, s, v)
         /\ run'[q].status = "succeeded" =>
              \/ run[q].status = "succeeded"
              \/ q = r /\ Store!RecordRunTerminal(r, s, v) /\ v[1] = "succeeded" /\ run[r].status \in Store!Active
<1> USE DEF RowKept, Present
<1>0. run \in [Runs -> Store!RunRow]
  BY DEF Store!TypeOK
<1>1. CASE Store!Lease(r)
  BY <1>0, <1>1 DEF Store!Lease, Store!Claimable, Store!Open, Store!RunRow
<1>2. CASE Store!AcknowledgeDispatchStarted(r, t, s)
  BY <1>0, <1>2 DEF Store!AcknowledgeDispatchStarted, Store!MayAcknowledge, Store!Terminal,
                    Store!RunRow
<1>3. CASE Store!RecordDispatchFailure(r, t, f)
  <2>1. \/ run' = run
        \/ \E status \in {"deferred", "failed"} :
             /\ run[r].status = "dispatching"
             /\ run' = [run EXCEPT ![r].status = status, ![r].failure = f]
    BY <1>3 DEF Store!RecordDispatchFailure, Store!Nack
  <2> QED BY <1>0, <2>1 DEF Store!RunRow
<1>4. CASE Store!RecordRunTerminal(r, s, v)
  <2>1. \/ run' = run
        \/ /\ run[r].status \in Store!Active
           /\ run' = [run EXCEPT ![r].status = v[1], ![r].failure = v[2], ![r].session = s]
    BY <1>4 DEF Store!RecordRunTerminal
  <2>2. v[1] \in {"succeeded", "failed", "cancelled"}
    BY DEF Store!Verdicts
  <2> QED BY <1>0, <1>4, <2>1, <2>2 DEF Store!RunRow, Store!Active
<1>5. CASE Store!CancelAssigneeEscalations(r)
  BY <1>0, <1>5 DEF Store!CancelAssigneeEscalations, Store!Matching, Store!RunRow
<1>6. CASE Store!CancelRoutineRun(S)
  BY <1>0, <1>6 DEF Store!CancelRoutineRun, Store!Open, Store!Active, Store!RunRow
<1>7. CASE \/ Store!DeadlinePasses(r) \/ (\E p \in Paths : Store!PathLockLapses(p))
           \/ UNCHANGED store
  BY <1>7 DEF Store!DeadlinePasses, Store!PathLockLapses, store
<1> QED BY <1>1, <1>2, <1>3, <1>4, <1>5, <1>6, <1>7 DEF Transaction

\* A step that starts no Run and leaves recovery where it is: what it does to the rows
\* and the intents, to who is busy with a Run, to the turns, and to the Sessions.
RowsCalm ==
  \A r \in Runs :
    /\ RowKept(r)
    /\ run'[r].session \in {run[r].session, Target(r)}
    /\ run'[r].status = "succeeded" => run[r].status = "succeeded" \/ r \in done'

IntentsCalm ==
  \A r \in Runs : intent'[r] = "completed" => intent[r] = "completed" \/ r \in done'

MemoryCalm ==
  /\ \A r \in Runs : Busy(r)' => Busy(r) \/ (host = "up" /\ Present(r) /\ ~HasRetry(r))
  /\ \A s \in Sessions :
       /\ \A r \in Runs : Accounted(s, r)' => Accounted(s, r) \/ (Busy(r) /\ Target(r) = s)
       /\ NoRun \notin IdsOf(queue'[s])

TurnsCalm ==
  /\ \A s \in Sessions :
       /\ turn'[s].phase # "idle" => turn'[s].run # NoRun
       /\ turn'[s].outcome = "completed" => turn'[s].run \in done'
  /\ done \subseteq done' /\ done' \subseteq Runs

SessionsCalm ==
  \A s \in Sessions :
    \/ session'[s] = session[s]
    \/ /\ session'[s].status # "abandoned"
       /\ session'[s].marker \in {session[s].marker, session'[s].status}
       /\ \E r \in Runs : /\ Busy(r) /\ Target(r) = s
                          /\ session'[s].status = "completed" => r \in done

HostCalm ==
  host' = host /\ todo' \subseteq todo /\ ask'[Desktop].run \in {ask[Desktop].run, NoRun}

Calm == RowsCalm /\ IntentsCalm /\ MemoryCalm /\ TurnsCalm /\ SessionsCalm /\ HostCalm

\* The target of a Run is named when it is inserted.
LEMMA TargetKept ==
  ASSUME NEW r \in Runs, RowKept(r)
  PROVE  Target(r)' = Target(r)
BY DEF RowKept, Target

LEMMA CalmKeeps ==
  ASSUME Typed, OwnInv, Calm
  PROVE  OwnInv'
<1> USE DEF OwnInv, RowsCalm, IntentsCalm, MemoryCalm, TurnsCalm, SessionsCalm, HostCalm
<1>0. /\ \A r \in Runs : RowKept(r) /\ Target(r)' = Target(r) /\ (Present(r)' <=> Present(r))
      /\ \A r \in Runs : HasRetry(r)' <=> HasRetry(r)
      /\ NoRun \notin Runs
  BY TargetKept, StoreAssumption DEF Calm, RowKept, HasRetry, Store!IdAssumption
<1>1. \A r \in Runs : Settling(r)' => Settling(r)
  BY <1>0 DEF Calm, Settling
<1>2. \A s \in Sessions : session'[s] # session[s] =>
        \E r \in Runs : /\ Busy(r) /\ Present(r) /\ Target(r) = s /\ ~HasRetry(r)
                        /\ session'[s].status = "completed" => r \in done
  BY DEF Calm, Placed, Retired
<1>3. Placed'
  <2>1. \A r \in Runs : /\ run'[r].session \in {NoSession, Target(r)}
                        /\ Present(r)' => \E x \in Runs : Present(x)' /\ Target(r)' = Home[x]
                        /\ Busy(r)' => Present(r)'
                        /\ run'[r].parent # NoRun => Present(r)'
    BY <1>0 DEF Calm, Placed, RowKept
  <2>2. ASSUME NEW s \in Sessions
        PROVE  /\ \A r \in Runs : Accounted(s, r)' => Target(r)' = s
               /\ session'[s].status # "absent" => \E x \in Runs : Present(x)' /\ s = Home[x]
    BY <1>0, <1>2 DEF Calm, Placed
  <2> QED BY <1>0, <2>1, <2>2 DEF Calm, Placed
<1>4. Recovering'
  BY StoreAssumption DEF Calm, Recovering
<1>5. LastOfSession'
  BY <1>0 DEF LastOfSession
<1>6. Retired'
  BY <1>0, <1>1 DEF Calm, Retired
<1>7. Abandoned'
  <2>1. \A r \in Runs : Settling(r) => host = "recovering"
    BY <1>0 DEF Recovering, Settling
  <2>2. \A r \in Runs : Settling(r)' => Present(r)' /\ session'[Target(r)].status = "abandoned"
    <3> SUFFICES ASSUME NEW r \in Runs, Settling(r)'
                 PROVE  Present(r)' /\ session'[Target(r)].status = "abandoned"
      OBVIOUS
    <3>1. Settling(r) /\ Present(r) /\ session[Target(r)].status = "abandoned" /\ host = "recovering"
      BY <1>1, <2>1 DEF Abandoned
    <3>2. Target(r) \in Sessions
      BY TargetIsSession DEF Typed, TablesTyped
    <3>3. session'[Target(r)] = session[Target(r)]
      BY <1>2, <3>1, <3>2 DEF Abandoned
    <3> QED BY <1>0, <3>1, <3>3
  <2>3. host' \in {"booted", "recovering"} =>
          \A s \in Sessions, r \in Runs :
            session'[s].status = "abandoned" /\ Busy(r)' => Target(r)' # s
    BY <1>0 DEF Calm, Abandoned
  <2>4. \A c \in todo' : c.run \in Runs
    BY DEF Calm, Typed, MemoryTyped, HostTyped
  <2> QED BY <1>0, <2>2, <2>3, <2>4 DEF Calm, Abandoned
<1>8. Marked'
  <2> SUFFICES ASSUME NEW s \in Sessions
               PROVE  /\ "completed" \in {session'[s].status, session'[s].marker} =>
                           \E q \in done' : Present(q)' /\ Target(q)' = s /\ ~HasRetry(q)'
                      /\ session'[s].status = "abandoned" => session'[s].marker = "none"
    BY DEF Marked
  <2>1. done \subseteq Runs /\ done \subseteq done'
    BY DEF Calm, Typed, DiskTyped
  <2>2. "completed" \in {session[s].status, session[s].marker} =>
          \E q \in done' : Present(q)' /\ Target(q)' = s /\ ~HasRetry(q)'
    BY <1>0, <2>1 DEF Marked
  <2>3. CASE session'[s] = session[s]
    BY <2>2, <2>3 DEF Marked
  <2>4. CASE session'[s] # session[s]
    <3>1. session'[s].status = "completed" =>
            \E q \in done' : Present(q)' /\ Target(q)' = s /\ ~HasRetry(q)'
      BY <1>0, <1>2, <2>1, <2>4
    <3>2. session'[s].status # "abandoned" /\ session'[s].marker \in {session[s].marker, session'[s].status}
      BY <2>4 DEF Calm
    <3> QED BY <2>2, <3>1, <3>2
  <2> QED BY <2>3, <2>4
<1>9. Truthful'
  BY DEF Calm, Truthful
<1> QED BY <1>3, <1>4, <1>5, <1>6, <1>7, <1>8, <1>9

\* A transaction about Run r is calm if it binds r to its own Session, and ends it as
\* succeeded only if its turn completed.
LEMMA StoreIsCalm ==
  ASSUME Typed, NEW r \in Runs, NEW t, NEW s, NEW f, NEW v \in Store!Verdicts,
         NEW S \in SUBSET Runs, s = Target(r) \/ s = run[r].session,
         v[1] = "succeeded" /\ run[r].status \in Store!Active => r \in done',
         Transaction(r, t, s, f, v, S)
  PROVE  RowsCalm
<1> SUFFICES ASSUME NEW q \in Runs
             PROVE  /\ RowKept(q)
                    /\ run'[q].session \in {run[q].session, Target(q)}
                    /\ run'[q].status = "succeeded" => run[q].status = "succeeded" \/ q \in done'
  BY DEF RowsCalm
<1>1. Store!TypeOK
  BY DEF Typed, TablesTyped
<1>2. /\ RowKept(q)
      /\ run'[q].session = run[q].session \/ (q = r /\ run'[q].session = s)
      /\ run'[q].status = "succeeded" =>
           \/ run[q].status = "succeeded"
           \/ q = r /\ v[1] = "succeeded" /\ run[r].status \in Store!Active
  BY <1>1, StoreKeepsRows
<1> QED BY <1>2

\* The same for the step that ends a Run and remembers its escalations.
LEMMA EndIsCalm ==
  ASSUME Typed, NEW x, NEW r \in Runs, NEW s, NEW v \in Store!Verdicts,
         s = Target(r) \/ s = run[r].session, EndRun(x, r, s, v),
         v[1] = "succeeded" /\ run[r].status \in Store!Active => r \in done'
  PROVE  RowsCalm
<1>1. ASSUME NEW t, NEW f, NEW S \in SUBSET Runs PROVE Transaction(r, t, s, f, v, S)
  BY DEF EndRun, Transaction
<1> QED BY <1>1, StoreIsCalm

\* A step that writes one intent writes what became of its turn.
LEMMA IntentIsCalm ==
  ASSUME Typed, NEW r \in Runs, NEW to, to = "completed" => r \in done',
         UpdateIntent(r, to) \/ intent' = intent
  PROVE  IntentsCalm
BY DEF UpdateIntent, IntentsCalm, Typed, DiskTyped

\* Who has a Run in his memory keeps it or lets it go.
LEMMA MemoryIsCalm ==
  ASSUME OwnInv, \A p \in Launchers : job'[p].run \in {job[p].run, NoRun},
         \A s \in Sessions : turn'[s].run \in {turn[s].run, NoRun} \/ turn'[s].run \in IdsOf(queue[s]),
         \A s \in Sessions : IdsOf(queue'[s]) \subseteq IdsOf(queue[s])
  PROVE  MemoryCalm
<1>0. NoRun \notin Runs
  BY StoreAssumption DEF Store!IdAssumption
<1>1. \A s \in Sessions, r \in Runs : Accounted(s, r)' => Accounted(s, r)
  BY <1>0 DEF Accounted
<1>2. \A r \in Runs : Busy(r)' => Busy(r)
  BY <1>0, <1>1 DEF Busy
<1> QED BY <1>1, <1>2 DEF MemoryCalm, OwnInv, Placed

LEMMA LauncherIsCalm ==
  ASSUME Typed, OwnInv, NEW p \in Launchers, LauncherStep(p)
  PROVE  Calm
<1>0. /\ job \in [Launchers -> JobRow] /\ queue \in [Sessions -> Seq(MessageRow)]
      /\ session \in [Sessions -> [status: SessionStatus, marker: Outcomes \cup {"none"}]]
      /\ done \subseteq Runs /\ NoRun \notin Runs
      /\ job[p].phase # "idle" => /\ job[p].run \in Runs /\ Target(job[p].run) \in Sessions
                                  /\ Busy(job[p].run)
  BY TargetIsSession, StoreAssumption
     DEF Typed, TablesTyped, MemoryTyped, JobTyped, QueueTyped, DiskTyped, Store!IdAssumption, Busy
<1>1. At(p, job[p].phase) /\ job[p].phase # "idle" /\ UNCHANGED <<turn, ask, host, todo, started, done, spent>>
  BY DEF LauncherStep, TakeReserved, Prepare, Admit, EnqueueTurn, QueueFull, Acknowledge, GiveBack,
         CannotLaunch, At, workers, callers, history
<1> DEFINE r == job[p].run
<1>2. RowsCalm
  <2>1. PICK v \in Store!Verdicts : v[1] = "failed"
    BY DEF Store!Verdicts
  <2>2. \/ Store!Lease(r) \/ Store!AcknowledgeDispatchStarted(r, job[p].token, Target(r))
        \/ Store!RecordDispatchFailure(r, job[p].token, job[p].failure) \/ UNCHANGED store
    BY DEF LauncherStep, TakeReserved, Prepare, Admit, EnqueueTurn, QueueFull, Acknowledge, GiveBack,
           CannotLaunch, Store!ClaimDispatchForRun
  <2>4. Transaction(r, job[p].token, Target(r), job[p].failure, v, {})
    BY <2>2 DEF Transaction
  <2>3. v[1] # "succeeded" /\ r \in Runs
    BY <1>0, <1>1, <2>1
  <2> QED BY <2>1, <2>3, <2>4, StoreIsCalm
<1>3. IntentsCalm
  <2>1. CASE Admit(p)
    BY <2>1, <1>0 DEF Admit, IntentsCalm, Typed, DiskTyped
  <2>2. CASE QueueFull(p)
    BY <2>2, <1>0, <1>1, IntentIsCalm DEF QueueFull
  <2>3. CASE ~Admit(p) /\ ~QueueFull(p)
    BY <2>3 DEF LauncherStep, TakeReserved, Prepare, EnqueueTurn, Acknowledge, GiveBack,
           CannotLaunch, IntentsCalm, disk
  <2> QED BY <2>1, <2>2, <2>3
<1>4. \A x \in Launchers : job'[x].run \in {job[x].run, NoRun}
  <2>1. ASSUME NEW n, job' = [job EXCEPT ![p] = n], n.run \in {r, NoRun}
        PROVE  \A x \in Launchers : job'[x].run \in {job[x].run, NoRun}
    BY <1>0, <2>1
  <2>2. CASE TakeReserved(p)
    <3>1. NoJob.run = NoRun /\ [NoJob EXCEPT !.run = r, !.phase = "claimed", !.token = outbox[r].tries + 1].run = r
      BY DEF NoJob
    <3>2. Claimed(p, r) \/ Rest(p)
      BY <2>2 DEF TakeReserved
    <3>3. CASE Claimed(p, r)
      BY <2>1, <3>1, <3>3 DEF Claimed
    <3>4. CASE Rest(p)
      BY <2>1, <3>1, <3>4 DEF Rest
    <3> QED BY <3>2, <3>3, <3>4
  <2>3. CASE GiveBack(p) \/ (Acknowledge(p) /\ Rest(p))
    BY <2>1, <2>3 DEF GiveBack, Rest, NoJob
  <2>4. ASSUME NEW phase, Move(p, phase) \/ \E f : Abort(p, f)
        PROVE  \A x \in Launchers : job'[x].run \in {job[x].run, NoRun}
    <3>1. \/ job' = [job EXCEPT ![p].phase = phase]
          \/ \E f : job' = [job EXCEPT ![p].phase = "failed", ![p].failure = f]
      BY <2>4 DEF Move, Abort
    <3>2. CASE job' = [job EXCEPT ![p].phase = phase]
      BY <1>0, <3>2 DEF JobRow
    <3>3. ASSUME NEW f, job' = [job EXCEPT ![p].phase = "failed", ![p].failure = f]
          PROVE  \A x \in Launchers : job'[x].run \in {job[x].run, NoRun}
      <4>1. \A x \in Launchers : job'[x].run = job[x].run
        BY <1>0, <3>3, Zenon DEF JobRow
      <4> QED BY <4>1
    <3> QED BY <3>1, <3>2, <3>3
  <2>5. CASE Prepare(p)
    BY <2>4, <2>5 DEF Prepare
  <2>6. CASE Admit(p) \/ EnqueueTurn(p)
    BY <2>4, <2>6 DEF Admit, EnqueueTurn
  <2>7. CASE QueueFull(p) \/ \E f \in Store!DispatchFailures : CannotLaunch(p, f)
    BY <2>4, <2>7 DEF QueueFull, CannotLaunch
  <2>8. CASE Acknowledge(p)
    BY <2>3, <2>4, <2>8 DEF Acknowledge
  <2> QED BY <2>2, <2>3, <2>5, <2>6, <2>7, <2>8 DEF LauncherStep
<1>5. MemoryCalm
  <2>1. CASE UNCHANGED queue
    BY <1>1, <1>4, <2>1, MemoryIsCalm
  <2>2. CASE ~UNCHANGED queue
    <3>1. EnqueueTurn(p) /\ r \in Runs /\ Message(r) \in MessageRow /\ Message(r).run = r
      BY <1>0, <1>1, <2>2 DEF LauncherStep, TakeReserved, Prepare, Admit, QueueFull, Acknowledge,
         GiveBack, CannotLaunch, workers, Message, MessageRow
    <3>2. \A s \in Sessions : queue'[s] = queue[s] \/ (s = Target(r) /\ queue'[s] = Append(queue[s], Message(r)))
      BY <1>0, <3>1 DEF EnqueueTurn
    <3>3. \A s \in Sessions : IdsOf(queue'[s]) = IdsOf(queue[s]) \/ (s = Target(r) /\ IdsOf(queue'[s]) = IdsOf(queue[s]) \cup {r})
      <4> TAKE s \in Sessions
      <4>1. queue[s] \in Seq(MessageRow)
        BY <1>0
      <4>2. IdsOf(Append(queue[s], Message(r))) = IdsOf(queue[s]) \cup {r}
        <5>1. \A m \in MessageRow : IdsOf(Append(queue[s], m)) = IdsOf(queue[s]) \cup {m.run}
          BY <4>1, QueueIds
        <5> QED BY <3>1, <5>1
      <4> QED BY <3>2, <4>2
    <3>4. \A s \in Sessions, q \in Runs : Accounted(s, q)' => Accounted(s, q) \/ (q = r /\ Target(r) = s)
      BY <1>1, <3>3 DEF Accounted
    <3>5. \A q \in Runs : Busy(q)' => Busy(q)
      BY <1>0, <1>1, <1>4, <3>4 DEF Busy
    <3> QED BY <1>0, <1>1, <3>1, <3>3, <3>4, <3>5 DEF MemoryCalm, OwnInv, Placed
  <2> QED BY <2>1, <2>2
<1>6. TurnsCalm
  BY <1>0, <1>1 DEF TurnsCalm, OwnInv, Placed, Truthful
<1>7. SessionsCalm
  <2>1. session' = session \/ CreateSession(Target(r)) \/ MarkSessionFailed(r)
    BY DEF LauncherStep, TakeReserved, Prepare, Admit, EnqueueTurn, QueueFull, Acknowledge, GiveBack,
           CannotLaunch, disk
  <2>2. ASSUME NEW s \in Sessions, session'[s] # session[s]
        PROVE  /\ s = Target(r) /\ session'[s].status \in {"idle", "failed"}
               /\ session'[s].marker = session[s].marker
    BY <1>0, <1>1, <2>1, <2>2 DEF CreateSession, MarkSessionFailed, Target
  <2> QED BY <1>0, <1>1, <2>2 DEF SessionsCalm
<1>8. HostCalm
  BY <1>1 DEF HostCalm
<1> QED BY <1>2, <1>3, <1>5, <1>6, <1>7, <1>8 DEF Calm

\* An active Run was never retried.
LEMMA ActiveIsLast ==
  ASSUME Store!RetryLineage, NEW r \in Runs, run[r].status \in Store!Open \cup Store!Active
  PROVE  ~HasRetry(r) /\ Present(r)
BY StoreAssumption DEF Store!RetryLineage, Store!Lineage, HasRetry, Present, Store!Open, Store!Active,
       Store!IdAssumption

\* A worker in a turn is in that of a Run whose target is its Session.
LEMMA TurnIsOwn ==
  ASSUME Typed, OwnInv, NEW s \in Sessions, turn[s].phase # "idle"
  PROVE  turn[s].run \in Runs /\ Busy(turn[s].run) /\ Target(turn[s].run) = s
BY DEF Typed, MemoryTyped, TurnTyped, TurnRow, OwnInv, Placed, Busy, Accounted

\* The end of a Session's turn finds no Run active but that of the turn.
LEMMA NotifiesOwnRun ==
  ASSUME Typed, OwnInv, Store!RetryLineage, NEW s \in Sessions, turn[s].phase # "idle",
         NEW r \in Runs, run[r].session = s, run[r].status \in Store!Active
  PROVE  r = turn[s].run
<1>1. Target(r) = s /\ Present(r) /\ ~HasRetry(r)
  BY ActiveIsLast, StoreAssumption DEF OwnInv, Placed, Store!IdAssumption
<1>2. turn[s].run \in Runs /\ Target(turn[s].run) = s /\ Present(turn[s].run) /\ ~HasRetry(turn[s].run)
  BY TurnIsOwn DEF OwnInv, Placed, Retired
<1> QED BY <1>1, <1>2 DEF OwnInv, LastOfSession

LEMMA WorkerIsCalm ==
  ASSUME Typed, OwnInv, Store!RetryLineage, NEW w \in Sessions, WorkerStep(w)
  PROVE  Calm
<1>0. /\ queue \in [Sessions -> Seq(MessageRow)] /\ turn \in [Sessions -> TurnRow]
      /\ session \in [Sessions -> [status: SessionStatus, marker: Outcomes \cup {"none"}]]
      /\ intent \in [Runs -> IntentStatus] /\ done \subseteq Runs /\ NoRun \notin Runs
      /\ turn[w].phase = "idle" => turn[w].run = NoRun
      /\ turn[w].phase \in {"ended", "finalized", "notified"} => turn[w].outcome \in Outcomes
  BY StoreAssumption DEF Typed, MemoryTyped, QueueTyped, TurnTyped, DiskTyped, Store!IdAssumption
<1>1. /\ job' = job /\ ask' = ask /\ host' = host /\ todo' = todo
      /\ done \subseteq done' /\ done' \subseteq Runs
  <2>1. CASE \E o \in Outcomes : EndTurn(w, o)
    <3>1. turn[w].phase # "idle"
      BY <2>1 DEF EndTurn, Working
    <3> QED BY <1>0, <2>1, <3>1, TurnIsOwn DEF EndTurn, callers
  <2>2. CASE ~\E o \in Outcomes : EndTurn(w, o)
    BY <1>0, <2>2 DEF WorkerStep, DropStale, StartTurn, PromoteTurnToRunning, FinalizeSession,
                 NotifySessionTerminal, CloseTurn, callers, history
  <2> QED BY <2>1, <2>2
<1>2. queue[w] # <<>> => /\ Head(queue[w]).run \in Runs /\ Head(queue[w]).run \in IdsOf(queue[w])
                         /\ IdsOf(queue[w]) = IdsOf(Tail(queue[w])) \cup {Head(queue[w]).run}
  <2>1. queue[w] \in Seq(MessageRow)
    BY <1>0
  <2>2. queue[w] # <<>> => IdsOf(queue[w]) = IdsOf(Tail(queue[w])) \cup {Head(queue[w]).run}
    BY <2>1, QueueIds
  <2>3. queue[w] # <<>> => Head(queue[w]) \in MessageRow
    BY <2>1
  <2> QED BY <2>2, <2>3 DEF MessageRow, OwnInv, Placed
<1>3. turn[w].phase # "idle" => /\ turn[w].run \in Runs /\ Busy(turn[w].run) /\ Target(turn[w].run) = w
  BY TurnIsOwn
<1>4. RowsCalm
  <2>1. CASE \E o \in Outcomes : EndTurn(w, o)
    <3>1. PICK o \in Outcomes : EndTurn(w, o)
      BY <2>1
    <3> DEFINE r == turn[w].run
    <3>2. r \in Runs /\ Target(r) = w /\ r # NoRun
      BY <1>0, <1>3, <3>1 DEF EndTurn, Working
    <3>3. PICK v \in OutcomeVerdicts[o] : EndRun(w, r, w, v)
      BY <3>1, <3>2 DEF EndTurn
    <3>4. v \in Store!Verdicts /\ (v[1] = "succeeded" => o = "completed")
      BY VerdictsOfStore DEF OutcomeVerdicts, Outcomes
    <3>5. o = "completed" => r \in done'
      BY <3>1, <3>2 DEF EndTurn
    <3> QED BY <3>2, <3>3, <3>4, <3>5, EndIsCalm
  <2>2. ASSUME NotifySessionTerminal(w), ~UNCHANGED store PROVE RowsCalm
    <3> DEFINE o == turn[w].outcome
    <3>1. turn[w].phase # "idle" /\ o \in Outcomes
      BY <1>0, <2>2 DEF NotifySessionTerminal, Working
    <3>2. PICK r \in Runs : /\ run[r].session = w /\ run[r].status \in Store!Active
                            /\ EndRun(w, r, w, SessionVerdict[o])
      BY <2>2 DEF NotifySessionTerminal
    <3>3. r = turn[w].run
      BY <3>1, <3>2, NotifiesOwnRun
    <3>4. SessionVerdict[o] \in Store!Verdicts /\ (SessionVerdict[o][1] = "succeeded" => o = "completed")
      BY <3>1, VerdictsOfStore DEF SessionVerdict, Outcomes
    <3>5. o = "completed" => r \in done'
      BY <1>1, <3>3 DEF OwnInv, Truthful
    <3> QED BY <3>2, <3>4, <3>5, EndIsCalm
  <2>3. ASSUME UNCHANGED store PROVE RowsCalm
    BY <2>3 DEF RowsCalm, RowKept, Present, store
  <2>4. CASE DropStale(w) \/ StartTurn(w) \/ PromoteTurnToRunning(w) \/ FinalizeSession(w) \/ CloseTurn(w)
    BY <2>3, <2>4 DEF DropStale, StartTurn, PromoteTurnToRunning, FinalizeSession, CloseTurn
  <2> QED BY <2>1, <2>2, <2>3, <2>4 DEF WorkerStep
<1>5. IntentsCalm
  <2>1. CASE DropStale(w)
    <3>1. Head(queue[w]).run \in Runs
      BY <1>2, <2>1 DEF DropStale
    <3> QED BY <1>0, <2>1, <3>1, IntentIsCalm DEF DropStale
  <2>2. CASE StartTurn(w)
    <3>1. Head(queue[w]).run \in Runs
      BY <1>2, <2>2 DEF StartTurn
    <3> QED BY <1>0, <2>2, <3>1, IntentIsCalm DEF StartTurn
  <2>3. CASE CloseTurn(w)
    <3>1. turn[w].run \in Runs /\ (turn[w].outcome = "completed" => turn[w].run \in done')
      BY <1>1, <1>3, <2>3 DEF CloseTurn, Working, OwnInv, Truthful
    <3>2. UpdateIntent(turn[w].run, turn[w].outcome)
      BY <1>0, <2>3, <3>1 DEF CloseTurn
    <3> QED BY <3>1, <3>2, IntentIsCalm
  <2>4. CASE intent' = intent
    BY <2>4 DEF IntentsCalm
  <2> QED BY <2>1, <2>2, <2>3, <2>4 DEF WorkerStep, PromoteTurnToRunning, FinalizeSession,
                                      NotifySessionTerminal, EndTurn, disk
<1>6. \A s \in Sessions : /\ turn'[s].run \in {turn[s].run, NoRun} \/ turn'[s].run \in IdsOf(queue[s])
                          /\ turn'[s].phase # "idle" => turn'[s].run # NoRun
                          /\ turn'[s].outcome = "completed" => turn'[s].run \in done'
  <2> SUFFICES ASSUME NEW s \in Sessions
               PROVE  /\ turn'[s].run \in {turn[s].run, NoRun} \/ turn'[s].run \in IdsOf(queue[s])
                      /\ turn'[s].phase # "idle" => turn'[s].run # NoRun
                      /\ turn'[s].outcome = "completed" => turn'[s].run \in done'
    OBVIOUS
  <2>1. /\ turn[s].phase # "idle" => turn[s].run # NoRun
        /\ turn[s].outcome = "completed" => turn[s].run \in done'
    BY <1>1 DEF OwnInv, Placed, Truthful
  <2>2. CASE turn'[s] = turn[s]
    BY <2>1, <2>2
  <2>3. CASE StartTurn(w)
    <3>1. NoTurn = [run |-> NoRun, phase |-> "idle", outcome |-> "none"]
      BY DEF NoTurn
    <3>2. turn'[s] = turn[s] \/ (s = w /\ turn'[s].run = Head(queue[w]).run /\ turn'[s].outcome = "none")
      BY <1>0, <2>3, <3>1 DEF StartTurn
    <3> QED BY <1>0, <1>2, <2>2, <2>3, <3>2 DEF StartTurn
  <2>4. CASE CloseTurn(w)
    <3>1. turn'[s] = turn[s] \/ turn'[s] = NoTurn
      BY <1>0, <2>4 DEF CloseTurn
    <3> QED BY <2>2, <3>1 DEF NoTurn
  <2>5. CASE PromoteTurnToRunning(w) \/ FinalizeSession(w) \/ NotifySessionTerminal(w)
    <3>1. turn[w].phase # "idle" /\ \E phase : turn' = [turn EXCEPT ![w].phase = phase]
      BY <2>5 DEF PromoteTurnToRunning, FinalizeSession, NotifySessionTerminal, Working, Proceed
    <3>2. turn'[s] = turn[s] \/ (s = w /\ turn'[s].run = turn[s].run /\ turn'[s].outcome = turn[s].outcome)
      BY <1>0, <3>1 DEF TurnRow
    <3> QED BY <2>1, <2>2, <3>1, <3>2
  <2>6. ASSUME NEW o \in Outcomes, EndTurn(w, o)
        PROVE  /\ turn'[s].run \in {turn[s].run, NoRun} \/ turn'[s].run \in IdsOf(queue[s])
               /\ turn'[s].phase # "idle" => turn'[s].run # NoRun
               /\ turn'[s].outcome = "completed" => turn'[s].run \in done'
    <3>1. turn[w].phase # "idle" /\ turn[w].run \in Runs /\ turn[w].run # NoRun
      BY <1>0, <1>3, <2>6 DEF EndTurn, Working
    <3>2. o = "completed" => turn[w].run \in done'
      BY <2>6, <3>1 DEF EndTurn
    <3>3. turn'[s] = turn[s] \/ (s = w /\ turn'[s].run = turn[s].run /\ turn'[s].outcome = o)
      BY <1>0, <2>6 DEF EndTurn, TurnRow
    <3> QED BY <2>2, <3>1, <3>2, <3>3
  <2>7. CASE DropStale(w)
    BY <2>2, <2>7 DEF DropStale
  <2> QED BY <2>3, <2>4, <2>5, <2>6, <2>7 DEF WorkerStep
<1>7. TurnsCalm
  BY <1>1, <1>6 DEF TurnsCalm
<1>8. MemoryCalm
  <2>1. ASSUME NEW s \in Sessions PROVE IdsOf(queue'[s]) \subseteq IdsOf(queue[s])
    <3>1. \/ queue'[s] = queue[s]
          \/ s = w /\ queue[w] # <<>> /\ queue'[s] = Tail(queue[w])
      BY <1>0 DEF WorkerStep, DropStale, StartTurn, PromoteTurnToRunning, FinalizeSession,
                  NotifySessionTerminal, CloseTurn, EndTurn
    <3> QED BY <1>2, <3>1
  <2> QED BY <1>1, <1>6, <2>1, MemoryIsCalm
<1>9. SessionsCalm
  <2>1. CASE PromoteTurnToRunning(w)
    <3>1. turn[w].phase # "idle"
      BY <2>1 DEF PromoteTurnToRunning, Working
    <3> QED BY <1>0, <1>3, <2>1, <3>1 DEF PromoteTurnToRunning, SessionsCalm
  <2>2. CASE FinalizeSession(w)
    <3>1. turn[w].phase # "idle" /\ turn[w].outcome \in {"completed", "failed", "cancelled"}
      BY <1>0, <2>2 DEF FinalizeSession, Working, Outcomes
    <3>2. turn[w].outcome = "completed" => turn[w].run \in done
      BY DEF OwnInv, Truthful
    <3>3. \A s \in Sessions : session'[s] = IF s = w THEN [status |-> turn[w].outcome, marker |-> turn[w].outcome]
                                            ELSE session[s]
      BY <1>0, <2>2 DEF FinalizeSession
    <3> QED BY <1>3, <3>1, <3>2, <3>3 DEF SessionsCalm
  <2>3. CASE session' = session
    BY <2>3 DEF SessionsCalm
  <2> QED BY <2>1, <2>2, <2>3 DEF WorkerStep, DropStale, StartTurn, NotifySessionTerminal, CloseTurn,
                                 EndTurn, disk
<1>10. HostCalm
  BY <1>1 DEF HostCalm
<1> QED BY <1>4, <1>5, <1>7, <1>8, <1>9, <1>10 DEF Calm

\* What leaves the memory, the Sessions and the intents alone is calm if its transaction is.
LEMMA QuietIsCalm ==
  ASSUME Typed, OwnInv, RowsCalm, UNCHANGED <<disk, workers, job, host, todo, done>>,
         ask'[Desktop].run \in {ask[Desktop].run, NoRun}
  PROVE  Calm
<1>1. IntentsCalm /\ SessionsCalm /\ HostCalm
  BY DEF IntentsCalm, SessionsCalm, HostCalm, disk
<1>2. TurnsCalm
  BY DEF TurnsCalm, OwnInv, Placed, Truthful, workers, Typed, DiskTyped
<1>3. MemoryCalm
  BY MemoryIsCalm DEF workers
<1> QED BY <1>1, <1>2, <1>3 DEF Calm

\* The dispatcher takes what is open, which no one has retried.
LEMMA TakeIsCalm ==
  ASSUME Typed, OwnInv, Store!RetryLineage, NEW r \in Runs, Take(r)
  PROVE  Calm
<1>1. PICK v \in Store!Verdicts : v[1] = "failed"
  BY DEF Store!Verdicts
<1>2. Transaction(r, 0, Target(r), 0, v, {}) /\ run[r].status \in Store!Open /\ host = "up"
  BY DEF Take, Transaction, Store!ClaimNextDispatch, Store!Lease, Store!Claimable
<1>3. RowsCalm
  BY <1>1, <1>2, StoreIsCalm
<1>4. ~HasRetry(r) /\ Present(r)
  BY <1>2, ActiveIsLast
<1>5. \A p \in Launchers : job'[p].run \in {job[p].run, r}
  BY DEF Take, Claimed, Typed, MemoryTyped, JobTyped, NoJob
<1>6. UNCHANGED <<disk, workers, ask, host, todo, done>>
  BY DEF Take, history
<1>7. IntentsCalm /\ SessionsCalm /\ HostCalm
  BY <1>6 DEF IntentsCalm, SessionsCalm, HostCalm, disk
<1>8. TurnsCalm
  BY <1>6 DEF TurnsCalm, OwnInv, Placed, Truthful, workers, Typed, DiskTyped
<1>9. MemoryCalm
  <2>1. \A s \in Sessions, q \in Runs : Accounted(s, q)' => Accounted(s, q)
    BY <1>6 DEF workers, Accounted
  <2>2. \A q \in Runs : Busy(q)' => Busy(q) \/ q = r
    BY <1>5, <2>1 DEF Busy
  <2> QED BY <1>2, <1>4, <1>6, <2>1, <2>2 DEF MemoryCalm, OwnInv, Placed, workers
<1> QED BY <1>3, <1>7, <1>8, <1>9 DEF Calm

\* An intent that is completed is that of a completed turn.
LEMMA ReconcileIsCalm ==
  ASSUME Typed, OwnInv, ReconcileTerminalIntent
  PROVE  Calm
<1> DEFINE r == job[Desktop].run
<1>1. r \in Runs /\ UNCHANGED <<disk, workers, ask, host, todo, done>>
  BY DEF ReconcileTerminalIntent, At, Typed, MemoryTyped, JobTyped, Launchers, history
<1>2. RowsCalm
  <2>1. CASE intent[r] \in DOMAIN IntentVerdict
    <3>1. EndRun(Desktop, r, Target(r), IntentVerdict[intent[r]])
      BY <2>1 DEF ReconcileTerminalIntent
    <3>2. IntentVerdict[intent[r]] \in Store!Verdicts
      BY <2>1, VerdictsOfStore
    <3>3. IntentVerdict[intent[r]][1] = "succeeded" => intent[r] = "completed"
      BY <2>1 DEF IntentVerdict
    <3>4. intent[r] = "completed" => r \in done'
      BY <1>1 DEF OwnInv, Truthful
    <3> QED BY <1>1, <3>1, <3>2, <3>3, <3>4, EndIsCalm
  <2>2. CASE intent[r] \notin DOMAIN IntentVerdict
    BY <2>2 DEF ReconcileTerminalIntent, RowsCalm, RowKept, Present, store
  <2> QED BY <2>1, <2>2
<1>3. \A p \in Launchers : job'[p].run \in {job[p].run, NoRun}
  BY DEF ReconcileTerminalIntent, Rest, NoJob, Typed, MemoryTyped, JobTyped
<1>4. IntentsCalm /\ SessionsCalm /\ HostCalm
  BY <1>1 DEF IntentsCalm, SessionsCalm, HostCalm, disk
<1>5. TurnsCalm
  BY <1>1 DEF TurnsCalm, OwnInv, Placed, Truthful, workers, Typed, DiskTyped
<1>6. MemoryCalm
  BY <1>1, <1>3, MemoryIsCalm DEF workers
<1> QED BY <1>2, <1>4, <1>5, <1>6 DEF Calm

\* The Sessions have no turns but those of Runs, and only recovery retries.
OwnTurnsOnly == Earlier = {} /\ Clicks = {} /\ MaxUserTurns = 0

\* What the bounds of the model count is a number.
SpentTyped == spent \in [crashes: Nat, stops: Nat, said: Nat, cancels: Nat]

LEMMA AlwaysSpent == Spec => []SpentTyped
<1>1. Init => SpentTyped
  BY DEF Init, SpentTyped
<1>2. SpentTyped /\ [Next]_vars => SpentTyped'
  <2> SUFFICES ASSUME SpentTyped, [Next]_vars PROVE SpentTyped'
    OBVIOUS
  <2>1. ASSUME NEW p \in Launchers, LauncherStep(p) PROVE spent' = spent
    BY <2>1 DEF LauncherStep, TakeReserved, Prepare, Admit, EnqueueTurn, QueueFull, Acknowledge,
                GiveBack, CannotLaunch, history
  <2>2. ASSUME NEW s \in Sessions, WorkerStep(s) PROVE spent' = spent
    BY <2>2 DEF WorkerStep, DropStale, StartTurn, PromoteTurnToRunning, FinalizeSession,
                NotifySessionTerminal, CloseTurn, EndTurn, history
  <2>3. ASSUME NEW c \in Retriers, RetrierStep(c) PROVE spent' = spent
    BY <2>3 DEF RetrierStep, CheckRetry, RetryRefused, InsertRetry, history
  <2>4. CASE RecoveryStep
    BY <2>4 DEF RecoveryStep, RunPersistenceStartupRecovery, ListInterrupted, FinishRecovery,
                SettleInterrupted, history, SpentTyped
  <2>5. CASE UserStep
    <3>1. \/ spent' = spent \/ spent' = [spent EXCEPT !.said = @ + 1]
          \/ spent' = [spent EXCEPT !.stops = @ + 1] \/ spent' = [spent EXCEPT !.cancels = @ + 1]
      BY <2>5 DEF UserStep, Say, Stop, Click, Produce, Reserve, CancelRoutineRun, history
    <3> QED BY <3>1 DEF SpentTyped
  <2>6. CASE \/ ReconcileTerminalIntent \/ UNCHANGED vars
             \/ \E r \in Runs : Take(r) \/ DeadlinePasses(r)
             \/ \E x \in Launchers \cup Sessions : Epilogue(x)
             \/ \E p \in Paths : PathLockLapses(p)
    BY <2>6 DEF ReconcileTerminalIntent, vars, Take, DeadlinePasses, Epilogue, PathLockLapses,
                history, SpentTyped
  <2>7. CASE Crash
    BY <2>7 DEF Crash, SpentTyped
  <2> QED BY <2>1, <2>2, <2>3, <2>4, <2>5, <2>6, <2>7 DEF Next, SpentTyped
<1> QED BY <1>1, <1>2, PTL DEF Spec

LEMMA OthersAreCalm ==
  ASSUME Typed, OwnInv, OwnTurnsOnly, SpentTyped,
         \/ (\E x \in Launchers \cup Sessions : Epilogue(x))
         \/ (\E r \in Runs : DeadlinePasses(r)) \/ (\E p \in Paths : PathLockLapses(p))
         \/ (\E c \in Retriers : CheckRetry(c) \/ RetryRefused(c))
         \/ (\E s \in Sessions : Say(s) \/ Stop(s)) \/ (\E c \in Clicks, p \in Runs : Click(c, p))
         \/ (\E S \in SUBSET Runs : CancelRoutineRun(S)) \/ UNCHANGED vars
  PROVE  Calm
<1>0. PICK v \in Store!Verdicts : v[1] = "failed"
  BY DEF Store!Verdicts
<1>a. ASSUME NEW r \in Runs, NEW S \in SUBSET Runs, Transaction(r, 0, Target(r), 0, v, S) PROVE RowsCalm
  BY <1>0, <1>a, StoreIsCalm
<1>b. ASSUME UNCHANGED store PROVE RowsCalm
  BY <1>b DEF RowsCalm, RowKept, Present, store
<1>1. ASSUME NEW x \in Launchers \cup Sessions, Epilogue(x) PROVE Calm
  <2>1. owes[x] \in Runs /\ (Store!CancelAssigneeEscalations(owes[x]) \/ UNCHANGED store)
    BY <1>1 DEF Epilogue, Typed, MemoryTyped, HostTyped
  <2>2. Transaction(owes[x], 0, Target(owes[x]), 0, v, {})
    BY <2>1 DEF Transaction
  <2> QED BY <1>1, <1>a, <2>1, <2>2, QuietIsCalm DEF Epilogue, callers, history
<1>2. ASSUME NEW r \in Runs, DeadlinePasses(r) PROVE Calm
  <2>1. Transaction(r, 0, Target(r), 0, v, {})
    BY <1>2 DEF DeadlinePasses, Transaction
  <2> QED BY <1>2, <1>a, <2>1, QuietIsCalm DEF DeadlinePasses, callers, history
<1>3. ASSUME NEW p \in Paths, PathLockLapses(p) PROVE Calm
  <2>1. RowsCalm
    BY <1>3 DEF PathLockLapses, Store!PathLockLapses, RowsCalm, RowKept, Present
  <2> QED BY <1>3, <2>1, QuietIsCalm DEF PathLockLapses, callers, history
<1>4. ASSUME NEW c \in Retriers, CheckRetry(c) \/ RetryRefused(c) PROVE Calm
  <2>1. ask'[Desktop].run \in {ask[Desktop].run, NoRun}
    BY <1>4 DEF CheckRetry, RetryRefused, NoAsk, Typed, MemoryTyped, AskTyped, AskRow, Retriers
  <2> QED BY <1>4, <1>b, <2>1, QuietIsCalm DEF CheckRetry, RetryRefused, history
<1>5. ASSUME NEW s \in Sessions, Stop(s) PROVE Calm
  <2>1. UNCHANGED <<store, session, turn, job, ask, host, todo, done>>
    BY <1>5 DEF Stop, callers
  <2>2. RowsCalm /\ IntentsCalm /\ SessionsCalm /\ HostCalm
    BY <1>5, <1>b, <2>1 DEF Stop, IntentsCalm, SessionsCalm, HostCalm
  <2>3. TurnsCalm
    BY <2>1 DEF TurnsCalm, OwnInv, Placed, Truthful, Typed, DiskTyped
  <2>4. ASSUME NEW u \in Sessions PROVE IdsOf(queue'[u]) \subseteq IdsOf(queue[u])
    <3>1. queue[u] \in Seq(MessageRow)
      BY DEF Typed, MemoryTyped, QueueTyped
    <3>2. \/ queue'[u] = queue[u]
          \/ queue'[u] = [i \in DOMAIN queue[u] |-> [queue[u][i] EXCEPT !.stale = TRUE]]
      BY <1>5 DEF Stop, Typed, MemoryTyped, QueueTyped
    <3>3. IdsOf([i \in DOMAIN queue[u] |-> [queue[u][i] EXCEPT !.stale = TRUE]]) = IdsOf(queue[u])
      BY <3>1, QueueIds
    <3> QED BY <3>2, <3>3
  <2>5. MemoryCalm
    BY <2>1, <2>4, MemoryIsCalm
  <2> QED BY <2>2, <2>3, <2>5 DEF Calm
<1>6. ASSUME NEW s \in Sessions PROVE ~Say(s)
  BY DEF Say, OwnTurnsOnly, SpentTyped
<1>7. ASSUME NEW S \in SUBSET Runs, CancelRoutineRun(S) PROVE Calm
  <2>1. ASSUME NEW r \in Runs PROVE RowsCalm
    BY <1>7, <1>a, <2>1 DEF CancelRoutineRun, Transaction
  <2>2. RowsCalm
    BY <2>1 DEF RowsCalm
  <2> QED BY <1>7, <2>2, QuietIsCalm DEF CancelRoutineRun, callers, history
<1>8. CASE UNCHANGED vars
  BY <1>8, <1>b, QuietIsCalm DEF vars, callers, history
<1> QED BY <1>1, <1>2, <1>3, <1>4, <1>5, <1>6, <1>7, <1>8 DEF OwnTurnsOnly

\* A process that dies forgets; what it has written stays true.
LEMMA CrashKeepsOwn ==
  ASSUME Typed, OwnInv, Crash
  PROVE  OwnInv'
<1>1. /\ run' = run /\ session' = session /\ intent' = intent /\ done' = done
      /\ todo' = {} /\ host' = "down" /\ NoRun \notin Runs
      /\ \A s \in Sessions : queue'[s] = <<>> /\ turn'[s] = NoTurn
      /\ \A p \in Launchers : job'[p].run = NoRun
      /\ ask'[Desktop].run = NoRun
  BY StoreAssumption DEF Crash, store, disk, NoJob, NoAsk, Retriers, Store!IdAssumption
<1>2. \A s \in Sessions : /\ IdsOf(queue'[s]) = {}
                          /\ turn'[s].run = NoRun /\ turn'[s].phase = "idle" /\ turn'[s].outcome = "none"
  BY <1>1 DEF IdsOf, NoTurn
<1>3. /\ \A r \in Runs : ~Busy(r)' /\ ~Settling(r)' /\ Target(r)' = Target(r)
      /\ \A s \in Sessions, r \in Runs : ~Accounted(s, r)'
      /\ \A r \in Runs : (HasRetry(r)' <=> HasRetry(r)) /\ (Present(r)' <=> Present(r))
  BY <1>1, <1>2 DEF Busy, Accounted, Settling, Target, HasRetry, Present
<1>4. Placed'
  <2>1. \A r \in Runs : /\ run'[r].session \in {NoSession, Target(r)'}
                        /\ Present(r)' => \E x \in Runs : Present(x)' /\ Target(r)' = Home[x]
                        /\ Busy(r)' => Present(r)'
                        /\ run'[r].parent # NoRun => Present(r)'
    BY <1>1, <1>3 DEF OwnInv, Placed
  <2>2. ASSUME NEW s \in Sessions
        PROVE  /\ \A r \in Runs : Accounted(s, r)' => Target(r)' = s
               /\ NoRun \notin IdsOf(queue'[s])
               /\ turn'[s].phase # "idle" => turn'[s].run # NoRun
               /\ session'[s].status # "absent" => \E x \in Runs : Present(x)' /\ s = Home[x]
    <3>1. session[s].status # "absent" => \E x \in Runs : Present(x) /\ s = Home[x]
      BY DEF OwnInv, Placed
    <3> QED BY <1>1, <1>2, <1>3, <3>1
  <2> QED BY <2>1, <2>2 DEF Placed
<1>5. Recovering' /\ Retired' /\ Abandoned'
  BY <1>1, <1>3 DEF Recovering, Retired, Abandoned
<1>6. LastOfSession' /\ Marked'
  <2>1. done \subseteq Runs
    BY DEF Typed, DiskTyped
  <2> QED BY <1>1, <1>3, <2>1 DEF OwnInv, LastOfSession, Marked
<1>7. Truthful'
  BY <1>1, <1>2 DEF OwnInv, Truthful
<1> QED BY <1>4, <1>5, <1>6, <1>7 DEF OwnInv

\* The rows, the Sessions' Runs and the memory are as before.
LEMMA SameOwners ==
  ASSUME run' = run, UNCHANGED <<workers, job>>
  PROVE  /\ \A r \in Runs : /\ Target(r)' = Target(r) /\ (Present(r)' <=> Present(r))
                            /\ (HasRetry(r)' <=> HasRetry(r)) /\ (Busy(r)' <=> Busy(r))
         /\ \A s \in Sessions, r \in Runs : Accounted(s, r)' <=> Accounted(s, r)
BY DEF Target, Present, HasRetry, Busy, Accounted, workers

\* Recovery marks as abandoned a Session that completed nothing, while nobody is busy.
LEMMA StartupKeepsOwn ==
  ASSUME Typed, OwnInv, RunPersistenceStartupRecovery
  PROVE  OwnInv'
<1> USE DEF OwnInv
<1>1. /\ run' = run /\ done' = done /\ todo' = todo /\ ask' = ask /\ host = "down" /\ host' = "booted"
      /\ UNCHANGED <<workers, job>> /\ queue' = queue /\ turn' = turn
  BY DEF RunPersistenceStartupRecovery, store, callers, history, workers
<1>2. /\ todo = {} /\ ask[Desktop].run = NoRun /\ NoRun \notin Runs
      /\ \A r \in Runs : ~Busy(r) /\ ~Settling(r)' /\ ~Settling(r)
  BY <1>1, StoreAssumption DEF Recovering, Settling, Store!IdAssumption
<1>3. \A s \in Sessions :
        \/ session'[s] = session[s]
        \/ /\ session[s].status = "running" /\ session'[s].marker = session[s].marker
           /\ session'[s].status = IF session[s].marker = "none" THEN "abandoned" ELSE session[s].marker
  BY DEF RunPersistenceStartupRecovery, Typed, DiskTyped
<1>4. \A r \in Runs : intent'[r] = "completed" => intent[r] = "completed"
  BY DEF RunPersistenceStartupRecovery
<1>5. Placed'
  <2>1. \A s \in Sessions : session'[s].status # "absent" => session[s].status # "absent"
    BY <1>3 DEF Typed, DiskTyped, Outcomes
  <2> QED BY <1>1, <2>1, SameOwners DEF Placed
<1>6. Recovering' /\ Retired' /\ Abandoned'
  BY <1>1, <1>2, SameOwners DEF Recovering, Retired, Abandoned
<1>7. LastOfSession'
  BY <1>1, SameOwners DEF LastOfSession
<1>8. Marked'
  <2>1. done \subseteq Runs
    BY DEF Typed, DiskTyped
  <2>2. ASSUME NEW s \in Sessions
        PROVE  /\ "completed" \in {session'[s].status, session'[s].marker} =>
                    "completed" \in {session[s].status, session[s].marker}
               /\ session'[s].status = "abandoned" => session'[s].marker = "none"
    BY <1>3 DEF Marked, Typed, DiskTyped, Outcomes
  <2> QED BY <1>1, <2>1, <2>2, SameOwners DEF Marked
<1>9. Truthful'
  BY <1>1, <1>2, <1>4 DEF Truthful
<1> QED BY <1>5, <1>6, <1>7, <1>8, <1>9

\* What recovery lists is active, and so the last Run of its Session.
LEMMA ListingKeepsOwn ==
  ASSUME Typed, OwnInv, Store!RetryLineage, ListInterrupted
  PROVE  OwnInv'
<1> USE DEF OwnInv
<1>1. /\ run' = run /\ done' = done /\ ask' = ask /\ session' = session /\ intent' = intent
      /\ host = "booted" /\ host' = "recovering"
      /\ UNCHANGED <<workers, job>> /\ queue' = queue /\ turn' = turn
  BY DEF ListInterrupted, store, callers, history, workers, disk
<1>2. NoRun \notin Runs /\ ask[Desktop].run = NoRun
  BY <1>1, StoreAssumption DEF Recovering, Store!IdAssumption
<1>3. \A c \in todo' : /\ c.run \in Runs /\ run[c.run].status \in Store!Active
                       /\ run[c.run].session = Target(c.run)
                       /\ c.status = session[Target(c.run)].status
                       /\ Present(c.run) /\ ~HasRetry(c.run)
                       /\ c = [run |-> c.run, status |-> session[Target(c.run)].status]
  <2>1. \A c \in todo' : \E r \in Runs : /\ c = [run |-> r, status |-> session[run[r].session].status]
                                         /\ run[r].status \in Store!Active
                                         /\ run[r].session # NoSession
    BY DEF ListInterrupted
  <2> QED BY <2>1, ActiveIsLast DEF Placed
<1>4. Placed'
  BY <1>1, SameOwners DEF Placed
<1>5. Recovering' /\ LastOfSession'
  BY <1>1, SameOwners DEF Recovering, LastOfSession
<1>6. Retired'
  BY <1>1, <1>2, <1>3, SameOwners DEF Retired, Settling
<1>7. Abandoned'
  <2>1. \A r \in Runs : Settling(r)' => Present(r)' /\ session'[Target(r)'].status = "abandoned"
    BY <1>1, <1>2, <1>3, SameOwners DEF Settling
  <2>2. \A c, d \in todo' : c.run = d.run => c = d
    BY <1>3
  <2> QED BY <1>1, <1>2, <1>3, <2>1, <2>2, SameOwners DEF Abandoned
<1>8. Marked'
  <2>1. done \subseteq Runs
    BY DEF Typed, DiskTyped
  <2> QED BY <1>1, <2>1, SameOwners DEF Marked
<1>9. Truthful'
  <2>1. ASSUME NEW c \in todo', c.status = "completed" PROVE c.run \in done
    <3>1. Target(c.run) \in Sessions
      BY <1>3, TargetIsSession DEF Typed, TablesTyped
    <3>2. PICK q \in done : Present(q) /\ Target(q) = Target(c.run) /\ ~HasRetry(q)
      BY <1>3, <2>1, <3>1 DEF Marked
    <3>3. q \in Runs
      BY DEF Typed, DiskTyped
    <3> QED BY <1>3, <3>2, <3>3 DEF LastOfSession
  <2> QED BY <1>1, <2>1 DEF Truthful
<1> QED BY <1>4, <1>5, <1>6, <1>7, <1>8, <1>9

\* Recovery settles what it has listed, and asks for the retry of what was abandoned.
LEMMA SettlingKeepsOwn ==
  ASSUME Typed, OwnInv, NEW c \in todo, SettleInterrupted(c)
  PROVE  OwnInv'
<1> USE DEF OwnInv
<1> DEFINE r == c.run
<1>1. /\ r \in Runs /\ NoRun \notin Runs
      /\ done' = done /\ session' = session /\ intent' = intent /\ todo' = todo \ {c}
      /\ host = "recovering" /\ host' = host /\ ask[Desktop].run = NoRun
      /\ UNCHANGED <<workers, job>> /\ queue' = queue /\ turn' = turn
      /\ ask'[Desktop].run = NoRun \/ (c.status = "abandoned" /\ ask'[Desktop].run = r)
  <2>1. r \in Runs /\ ask \in [Retriers -> AskRow] /\ Desktop \in Retriers
    BY DEF Typed, MemoryTyped, HostTyped, AskTyped, Retriers
  <2>2. ask' = ask \/ (c.status = "abandoned" /\ ask' = [ask EXCEPT ![Desktop] = [run |-> r, phase |-> "asked"]])
    BY DEF SettleInterrupted
  <2>3. ask'[Desktop].run = ask[Desktop].run \/ (c.status = "abandoned" /\ ask'[Desktop].run = r)
    BY <2>1, <2>2
  <2> QED BY <2>1, <2>3, StoreAssumption
          DEF SettleInterrupted, disk, workers, history, NoAsk, Store!IdAssumption
<1>2. RowsCalm
  <2>1. CASE c.status \in DOMAIN InterruptedVerdict
    <3>1. EndRun(Desktop, r, run[r].session, InterruptedVerdict[c.status])
      BY <2>1 DEF SettleInterrupted
    <3>2. InterruptedVerdict[c.status] \in Store!Verdicts
      BY <2>1, VerdictsOfStore
    <3>3. InterruptedVerdict[c.status][1] = "succeeded" => c.status = "completed"
      BY <2>1 DEF InterruptedVerdict
    <3>4. c.status = "completed" => r \in done'
      BY <1>1 DEF Truthful
    <3> QED BY <1>1, <3>1, <3>2, <3>3, <3>4, EndIsCalm
  <2>2. CASE c.status \notin DOMAIN InterruptedVerdict
    BY <2>2 DEF SettleInterrupted, RowsCalm, RowKept, Present, store
  <2> QED BY <2>1, <2>2
<1>3. /\ \A q \in Runs : /\ Target(q)' = Target(q) /\ (Present(q)' <=> Present(q))
                         /\ (HasRetry(q)' <=> HasRetry(q)) /\ (Busy(q)' <=> Busy(q))
      /\ \A s \in Sessions, q \in Runs : Accounted(s, q)' <=> Accounted(s, q)
  BY <1>1, <1>2, TargetKept DEF RowsCalm, RowKept, HasRetry, Busy, Accounted
<1>4. \A q \in Runs : Settling(q)' => Settling(q)
  BY <1>1 DEF Settling
<1>5. Placed'
  <2>1. \A q \in Runs : /\ run'[q].session \in {NoSession, Target(q)'}
                        /\ run'[q].parent # NoRun => Present(q)'
    BY <1>2, <1>3 DEF Placed, RowsCalm, RowKept
  <2>2. \A q \in Runs : /\ Present(q)' => \E x \in Runs : Present(x)' /\ Target(q)' = Home[x]
                        /\ Busy(q)' => Present(q)'
    BY <1>3 DEF Placed
  <2>3. ASSUME NEW s \in Sessions
        PROVE  /\ \A q \in Runs : Accounted(s, q)' => Target(q)' = s
               /\ NoRun \notin IdsOf(queue'[s])
               /\ turn'[s].phase # "idle" => turn'[s].run # NoRun
               /\ session'[s].status # "absent" => \E x \in Runs : Present(x)' /\ s = Home[x]
    BY <1>1, <1>3 DEF Placed
  <2> QED BY <2>1, <2>2, <2>3 DEF Placed
<1>6. Recovering' /\ LastOfSession' /\ Retired'
  BY <1>1, <1>3, <1>4 DEF Recovering, LastOfSession, Retired
<1>7. Abandoned'
  <2>1. \A d \in todo' : d.run # ask'[Desktop].run
    BY <1>1 DEF Abandoned, Typed, MemoryTyped, HostTyped
  <2> QED BY <1>1, <1>3, <1>4, <2>1 DEF Abandoned
<1>8. Marked'
  <2>1. done \subseteq Runs
    BY DEF Typed, DiskTyped
  <2> QED BY <1>1, <1>3, <2>1 DEF Marked
<1>9. Truthful'
  BY <1>1, <1>2 DEF Truthful, RowsCalm
<1> QED BY <1>5, <1>6, <1>7, <1>8, <1>9

LEMMA FinishKeepsOwn ==
  ASSUME Typed, OwnInv, FinishRecovery
  PROVE  OwnInv'
<1> USE DEF OwnInv
<1>1. /\ run' = run /\ done' = done /\ ask' = ask /\ session' = session /\ intent' = intent
      /\ host = "recovering" /\ host' = "up" /\ todo = {} /\ todo' = {} /\ ask[Desktop].run = NoRun
      /\ UNCHANGED <<workers, job>> /\ queue' = queue /\ turn' = turn /\ NoRun \notin Runs
  BY StoreAssumption DEF FinishRecovery, store, callers, history, workers, disk, NoAsk, Store!IdAssumption
<1>2. \A r \in Runs : ~Settling(r)'
  BY <1>1 DEF Settling
<1>3. done \subseteq Runs
  BY DEF Typed, DiskTyped
<1> QED BY <1>1, <1>2, <1>3, SameOwners DEF Placed, Recovering, LastOfSession, Retired, Abandoned, Marked, Truthful

\* A new Run has a Session to itself, or takes over that of the Run it retries, which
\* was abandoned and which nobody uses.
LEMMA InsertKeepsOwn ==
  ASSUME Typed, OwnInv, Store!RetryLineage,
         NEW r \in Runs, NEW p \in Runs \cup {NoRun}, NEW n, NEW z,
         run[r].status = "absent",
         run' = [run EXCEPT ![r] = [Store!NoRunRow EXCEPT !.status = "queued", !.attempt = n,
                                                          !.parent = p, !.resume = z]],
         UNCHANGED <<disk, workers, host, todo, done>>,
         \/ /\ p = NoRun /\ z = NoSession /\ ask'[Desktop].run = ask[Desktop].run
            /\ job' = job \/ host # "down"
            /\ \A x \in Launchers : job'[x].run \in {job[x].run, r}
         \/ /\ p \in Runs /\ ask[Desktop].run = p /\ ask'[Desktop].run = NoRun
            /\ z \in {NoSession, Target(p)} /\ job' = job
  PROVE  OwnInv'
<1> USE DEF OwnInv
<1>1. /\ NoRun \notin Runs /\ run \in [Runs -> Store!RunRow] /\ done \subseteq Runs
      /\ session' = session /\ intent' = intent /\ queue' = queue /\ turn' = turn
      /\ Home \in [Runs -> Sessions] /\ \A q, x \in Runs : Home[q] = Home[x] => q = x
  BY StoreAssumption, SessionAssumption
     DEF Store!IdAssumption, Typed, TablesTyped, DiskTyped, Store!TypeOK, disk, workers
<1>2. /\ run'[r].status = "queued" /\ run'[r].session = NoSession /\ run'[r].parent = p /\ run'[r].resume = z
      /\ \A q \in Runs : q # r => run'[q] = run[q]
  BY <1>1 DEF Store!NoRunRow
<1>3. ~Present(r) /\ ~HasRetry(r) /\ ~Busy(r) /\ ~Settling(r)
  <2>1. ~Present(r)
    BY DEF Present
  <2>2. ~HasRetry(r)
    BY <1>1 DEF Store!RetryLineage, Store!Lineage, HasRetry
  <2> QED BY <2>1, <2>2 DEF Placed, Abandoned
<1>4. /\ \A q \in Runs : q # r => Target(q)' = Target(q) /\ (Present(q)' <=> Present(q))
      /\ Present(r)' /\ Target(r)' = IF z = NoSession THEN Home[r] ELSE z
  BY <1>2 DEF Target, Present
<1>5. p \in Runs => /\ Settling(p) /\ Present(p) /\ p # r /\ ~Busy(p) /\ ~HasRetry(p) /\ host = "recovering"
                    /\ session[Target(p)].status = "abandoned" /\ Target(p) \in Sessions
  <2> SUFFICES ASSUME p \in Runs
               PROVE  /\ Settling(p) /\ Present(p) /\ p # r /\ ~Busy(p) /\ ~HasRetry(p) /\ host = "recovering"
                      /\ session[Target(p)].status = "abandoned" /\ Target(p) \in Sessions
    OBVIOUS
  <2>1. Settling(p) /\ host = "recovering"
    BY <1>1 DEF Settling, Recovering
  <2>2. Target(p) \in Sessions
    BY TargetIsSession DEF Typed, TablesTyped
  <2> QED BY <1>3, <2>1, <2>2 DEF Abandoned, Retired
<1>6. \A q \in Runs : HasRetry(q)' <=> HasRetry(q) \/ q = p
  <2>1. run[r].parent = NoRun
    BY <1>3 DEF Placed
  <2> QED BY <1>1, <1>2, <2>1 DEF HasRetry
<1>7. /\ \A q \in Runs : /\ Settling(q)' => Settling(q)
                         /\ Busy(q)' => Busy(q) \/ (q = r /\ p = NoRun /\ host # "down")
      /\ \A s \in Sessions, q \in Runs : Accounted(s, q)' <=> Accounted(s, q)
  <2>1. \A s \in Sessions, q \in Runs : Accounted(s, q)' <=> Accounted(s, q)
    BY <1>1 DEF Accounted
  <2>2. \A q \in Runs : Settling(q)' => Settling(q)
    BY <1>1 DEF Settling
  <2>3. CASE p = NoRun
    BY <1>1, <2>1, <2>2, <2>3 DEF Busy
  <2>4. CASE p \in Runs
    BY <1>1, <2>1, <2>2, <2>4 DEF Busy
  <2> QED BY <2>3, <2>4
<1>8. \A x \in Runs : Present(x) => Home[x] # Home[r]
  BY <1>1, <1>3
<1>9. p = NoRun => z = NoSession
  BY <1>1
<1>10. p \in Runs => z \in {NoSession, Target(p)}
  BY <1>1
<1>11. Placed'
  <2>1. ASSUME NEW q \in Runs
        PROVE  /\ run'[q].session \in {NoSession, Target(q)'}
               /\ Present(q)' => \E x \in Runs : Present(x)' /\ Target(q)' = Home[x]
               /\ Busy(q)' => Present(q)'
               /\ run'[q].parent # NoRun => Present(q)'
    <3>1. CASE q # r
      <4>1. Present(q) => \E x \in Runs : x # r /\ Present(x) /\ Target(q) = Home[x]
        BY <1>3 DEF Placed
      <4>2. Present(q) => \E x \in Runs : Present(x)' /\ Target(q) = Home[x]
        BY <1>4, <4>1
      <4> QED BY <1>2, <1>4, <1>7, <3>1, <4>2 DEF Placed
    <3>2. CASE q = r
      <4>1. z = NoSession \/ \E x \in Runs : Present(x) /\ z = Home[x]
        BY <1>5, <1>9, <1>10 DEF Placed
      <4> QED BY <1>2, <1>3, <1>4, <3>2, <4>1
    <3> QED BY <3>1, <3>2
  <2>2. ASSUME NEW s \in Sessions
        PROVE  /\ \A q \in Runs : Accounted(s, q)' => Target(q)' = s
               /\ NoRun \notin IdsOf(queue'[s])
               /\ turn'[s].phase # "idle" => turn'[s].run # NoRun
               /\ session'[s].status # "absent" => \E x \in Runs : Present(x)' /\ s = Home[x]
    <3>1. \A q \in Runs : Accounted(s, q) => q # r
      BY <1>3 DEF Busy
    <3> QED BY <1>1, <1>3, <1>4, <1>7, <3>1 DEF Placed
  <2> QED BY <2>1, <2>2 DEF Placed
<1>12. Recovering'
  BY <1>1, <1>5, <1>7 DEF Recovering
<1>13. LastOfSession'
  <2>1. ASSUME NEW q \in Runs, q # r, Present(q), ~HasRetry(q)'
        PROVE  Target(q) # Target(r)'
    <3>1. ~HasRetry(q) /\ q # p
      BY <1>6, <2>1
    <3>2. CASE z = NoSession
      BY <1>4, <1>8, <2>1, <3>2 DEF Placed
    <3>3. CASE z # NoSession
      <4>1. p \in Runs /\ z = Target(p)
        BY <1>9, <1>10, <3>3
      <4> QED BY <1>4, <1>5, <2>1, <3>1, <3>3, <4>1 DEF LastOfSession
    <3> QED BY <3>2, <3>3
  <2> QED BY <1>3, <1>4, <1>6, <2>1 DEF LastOfSession
<1>14. Retired'
  <2>1. ASSUME NEW q \in Runs, HasRetry(q)'
        PROVE  ~Busy(q)' /\ ~Settling(q)'
    <3>1. CASE q = p
      <4>1. ~Busy(q)'
        BY <1>5, <1>7, <3>1
      <4>2. ~Settling(q)'
        BY <1>1, <1>5, <3>1 DEF Settling, Abandoned
      <4> QED BY <4>1, <4>2
    <3>2. CASE q # p
      BY <1>3, <1>6, <1>7, <2>1, <3>2 DEF Retired
    <3> QED BY <3>1, <3>2
  <2> QED BY <2>1 DEF Retired
<1>15. Abandoned'
  <2>1. ASSUME NEW s \in Sessions, NEW q \in Runs, host \in {"booted", "recovering"},
               session[s].status = "abandoned", Busy(q)'
        PROVE  Target(q)' # s
    <3>1. CASE q # r
      BY <1>4, <1>7, <2>1, <3>1 DEF Abandoned
    <3>2. CASE q = r
      <4>1. Target(q)' = Home[r]
        BY <1>3, <1>4, <1>7, <1>9, <2>1, <3>2
      <4>2. \E x \in Runs : Present(x) /\ s = Home[x]
        BY <2>1 DEF Placed
      <4> QED BY <1>8, <4>1, <4>2
    <3> QED BY <3>1, <3>2
  <2>2. ASSUME NEW q \in Runs, Settling(q)'
        PROVE  Present(q)' /\ session[Target(q)'].status = "abandoned"
    BY <1>3, <1>4, <1>7, <2>2 DEF Abandoned
  <2>3. \A c \in todo : c.run # ask'[Desktop].run
    BY <1>1 DEF Abandoned, Typed, MemoryTyped, HostTyped
  <2> QED BY <1>1, <2>1, <2>2, <2>3 DEF Abandoned
<1>16. Marked'
  <2>1. ASSUME NEW s \in Sessions, "completed" \in {session[s].status, session[s].marker}
        PROVE  \E q \in done : Present(q)' /\ Target(q)' = s /\ ~HasRetry(q)'
    <3>1. PICK q \in done : Present(q) /\ Target(q) = s /\ ~HasRetry(q)
      BY <2>1 DEF Marked
    <3>2. q \in Runs /\ q # r
      BY <1>1, <1>3, <3>1
    <3>3. q # p
      BY <1>5, <2>1, <3>1, <3>2 DEF Marked
    <3> QED BY <1>4, <1>6, <3>1, <3>2, <3>3
  <2> QED BY <1>1, <2>1 DEF Marked
<1>17. Truthful'
  BY <1>1, <1>2 DEF Truthful
<1> QED BY <1>11, <1>12, <1>13, <1>14, <1>15, <1>16, <1>17

\* The three ways to insert a Run: a producer, an inline launcher, a retry.
LEMMA ProduceKeepsOwn ==
  ASSUME Typed, OwnInv, Store!RetryLineage, OwnTurnsOnly, NEW r \in Runs, NEW s, Produce(r, s)
  PROVE  OwnInv'
<1>1. s = NoSession
  BY DEF Produce, OwnTurnsOnly
<1>2. PICK k \in FreshKey : Store!Enqueue(r, k, NoSession, FALSE)
  BY <1>1 DEF Produce
<1>3. UNCHANGED <<disk, workers, job, ask, host, todo, done>>
  BY DEF Produce, callers, history
<1>4. /\ run[r].status = "absent"
      /\ run' = [run EXCEPT ![r] = [Store!NoRunRow EXCEPT !.status = "queued", !.attempt = 1,
                                                          !.parent = NoRun, !.resume = NoSession]]
  BY <1>2 DEF Store!Enqueue, Store!Insert
<1> QED BY <1>3, <1>4, InsertKeepsOwn

LEMMA ReserveKeepsOwn ==
  ASSUME Typed, OwnInv, Store!RetryLineage, NEW r \in Runs, NEW x \in Inline, Reserve(x, r)
  PROVE  OwnInv'
<1>1. PICK k \in FreshKey : Store!Enqueue(r, k, NoSession, TRUE)
  BY DEF Reserve
<1>2. UNCHANGED <<disk, workers, ask, host, todo, done>> /\ host # "down"
  BY DEF Reserve, At, Quiet, Alive, history
<1>3. /\ run[r].status = "absent"
      /\ run' = [run EXCEPT ![r] = [Store!NoRunRow EXCEPT !.status = "queued", !.attempt = 1,
                                                          !.parent = NoRun, !.resume = NoSession]]
  BY <1>1 DEF Store!Enqueue, Store!Insert
<1>4. \A y \in Launchers : job'[y].run \in {job[y].run, r}
  BY DEF Reserve, NoJob, Typed, MemoryTyped, JobTyped
<1> QED BY <1>2, <1>3, <1>4, InsertKeepsOwn

LEMMA RetryKeepsOwn ==
  ASSUME Typed, OwnInv, Store!RetryLineage, OwnTurnsOnly,
         NEW c \in Retriers, NEW r \in Runs, InsertRetry(c, r)
  PROVE  OwnInv'
<1> DEFINE p == ask[Desktop].run
<1>1. c = Desktop /\ ask \in [Retriers -> AskRow] /\ p \in Runs
  BY DEF OwnTurnsOnly, Retriers, InsertRetry, Typed, MemoryTyped, AskTyped
<1>2. PICK k \in FreshKey : Store!Retry(r, k, p)
  BY <1>1 DEF InsertRetry
<1>3. UNCHANGED <<disk, workers, job, host, todo, done>> /\ ask'[Desktop].run = NoRun
  BY <1>1 DEF InsertRetry, NoAsk, history
<1> DEFINE n == run[p].attempt + 1
           z == Store!RetryTarget(p)
<1>4. /\ run[r].status = "absent"
      /\ run' = [run EXCEPT ![r] = [Store!NoRunRow EXCEPT !.status = "queued", !.attempt = n,
                                                          !.parent = p, !.resume = z]]
  BY <1>2 DEF Store!Retry, Store!Insert
<1>5. z \in {NoSession, Target(p)}
  <2>1. run[p].session \in {NoSession, Target(p)}
    BY <1>1 DEF OwnInv, Placed
  <2> QED BY <2>1 DEF Store!RetryTarget, Target
<1> HIDE DEF n, z
<1> QED BY <1>1, <1>3, <1>4, <1>5, InsertKeepsOwn

LEMMA OwnStep ==
  ASSUME Typed, OwnInv, Store!RetryLineage, OwnTurnsOnly, SpentTyped, [Next]_vars
  PROVE  OwnInv'
<1>1. CASE UserStep
  <2>1. ASSUME NEW r \in Runs, NEW s \in Sessions \cup {NoSession}, Produce(r, s) PROVE OwnInv'
    BY <2>1, ProduceKeepsOwn
  <2>2. ASSUME NEW r \in Runs, NEW x \in Inline, Reserve(x, r) PROVE OwnInv'
    BY <2>2, ReserveKeepsOwn
  <2>3. CASE \/ (\E s \in Sessions : Say(s) \/ Stop(s)) \/ (\E c \in Clicks, p \in Runs : Click(c, p))
             \/ \E S \in SUBSET Runs : CancelRoutineRun(S)
    BY <2>3, OthersAreCalm, CalmKeeps
  <2> QED BY <1>1, <2>1, <2>2, <2>3 DEF UserStep
<1>2. ASSUME NEW r \in Runs, Take(r) PROVE OwnInv'
  BY <1>2, TakeIsCalm, CalmKeeps
<1>3. CASE ReconcileTerminalIntent
  BY <1>3, ReconcileIsCalm, CalmKeeps
<1>4. ASSUME NEW p \in Launchers, LauncherStep(p) PROVE OwnInv'
  BY <1>4, LauncherIsCalm, CalmKeeps
<1>5. ASSUME NEW s \in Sessions, WorkerStep(s) PROVE OwnInv'
  BY <1>5, WorkerIsCalm, CalmKeeps
<1>6. ASSUME NEW c \in Retriers, RetrierStep(c) PROVE OwnInv'
  <2>1. ASSUME NEW r \in Runs, InsertRetry(c, r) PROVE OwnInv'
    BY <2>1, RetryKeepsOwn
  <2>2. CASE CheckRetry(c) \/ RetryRefused(c)
    BY <2>2, OthersAreCalm, CalmKeeps
  <2> QED BY <1>6, <2>1, <2>2 DEF RetrierStep
<1>7. CASE RecoveryStep
  BY <1>7, StartupKeepsOwn, ListingKeepsOwn, FinishKeepsOwn, SettlingKeepsOwn DEF RecoveryStep
<1>8. CASE Crash
  BY <1>8, CrashKeepsOwn
<1>9. CASE \/ (\E x \in Launchers \cup Sessions : Epilogue(x))
           \/ (\E r \in Runs : DeadlinePasses(r)) \/ (\E p \in Paths : PathLockLapses(p))
           \/ UNCHANGED vars
  BY <1>9, OthersAreCalm, CalmKeeps
<1> QED BY <1>1, <1>2, <1>3, <1>4, <1>5, <1>6, <1>7, <1>8, <1>9 DEF Next

LEMMA InitOwn ==
  ASSUME Init, OwnTurnsOnly
  PROVE  OwnInv
<1>1. /\ \A r \in Runs : run[r] = Store!NoRunRow /\ intent[r] = "absent"
      /\ \A s \in Sessions : /\ queue[s] = <<>> /\ turn[s] = NoTurn
                             /\ session[s] = [status |-> "absent", marker |-> "none"]
      /\ \A p \in Launchers : job[p].run = NoRun
      /\ ask[Desktop].run = NoRun /\ todo = {} /\ done = {} /\ host = "up" /\ NoRun \notin Runs
  BY StoreAssumption DEF Init, Store!Init, OwnTurnsOnly, NoJob, NoAsk, Retriers, Store!IdAssumption
<1>2. \A s \in Sessions : /\ IdsOf(queue[s]) = {}
                          /\ turn[s].run = NoRun /\ turn[s].phase = "idle" /\ turn[s].outcome = "none"
                          /\ session[s].status = "absent" /\ session[s].marker = "none"
  BY <1>1 DEF IdsOf, NoTurn
<1>3. \A r \in Runs : /\ run[r].status = "absent" /\ run[r].session = NoSession /\ run[r].parent = NoRun
                      /\ ~Busy(r) /\ ~Settling(r) /\ ~Present(r) /\ ~HasRetry(r)
                      /\ \A s \in Sessions : ~Accounted(s, r)
  <2>1. \A r \in Runs : run[r].status = "absent" /\ run[r].session = NoSession /\ run[r].parent = NoRun
    <3>1. /\ Store!NoRunRow.status = "absent" /\ Store!NoRunRow.session = NoSession
          /\ Store!NoRunRow.parent = NoRun
      BY DEF Store!NoRunRow
    <3> QED BY <1>1, <3>1
  <2>2. \A r \in Runs, s \in Sessions : ~Accounted(s, r)
    BY <1>1, <1>2 DEF Accounted
  <2> QED BY <1>1, <2>1, <2>2 DEF Busy, Settling, Present, HasRetry
<1>4. Placed /\ Recovering /\ LastOfSession
  BY <1>1, <1>2, <1>3 DEF Placed, Recovering, LastOfSession
<1>5. Retired /\ Abandoned /\ Marked /\ Truthful
  BY <1>1, <1>2, <1>3 DEF Retired, Abandoned, Marked, Truthful
<1> QED BY <1>4, <1>5 DEF OwnInv

LEMMA AlwaysOwn ==
  ASSUME OwnTurnsOnly
  PROVE  Spec => []OwnInv
<1>1. Init => OwnInv
  BY InitOwn
<1>2. Typed /\ Store!IndInv /\ SpentTyped /\ OwnInv /\ [Next]_vars => OwnInv'
  BY OwnStep DEF Store!IndInv
<1> QED BY <1>1, <1>2, AlwaysTyped, StoreStaysSound, AlwaysSpent, PTL DEF Spec

\* A Run succeeds only if the provider completed the turn that carries its id, however
\* many deliveries, crashes, Stops, cancellations and retries by recovery there are
\* (send.rs, terminal.rs, startup_recovery.rs).  Turns that are not a Run's own and
\* users' retries, which can put two Runs to work in one Session, are excluded.
THEOREM OwnTurnsDecide ==
  ASSUME OwnTurnsOnly
  PROVE  Spec => []OwnTurnDecides
<1>1. OwnInv => OwnTurnDecides
  BY DEF OwnInv, Truthful, OwnTurnDecides
<1> QED BY <1>1, AlwaysOwn, PTL

-----------------------------------------------------------------------------
(* How a delivery goes on.  The steps that move a launcher, the row of a Run *)
(* and what is remembered of its turn.                                       *)

Ended(r) == run[r].status \in Store!Terminal

Awaiting(r) == run[r].status \in {"running", "waiting"}

\* Launcher q goes on with what it delivers.
Onward(q, phase) ==
  /\ job'[q].phase = phase
  /\ job'[q].run = job[q].run /\ job'[q].token = job[q].token

Stages(q) ==
  \/ Prepare(q) /\ job[q].phase = "claimed"
     /\ \/ Onward(q, "sending") /\ intent[job[q].run] = "absent"
        \/ Onward(q, "accepted") /\ intent[job[q].run] # "absent"
  \/ Admit(q) /\ job[q].phase = "sending" /\ Onward(q, "admitted")
  \/ EnqueueTurn(q) /\ job[q].phase = "admitted" /\ Onward(q, "accepted")
  \/ QueueFull(q) /\ job[q].phase = "admitted" /\ Onward(q, "failed") /\ job'[q].failure = "final"
  \/ (\E f \in Store!DispatchFailures : CannotLaunch(q, f))
     /\ job[q].phase \in {"claimed", "sending"} /\ Onward(q, "failed")
  \/ Acknowledge(q) /\ job[q].phase = "accepted"
     /\ \/ /\ Store!AcknowledgeDispatchStarted(job[q].run, job[q].token, Target(job[q].run))
           /\ Onward(q, "acknowledged")
        \/ /\ ~Store!MayAcknowledge(job[q].run, job[q].token, Target(job[q].run))
           /\ Onward(q, "failed") /\ job'[q].failure = "final"

\* Launcher q delivers nothing afterwards.
Rests(q) ==
  /\ ~Delivering(q)'
  /\ \/ ~Delivering(q)
     \/ Crash
     \/ GiveBack(q) /\ job[q].phase = "failed"
     \/ ReconcileTerminalIntent /\ job[q].phase = "acknowledged"
     \/ Acknowledge(q) /\ job[q].phase = "accepted"
        /\ \/ Store!AcknowledgeDispatchStarted(job[q].run, job[q].token, Target(job[q].run))
           \/ ~Store!MayAcknowledge(job[q].run, job[q].token, Target(job[q].run))

\* Launcher q starts to deliver Run r.
ClaimedBy(q, r) ==
  /\ ~Delivering(q) /\ Claimed(q, r) /\ Store!Lease(r)
  /\ run[r].status \in Store!Open /\ run'[r].status = "dispatching"
  /\ job'[q].run = r /\ job'[q].phase = "claimed"
  /\ outbox'[r].status = "leased" /\ outbox'[r].token = job'[q].token

LEMMA WhatClaimsDo ==
  ASSUME Typed, NEW q \in Launchers, NEW r \in Runs, ~Delivering(q), Claimed(q, r), Store!Lease(r)
  PROVE  ClaimedBy(q, r)
<1>0. run \in [Runs -> Store!RunRow] /\ outbox \in [Runs -> Store!OutboxRow]
      /\ job \in [Launchers -> JobRow]
  BY DEF Typed, TablesTyped, Store!TypeOK, MemoryTyped, JobTyped
<1>1. job'[q].run = r /\ job'[q].phase = "claimed" /\ job'[q].token = outbox[r].tries + 1
  BY <1>0 DEF Claimed, NoJob
<1>2. outbox'[r].status = "leased" /\ outbox'[r].token = outbox[r].tries + 1
  BY <1>0 DEF Store!Lease, Store!OutboxRow
<1>3. run[r].status \in Store!Open /\ run'[r].status = "dispatching"
  BY <1>0 DEF Store!Lease, Store!Claimable, Store!RunRow
<1> QED BY <1>1, <1>2, <1>3 DEF ClaimedBy

\* A launcher stays where it is, goes on, claims a Run, or delivers nothing afterwards.
LEMMA WhoMovesJob ==
  ASSUME Typed, [Next]_vars, NEW q \in Launchers
  PROVE  \/ job'[q] = job[q]
         \/ Stages(q)
         \/ \E r \in Runs : ClaimedBy(q, r)
         \/ Rests(q)
<1>0. job \in [Launchers -> JobRow] /\ NoJob.phase = "idle" /\ Desktop \in Launchers
      /\ \A p \in Launchers : job[p].phase # "idle" => job[p].run \in Runs
  BY DEF Typed, MemoryTyped, JobTyped, NoJob, Launchers
<1> DEFINE Claims == \E r \in Runs : ClaimedBy(q, r)
<1>a. ASSUME NEW phase, Move(q, phase) PROVE Onward(q, phase)
  BY <1>0, <1>a DEF Move, Onward, JobRow
<1>b. ASSUME NEW f, Abort(q, f) PROVE Onward(q, "failed") /\ job'[q].failure = f
  BY <1>0, <1>b DEF Abort, Onward, JobRow
<1>c. ASSUME Rest(q) PROVE ~Delivering(q)'
  BY <1>0, <1>c DEF Rest, Delivering
<1>d. ASSUME NEW p \in Launchers, p # q,
             \/ \E to : Move(p, to)
             \/ \E failure : Abort(p, failure)
             \/ Rest(p)
             \/ \E r : Claimed(p, r)
      PROVE  job'[q] = job[q]
  BY <1>0, <1>d DEF Move, Abort, Rest, Claimed
<1>e. ASSUME NEW r \in Runs, Claimed(q, r), Store!Lease(r), ~Delivering(q) PROVE Claims
  BY <1>e, WhatClaimsDo
<1>1. ASSUME NEW p \in Launchers, LauncherStep(p)
      PROVE  job'[q] = job[q] \/ Stages(q) \/ Claims \/ Rests(q)
  <2>1. CASE p # q
    BY <1>1, <1>d, <2>1 DEF LauncherStep, TakeReserved, Prepare, Admit, EnqueueTurn, QueueFull,
       Acknowledge, GiveBack, CannotLaunch
  <2>2. CASE p = q
    <3>1. CASE TakeReserved(q)
      <4>1. job[q].phase = "reserved" /\ job[q].run \in Runs
        BY <1>0, <3>1 DEF TakeReserved, At
      <4> QED BY <1>c, <1>e, <3>1, <4>1 DEF TakeReserved, Store!ClaimDispatchForRun, Delivering, Rests
    <3>2. CASE Prepare(q)
      BY <1>a, <3>2 DEF Prepare, At, Stages
    <3>3. CASE Admit(q)
      BY <1>a, <3>3 DEF Admit, At, Stages
    <3>4. CASE EnqueueTurn(q)
      BY <1>a, <3>4 DEF EnqueueTurn, At, Stages
    <3>5. CASE QueueFull(q)
      BY <1>b, <3>5 DEF QueueFull, At, Stages
    <3>6. ASSUME NEW f \in Store!DispatchFailures, CannotLaunch(q, f) PROVE Stages(q)
      BY <1>b, <3>6 DEF CannotLaunch, At, Stages
    <3>7. CASE Acknowledge(q)
      <4>1. CASE Rest(q)
        BY <1>c, <3>7, <4>1 DEF Acknowledge, At, Rests
      <4>2. CASE /\ Store!AcknowledgeDispatchStarted(job[q].run, job[q].token, Target(job[q].run))
                 /\ Move(q, "acknowledged")
        BY <1>a, <3>7, <4>2 DEF Acknowledge, At, Stages
      <4>3. CASE /\ ~Store!MayAcknowledge(job[q].run, job[q].token, Target(job[q].run))
                 /\ Abort(q, "final")
        BY <1>b, <3>7, <4>3 DEF Acknowledge, At, Stages
      <4> QED BY <3>7, <4>1, <4>2, <4>3 DEF Acknowledge
    <3>8. CASE GiveBack(q)
      BY <1>c, <3>8 DEF GiveBack, At, Rests
    <3> QED BY <1>1, <2>2, <3>1, <3>2, <3>3, <3>4, <3>5, <3>6, <3>7, <3>8 DEF LauncherStep
  <2> QED BY <2>1, <2>2
<1>2. CASE ReconcileTerminalIntent
  BY <1>0, <1>c, <1>d, <1>2 DEF ReconcileTerminalIntent, At, Rests
<1>3. ASSUME NEW x \in Runs, Take(x) PROVE job'[q] = job[q] \/ Claims
  <2>1. Store!Lease(x) /\ Claimed(Desktop, x) /\ ~Delivering(Desktop)
    BY <1>3 DEF Take, Store!ClaimNextDispatch, At, Delivering
  <2>2. CASE q # Desktop
    BY <1>0, <1>d, <2>1, <2>2
  <2>3. CASE q = Desktop
    BY <1>e, <2>1, <2>3
  <2> QED BY <2>2, <2>3
<1>5. ASSUME NEW x \in Runs, NEW p \in Inline, Reserve(p, x) PROVE job'[q] = job[q] \/ Rests(q)
  BY <1>0, <1>5 DEF Reserve, NoJob, At, Delivering, Rests
<1>6. CASE Crash
  BY <1>0, <1>6 DEF Crash, Delivering, Rests
<1>7. ASSUME NEW s \in Sessions, WorkerStep(s) PROVE job' = job
  BY <1>7 DEF WorkerStep, DropStale, StartTurn, PromoteTurnToRunning, FinalizeSession,
              NotifySessionTerminal, CloseTurn, EndTurn, callers
<1>8. ASSUME NEW c \in Retriers, RetrierStep(c) PROVE job' = job
  BY <1>8 DEF RetrierStep, CheckRetry, RetryRefused, InsertRetry
<1>9. ASSUME RecoveryStep PROVE job' = job
  BY <1>9 DEF RecoveryStep, RunPersistenceStartupRecovery, ListInterrupted, FinishRecovery,
              SettleInterrupted, callers
<1>10. ASSUME UserStep, ~\E x \in Runs, p \in Inline : Reserve(p, x) PROVE job' = job
  BY <1>10 DEF UserStep, Say, Stop, Click, Produce, CancelRoutineRun, callers
<1>11. ASSUME \/ UNCHANGED vars
              \/ \E x \in Runs : DeadlinePasses(x)
              \/ \E x \in Launchers \cup Sessions : Epilogue(x)
              \/ \E p \in Paths : PathLockLapses(p)
       PROVE  job' = job
  BY <1>11 DEF vars, DeadlinePasses, Epilogue, PathLockLapses, callers
<1> QED BY <1>1, <1>2, <1>3, <1>5, <1>6, <1>7, <1>8, <1>9, <1>10, <1>11 DEF Next

\* What a step does to the row of a Run that has not ended.
SameRow(r) ==
  /\ run'[r].status = run[r].status
  /\ outbox'[r].status = outbox[r].status /\ outbox'[r].token = outbox[r].token

Inserted(r) == run[r].status = "absent" /\ run'[r].status = "queued"

AcknowledgedBy(p, r) ==
  /\ Acknowledge(p) /\ job[p].run = r /\ Store!Leased(r, job[p].token)
  /\ run[r].status = "dispatching" /\ run'[r].status = "running"

DeferredBy(p, r) ==
  /\ GiveBack(p) /\ job[p].run = r /\ Store!Leased(r, job[p].token)
  /\ run[r].status = "dispatching" /\ run'[r].status = "deferred"
  /\ job[p].failure # "final"

EndedBySomeone(r) ==
  /\ Ended(r)'
  /\ \/ \E s \in Sessions, o \in Outcomes : EndTurn(s, o) /\ turn[s].run = r
     \/ \E s \in Sessions : /\ NotifySessionTerminal(s)
                            /\ run[r].session = s /\ run[r].status \in Store!Active
     \/ ReconcileTerminalIntent /\ job[Desktop].run = r /\ intent[r] \in DOMAIN IntentVerdict
     \/ \E p \in Launchers : GiveBack(p) /\ job[p].run = r /\ Store!Leased(r, job[p].token)
     \/ \E S \in SUBSET Runs : CancelRoutineRun(S)
     \/ (\E x \in Launchers \cup Sessions : Epilogue(x)) /\ run[r].status = "queued"
     \/ \E c \in todo : SettleInterrupted(c) /\ c.run = r /\ c.status \in DOMAIN InterruptedVerdict

RowMoves(r) ==
  \/ SameRow(r) \/ Inserted(r) \/ EndedBySomeone(r)
  \/ \E p \in Launchers : ClaimedBy(p, r) \/ AcknowledgedBy(p, r) \/ DeferredBy(p, r)

\* A transaction on one Run leaves the rows of the others alone, and one that ends a Run
\* ends it or leaves it alone.
LEMMA RowsOfOthers ==
  ASSUME Store!TypeOK, NEW x \in Runs, NEW r \in Runs, NEW t, NEW s, NEW f, NEW k, NEW n, NEW z,
         \/ Store!Lease(x) \/ Store!AcknowledgeDispatchStarted(x, t, s)
         \/ Store!RecordDispatchFailure(x, t, f)
         \/ Store!Insert(x, k, n, t, z, s)
         \/ Store!DeadlinePasses(x),
         x # r
  PROVE  SameRow(r)
<1>0. run \in [Runs -> Store!RunRow] /\ outbox \in [Runs -> Store!OutboxRow]
  BY DEF Store!TypeOK
<1>1. CASE Store!Lease(x)
  BY <1>0, <1>1 DEF Store!Lease, SameRow
<1>2. CASE Store!AcknowledgeDispatchStarted(x, t, s)
  BY <1>0, <1>2 DEF Store!AcknowledgeDispatchStarted, SameRow
<1>3. CASE Store!RecordDispatchFailure(x, t, f)
  BY <1>0, <1>3 DEF Store!RecordDispatchFailure, Store!Nack, SameRow
<1>4. CASE Store!Insert(x, k, n, t, z, s)
  BY <1>0, <1>4 DEF Store!Insert, SameRow
<1>5. CASE Store!DeadlinePasses(x)
  BY <1>0, <1>5 DEF Store!DeadlinePasses, SameRow
<1> QED BY <1>1, <1>2, <1>3, <1>4, <1>5

LEMMA EndsOneRun ==
  ASSUME Store!TypeOK, NEW y, NEW x \in Runs, NEW r \in Runs, NEW s, NEW v \in Store!Verdicts,
         EndRun(y, x, s, v)
  PROVE  /\ SameRow(r) \/ (x = r /\ Ended(r)')
         /\ run[x].status \in Store!Active => Ended(x)'
         /\ run[x].session \in {NoSession, s}
<1>0. run \in [Runs -> Store!RunRow]
  BY DEF Store!TypeOK
<1>1. v[1] \in Store!Terminal
  BY DEF Store!Verdicts, Store!Terminal
<1>2. /\ run' = IF run[x].status \in Store!Active
                THEN [run EXCEPT ![x].status = v[1], ![x].failure = v[2], ![x].session = s]
                ELSE run
      /\ outbox' = outbox /\ run[x].session \in {NoSession, s}
  BY DEF EndRun, Store!RecordRunTerminal
<1>3. CASE run[x].status \in Store!Active
  <2>1. run'[x].status = v[1] /\ (x # r => run'[r] = run[r])
    BY <1>0, <1>2, <1>3 DEF Store!RunRow
  <2> QED BY <1>1, <1>2, <2>1 DEF SameRow, Ended
<1>4. CASE run[x].status \notin Store!Active
  BY <1>2, <1>4 DEF SameRow
<1> QED BY <1>2, <1>3, <1>4

LEMMA HowRowsMove ==
  ASSUME Typed, Store!NoRunStranded, [Next]_vars, NEW r \in Runs, ~Ended(r)
  PROVE  RowMoves(r)
<1>0. /\ Store!TypeOK /\ run \in [Runs -> Store!RunRow] /\ outbox \in [Runs -> Store!OutboxRow]
      /\ \A p \in Launchers : job[p].phase # "idle" => job[p].run \in Runs
      /\ job \in [Launchers -> JobRow] /\ Desktop \in Launchers /\ NoRun \notin Runs
  BY StoreAssumption DEF Typed, TablesTyped, Store!TypeOK, MemoryTyped, JobTyped, Launchers,
                         Store!IdAssumption
<1> USE DEF RowMoves
<1>a. ASSUME UNCHANGED store PROVE RowMoves(r)
  BY <1>a DEF store, SameRow
\* A Run that is leased and has not ended is being dispatched.
<1>b. ASSUME NEW t, Store!Leased(r, t) PROVE run[r].status = "dispatching"
  <2>1. Store!RowsAgree(r) /\ outbox[r].status = "leased"
    BY <1>b DEF Store!NoRunStranded, Store!Leased
  <2>2. run[r].status \in Store!RunStatus
    BY <1>0 DEF Store!RunRow
  <2> QED BY <2>1, <2>2 DEF Store!RowsAgree, Store!RunStatus, Store!Open, Store!Active, Ended
<1>c. ASSUME NEW p \in Launchers, NEW x \in Runs, ~Delivering(p), Claimed(p, x), Store!Lease(x)
      PROVE  RowMoves(r)
  <2>1. CASE x # r
    BY <1>0, <1>c, <2>1, RowsOfOthers
  <2>2. CASE x = r
    BY <1>c, <2>2, WhatClaimsDo
  <2> QED BY <2>1, <2>2
<1>d. ASSUME NEW x \in Runs, NEW k, NEW n, NEW t, NEW z, NEW s, Store!Insert(x, k, n, t, z, s)
      PROVE  RowMoves(r)
  <2>1. CASE x # r
    BY <1>0, <1>d, <2>1, RowsOfOthers
  <2>2. CASE x = r
    <3>1. run'[r] = [Store!NoRunRow EXCEPT !.status = "queued", !.attempt = t, !.parent = n, !.resume = z]
      BY <1>0, <1>d, <2>2 DEF Store!Insert
    <3>2. run[r].status = "absent"
      BY <1>d, <2>2 DEF Store!Insert
    <3>3. DOMAIN Store!NoRunRow = {"status", "session", "failure", "attempt", "parent", "resume"}
      BY DEF Store!NoRunRow
    <3>4. run'[r].status = "queued"
      BY <3>1, <3>3
    <3> QED BY <3>2, <3>4 DEF Inserted
  <2> QED BY <2>1, <2>2
<1>1. ASSUME NEW p \in Launchers, LauncherStep(p) PROVE RowMoves(r)
  <2> DEFINE x == job[p].run
  <2>0. job[p].phase # "idle" /\ x \in Runs
    BY <1>0, <1>1 DEF LauncherStep, TakeReserved, Prepare, Admit, EnqueueTurn, QueueFull,
                      Acknowledge, GiveBack, CannotLaunch, At
  <2>1. CASE TakeReserved(p)
    BY <1>a, <1>c, <2>0, <2>1 DEF TakeReserved, Store!ClaimDispatchForRun, At, Delivering
  <2>2. CASE \/ Prepare(p) \/ Admit(p) \/ EnqueueTurn(p) \/ QueueFull(p)
             \/ \E f \in Store!DispatchFailures : CannotLaunch(p, f)
    BY <1>a, <2>2 DEF Prepare, Admit, EnqueueTurn, QueueFull, CannotLaunch
  <2>3. CASE Acknowledge(p)
    <3>1. CASE Store!AcknowledgeDispatchStarted(x, job[p].token, Target(x))
      <4>1. CASE x # r
        BY <1>0, <2>0, <3>1, <4>1, RowsOfOthers
      <4>2. CASE x = r
        <5>1. Store!Leased(r, job[p].token)
          BY <3>1, <4>2 DEF Store!AcknowledgeDispatchStarted, Store!MayAcknowledge
        <5>2. run[r].status = "dispatching"
          BY <1>b, <5>1
        <5>3. run'[r].status = "running"
          BY <1>0, <3>1, <4>2, <5>2 DEF Store!AcknowledgeDispatchStarted, Store!RunRow
        <5> QED BY <2>3, <4>2, <5>1, <5>2, <5>3 DEF AcknowledgedBy
      <4> QED BY <4>1, <4>2
    <3>2. CASE UNCHANGED store
      BY <1>a, <3>2
    <3> QED BY <2>3, <3>1, <3>2 DEF Acknowledge
  <2>4. CASE GiveBack(p)
    <3>1. CASE Store!Leased(x, job[p].token)
      <4>1. Store!RecordDispatchFailure(x, job[p].token, job[p].failure)
        BY <2>4, <3>1 DEF GiveBack
      <4>2. CASE x # r
        BY <1>0, <2>0, <4>1, <4>2, RowsOfOthers
      <4>3. CASE x = r
        <5>1. run[r].status = "dispatching"
          BY <1>b, <3>1, <4>3
        <5>2. CASE /\ Store!WillRetry(r, job[p].failure)
                   /\ Store!Nack(r, job[p].token, job[p].failure, "retry_wait", "deferred")
          <6>1. run'[r].status = "deferred"
            BY <1>0, <5>1, <5>2 DEF Store!Nack, Store!RunRow
          <6>2. job[p].failure # "final"
            BY <5>2 DEF Store!WillRetry, Store!Retryable
          <6>3. DeferredBy(p, r)
            BY <2>4, <3>1, <4>3, <5>1, <6>1, <6>2 DEF DeferredBy
          <6> QED BY <6>3
        <5>3. CASE Store!Nack(r, job[p].token, job[p].failure, "dead_letter", "failed")
          <6>1. run'[r].status = "failed"
            BY <1>0, <5>1, <5>3 DEF Store!Nack, Store!RunRow
          <6> QED BY <2>4, <3>1, <4>3, <6>1 DEF EndedBySomeone, Ended, Store!Terminal
        <5> QED BY <4>1, <4>3, <5>2, <5>3 DEF Store!RecordDispatchFailure
      <4> QED BY <4>2, <4>3
    <3>2. CASE ~Store!Leased(x, job[p].token)
      BY <1>a, <2>4, <3>2 DEF GiveBack
    <3> QED BY <3>1, <3>2
  <2> QED BY <1>1, <2>1, <2>2, <2>3, <2>4 DEF LauncherStep
<1>2. CASE ReconcileTerminalIntent
  <2> DEFINE x == job[Desktop].run
  <2>1. CASE intent[x] \in DOMAIN IntentVerdict
    <3>1. x \in Runs /\ EndRun(Desktop, x, Target(x), IntentVerdict[intent[x]])
      BY <1>0, <1>2, <2>1 DEF ReconcileTerminalIntent, At
    <3>2. IntentVerdict[intent[x]] \in Store!Verdicts
      BY <2>1, VerdictsOfStore
    <3>3. SameRow(r) \/ (x = r /\ Ended(r)')
      BY <1>0, <3>1, <3>2, EndsOneRun
    <3> QED BY <1>2, <2>1, <3>3 DEF EndedBySomeone
  <2>2. CASE intent[x] \notin DOMAIN IntentVerdict
    BY <1>2, <1>a, <2>2 DEF ReconcileTerminalIntent
  <2> QED BY <2>1, <2>2
<1>3. ASSUME NEW x \in Runs, Take(x) PROVE RowMoves(r)
  BY <1>0, <1>3, <1>c DEF Take, Store!ClaimNextDispatch, At, Delivering
<1>4. ASSUME NEW s \in Sessions, WorkerStep(s) PROVE RowMoves(r)
  <2>1. ASSUME NEW o \in Outcomes, EndTurn(s, o) PROVE RowMoves(r)
    <3> DEFINE x == turn[s].run
    <3>1. CASE x = NoRun
      BY <1>a, <2>1, <3>1 DEF EndTurn
    <3>2. CASE x # NoRun
      <4>1. x \in Runs
        BY <1>0, <3>2 DEF Typed, MemoryTyped, TurnTyped, TurnRow
      <4>2. PICK v \in OutcomeVerdicts[o] : EndRun(s, x, s, v)
        BY <2>1, <3>2 DEF EndTurn
      <4>3. v \in Store!Verdicts
        BY VerdictsOfStore
      <4>4. SameRow(r) \/ (x = r /\ Ended(r)')
        BY <1>0, <4>1, <4>2, <4>3, EndsOneRun
      <4> QED BY <2>1, <4>4 DEF EndedBySomeone
    <3> QED BY <3>1, <3>2
  <2>2. CASE NotifySessionTerminal(s)
    <3>1. CASE UNCHANGED store
      BY <1>a, <3>1
    <3>2. CASE ~UNCHANGED store
      <4>1. PICK x \in Runs : /\ run[x].session = s /\ run[x].status \in Store!Active
                              /\ EndRun(s, x, s, SessionVerdict[turn[s].outcome])
        BY <2>2, <3>2 DEF NotifySessionTerminal
      <4>2. turn[s].outcome \in Outcomes
        BY <2>2 DEF NotifySessionTerminal, Working, Typed, MemoryTyped, TurnTyped
      <4>3. SessionVerdict[turn[s].outcome] \in Store!Verdicts
        BY <4>2, VerdictsOfStore
      <4>4. SameRow(r) \/ (x = r /\ Ended(r)')
        BY <1>0, <4>1, <4>3, EndsOneRun
      <4> QED BY <2>2, <4>1, <4>4 DEF EndedBySomeone
    <3> QED BY <3>1, <3>2
  <2>3. CASE DropStale(s) \/ StartTurn(s) \/ PromoteTurnToRunning(s) \/ FinalizeSession(s) \/ CloseTurn(s)
    BY <1>a, <2>3 DEF DropStale, StartTurn, PromoteTurnToRunning, FinalizeSession, CloseTurn
  <2> QED BY <1>4, <2>1, <2>2, <2>3 DEF WorkerStep
<1>5. ASSUME NEW c \in Retriers, RetrierStep(c) PROVE RowMoves(r)
  BY <1>5, <1>a, <1>d DEF RetrierStep, CheckRetry, RetryRefused, InsertRetry, Store!Retry
<1>6. CASE RecoveryStep
  <2>1. ASSUME NEW c \in todo, SettleInterrupted(c) PROVE RowMoves(r)
    <3>1. CASE c.status \in DOMAIN InterruptedVerdict
      <4>1. c.run \in Runs /\ EndRun(Desktop, c.run, run[c.run].session, InterruptedVerdict[c.status])
        BY <2>1, <3>1 DEF SettleInterrupted, Typed, MemoryTyped, HostTyped
      <4>2. InterruptedVerdict[c.status] \in Store!Verdicts
        BY <3>1, VerdictsOfStore
      <4>3. SameRow(r) \/ (c.run = r /\ Ended(r)')
        BY <1>0, <4>1, <4>2, EndsOneRun
      <4> QED BY <2>1, <3>1, <4>3 DEF EndedBySomeone
    <3>2. CASE c.status \notin DOMAIN InterruptedVerdict
      BY <1>a, <2>1, <3>2 DEF SettleInterrupted
    <3> QED BY <3>1, <3>2
  <2> QED BY <1>6, <1>a, <2>1 DEF RecoveryStep, RunPersistenceStartupRecovery, ListInterrupted, FinishRecovery
<1>7. CASE UserStep
  <2>1. ASSUME NEW S \in SUBSET Runs, CancelRoutineRun(S) PROVE RowMoves(r)
    <3>1. CASE r \in S
      <4>1. run'[r].status = "cancelled"
        BY <1>0, <2>1, <3>1 DEF CancelRoutineRun, Store!CancelRoutineRun, Store!RunRow
      <4> QED BY <2>1, <4>1 DEF EndedBySomeone, Ended, Store!Terminal
    <3>2. CASE r \notin S
      BY <2>1, <3>2 DEF CancelRoutineRun, Store!CancelRoutineRun, SameRow
    <3> QED BY <3>1, <3>2
  <2>2. ASSUME NEW x \in Runs, NEW s \in Sessions \cup {NoSession}, Produce(x, s) PROVE RowMoves(r)
    BY <1>d, <2>2 DEF Produce, Store!Enqueue
  <2>3. ASSUME NEW x \in Runs, NEW p \in Inline, Reserve(p, x) PROVE RowMoves(r)
    BY <1>d, <2>3 DEF Reserve, Store!Enqueue
  <2>4. CASE (\E s \in Sessions : Say(s) \/ Stop(s)) \/ (\E c \in Clicks, p \in Runs : Click(c, p))
    BY <1>a, <2>4 DEF Say, Stop, Click
  <2> QED BY <1>7, <2>1, <2>2, <2>3, <2>4 DEF UserStep
<1>8. ASSUME NEW x \in Launchers \cup Sessions, Epilogue(x) PROVE RowMoves(r)
  <2>1. CASE UNCHANGED store
    BY <1>a, <2>1
  <2>2. CASE Store!CancelAssigneeEscalations(owes[x])
    <3>1. CASE r \in Store!Matching(owes[x])
      <4>1. run'[r].status = "cancelled" /\ run[r].status = "queued"
        BY <1>0, <2>2, <3>1 DEF Store!CancelAssigneeEscalations, Store!Matching, Store!RunRow
      <4> QED BY <1>8, <4>1 DEF EndedBySomeone, Ended, Store!Terminal
    <3>2. CASE r \notin Store!Matching(owes[x])
      BY <2>2, <3>2 DEF Store!CancelAssigneeEscalations, SameRow
    <3> QED BY <3>1, <3>2
  <2> QED BY <1>8, <2>1, <2>2 DEF Epilogue
<1>9. ASSUME NEW x \in Runs, DeadlinePasses(x) PROVE RowMoves(r)
  <2>1. CASE x # r
    BY <1>0, <1>9, <2>1, RowsOfOthers DEF DeadlinePasses
  <2>2. CASE x = r
    BY <1>0, <1>9, <2>2 DEF DeadlinePasses, Store!DeadlinePasses, SameRow, Store!OutboxRow
  <2> QED BY <2>1, <2>2
<1>10. CASE Crash \/ UNCHANGED vars
  BY <1>a, <1>10 DEF Crash, vars
<1>11. ASSUME NEW p \in Paths, PathLockLapses(p) PROVE RowMoves(r)
  BY <1>11 DEF PathLockLapses, Store!PathLockLapses, SameRow
<1> QED BY <1>1, <1>2, <1>3, <1>4, <1>5, <1>6, <1>7, <1>8, <1>9, <1>10, <1>11 DEF Next

\* A Run is bound to a Session when it is accepted there, or ended.
Unbound(r) ==
  run[r].status \in {"absent", "queued", "deferred", "dispatching"} => run[r].session = NoSession

LEMMA UnboundStep ==
  ASSUME Store!TypeOK, [Store!Next]_store, NEW r \in Runs, Unbound(r)
  PROVE  Unbound(r)'
<1>0. run \in [Runs -> Store!RunRow]
  BY DEF Store!TypeOK
<1> USE DEF Unbound
<1>1. CASE UNCHANGED run
  BY <1>1
<1>2. ASSUME NEW x \in Runs, NEW k, NEW n, NEW t, NEW z, NEW d, Store!Insert(x, k, n, t, z, d)
      PROVE  Unbound(r)'
  <2>1. run'[r] = run[r] \/ run'[r] = [Store!NoRunRow EXCEPT !.status = "queued", !.attempt = t,
                                                             !.parent = n, !.resume = z]
    BY <1>0, <1>2 DEF Store!Insert
  <2>2. Store!NoRunRow.session = NoSession
        /\ DOMAIN Store!NoRunRow = {"status", "session", "failure", "attempt", "parent", "resume"}
    BY DEF Store!NoRunRow
  <2>3. run'[r] = run[r] \/ run'[r].session = NoSession
    BY <2>1, <2>2
  <2> QED BY <2>3
<1>3. CASE Store!Submission
  BY <1>2, <1>3 DEF Store!Submission, Store!Enqueue, Store!Retry
<1>4. CASE Store!Delivery
  <2>1. ASSUME NEW x \in Runs, Store!Lease(x) PROVE Unbound(r)'
    BY <1>0, <2>1 DEF Store!Lease, Store!Claimable, Store!Open, Store!RunRow
  <2>2. ASSUME NEW x \in Runs, NEW t, NEW s, Store!AcknowledgeDispatchStarted(x, t, s)
        PROVE  Unbound(r)'
    BY <1>0, <2>2 DEF Store!AcknowledgeDispatchStarted, Store!MayAcknowledge, Store!Terminal, Store!RunRow
  <2>3. ASSUME NEW x \in Runs, NEW t, NEW f, Store!RecordDispatchFailure(x, t, f)
        PROVE  Unbound(r)'
    <3>1. \/ run' = run
          \/ \E status : /\ run[x].status = "dispatching"
                         /\ run' = [run EXCEPT ![x].status = status, ![x].failure = f]
      BY <2>3 DEF Store!RecordDispatchFailure, Store!Nack
    <3>2. ASSUME NEW status, run[x].status = "dispatching",
                 run' = [run EXCEPT ![x].status = status, ![x].failure = f]
          PROVE  Unbound(r)'
      <4>1. run'[r] = run[r] \/ (x = r /\ run'[r].session = run[r].session)
        BY <1>0, <3>2 DEF Store!RunRow
      <4> QED BY <3>2, <4>1
    <3> QED BY <1>1, <3>1, <3>2
  <2> QED BY <1>4, <2>1, <2>2, <2>3 DEF Store!Delivery, Store!ClaimNextDispatch, Store!ClaimDispatchForRun
<1>5. CASE Store!Ending
  <2>1. ASSUME NEW x \in Runs, NEW s, NEW v \in Store!Verdicts, Store!RecordRunTerminal(x, s, v)
        PROVE  Unbound(r)'
    <3>1. v[1] \in {"succeeded", "failed", "cancelled"}
      BY DEF Store!Verdicts
    <3>2. \/ run' = run
          \/ run' = [run EXCEPT ![x].status = v[1], ![x].failure = v[2], ![x].session = s]
      BY <2>1 DEF Store!RecordRunTerminal
    <3>3. run'[r] = run[r] \/ run'[r].status = v[1]
      BY <1>0, <3>2 DEF Store!RunRow
    <3> QED BY <3>1, <3>3
  <2>2. ASSUME NEW x \in Runs, Store!MarkWaiting(x) \/ Store!CancelAssigneeEscalations(x)
        PROVE  Unbound(r)'
    BY <1>0, <2>2 DEF Store!MarkWaiting, Store!CancelAssigneeEscalations, Store!RunRow
  <2>3. ASSUME NEW S \in SUBSET Runs, Store!CancelRoutineRun(S) PROVE Unbound(r)'
    BY <1>0, <2>3 DEF Store!CancelRoutineRun, Store!RunRow
  <2> QED BY <1>5, <2>1, <2>2, <2>3 DEF Store!Ending
<1>6. CASE Store!Passing
  BY <1>6 DEF Store!Passing, Store!DeadlinePasses, Store!ExtendWakeWindow, Store!PathLockLapses
<1> QED BY <1>1, <1>3, <1>4, <1>5, <1>6 DEF Store!Next, store

LEMMA AlwaysUnbound == Spec => []\A r \in Runs : Unbound(r)
<1> DEFINE Inv == \A r \in Runs : Unbound(r)
<1>1. Init => Inv
  <2> SUFFICES ASSUME Init, NEW r \in Runs PROVE Unbound(r)
    OBVIOUS
  <2>1. run[r] = Store!NoRunRow
    BY DEF Init, Store!Init
  <2>2. Store!NoRunRow.session = NoSession
    BY DEF Store!NoRunRow
  <2> QED BY <2>1, <2>2 DEF Unbound
<1>2. Typed /\ Inv /\ [Next]_vars => Inv'
  <2> SUFFICES ASSUME Typed, Inv, [Next]_vars PROVE Inv'
    OBVIOUS
  <2>1. Store!TypeOK /\ [Store!Next]_store
    BY StepIsStore DEF Typed, TablesTyped
  <2> QED BY <2>1, UnboundStep
<1> HIDE DEF Inv
<1>3. Spec => []Inv
  BY <1>1, <1>2, AlwaysTyped, PTL DEF Spec
<1> QED BY <1>3 DEF Inv

\* The turn of Run r is remembered anew only where its launcher puts it into the queue.
LEMMA WhoAccounts ==
  ASSUME Typed, [Next]_vars, NEW r \in Runs, NEW s \in Sessions, Accounted(s, r)'
  PROVE  \/ Accounted(s, r)
         \/ s = Target(r) /\ \E p \in Launchers : EnqueueTurn(p) /\ Admitted(p, r)
<1>0. /\ queue \in [Sessions -> Seq(MessageRow)] /\ turn \in [Sessions -> TurnRow] /\ TurnTyped
      /\ r # NoRun
  BY StoreAssumption DEF Typed, MemoryTyped, QueueTyped, TurnTyped, Store!IdAssumption
<1>1. r \in IdsOf(queue'[s]) => \/ r \in IdsOf(queue[s])
                                \/ s = Target(r) /\ \E p \in Launchers : EnqueueTurn(p) /\ Admitted(p, r)
  BY WhoQueues
<1>2. turn'[s].run = r => Accounted(s, r)
  <2>1. CASE turn' = turn
    BY <2>1 DEF Accounted
  <2>2. ASSUME NEW w \in Sessions, WorkerStep(w), turn'[s].run = r PROVE Accounted(s, r)
    <3>1. CASE StartTurn(w)
      <4>1. queue[w] \in Seq(MessageRow) /\ queue[w] # <<>>
        BY <1>0, <3>1 DEF StartTurn
      <4>2. turn'[s] = turn[s] \/ (s = w /\ turn'[s].run = Head(queue[w]).run)
        BY <1>0, <3>1 DEF StartTurn, NoTurn
      <4>3. Head(queue[w]).run \in IdsOf(queue[w])
        BY <4>1, QueueIds
      <4> QED BY <2>2, <4>2, <4>3 DEF Accounted
    <3>2. CASE DropStale(w)
      BY <2>2, <3>2 DEF DropStale, Accounted
    <3>3. CASE CloseTurn(w)
      BY <1>0, <2>2, <3>3 DEF CloseTurn, NoTurn, Accounted
    <3>4. CASE \/ PromoteTurnToRunning(w) \/ FinalizeSession(w) \/ NotifySessionTerminal(w)
               \/ \E o \in Outcomes : EndTurn(w, o)
      BY <1>0, <2>2, <3>4, SameRunExecutes DEF Accounted
    <3> QED BY <2>2, <3>1, <3>2, <3>3, <3>4 DEF WorkerStep
  <2>3. CASE Crash
    BY <1>0, <2>3 DEF Crash, NoTurn
  <2> QED BY <2>1, <2>2, <2>3, WhoMovesWorkers DEF EnqueueTurn, Say, Stop, workers
<1> QED BY <1>1, <1>2 DEF Accounted

-----------------------------------------------------------------------------
(* One delivery of a Run at a time: what its row, its launcher and its turn  *)
(* say of each other, until it has ended.                                    *)

\* No launcher that outlived its lease goes on beside another one.
OneDeliverer ==
  \A p, q \in Launchers :
    Delivering(p) /\ Delivering(q) /\ job[p].run = job[q].run => p = q

Handled(p, r, phases) == job[p].run = r /\ job[p].phase \in phases

Unaccepted == {"claimed", "sending", "admitted", "failed"}

\* Who delivers holds the lease, its turn is remembered only when it was accepted, and
\* what is acknowledged or remembered otherwise is awaited.
Delivered(r) ==
  /\ \A p \in Launchers :
       /\ Handled(p, r, Unaccepted \cup {"accepted"}) =>
            Store!Leased(r, job[p].token) /\ run[r].status = "dispatching"
       /\ Handled(p, r, Unaccepted) => \A s \in Sessions : ~Accounted(s, r)
       /\ Handled(p, r, {"acknowledged"}) => Awaiting(r)
  /\ \A s \in Sessions :
       Accounted(s, r) => Awaiting(r) \/ \E p \in Launchers : Handled(p, r, {"accepted"})

\* A Run that has ended stays so.
LEMMA EndsForGood ==
  ASSUME Typed, [Next]_vars, NEW r \in Runs, Ended(r)
  PROVE  Ended(r)'
<1>1. [Proved!Next]_(Proved!vars)
  <2>1. Proved!Next \/ UNCHANGED store
    BY StepIsStore, SameStore DEF Typed
  <2>2. CASE UNCHANGED store
    BY <2>2 DEF store, Proved!vars
  <2> QED BY <2>1, <2>2
<1>2. Proved!TypeOK /\ Proved!ResumableHasSession
  BY SameTypes DEF Typed, TablesTyped, Proved!ResumableHasSession, Store!ResumableHasSession
<1>3. Proved!Kept(r)
  BY <1>1, <1>2, SameAssumptions, Proved!StepKeeps
<1> QED BY <1>3, SameSets DEF Proved!Kept, Ended, Store!Terminal

\* The acknowledgement of an accepted turn by the holder of the lease is not refused.
LEMMA AcknowledgesItsRun ==
  ASSUME Typed, NEW p \in Launchers, Acknowledge(p), NEW r \in Runs, job[p].run = r, Unbound(r),
         Store!Leased(r, job[p].token), run[r].status = "dispatching"
  PROVE  run'[r].status = "running"
<1>1. Store!MayAcknowledge(r, job[p].token, Target(r))
  BY DEF Unbound, Store!MayAcknowledge
<1>2. Store!AcknowledgeDispatchStarted(r, job[p].token, Target(r))
  BY <1>1 DEF Acknowledge
<1>3. run \in [Runs -> Store!RunRow]
  BY DEF Typed, TablesTyped, Store!TypeOK
<1> QED BY <1>2, <1>3 DEF Store!AcknowledgeDispatchStarted, Store!RunRow

LEMMA DeliveredStep ==
  ASSUME Typed, Store!NoRunStranded, OneDeliverer, OneDeliverer', [Next]_vars,
         NEW r \in Runs, Unbound(r), ~Ended(r), ~Ended(r)', Delivered(r)
  PROVE  Delivered(r)'
<1>0. /\ job \in [Launchers -> JobRow] /\ run \in [Runs -> Store!RunRow]
      /\ \A p \in Launchers : job[p].phase # "idle" => job[p].run \in Runs
  BY DEF Typed, TablesTyped, Store!TypeOK, MemoryTyped, JobTyped
<1> USE DEF Handled, Unaccepted, Delivering
<1> DEFINE On(q) == job[q].run = r /\ job[q].phase \notin {"idle", "reserved"}
           Comes(s) == s = Target(r) /\ \E p \in Launchers : EnqueueTurn(p) /\ Admitted(p, r)
<1>1. \/ SameRow(r) \/ Inserted(r)
      \/ \E p \in Launchers : ClaimedBy(p, r) \/ AcknowledgedBy(p, r) \/ DeferredBy(p, r)
  BY HowRowsMove DEF RowMoves, EndedBySomeone
<1>2. \A q \in Launchers : job'[q] = job[q] \/ Stages(q) \/ (\E x \in Runs : ClaimedBy(q, x)) \/ Rests(q)
  BY WhoMovesJob
<1>3. \A s \in Sessions : Accounted(s, r)' => Accounted(s, r) \/ Comes(s)
  BY WhoAccounts
<1>4. ASSUME NEW p \in Launchers, NEW q \in Launchers, On(p), On(q) PROVE p = q
  BY <1>4 DEF OneDeliverer
<1>5. \A s \in Sessions : Comes(s) => \E p \in Launchers : /\ job[p].run = r /\ job[p].phase = "admitted"
                                                          /\ job'[p].run = r /\ job'[p].phase = "accepted"
  BY <1>0 DEF EnqueueTurn, Move, Admitted, JobRow
<1>6. \A q \in Launchers : Stages(q) => /\ job'[q].run = job[q].run /\ job'[q].token = job[q].token
                                        /\ job[q].phase \notin {"idle", "reserved"}
  BY DEF Stages, Onward
\* A Run that is claimed was delivered by nobody.
<1>7. ASSUME NEW p \in Launchers, ClaimedBy(p, r) PROVE Delivered(r)'
  <2>1. \A q \in Launchers : q # p => job'[q] = job[q]
    BY <1>0, <1>7 DEF ClaimedBy, Claimed
  <2>2. \A q \in Launchers : ~On(q)
    BY <1>7, <2>1 DEF ClaimedBy, OneDeliverer
  <2>3. \A s \in Sessions : ~Accounted(s, r)'
    <3>1. run[r].status \in Store!Open
      BY <1>7 DEF ClaimedBy
    <3> QED BY <1>3, <1>5, <2>2, <3>1 DEF Delivered, Awaiting, Store!Open
  <2>4. \A q \in Launchers : job'[q].run = r /\ job'[q].phase \notin {"idle", "reserved"} => q = p
    BY <2>1, <2>2
  <2> QED BY <1>7, <2>3, <2>4 DEF ClaimedBy, Delivered, Store!Leased
\* Who has acknowledged or given back was alone.
<1>8. ASSUME NEW p \in Launchers, AcknowledgedBy(p, r) PROVE Delivered(r)'
  <2>1. /\ job[p].run = r /\ job[p].phase = "accepted" /\ run'[r].status = "running"
        /\ \A q \in Launchers : q # p => job'[q] = job[q]
    BY <1>0, <1>8 DEF AcknowledgedBy, Acknowledge, At, Move, Abort, Rest
  <2>2. job'[p].phase \in {"acknowledged", "idle"}
    <3>1. ~UNCHANGED store
      BY <1>8 DEF AcknowledgedBy, store
    <3> QED BY <1>0, <1>8, <3>1 DEF AcknowledgedBy, Acknowledge, Move, Rest, NoJob, JobRow
  <2>3. \A q \in Launchers : q # p => ~(job'[q].run = r /\ job'[q].phase \notin {"idle", "reserved"})
    BY <1>4, <2>1
  <2> QED BY <2>1, <2>2, <2>3 DEF Delivered, Awaiting
<1>9. ASSUME NEW p \in Launchers, DeferredBy(p, r) PROVE Delivered(r)'
  <2>1. /\ job[p].run = r /\ job[p].phase = "failed"
        /\ \A q \in Launchers : q # p => job'[q] = job[q]
        /\ job'[p].phase = "idle"
    BY <1>0, <1>9 DEF DeferredBy, GiveBack, At, Rest, NoJob
  <2>2. \A q \in Launchers : ~(job'[q].run = r /\ job'[q].phase \notin {"idle", "reserved"})
    BY <1>4, <2>1
  <2>3. \A s \in Sessions : ~Accounted(s, r)'
    BY <1>3, <1>4, <1>5, <2>1 DEF Delivered
  <2> QED BY <2>2, <2>3 DEF Delivered
\* A Run that is not there yet is delivered by nobody.
<1>10. ASSUME Inserted(r), ~\E p \in Launchers : ClaimedBy(p, r) PROVE Delivered(r)'
  <2>1. run[r].status = "absent" /\ ~Awaiting(r)
    BY <1>10 DEF Inserted, Awaiting
  <2>2. \A q \in Launchers : ~On(q)
    <3> SUFFICES ASSUME NEW q \in Launchers, On(q) PROVE FALSE
      OBVIOUS
    <3>1. job[q].phase \in Unaccepted \cup {"accepted", "acknowledged"}
      BY <1>0 DEF JobRow, JobPhases
    <3> QED BY <2>1, <3>1 DEF Delivered
  <2>3. \A q \in Launchers : ~(job'[q].run = r /\ job'[q].phase \notin {"idle", "reserved"})
    <3> SUFFICES ASSUME NEW q \in Launchers, job'[q].run = r, job'[q].phase \notin {"idle", "reserved"}
                 PROVE  FALSE
      OBVIOUS
    <3>1. CASE job'[q] = job[q]
      BY <2>2, <3>1
    <3>2. CASE Stages(q)
      BY <1>6, <2>2, <3>2
    <3>3. CASE Rests(q)
      BY <3>3 DEF Rests
    <3>4. ASSUME NEW x \in Runs, ClaimedBy(q, x) PROVE FALSE
      <4>1. x = r
        BY <3>4 DEF ClaimedBy
      <4> QED BY <1>10, <3>4, <4>1
    <3> QED BY <1>2, <3>1, <3>2, <3>3, <3>4
  <2>4. \A s \in Sessions : ~Accounted(s, r)'
    BY <1>3, <1>5, <2>1, <2>2 DEF Delivered
  <2> QED BY <2>3, <2>4 DEF Delivered
\* Otherwise whoever delivers goes on.
<1>11. ASSUME SameRow(r), ~\E p \in Launchers : ClaimedBy(p, r) PROVE Delivered(r)'
  <2>1. /\ \A t : Store!Leased(r, t)' <=> Store!Leased(r, t)
        /\ Awaiting(r)' <=> Awaiting(r)
        /\ run'[r].status = run[r].status
    BY <1>11 DEF SameRow, Store!Leased, Awaiting
  <2>2. ASSUME NEW q \in Launchers, Acknowledge(q), job[q].run = r, job[q].phase = "accepted" PROVE FALSE
    <3>1. Store!Leased(r, job[q].token) /\ run[r].status = "dispatching"
      BY <2>2 DEF Delivered
    <3>2. run'[r].status = "running"
      BY <2>2, <3>1, AcknowledgesItsRun
    <3> QED BY <2>1, <3>1, <3>2
  <2>3. ASSUME NEW q \in Launchers, job'[q].run = r, job'[q].phase \notin {"idle", "reserved"}
        PROVE  /\ On(q) /\ job'[q].token = job[q].token
               /\ \/ job'[q].phase = job[q].phase
                  \/ job[q].phase \in {"claimed", "sending", "admitted"}
                     /\ job'[q].phase \in Unaccepted \cup {"accepted"}
    <3>1. CASE job'[q] = job[q]
      BY <2>3, <3>1
    <3>2. CASE Stages(q)
      BY <1>6, <2>2, <2>3, <3>2 DEF Stages, Onward
    <3>3. CASE Rests(q)
      BY <2>3, <3>3 DEF Rests
    <3>4. ASSUME NEW x \in Runs, ClaimedBy(q, x) PROVE FALSE
      <4>1. x = r
        BY <2>3, <3>4 DEF ClaimedBy
      <4> QED BY <1>11, <3>4, <4>1
    <3> QED BY <1>2, <3>1, <3>2, <3>3, <3>4
  <2>4. ASSUME NEW p \in Launchers, Handled(p, r, Unaccepted \cup {"accepted"})'
        PROVE  Store!Leased(r, job[p].token)' /\ run'[r].status = "dispatching" /\ job'[p].token = job[p].token
    <3>1. Handled(p, r, Unaccepted \cup {"accepted"}) /\ job'[p].token = job[p].token
      BY <2>3, <2>4
    <3>2. Store!Leased(r, job[p].token) /\ run[r].status = "dispatching"
      BY <3>1 DEF Delivered
    <3> QED BY <2>1, <3>1, <3>2 DEF Store!Leased, SameRow
  <2>5. ASSUME NEW p \in Launchers, Handled(p, r, Unaccepted)', NEW s \in Sessions, Accounted(s, r)'
        PROVE  FALSE
    <3>1. On(p) /\ Handled(p, r, Unaccepted)
      BY <2>3, <2>5
    <3>2. Comes(s)
      BY <1>3, <2>5, <3>1 DEF Delivered
    <3> QED BY <1>4, <1>5, <2>5, <3>1, <3>2
  <2>6. ASSUME NEW p \in Launchers, Handled(p, r, {"acknowledged"})' PROVE Awaiting(r)'
    <3>1. Handled(p, r, {"acknowledged"})
      BY <2>3, <2>6
    <3> QED BY <2>1, <3>1 DEF Delivered
  <2>7. ASSUME NEW s \in Sessions, Accounted(s, r)', ~Awaiting(r)'
        PROVE  \E p \in Launchers : Handled(p, r, {"accepted"})'
    <3>1. CASE Comes(s)
      BY <1>5, <3>1
    <3>2. CASE ~Comes(s)
      <4>1. PICK p \in Launchers : Handled(p, r, {"accepted"})
        BY <1>3, <2>1, <2>7, <3>2 DEF Delivered
      <4>2. CASE job'[p] = job[p]
        BY <4>1, <4>2
      <4>3. CASE Stages(p)
        BY <2>2, <4>1, <4>3 DEF Stages
      <4>4. ASSUME NEW x \in Runs, ClaimedBy(p, x) PROVE FALSE
        BY <4>1, <4>4 DEF ClaimedBy
      <4>5. CASE Rests(p)
        <5>1. Crash
          BY <2>2, <4>1, <4>5 DEF Rests
        <5>2. ~Accounted(s, r)'
          BY <5>1, StoreAssumption DEF Crash, Accounted, IdsOf, NoTurn, Store!IdAssumption
        <5> QED BY <2>7, <5>2
      <4> QED BY <1>2, <4>2, <4>3, <4>4, <4>5
    <3> QED BY <3>1, <3>2
  <2> QED BY <2>4, <2>5, <2>6, <2>7 DEF Delivered, Store!Leased
<1> QED BY <1>1, <1>7, <1>8, <1>9, <1>10, <1>11

LEMMA AlwaysDelivered ==
  Spec /\ []OneDeliverer => []\A r \in Runs : Ended(r) \/ Delivered(r)
<1> DEFINE Inv == \A r \in Runs : Ended(r) \/ Delivered(r)
           Free == \A r \in Runs : Unbound(r)
<1>1. Init => Inv
  <2> SUFFICES ASSUME Init, NEW r \in Runs PROVE Delivered(r)
    OBVIOUS
  <2>1. /\ \A p \in Launchers : job[p].phase = "idle"
        /\ \A s \in Sessions : turn[s].run = NoRun /\ queue[s] = <<>>
        /\ r # NoRun
    BY StoreAssumption DEF Init, NoJob, NoTurn, Store!IdAssumption
  <2> QED BY <2>1 DEF Delivered, Handled, Unaccepted, Accounted, IdsOf
<1>2. /\ Typed /\ Store!IndInv /\ Free /\ OneDeliverer /\ OneDeliverer' /\ Inv /\ [Next]_vars
      => Inv'
  <2> SUFFICES ASSUME Typed, Store!IndInv, Free, OneDeliverer, OneDeliverer', Inv, [Next]_vars,
                      NEW r \in Runs, ~Ended(r)'
               PROVE  Delivered(r)'
    OBVIOUS
  <2>1. ~Ended(r) /\ Delivered(r)
    BY EndsForGood
  <2> QED BY <2>1, DeliveredStep DEF Store!IndInv
<1> HIDE DEF Inv, Free
<1>3. Spec => []Free
  BY AlwaysUnbound DEF Free
<1>4. Spec /\ []OneDeliverer => []Inv
  BY <1>1, <1>2, <1>3, AlwaysTyped, StoreStaysSound, PTL DEF Spec
<1> QED BY <1>4 DEF Inv

\* What is proved of one sender holds of one deliverer.
LEMMA DelivererIsSender == OneDeliverer => OneSender
BY DEF OneDeliverer, OneSender, Sends, Sending, Admitted, Delivering

-----------------------------------------------------------------------------
(* Turns that are underway.  A message that waits, not stale, is executed;   *)
(* unless the turn ends, a Stop makes it stale, or the host dies.            *)

Waits(q, r) == \E i \in DOMAIN q : q[i] = Message(r)

Underway(r) == \E s \in Sessions : Executing(s, r) \/ Waits(queue[s], r)

\* What a message that is appended, taken or made stale does to one that waits.
LEMMA WhatWaits ==
  ASSUME NEW old \in Seq(MessageRow), NEW r \in Runs
  PROVE  /\ \A m \in MessageRow : Waits(Append(old, m), r) <=> Waits(old, r) \/ m = Message(r)
         /\ old # <<>> => (Waits(old, r) <=> Waits(Tail(old), r) \/ Head(old) = Message(r))
         /\ ~Waits([i \in DOMAIN old |-> [old[i] EXCEPT !.stale = TRUE]], r)
         /\ Waits(old, r) => r \in IdsOf(old)
<1>0. DOMAIN old = 1 .. Len(old) /\ Len(old) \in Nat
  OBVIOUS
<1>1. ASSUME NEW m \in MessageRow
      PROVE  Waits(Append(old, m), r) <=> Waits(old, r) \/ m = Message(r)
  <2>1. DOMAIN Append(old, m) = 1 .. Len(old) + 1
    BY <1>0
  <2>2. Append(old, m)[Len(old) + 1] = m /\ \A j \in 1 .. Len(old) : Append(old, m)[j] = old[j]
    BY <1>0
  <2>3. \A j : j \in 1 .. Len(old) + 1 <=> j \in 1 .. Len(old) \/ j = Len(old) + 1
    BY <1>0
  <2> QED BY <1>0, <2>1, <2>2, <2>3 DEF Waits
<1>2. ASSUME old # <<>>
      PROVE  Waits(old, r) <=> Waits(Tail(old), r) \/ Head(old) = Message(r)
  <2>1. DOMAIN Tail(old) = 1 .. Len(old) - 1 /\ Head(old) = old[1] /\ 1 \in 1 .. Len(old)
    BY <1>0, <1>2
  <2>2. \A j \in 1 .. Len(old) - 1 : Tail(old)[j] = old[j + 1] /\ j + 1 \in 1 .. Len(old)
    BY <1>0, <1>2
  <2>3. \A j \in 1 .. Len(old) : j = 1 \/ (j - 1 \in 1 .. Len(old) - 1 /\ Tail(old)[j - 1] = old[j])
    <3> SUFFICES ASSUME NEW j \in 1 .. Len(old), j # 1
                 PROVE  j - 1 \in 1 .. Len(old) - 1 /\ Tail(old)[j - 1] = old[j]
      OBVIOUS
    <3>1. j - 1 \in 1 .. Len(old) - 1 /\ (j - 1) + 1 = j
      BY <1>0
    <3> QED BY <2>2, <3>1
  <2>4. Waits(old, r) => Waits(Tail(old), r) \/ Head(old) = Message(r)
    <3> SUFFICES ASSUME NEW j \in 1 .. Len(old), old[j] = Message(r)
                 PROVE  Waits(Tail(old), r) \/ Head(old) = Message(r)
      BY <1>0 DEF Waits
    <3>1. CASE j = 1
      BY <2>1, <3>1
    <3>2. CASE j # 1
      <4>1. j - 1 \in DOMAIN Tail(old) /\ Tail(old)[j - 1] = Message(r)
        BY <2>1, <2>3, <3>2
      <4> QED BY <4>1 DEF Waits
    <3> QED BY <3>1, <3>2
  <2>5. Waits(Tail(old), r) \/ Head(old) = Message(r) => Waits(old, r)
    BY <1>0, <2>1, <2>2 DEF Waits
  <2> QED BY <2>4, <2>5
<1>3. ~Waits([i \in DOMAIN old |-> [old[i] EXCEPT !.stale = TRUE]], r)
  <2>1. \A i \in DOMAIN old : [old[i] EXCEPT !.stale = TRUE].stale = TRUE
    <3>1. \A i \in DOMAIN old : old[i] \in MessageRow
      OBVIOUS
    <3> QED BY <3>1 DEF MessageRow
  <2>2. Message(r).stale = FALSE
    BY DEF Message
  <2> QED BY <2>1, <2>2 DEF Waits
<1>4. Waits(old, r) => r \in IdsOf(old)
  BY DEF Waits, IdsOf, Message
<1> QED BY <1>1, <1>2, <1>3, <1>4

LEMMA StaysUnderway ==
  ASSUME Typed, [Next]_vars, NEW r \in Runs, Underway(r), ~Crash, ~\E s \in Sessions : Stop(s)
  PROVE  Underway(r)' \/ \E s \in Sessions, o \in Outcomes : EndTurn(s, o) /\ Executing(s, r)
<1>0. queue \in [Sessions -> Seq(MessageRow)] /\ turn \in [Sessions -> TurnRow] /\ r # NoRun
  BY StoreAssumption DEF Typed, MemoryTyped, QueueTyped, TurnTyped, Store!IdAssumption
<1> DEFINE Stays(s) == Executing(s, r)' \/ Waits(queue'[s], r)
           Over == \E s \in Sessions, o \in Outcomes : EndTurn(s, o) /\ Executing(s, r)
<1> SUFFICES ASSUME NEW s \in Sessions, Executing(s, r) \/ Waits(queue[s], r)
             PROVE  Stays(s) \/ Over
  BY DEF Underway
<1>1. /\ queue[s] \in Seq(MessageRow)
      /\ \A m \in MessageRow : Waits(queue[s], r) => Waits(Append(queue[s], m), r)
      /\ queue[s] # <<>> /\ Waits(queue[s], r) => Waits(Tail(queue[s]), r) \/ Head(queue[s]) = Message(r)
  BY <1>0, WhatWaits
<1>2. CASE UNCHANGED workers
  BY <1>2 DEF workers, Executing
<1>3. ASSUME NEW p \in Launchers, EnqueueTurn(p) PROVE Stays(s)
  <2>1. Message(job[p].run) \in MessageRow /\ turn' = turn
    BY <1>3 DEF EnqueueTurn, At, Typed, MemoryTyped, JobTyped, Message, MessageRow
  <2>2. queue'[s] = queue[s] \/ queue'[s] = Append(queue[s], Message(job[p].run))
    BY <1>0, <1>3 DEF EnqueueTurn
  <2> QED BY <1>1, <2>1, <2>2 DEF Executing
<1>4. ASSUME NEW u \in Sessions, Say(u) PROVE Stays(s)
  <2>1. Message(NoRun) \in MessageRow /\ turn' = turn
    BY <1>4 DEF Say, Message, MessageRow
  <2>2. queue'[s] = queue[s] \/ queue'[s] = Append(queue[s], Message(NoRun))
    BY <1>0, <1>4 DEF Say
  <2> QED BY <1>1, <2>1, <2>2 DEF Executing
<1>5. ASSUME NEW w \in Sessions, WorkerStep(w) PROVE Stays(s) \/ Over
  <2>1. CASE w # s
    <3>1. queue'[s] = queue[s] /\ turn'[s] = turn[s]
      BY <1>0, <1>5, <2>1 DEF WorkerStep, DropStale, StartTurn, PromoteTurnToRunning, FinalizeSession,
         NotifySessionTerminal, CloseTurn, EndTurn, Proceed
    <3> QED BY <3>1 DEF Executing
  <2>2. CASE w = s
    <3>1. CASE DropStale(s)
      <4>1. /\ turn' = turn /\ queue[s] # <<>> /\ queue'[s] = Tail(queue[s]) /\ Head(queue[s]).stale
        BY <1>0, <3>1 DEF DropStale
      <4>2. ~Message(r).stale
        BY DEF Message
      <4> QED BY <1>1, <4>1, <4>2 DEF Executing
    <3>2. CASE StartTurn(s)
      <4>1. queue[s] # <<>> /\ queue'[s] = Tail(queue[s]) /\ turn[s].phase = "idle"
            /\ turn'[s].run = Head(queue[s]).run /\ turn'[s].phase = "started"
        BY <1>0, <3>2 DEF StartTurn, Working, NoTurn
      <4>2. ~Executing(s, r) /\ Message(r).run = r
        BY <4>1 DEF Executing, Message
      <4> QED BY <1>1, <4>1, <4>2 DEF Executing
    <3>3. CASE PromoteTurnToRunning(s)
      <4>1. queue' = queue /\ turn'[s].run = turn[s].run /\ turn'[s].phase = "executing"
        BY <1>0, <3>3 DEF PromoteTurnToRunning, Proceed, TurnRow
      <4> QED BY <4>1 DEF Executing
    <3>4. CASE FinalizeSession(s) \/ NotifySessionTerminal(s) \/ CloseTurn(s)
      <4>1. queue' = queue /\ turn[s].phase \in {"ended", "finalized", "notified"}
        BY <3>4 DEF FinalizeSession, NotifySessionTerminal, CloseTurn, Working
      <4> QED BY <4>1 DEF Executing
    <3>5. ASSUME NEW o \in Outcomes, EndTurn(s, o) PROVE Stays(s) \/ Over
      BY <3>5 DEF EndTurn
    <3> QED BY <1>5, <2>2, <3>1, <3>2, <3>3, <3>4, <3>5 DEF WorkerStep
  <2> QED BY <2>1, <2>2
<1> QED BY <1>2, <1>3, <1>4, <1>5, WhoMovesWorkers

\* A turn of a Run that goes on does not end, so it stays underway.
LEMMA GoesOnUnderway ==
  ASSUME Typed, [Next]_vars, NEW r \in Runs, Underway(r), ~Crash, ~\E s \in Sessions : Stop(s),
         Delivered(r), ~Ended(r)'
  PROVE  Underway(r)'
<1>1. ASSUME NEW s \in Sessions, NEW o \in Outcomes, EndTurn(s, o), Executing(s, r) PROVE FALSE
  <2>1. turn[s].run = r /\ r # NoRun
    BY <1>1, StoreAssumption DEF Executing, Store!IdAssumption
  <2>2. run[r].status \in Store!Active
    BY <2>1 DEF Delivered, Accounted, Awaiting, Handled, Store!Active
  <2>3. PICK v \in OutcomeVerdicts[o] : EndRun(s, r, s, v)
    BY <1>1, <2>1 DEF EndTurn
  <2>4. v \in Store!Verdicts
    BY VerdictsOfStore
  <2>5. Ended(r)'
    BY <2>2, <2>3, <2>4, EndsOneRun DEF Typed, TablesTyped
  <2> QED BY <2>5
<1> QED BY <1>1, StaysUnderway

\* Until a Run has ended, its intent says whether its turn was sent, somebody delivers it
\* as long as it is being dispatched, and a turn that was accepted is underway.
Followed(r) ==
  /\ \A p \in Launchers :
       /\ Handled(p, r, {"claimed", "sending"}) => intent[r] = "absent"
       /\ Handled(p, r, {"failed"}) => intent[r] = "absent" \/ job[p].failure = "final"
       /\ Handled(p, r, {"accepted"}) => Underway(r)
  /\ run[r].status \in {"absent", "queued", "deferred"} => intent[r] = "absent"
  /\ run[r].status = "dispatching" => \E p \in Launchers : Delivering(p) /\ job[p].run = r
  /\ Awaiting(r) => Underway(r)

LEMMA FollowedStep ==
  ASSUME Typed, Store!NoRunStranded, NoLeakedMessageId, OneDeliverer, OneDeliverer', [Next]_vars,
         ~Crash, ~\E s \in Sessions : Stop(s),
         NEW r \in Runs, Unbound(r), ~Ended(r), ~Ended(r)', Delivered(r), Followed(r)
  PROVE  Followed(r)'
<1>0. /\ job \in [Launchers -> JobRow] /\ queue \in [Sessions -> Seq(MessageRow)]
      /\ outbox \in [Runs -> Store!OutboxRow]
      /\ \A p \in Launchers : job[p].phase # "idle" => job[p].run \in Runs
  BY DEF Typed, TablesTyped, Store!TypeOK, MemoryTyped, JobTyped, QueueTyped
<1> USE DEF Handled, Delivering
<1> DEFINE On(q) == job[q].run = r /\ job[q].phase \notin {"idle", "reserved"}
           Admits == \E p \in Launchers : Admit(p) /\ Sending(p, r)
<1>1. \/ SameRow(r) \/ Inserted(r)
      \/ \E p \in Launchers : ClaimedBy(p, r) \/ AcknowledgedBy(p, r) \/ DeferredBy(p, r)
  BY HowRowsMove DEF RowMoves, EndedBySomeone
<1>2. \A q \in Launchers : job'[q] = job[q] \/ Stages(q) \/ (\E x \in Runs : ClaimedBy(q, x)) \/ Rests(q)
  BY WhoMovesJob
<1>3. Underway(r) => Underway(r)'
  BY GoesOnUnderway
<1>4. Admits \/ (intent'[r] = "absent" <=> intent[r] = "absent")
  BY WhoAdmits
<1>5. Admits => \E p \in Launchers : /\ job[p].run = r /\ job[p].phase = "sending"
                                     /\ job'[p].run = r /\ job'[p].phase = "admitted"
  BY <1>0 DEF Admit, Move, Sending, JobRow
<1>6. ASSUME NEW p \in Launchers, Handled(p, r, {"claimed", "sending"})'
      PROVE  intent'[r] = "absent"
  <2>1. ~Admits
    BY <1>5, <1>6 DEF OneDeliverer
  <2>2. CASE job'[p] = job[p] \/ Stages(p)
    BY <1>4, <1>6, <2>1, <2>2 DEF Stages, Onward, Followed
  <2>3. ASSUME NEW x \in Runs, ClaimedBy(p, x) PROVE intent[r] = "absent"
    <3>1. x = r /\ run[r].status \in {"queued", "deferred", "dispatching"}
      BY <1>6, <2>3 DEF ClaimedBy, Store!Open
    <3>2. ASSUME NEW q \in Launchers, On(q) PROVE FALSE
      <4>1. q # p /\ job'[q] = job[q]
        BY <1>0, <2>3, <3>2 DEF ClaimedBy, Claimed
      <4> QED BY <1>6, <3>2, <4>1 DEF OneDeliverer
    <3> QED BY <3>1, <3>2 DEF Followed
  <2> QED BY <1>2, <1>4, <1>6, <2>1, <2>2, <2>3 DEF Rests
<1>7. ASSUME NEW p \in Launchers, Handled(p, r, {"failed"})'
      PROVE  intent'[r] = "absent" \/ job'[p].failure = "final"
  <2>1. ~Admits
    BY <1>5, <1>7 DEF OneDeliverer
  <2>2. CASE job'[p] = job[p] \/ Stages(p)
    BY <1>4, <1>7, <2>1, <2>2 DEF Stages, Onward, Followed
  <2> QED BY <1>2, <1>7, <2>2 DEF Rests, ClaimedBy
<1>8. ASSUME NEW p \in Launchers, Handled(p, r, {"accepted"})'
      PROVE  Underway(r)'
  <2>1. CASE job'[p] = job[p]
    BY <1>3, <1>8, <2>1 DEF Followed
  <2>2. CASE Stages(p)
    <3>1. job[p].run = r /\ (Prepare(p) \/ EnqueueTurn(p)) /\ job[p].phase \in {"claimed", "admitted"}
          /\ (Prepare(p) => job[p].phase = "claimed" /\ intent[r] # "absent")
      BY <1>8, <2>2 DEF Stages, Onward, Prepare, EnqueueTurn, At
    <3>2. EnqueueTurn(p) /\ job[p].phase = "admitted"
      BY <3>1 DEF Followed, EnqueueTurn, At
    <3>3. Target(r) \in Sessions /\ ~Accounted(Target(r), r)
      BY <3>1, <3>2, TargetIsSession DEF Typed, TablesTyped, Delivered, Unaccepted
    <3>4. r \notin known[Target(r)]
      BY <3>3 DEF NoLeakedMessageId, Accounted, IdsOf
    <3>5. queue'[Target(r)] = Append(queue[Target(r)], Message(r))
      BY <1>0, <3>1, <3>2, <3>3, <3>4 DEF EnqueueTurn
    <3>6. queue[Target(r)] \in Seq(MessageRow) /\ Message(r) \in MessageRow
      BY <1>0, <3>3 DEF Message, MessageRow
    <3>7. \A m \in MessageRow :
            Waits(Append(queue[Target(r)], m), r) <=> Waits(queue[Target(r)], r) \/ m = Message(r)
      BY <3>6, WhatWaits
    <3>8. Waits(queue'[Target(r)], r)
      BY <3>5, <3>6, <3>7
    <3> QED BY <3>3, <3>8 DEF Underway
  <2> QED BY <1>2, <1>8, <2>1, <2>2 DEF Rests, ClaimedBy
<1>9. ASSUME run'[r].status \in {"absent", "queued", "deferred"}
      PROVE  intent'[r] = "absent"
  <2>1. CASE SameRow(r) \/ Inserted(r)
    <3>1. intent[r] = "absent" /\ run[r].status # "dispatching"
      BY <1>9, <2>1 DEF SameRow, Inserted, Followed
    <3>2. ~Admits
      BY <3>1 DEF Sending, Delivered, Unaccepted
    <3> QED BY <1>4, <3>1, <3>2
  <2>2. ASSUME NEW p \in Launchers, DeferredBy(p, r) PROVE intent'[r] = "absent"
    <3>1. Handled(p, r, {"failed"}) /\ job[p].failure # "final"
      BY <2>2 DEF DeferredBy, GiveBack, At
    <3>2. ~Admits
      BY <1>5, <3>1 DEF OneDeliverer
    <3> QED BY <1>4, <3>1, <3>2 DEF Followed
  <2> QED BY <1>1, <1>9, <2>1, <2>2 DEF ClaimedBy, AcknowledgedBy
<1>10. ASSUME run'[r].status = "dispatching"
       PROVE  \E p \in Launchers : Delivering(p)' /\ job'[p].run = r
  <2>1. CASE SameRow(r)
    <3>1. run[r].status = "dispatching" /\ outbox'[r].status = outbox[r].status
      BY <1>10, <2>1 DEF SameRow
    <3>2. PICK p \in Launchers : On(p)
      BY <3>1 DEF Followed
    <3>3. CASE job'[p] = job[p] \/ Stages(p)
      BY <3>2, <3>3 DEF Stages, Onward
    <3>4. CASE Rests(p)
      <4>1. CASE GiveBack(p) /\ job[p].phase = "failed"
        <5>1. Store!Leased(r, job[p].token)
          BY <3>2, <4>1 DEF Delivered, Unaccepted
        <5>2. Store!RecordDispatchFailure(r, job[p].token, job[p].failure)
          BY <3>2, <4>1, <5>1 DEF GiveBack
        <5>3. outbox'[r].status \in {"retry_wait", "dead_letter"}
          BY <1>0, <5>2 DEF Store!RecordDispatchFailure, Store!Nack, Store!OutboxRow
        <5> QED BY <3>1, <5>1, <5>3 DEF Store!Leased
      <4>2. CASE job[p].phase = "acknowledged"
        BY <3>1, <3>2, <4>2 DEF Delivered, Awaiting
      <4>3. CASE Acknowledge(p) /\ job[p].phase = "accepted"
        <5>1. Store!Leased(r, job[p].token)
          BY <3>2, <4>3 DEF Delivered
        <5>2. run'[r].status = "running"
          BY <3>1, <3>2, <4>3, <5>1, AcknowledgesItsRun
        <5> QED BY <1>10, <5>2
      <4> QED BY <3>2, <3>4, <4>1, <4>2, <4>3 DEF Rests
    <3> QED BY <1>2, <3>2, <3>3, <3>4 DEF ClaimedBy
  <2>2. ASSUME NEW p \in Launchers, ClaimedBy(p, r) PROVE Delivering(p)' /\ job'[p].run = r
    BY <2>2 DEF ClaimedBy
  <2> QED BY <1>1, <1>10, <2>1, <2>2 DEF Inserted, AcknowledgedBy, DeferredBy
<1>11. Awaiting(r)' => Underway(r)'
  <2> SUFFICES ASSUME Awaiting(r)' PROVE Underway(r)
    BY <1>3
  <2>1. CASE SameRow(r)
    BY <2>1 DEF SameRow, Awaiting, Followed
  <2>2. ASSUME NEW p \in Launchers, AcknowledgedBy(p, r) PROVE Underway(r)
    BY <2>2 DEF AcknowledgedBy, Acknowledge, At, Followed
  <2> QED BY <1>1, <2>1, <2>2 DEF Inserted, ClaimedBy, DeferredBy, Awaiting
<1> QED BY <1>6, <1>7, <1>8, <1>9, <1>10, <1>11 DEF Followed

\* Nobody stops anything, and the process does not die.
Undisturbed == MaxCrashes = 0 /\ MaxStops = 0

LEMMA NothingDisturbs ==
  ASSUME Undisturbed, SpentTyped
  PROVE  ~Crash /\ ~\E s \in Sessions : Stop(s)
<1>1. spent.crashes \in Nat /\ spent.stops \in Nat
  BY DEF SpentTyped
<1>2. ~(spent.crashes < MaxCrashes) /\ ~(spent.stops < MaxStops)
  BY <1>1 DEF Undisturbed
<1> QED BY <1>2 DEF Crash, Stop

LEMMA AlwaysFollowed ==
  ASSUME Undisturbed
  PROVE  Spec /\ []OneDeliverer => []\A r \in Runs : Ended(r) \/ Followed(r)
<1> DEFINE Inv == \A r \in Runs : Ended(r) \/ Followed(r)
           Free == \A r \in Runs : Unbound(r)
           Known == \A r \in Runs : Ended(r) \/ Delivered(r)
<1>1. Init => Inv
  <2> SUFFICES ASSUME Init, NEW r \in Runs PROVE Followed(r)
    OBVIOUS
  <2>1. /\ \A p \in Launchers : job[p].phase = "idle"
        /\ intent[r] = "absent"
    BY DEF Init, NoJob
  <2>2. run[r].status = "absent"
    BY DEF Init, Store!Init, Store!NoRunRow
  <2> QED BY <2>1, <2>2 DEF Followed, Handled, Awaiting
<1>2. /\ Typed /\ SpentTyped /\ Store!IndInv /\ NoLeakedMessageId /\ Free /\ Known
      /\ OneDeliverer /\ OneDeliverer' /\ Inv /\ [Next]_vars
      => Inv'
  <2> SUFFICES ASSUME Typed, SpentTyped, Store!IndInv, NoLeakedMessageId, Free, Known,
                      OneDeliverer, OneDeliverer', Inv, [Next]_vars,
                      NEW r \in Runs, ~Ended(r)'
               PROVE  Followed(r)'
    OBVIOUS
  <2>1. ~Ended(r) /\ Delivered(r) /\ Followed(r) /\ Unbound(r)
    BY EndsForGood
  <2> QED BY <2>1, FollowedStep, NothingDisturbs DEF Store!IndInv
<1> HIDE DEF Inv, Free, Known
<1>3. Spec => []Free
  BY AlwaysUnbound DEF Free
<1>4. Spec /\ []OneDeliverer => []Known
  BY AlwaysDelivered DEF Known
<1>5. Spec /\ []OneDeliverer => []Inv
  BY <1>1, <1>2, <1>3, <1>4, AlwaysTyped, AlwaysSpent, NoIdLeaks, StoreStaysSound, PTL DEF Spec
<1> QED BY <1>5 DEF Inv

\* A Run that holds its directory is never forgotten, as long as nobody stops its turn, the
\* process lives, and no launcher goes on with a delivery that another one has taken over:
\* what acknowledges a Run has put its turn into the queue, where it waits until it executes.
THEOREM ActiveRunsAreAttended ==
  ASSUME Undisturbed
  PROVE  Spec /\ []OneDeliverer => []ActiveRunAttended
<1>1. (\A r \in Runs : Ended(r) \/ Followed(r)) => ActiveRunAttended
  <2> SUFFICES ASSUME NEW r \in Runs, Ended(r) \/ Followed(r), run[r].status \in {"running", "waiting"}
               PROVE  Attended(r)
    BY DEF ActiveRunAttended
  <2>1. Underway(r)
    BY DEF Ended, Store!Terminal, Followed, Awaiting
  <2> QED BY <2>1 DEF Underway, Waits, Attended
<1> QED BY <1>1, AlwaysFollowed, PTL

\* Without inline callers there is one launcher.
LEMMA OneLauncher ==
  ASSUME Inline = {}
  PROVE  OneDeliverer
BY DEF OneDeliverer, Launchers

\* So the dispatcher alone never forgets a Run (work_item_run_dispatcher.rs).
THEOREM DispatcherForgetsNoRun ==
  ASSUME Inline = {}, Undisturbed
  PROVE  Spec => []ActiveRunAttended
BY ActiveRunsAreAttended, OneLauncher, PTL

-----------------------------------------------------------------------------
(* One deliverer.  A delivery is taken over when its lease has expired and   *)
(* the Run is claimed again; a limit of one delivery leaves nothing to claim.*)

\* A delivery is not taken over: nobody claims a Run again before whoever delivers it is done.
NeverTakenOver ==
  \A p \in Launchers : Delivering(p) => outbox[job[p].run].tries = job[p].token

LEMMA NotTakenOver ==
  ASSUME TokensDiffer, NeverTakenOver
  PROVE  OneDeliverer
BY DEF TokensDiffer, NeverTakenOver, OneDeliverer

\* Each claim counts, and there are no more than the limit.
Counted ==
  /\ \A r \in Runs : outbox[r].tries <= MaxDeliveries
  /\ \A p \in Launchers : Delivering(p) => job[p].token >= 1

LEMMA TriesLimited ==
  ASSUME Store!TypeOK, [Store!Next]_store, NEW r \in Runs, outbox[r].tries <= MaxDeliveries
  PROVE  outbox'[r].tries <= MaxDeliveries
<1>0. /\ outbox \in [Runs -> Store!OutboxRow] /\ outbox[r].tries \in Nat /\ MaxDeliveries \in Nat
      /\ Store!NoOutboxRow.tries = 0
  BY StoreAssumption DEF Store!TypeOK, Store!OutboxRow, Store!RequestAssumption, Store!NoOutboxRow
<1> USE DEF Store!OutboxRow
<1>1. ASSUME NEW x \in Runs, NEW k, NEW p, NEW n, NEW z, NEW d, Store!Insert(x, k, p, n, z, d)
      PROVE  outbox'[r].tries \in {outbox[r].tries, 0}
  <2>1. outbox'[r] = outbox[r] \/ outbox'[r].tries = 0
    BY <1>0, <1>1 DEF Store!Insert, Store!NoOutboxRow
  <2> QED BY <2>1
<1>2. CASE Store!Submission
  <2>1. \E x \in Runs : \E k, p, n, z, d : Store!Insert(x, k, p, n, z, d)
    BY <1>2 DEF Store!Submission, Store!Enqueue, Store!Retry
  <2> QED BY <1>0, <1>1, <2>1
<1>3. ASSUME NEW x \in Runs, Store!Lease(x)
      PROVE  outbox'[r].tries <= MaxDeliveries
  BY <1>0, <1>3 DEF Store!Lease
<1>4. ASSUME NEW x \in Runs, NEW t, NEW s, Store!AcknowledgeDispatchStarted(x, t, s)
      PROVE  outbox'[r].tries = outbox[r].tries
  BY <1>0, <1>4 DEF Store!AcknowledgeDispatchStarted
<1>5. ASSUME NEW x \in Runs, NEW t, NEW f, Store!RecordDispatchFailure(x, t, f)
      PROVE  outbox'[r].tries = outbox[r].tries
  BY <1>0, <1>5 DEF Store!RecordDispatchFailure, Store!Nack
<1>6. CASE Store!Delivery
  BY <1>0, <1>3, <1>4, <1>5, <1>6 DEF Store!Delivery, Store!ClaimNextDispatch, Store!ClaimDispatchForRun
<1>7. CASE Store!Ending
  <2>1. ASSUME NEW x \in Runs, Store!CancelAssigneeEscalations(x)
        PROVE  outbox'[r].tries = outbox[r].tries
    BY <1>0, <2>1 DEF Store!CancelAssigneeEscalations
  <2>2. ASSUME NEW S \in SUBSET Runs, Store!CancelRoutineRun(S)
        PROVE  outbox'[r].tries = outbox[r].tries
    BY <1>0, <2>2 DEF Store!CancelRoutineRun
  <2>3. ASSUME NEW x \in Runs, NEW s, NEW v, Store!RecordRunTerminal(x, s, v) \/ Store!MarkWaiting(x)
        PROVE  outbox' = outbox
    BY <2>3 DEF Store!RecordRunTerminal, Store!MarkWaiting
  <2> QED BY <1>0, <1>7, <2>1, <2>2, <2>3 DEF Store!Ending
<1>8. CASE Store!Passing
  <2>1. ASSUME NEW x \in Runs, Store!DeadlinePasses(x) \/ Store!ExtendWakeWindow(x)
        PROVE  outbox'[r].tries = outbox[r].tries
    BY <1>0, <2>1 DEF Store!DeadlinePasses, Store!ExtendWakeWindow
  <2>2. ASSUME NEW p \in Paths, Store!PathLockLapses(p) PROVE outbox' = outbox
    BY <2>2 DEF Store!PathLockLapses
  <2> QED BY <1>0, <1>8, <2>1, <2>2 DEF Store!Passing
<1> QED BY <1>0, <1>2, <1>6, <1>7, <1>8 DEF Store!Next, store

LEMMA CountedStep ==
  ASSUME Typed, Counted, [Next]_vars
  PROVE  Counted'
<1>0. /\ job \in [Launchers -> JobRow] /\ outbox \in [Runs -> Store!OutboxRow]
      /\ \A r \in Runs : outbox[r].tries \in Nat
  BY DEF Typed, MemoryTyped, JobTyped, TablesTyped, Store!TypeOK, Store!OutboxRow
<1>1. \A r \in Runs : outbox'[r].tries <= MaxDeliveries
  BY StepIsStore, TriesLimited DEF Typed, TablesTyped, Counted
<1>2. ASSUME NEW p \in Launchers, Delivering(p)' PROVE job'[p].token >= 1
  <2>1. CASE Delivering(p) /\ job'[p].token = job[p].token
    BY <2>1 DEF Counted
  <2>2. ASSUME NEW r \in Runs, Claimed(p, r) PROVE job'[p].token >= 1
    <3>1. job'[p].token = outbox[r].tries + 1
      BY <1>0, <2>2 DEF Claimed, NoJob
    <3> QED BY <1>0, <3>1
  <2> QED BY <1>2, <2>1, <2>2, WhoDelivers
<1> QED BY <1>1, <1>2 DEF Counted

\* A Run that is delivered once has one deliverer.
LEMMA OneDelivery ==
  ASSUME MaxDeliveries = 1
  PROVE  Spec => []OneDeliverer
<1>1. Init => Counted
  <2> SUFFICES ASSUME Init PROVE Counted
    OBVIOUS
  <2>1. \A r \in Runs : outbox[r].tries = 0
    BY DEF Init, Store!Init, Store!NoOutboxRow
  <2>2. \A p \in Launchers : ~Delivering(p)
    BY DEF Init, NoJob, Delivering
  <2> QED BY <2>1, <2>2 DEF Counted
<1>2. Typed /\ Counted /\ [Next]_vars => Counted'
  BY CountedStep
<1>3. Typed /\ TokensDiffer /\ Counted => OneDeliverer
  <2> SUFFICES ASSUME Typed, TokensDiffer, Counted, NEW p \in Launchers, Delivering(p)
               PROVE  outbox[job[p].run].tries = job[p].token
    BY NotTakenOver DEF NeverTakenOver
  <2>1. job[p].run \in Runs /\ job[p].token \in Nat
    BY DEF Typed, MemoryTyped, JobTyped, JobRow, Delivering
  <2>2. outbox[job[p].run].tries \in Nat /\ outbox[job[p].run].tries <= 1
    BY <2>1 DEF Typed, TablesTyped, Store!TypeOK, Store!OutboxRow, Counted
  <2>3. job[p].token >= 1 /\ job[p].token <= outbox[job[p].run].tries
    BY DEF Counted, TokensDiffer
  <2> QED BY <2>1, <2>2, <2>3
<1> QED BY <1>1, <1>2, <1>3, AlwaysTyped, TokensAlwaysDiffer, PTL DEF Spec

-----------------------------------------------------------------------------
(* Turns and the ends of their Runs.  As long as nothing but its own turn    *)
(* can end a Run that executes, no turn outlives its Run.                    *)

\* What a worker has in hand is what it had, or what it has taken from its queue.
LEMMA WhoTurns ==
  ASSUME Typed, [Next]_vars, NEW r \in Runs, NEW s \in Sessions, turn'[s].run = r
  PROVE  \/ turn'[s] = turn[s]
         \/ StartTurn(s) /\ queue[s] # <<>> /\ Head(queue[s]) = Message(r) /\ Executing(s, r)'
         \/ Executing(s, r) /\ Executing(s, r)'
         \/ (\E o \in Outcomes : EndTurn(s, o)) /\ Executing(s, r) /\ turn'[s].phase = "ended"
         \/ /\ turn[s].run = r /\ turn[s].phase \in {"ended", "finalized"}
            /\ turn'[s].phase \in {"finalized", "notified"}
<1>0. /\ queue \in [Sessions -> Seq(MessageRow)] /\ turn \in [Sessions -> TurnRow] /\ r # NoRun
  BY StoreAssumption DEF Typed, MemoryTyped, QueueTyped, TurnTyped, Store!IdAssumption
<1>1. CASE turn' = turn
  BY <1>1
<1>2. CASE Crash
  BY <1>0, <1>2 DEF Crash, NoTurn
<1>3. ASSUME NEW w \in Sessions, WorkerStep(w), w # s PROVE turn'[s] = turn[s]
  BY <1>0, <1>3 DEF WorkerStep, DropStale, StartTurn, PromoteTurnToRunning, FinalizeSession,
                    NotifySessionTerminal, CloseTurn, EndTurn, Proceed
<1>4. CASE StartTurn(s)
  <2>1. /\ queue[s] # <<>> /\ ~Head(queue[s]).stale
        /\ turn'[s].run = Head(queue[s]).run /\ turn'[s].phase = "started"
    BY <1>0, <1>4 DEF StartTurn, NoTurn
  <2>2. Head(queue[s]) \in MessageRow
    BY <1>0, <2>1
  <2>3. Head(queue[s]) = Message(r)
    BY <2>1, <2>2 DEF MessageRow, Message
  <2> QED BY <1>4, <2>1, <2>3 DEF Executing
<1>5. CASE PromoteTurnToRunning(s)
  BY <1>0, <1>5 DEF PromoteTurnToRunning, Working, Proceed, Executing, TurnRow
<1>6. ASSUME NEW o \in Outcomes, EndTurn(s, o)
      PROVE  Executing(s, r) /\ turn'[s].phase = "ended"
  BY <1>0, <1>6 DEF EndTurn, Working, Executing, TurnRow
<1>7. CASE FinalizeSession(s) \/ NotifySessionTerminal(s)
  BY <1>0, <1>7 DEF FinalizeSession, NotifySessionTerminal, Working, Proceed, TurnRow
<1>8. CASE DropStale(s)
  BY <1>8 DEF DropStale
<1>9. CASE CloseTurn(s)
  BY <1>0, <1>9 DEF CloseTurn, NoTurn
<1>10. ASSUME NEW w \in Sessions, WorkerStep(w), w = s
       PROVE  \/ DropStale(s) \/ StartTurn(s) \/ PromoteTurnToRunning(s) \/ FinalizeSession(s)
              \/ NotifySessionTerminal(s) \/ CloseTurn(s) \/ \E o \in Outcomes : EndTurn(s, o)
  BY <1>10 DEF WorkerStep
<1> QED BY <1>1, <1>2, <1>3, <1>4, <1>5, <1>6, <1>7, <1>8, <1>9, <1>10, WhoMovesWorkers
        DEF EnqueueTurn, Say, Stop, workers

\* A message waits anew only where its launcher puts it into the queue.
LEMMA WhoWaits ==
  ASSUME Typed, [Next]_vars, NEW r \in Runs, NEW s \in Sessions, Waits(queue'[s], r)
  PROVE  Waits(queue[s], r) \/ \E p \in Launchers : EnqueueTurn(p) /\ Admitted(p, r)
<1>0. queue \in [Sessions -> Seq(MessageRow)] /\ queue[s] \in Seq(MessageRow) /\ r # NoRun
  BY StoreAssumption DEF Typed, MemoryTyped, QueueTyped, Store!IdAssumption
<1>1. /\ \A m \in MessageRow : Waits(Append(queue[s], m), r) <=> Waits(queue[s], r) \/ m = Message(r)
      /\ queue[s] # <<>> => (Waits(queue[s], r) <=> Waits(Tail(queue[s]), r) \/ Head(queue[s]) = Message(r))
      /\ ~Waits([i \in DOMAIN queue[s] |-> [queue[s][i] EXCEPT !.stale = TRUE]], r)
  BY <1>0, WhatWaits
<1>2. CASE queue' = queue
  BY <1>2
<1>3. ASSUME NEW p \in Launchers, EnqueueTurn(p) PROVE Waits(queue[s], r) \/ Admitted(p, r)
  <2>1. Message(job[p].run) \in MessageRow
    BY <1>3 DEF EnqueueTurn, At, Typed, MemoryTyped, JobTyped, Message, MessageRow
  <2>2. queue'[s] = queue[s] \/ queue'[s] = Append(queue[s], Message(job[p].run))
    BY <1>0, <1>3 DEF EnqueueTurn
  <2>3. Message(job[p].run) = Message(r) => job[p].run = r
    BY DEF Message
  <2> QED BY <1>1, <1>3, <2>1, <2>2, <2>3 DEF EnqueueTurn, At, Admitted
<1>4. ASSUME NEW u \in Sessions, Say(u) PROVE Waits(queue[s], r)
  <2>1. Message(NoRun) \in MessageRow /\ Message(NoRun) # Message(r)
    BY <1>0 DEF Message, MessageRow
  <2>2. queue'[s] = queue[s] \/ queue'[s] = Append(queue[s], Message(NoRun))
    BY <1>0, <1>4 DEF Say
  <2> QED BY <1>1, <2>1, <2>2
<1>5. ASSUME NEW u \in Sessions, Stop(u) PROVE Waits(queue[s], r)
  <2>1. \/ queue'[s] = queue[s]
        \/ queue'[s] = [i \in DOMAIN queue[s] |-> [queue[s][i] EXCEPT !.stale = TRUE]]
    BY <1>0, <1>5 DEF Stop
  <2> QED BY <1>1, <2>1
<1>6. ASSUME NEW w \in Sessions, WorkerStep(w) PROVE Waits(queue[s], r)
  <2>1. CASE DropStale(w) \/ StartTurn(w)
    <3>1. queue'[s] = queue[s] \/ (queue[s] # <<>> /\ queue'[s] = Tail(queue[s]))
      BY <1>0, <2>1 DEF DropStale, StartTurn
    <3> QED BY <1>1, <3>1
  <2>2. CASE ~(DropStale(w) \/ StartTurn(w))
    BY <1>6, <2>2 DEF WorkerStep, PromoteTurnToRunning, FinalizeSession, NotifySessionTerminal,
                      CloseTurn, EndTurn
  <2> QED BY <2>1, <2>2
<1>7. CASE Crash
  BY <1>7 DEF Crash, Waits
<1> QED BY <1>2, <1>3, <1>4, <1>5, <1>6, <1>7, WhoMovesWorkers DEF workers

\* Who may write the intent of Run r, and what.
LEMMA WhoMovesIntent ==
  ASSUME Typed, [Next]_vars, NEW r \in Runs
  PROVE  \/ intent'[r] = intent[r]
         \/ (\E p \in Launchers : Admit(p) /\ Sending(p, r)) /\ intent[r] = "absent" /\ intent'[r] = "queued"
         \/ \E p \in Launchers : QueueFull(p) /\ Admitted(p, r)
         \/ \E s \in Sessions : /\ DropStale(s) \/ StartTurn(s)
                                /\ queue[s] # <<>> /\ Head(queue[s]).run = r
                                /\ StartTurn(s) => UpdateIntent(r, "running")
         \/ \E s \in Sessions : CloseTurn(s) /\ turn[s].run = r /\ turn'[s] = NoTurn /\ queue' = queue
         \/ \E s \in Sessions : Stop(s) /\ Target(r) = s /\ intent[r] = "queued"
         \/ RunPersistenceStartupRecovery
<1>0. intent \in [Runs -> IntentStatus]
  BY DEF Typed, DiskTyped
<1>1. ASSUME NEW x, NEW to, UpdateIntent(x, to), x # r PROVE intent'[r] = intent[r]
  BY <1>0, <1>1 DEF UpdateIntent
<1>2. ASSUME NEW p \in Launchers, LauncherStep(p), ~Admit(p), ~QueueFull(p) PROVE intent'[r] = intent[r]
  BY <1>2 DEF LauncherStep, TakeReserved, Prepare, EnqueueTurn, Acknowledge, GiveBack, CannotLaunch, disk
<1>3. ASSUME NEW p \in Launchers, Admit(p)
      PROVE  \/ intent'[r] = intent[r]
             \/ Sending(p, r) /\ intent[r] = "absent" /\ intent'[r] = "queued"
  BY <1>0, <1>3 DEF Admit, At, Sending
<1>4. ASSUME NEW p \in Launchers, QueueFull(p) PROVE intent'[r] = intent[r] \/ Admitted(p, r)
  BY <1>1, <1>4 DEF QueueFull, At, Admitted
<1>5. ASSUME NEW s \in Sessions, DropStale(s) \/ StartTurn(s), intent'[r] # intent[r]
      PROVE  /\ queue[s] # <<>> /\ Head(queue[s]).run = r
             /\ StartTurn(s) => UpdateIntent(r, "running")
  BY <1>1, <1>5 DEF DropStale, StartTurn
<1>6. ASSUME NEW s \in Sessions, CloseTurn(s)
      PROVE  intent'[r] = intent[r] \/ (turn[s].run = r /\ turn'[s] = NoTurn /\ queue' = queue)
  BY <1>1, <1>6 DEF CloseTurn, Typed, MemoryTyped, TurnTyped
<1>7. ASSUME NEW s \in Sessions, WorkerStep(s), ~DropStale(s), ~StartTurn(s), ~CloseTurn(s)
      PROVE  intent' = intent
  BY <1>7 DEF WorkerStep, PromoteTurnToRunning, FinalizeSession, NotifySessionTerminal, EndTurn, disk
<1>8. ASSUME NEW s \in Sessions, Stop(s)
      PROVE  intent'[r] = intent[r] \/ (Target(r) = s /\ intent[r] = "queued")
  BY <1>8 DEF Stop
<1>9. ASSUME UserStep, ~\E s \in Sessions : Stop(s) PROVE intent' = intent
  BY <1>9 DEF UserStep, Say, Click, Produce, Reserve, CancelRoutineRun, disk
<1>10. ASSUME RecoveryStep, ~RunPersistenceStartupRecovery PROVE intent' = intent
  BY <1>10 DEF RecoveryStep, ListInterrupted, FinishRecovery, SettleInterrupted, disk
<1>11. ASSUME NEW c \in Retriers, RetrierStep(c) PROVE intent' = intent
  BY <1>11 DEF RetrierStep, CheckRetry, RetryRefused, InsertRetry, disk
<1>12. ASSUME \/ Crash \/ ReconcileTerminalIntent \/ UNCHANGED vars
              \/ \E x \in Runs : Take(x) \/ DeadlinePasses(x)
              \/ \E x \in Launchers \cup Sessions : Epilogue(x)
              \/ \E p \in Paths : PathLockLapses(p)
      PROVE  intent' = intent
  BY <1>12 DEF Crash, ReconcileTerminalIntent, vars, Take, DeadlinePasses, Epilogue,
               PathLockLapses, disk
<1> QED BY <1>2, <1>3, <1>4, <1>5, <1>6, <1>7, <1>8, <1>9, <1>10, <1>11, <1>12 DEF Next

\* A process gets Run r into its memory when the dispatcher claims it, or an inline caller
\* inserts it.
LEMMA WhoIsBusy ==
  ASSUME Typed, [Next]_vars, NEW r \in Runs
  PROVE  /\ \A p \in Launchers : job'[p].run = r =>
              \/ job[p].run = r
              \/ p = Desktop /\ host = "up"
              \/ p \in Inline /\ Reserve(p, r)
         /\ Busy(r)' => Busy(r) \/ host = "up" \/ \E p \in Inline : Reserve(p, r)
<1>0. job \in [Launchers -> JobRow] /\ NoJob.run = NoRun /\ r # NoRun
  BY StoreAssumption DEF Typed, MemoryTyped, JobTyped, NoJob, Store!IdAssumption
<1> DEFINE Kept(q) == job'[q].run \in {job[q].run, NoRun}
<1>1. ASSUME NEW p \in Launchers, LauncherStep(p), NEW q \in Launchers PROVE Kept(q)
  <2>1. CASE TakeReserved(p)
    <3>1. Claimed(p, job[p].run) \/ Rest(p)
      BY <2>1 DEF TakeReserved
    <3>2. Claimed(p, job[p].run) => job'[q].run = job[q].run
      BY <1>0 DEF Claimed, NoJob
    <3> QED BY <1>0, <3>1, <3>2 DEF Rest
  <2>2. CASE Prepare(p) \/ Admit(p) \/ EnqueueTurn(p)
    BY <1>0, <2>2 DEF Prepare, Admit, EnqueueTurn, Move, JobRow
  <2>3. CASE QueueFull(p) \/ \E f \in Store!DispatchFailures : CannotLaunch(p, f)
    BY <1>0, <2>3 DEF QueueFull, CannotLaunch, Abort, JobRow
  <2>4. CASE Acknowledge(p)
    BY <1>0, <2>4 DEF Acknowledge, Move, Abort, Rest, JobRow
  <2>5. CASE GiveBack(p)
    BY <1>0, <2>5 DEF GiveBack, Rest
  <2> QED BY <1>1, <2>1, <2>2, <2>3, <2>4, <2>5 DEF LauncherStep
<1>2. ASSUME NEW x \in Runs, Take(x), NEW q \in Launchers PROVE Kept(q) \/ (q = Desktop /\ host = "up")
  BY <1>0, <1>2 DEF Take, Claimed
<1>3. ASSUME NEW x \in Runs, NEW p \in Inline, Reserve(p, x), NEW q \in Launchers
      PROVE  Kept(q) \/ (q = p /\ job'[q].run = x)
  BY <1>0, <1>3 DEF Reserve, NoJob
<1>4. ASSUME ReconcileTerminalIntent \/ Crash, NEW q \in Launchers PROVE Kept(q)
  BY <1>0, <1>4 DEF ReconcileTerminalIntent, Rest, Crash
<1>5. ASSUME NEW s \in Sessions, WorkerStep(s) PROVE job' = job
  BY <1>5 DEF WorkerStep, DropStale, StartTurn, PromoteTurnToRunning, FinalizeSession,
              NotifySessionTerminal, CloseTurn, EndTurn, callers
<1>6. ASSUME NEW c \in Retriers, RetrierStep(c) PROVE job' = job
  BY <1>6 DEF RetrierStep, CheckRetry, RetryRefused, InsertRetry
<1>7. ASSUME RecoveryStep PROVE job' = job
  BY <1>7 DEF RecoveryStep, RunPersistenceStartupRecovery, ListInterrupted, FinishRecovery,
              SettleInterrupted, callers
<1>8. ASSUME UserStep, ~\E x \in Runs, p \in Inline : Reserve(p, x) PROVE job' = job
  BY <1>8 DEF UserStep, Say, Stop, Click, Produce, CancelRoutineRun, callers
<1>9. ASSUME \/ UNCHANGED vars
             \/ \E x \in Runs : DeadlinePasses(x)
             \/ \E x \in Launchers \cup Sessions : Epilogue(x)
             \/ \E p \in Paths : PathLockLapses(p)
      PROVE  job' = job
  BY <1>9 DEF vars, DeadlinePasses, Epilogue, PathLockLapses, callers
<1>10. ASSUME NEW q \in Launchers, job'[q].run = r
       PROVE  job[q].run = r \/ (q = Desktop /\ host = "up") \/ (q \in Inline /\ Reserve(q, r))
  <2>1. \/ Kept(q) \/ (q = Desktop /\ host = "up")
        \/ \E p \in Inline, x \in Runs : Reserve(p, x) /\ q = p /\ job'[q].run = x
    <3>1. CASE \E x \in Runs, p \in Inline : Reserve(p, x)
      BY <1>3, <3>1
    <3> QED BY <1>1, <1>2, <1>4, <1>5, <1>6, <1>7, <1>8, <1>9, <3>1 DEF Next
  <2> QED BY <1>0, <1>10, <2>1
<1>11. ASSUME NEW s \in Sessions, Accounted(s, r)' PROVE Busy(r)
  BY <1>11, WhoAccounts DEF Busy, Admitted
<1>12. Busy(r)' => Busy(r) \/ host = "up" \/ \E p \in Inline : Reserve(p, r)
  <2>1. Busy(r)' => (\E p \in Launchers : job'[p].run = r) \/ \E s \in Sessions : Accounted(s, r)'
    BY DEF Busy
  <2>2. \A p \in Launchers : job[p].run = r => Busy(r)
    BY DEF Busy
  <2> QED BY <1>10, <1>11, <2>1, <2>2
<1> QED BY <1>10, <1>12

\* A Session shows an end when its turn is finalized, or its first turn could not be sent.
LEMMA WhoEndsSession ==
  ASSUME Typed, [Next]_vars, NEW s \in Sessions
  PROVE  \/ session'[s].status = session[s].status
         \/ session'[s].status \in {"idle", "running"}
         \/ turn[s].phase = "ended"
         \/ RunPersistenceStartupRecovery
         \/ \E p \in Launchers : /\ job[p].run \in Runs /\ Target(job[p].run) = s
                                 /\ job'[p].run = job[p].run /\ job'[p].phase = "failed"
<1>0. /\ job \in [Launchers -> JobRow] /\ session \in [Sessions -> [status: SessionStatus, marker: Outcomes \cup {"none"}]]
      /\ \A p \in Launchers : job[p].phase # "idle" => job[p].run \in Runs
  BY DEF Typed, MemoryTyped, JobTyped, DiskTyped
<1>1. ASSUME NEW p \in Launchers, LauncherStep(p)
      PROVE  \/ session'[s].status = session[s].status
             \/ session'[s].status = "idle"
             \/ /\ job[p].run \in Runs /\ Target(job[p].run) = s
                /\ job'[p].run = job[p].run /\ job'[p].phase = "failed"
  <2>1. CASE Prepare(p)
    BY <1>0, <2>1 DEF Prepare, CreateSession
  <2>2. ASSUME NEW f, Abort(p, f) PROVE job'[p].run = job[p].run /\ job'[p].phase = "failed"
    BY <1>0, <2>2 DEF Abort, JobRow
  <2>3. ASSUME NEW r \in Runs, MarkSessionFailed(r)
        PROVE  session'[s].status = session[s].status \/ Target(r) = s
    BY <1>0, <2>3 DEF MarkSessionFailed, Target
  <2>4. CASE QueueFull(p) \/ \E f \in Store!DispatchFailures : CannotLaunch(p, f)
    <3>1. job[p].phase # "idle" /\ \E f : Abort(p, f)
      BY <2>4 DEF QueueFull, CannotLaunch, At
    <3>2. session' = session \/ MarkSessionFailed(job[p].run)
      BY <2>4 DEF QueueFull, CannotLaunch
    <3> QED BY <1>0, <2>2, <2>3, <3>1, <3>2
  <2>5. CASE ~(Prepare(p) \/ QueueFull(p) \/ \E f \in Store!DispatchFailures : CannotLaunch(p, f))
    BY <1>1, <2>5 DEF LauncherStep, TakeReserved, Admit, EnqueueTurn, Acknowledge, GiveBack, disk
  <2> QED BY <2>1, <2>4, <2>5
<1>2. ASSUME NEW w \in Sessions, WorkerStep(w)
      PROVE  \/ session'[s].status = session[s].status
             \/ session'[s].status = "running"
             \/ turn[s].phase = "ended"
  <2>1. CASE PromoteTurnToRunning(w)
    BY <1>0, <2>1 DEF PromoteTurnToRunning
  <2>2. CASE FinalizeSession(w)
    BY <1>0, <2>2 DEF FinalizeSession, Working
  <2>3. CASE ~(PromoteTurnToRunning(w) \/ FinalizeSession(w))
    BY <1>2, <2>3 DEF WorkerStep, DropStale, StartTurn, NotifySessionTerminal, CloseTurn, EndTurn, disk
  <2> QED BY <2>1, <2>2, <2>3
<1>3. CASE UserStep
  BY <1>3 DEF UserStep, Say, Stop, Click, Produce, Reserve, CancelRoutineRun, disk
<1>4. ASSUME RecoveryStep, ~RunPersistenceStartupRecovery PROVE session' = session
  BY <1>4 DEF RecoveryStep, ListInterrupted, FinishRecovery, SettleInterrupted, disk
<1>5. ASSUME NEW c \in Retriers, RetrierStep(c) PROVE session' = session
  BY <1>5 DEF RetrierStep, CheckRetry, RetryRefused, InsertRetry, disk
<1>6. ASSUME \/ Crash \/ ReconcileTerminalIntent \/ UNCHANGED vars
             \/ \E x \in Runs : Take(x) \/ DeadlinePasses(x)
             \/ \E x \in Launchers \cup Sessions : Epilogue(x)
             \/ \E p \in Paths : PathLockLapses(p)
      PROVE  session' = session
  BY <1>6 DEF Crash, ReconcileTerminalIntent, vars, Take, DeadlinePasses, Epilogue,
              PathLockLapses, disk
<1> QED BY <1>1, <1>2, <1>3, <1>4, <1>5, <1>6 DEF Next

\* A turn that is underway, or about to be sent, belongs to a Run that has not ended.
Outlasted(r) ==
  /\ Underway(r) => ~Ended(r)
  /\ \A p \in Launchers : Handled(p, r, {"claimed", "sending", "admitted"}) => ~Ended(r)

\* Until its Run has ended, the intent of a turn says where the turn is.
Intended(r) ==
  \/ Ended(r)
  \/ /\ \A p \in Launchers : Admitted(p, r) => intent[r] = "queued"
     /\ \A s \in Sessions : Waits(queue[s], r) => intent[r] = "queued"
     /\ \A s \in Sessions : Executing(s, r) => intent[r] = "running"

\* What a worker has in hand was started, and a turn that is over has settled its Run.
TurnSettles(r) ==
  \A s \in Sessions :
    turn[s].run = r =>
      /\ started[r] >= 1
      /\ turn[s].phase \in {"ended", "finalized", "notified"} => Ended(r)

\* What recovery is going to settle is in nobody's hands.
Forsaken(r) ==
  \A c \in todo : c.run = r /\ c.status \in DOMAIN InterruptedVerdict => ~Busy(r)

\* Between the start of the process and the listing of what was interrupted, a Run is in
\* somebody's hands only since the start, and its Session shows no end before it has one.
Anew(r) ==
  host = "booted" =>
    /\ \A p, q \in Launchers : job[p].run = r /\ job[q].run = r => p = q
    /\ Busy(r) => \/ Ended(r)
                  \/ session[Target(r)].status \in {"absent", "idle", "running"}
                  \/ \E p \in Launchers : Handled(p, r, {"failed"})

Guarded(r) == Outlasted(r) /\ Intended(r) /\ TurnSettles(r) /\ Forsaken(r) /\ Anew(r)

\* What is underway is remembered.
LEMMA UnderwayIsAccounted ==
  ASSUME Typed, NEW r \in Runs, NEW s \in Sessions
  PROVE  /\ Executing(s, r) => Accounted(s, r)
         /\ Waits(queue[s], r) => r \in IdsOf(queue[s])
         /\ r \in IdsOf(queue[s]) => Accounted(s, r)
         /\ Accounted(s, r) => Busy(r)
BY DEF Waits, IdsOf, Message, Executing, Accounted, Busy

\* Two Runs that are in somebody's hands have different Sessions.
LEMMA OneRunOfSession ==
  ASSUME OwnInv, NEW q \in Runs, NEW r \in Runs, Busy(q), Busy(r), Target(q) = Target(r)
  PROVE  q = r
BY DEF OwnInv, Placed, Retired, LastOfSession

LEMMA TargetStays ==
  ASSUME Typed, [Next]_vars, NEW r \in Runs, Present(r)
  PROVE  Target(r)' = Target(r)
<1>1. [Proved!Next]_(Proved!vars)
  <2>1. Proved!Next \/ UNCHANGED store
    BY StepIsStore, SameStore DEF Typed
  <2>2. CASE UNCHANGED store
    BY <2>2 DEF store, Proved!vars
  <2> QED BY <2>1, <2>2
<1>2. Proved!TypeOK /\ Proved!ResumableHasSession
  BY SameTypes DEF Typed, TablesTyped, Proved!ResumableHasSession, Store!ResumableHasSession
<1>3. Proved!Kept(r)
  BY <1>1, <1>2, SameAssumptions, Proved!StepKeeps
<1> QED BY <1>3 DEF Proved!Kept, Proved!SameRequestRow, Present, Target

\* An executing turn of a Run that has not ended belongs to an active Run.
LEMMA ExecutesForActive ==
  ASSUME NEW r \in Runs, NEW s \in Sessions, Executing(s, r), Delivered(r)
  PROVE  run[r].status \in Store!Active
BY DEF Executing, Delivered, Accounted, Awaiting, Handled, Store!Active

\* The end of a turn ends its Run.
LEMMA TurnEndsRun ==
  ASSUME Typed, [Next]_vars, NEW r \in Runs, Ended(r) \/ Delivered(r),
         NEW s \in Sessions, NEW o \in Outcomes, EndTurn(s, o), Executing(s, r)
  PROVE  Ended(r)'
<1>1. CASE Ended(r)
  BY <1>1, EndsForGood
<1>2. CASE Delivered(r)
  <2>1. turn[s].run = r /\ r # NoRun
    BY StoreAssumption DEF Executing, Store!IdAssumption
  <2>2. run[r].status \in Store!Active
    BY <1>2, ExecutesForActive
  <2>3. PICK v \in OutcomeVerdicts[o] : EndRun(s, r, s, v)
    BY <2>1 DEF EndTurn
  <2>4. v \in Store!Verdicts
    BY VerdictsOfStore
  <2> QED BY <2>2, <2>3, <2>4, EndsOneRun DEF Typed, TablesTyped
<1> QED BY <1>1, <1>2

\* Nobody but its own turn ends a Run whose turn is underway or about to be sent, and that
\* turn is over afterwards.
LEMMA EndsQuietly ==
  ASSUME Typed, SpentTyped, Store!RetryLineage, OwnInv, OneDeliverer, MaxCancels = 0,
         NEW r \in Runs, ~Ended(r), OnceFor(r), Delivered(r), Guarded(r), EndedBySomeone(r)
  PROVE  /\ ~Underway(r)'
         /\ \A p \in Launchers : ~Handled(p, r, {"claimed", "sending", "admitted"})'
<1>0. /\ job \in [Launchers -> JobRow] /\ turn \in [Sessions -> TurnRow] /\ r # NoRun
      /\ Desktop \in Launchers
  BY StoreAssumption DEF Typed, MemoryTyped, JobTyped, TurnTyped, Store!IdAssumption, Launchers
<1> DEFINE Early(p) == Handled(p, r, {"claimed", "sending", "admitted"})
           Quiet_ == ~Underway(r)' /\ \A p \in Launchers : ~Early(p)'
<1>1. \A s \in Sessions : Executing(s, r) \/ Waits(queue[s], r) => Accounted(s, r)
  BY UnderwayIsAccounted
<1>2. ASSUME UNCHANGED workers, \A s \in Sessions : ~Accounted(s, r) PROVE ~Underway(r)'
  BY <1>1, <1>2 DEF workers, Underway, Executing
<1>3. ASSUME NEW s \in Sessions, NEW o \in Outcomes, EndTurn(s, o), turn[s].run = r PROVE Quiet_
  <2>1. /\ queue' = queue /\ job' = job /\ turn'[s].phase = "ended"
        /\ \A t \in Sessions : t # s => turn'[t] = turn[t]
    BY <1>0, <1>3 DEF EndTurn, callers, TurnRow
  <2>2. Accounted(s, r) /\ started[r] >= 1
    BY <1>3 DEF Accounted, Guarded, TurnSettles
  <2>3. \A t \in Sessions : Accounted(t, r) => t = s
    BY <2>2 DEF OwnInv, Placed
  <2>4. \A t \in Sessions : ~Executing(t, r)'
    BY <1>1, <2>1, <2>3 DEF Executing
  <2>5. \A t \in Sessions : ~Waits(queue'[t], r)
    <3>1. \A t \in Sessions : r \notin IdsOf(queue[t])
      BY <2>2 DEF OnceFor
    <3> QED BY <2>1, <3>1, UnderwayIsAccounted
  <2>6. \A p \in Launchers : ~Early(p)'
    BY <2>1, <2>2 DEF Delivered, Handled, Unaccepted
  <2> QED BY <2>4, <2>5, <2>6 DEF Underway
<1>4. ASSUME NEW s \in Sessions, NotifySessionTerminal(s), run[r].session = s,
             run[r].status \in Store!Active
      PROVE  FALSE
  <2>1. turn[s].phase = "finalized"
    BY <1>4 DEF NotifySessionTerminal, Working
  <2>2. turn[s].run = r
    BY <1>4, <2>1, NotifiesOwnRun
  <2> QED BY <2>1, <2>2 DEF Guarded, TurnSettles
<1>5. ASSUME ReconcileTerminalIntent, job[Desktop].run = r, intent[r] \in DOMAIN IntentVerdict
      PROVE  Quiet_
  <2>1. intent[r] \notin {"queued", "running"}
    BY <1>5 DEF IntentVerdict
  <2>2. \A s \in Sessions : ~Executing(s, r) /\ ~Waits(queue[s], r)
    BY <2>1 DEF Guarded, Intended
  <2>3. ~Underway(r)'
    BY <1>5, <2>2 DEF ReconcileTerminalIntent, workers, Underway, Executing
  <2>4. /\ job[Desktop].phase = "acknowledged" /\ job'[Desktop].phase = "idle"
        /\ \A p \in Launchers : p # Desktop => job'[p] = job[p]
    BY <1>0, <1>5 DEF ReconcileTerminalIntent, At, Rest, NoJob
  <2>5. \A p \in Launchers : ~Early(p)'
    BY <1>0, <1>5, <2>4 DEF Handled, OneDeliverer, Delivering
  <2> QED BY <2>3, <2>5
<1>6. ASSUME NEW p \in Launchers, GiveBack(p), job[p].run = r PROVE Quiet_
  <2>1. /\ UNCHANGED workers /\ job[p].phase = "failed" /\ job'[p].phase = "idle"
        /\ \A q \in Launchers : q # p => job'[q] = job[q]
    BY <1>0, <1>6 DEF GiveBack, At, Rest, NoJob
  <2>2. \A s \in Sessions : ~Accounted(s, r)
    BY <1>6, <2>1 DEF Delivered, Handled, Unaccepted
  <2>3. \A q \in Launchers : ~Early(q)'
    BY <1>6, <2>1 DEF Handled, OneDeliverer, Delivering
  <2> QED BY <1>2, <2>1, <2>2, <2>3
<1>7. ASSUME NEW S \in SUBSET Runs, CancelRoutineRun(S) PROVE FALSE
  <2>1. spent.cancels \in Nat /\ spent.cancels < 0
    BY <1>7 DEF CancelRoutineRun, SpentTyped
  <2> QED BY <2>1
<1>8. ASSUME NEW x \in Launchers \cup Sessions, Epilogue(x), run[r].status = "queued" PROVE Quiet_
  <2>1. UNCHANGED <<workers, job>>
    BY <1>8 DEF Epilogue, callers
  <2>2. \A p \in Launchers : ~Early(p) /\ ~Handled(p, r, {"accepted"})
    BY <1>8 DEF Delivered, Handled, Unaccepted
  <2>3. \A s \in Sessions : ~Accounted(s, r)
    BY <1>8, <2>2 DEF Delivered, Awaiting
  <2> QED BY <1>2, <2>1, <2>2, <2>3 DEF Handled
<1>9. ASSUME NEW c \in todo, SettleInterrupted(c), c.run = r, c.status \in DOMAIN InterruptedVerdict
      PROVE  Quiet_
  <2>1. UNCHANGED <<workers, job>> /\ ~Busy(r)
    BY <1>9 DEF SettleInterrupted, Guarded, Forsaken
  <2> QED BY <1>2, <2>1 DEF Busy, Handled
<1> QED BY <1>3, <1>4, <1>5, <1>6, <1>7, <1>8, <1>9 DEF EndedBySomeone

\* Who ends a Run that has not ended yet is one of those.
LEMMA SomeoneEnds ==
  ASSUME Typed, Store!NoRunStranded, [Next]_vars, NEW r \in Runs, ~Ended(r), Ended(r)'
  PROVE  EndedBySomeone(r)
BY HowRowsMove DEF RowMoves, SameRow, Inserted, ClaimedBy, AcknowledgedBy, DeferredBy, Ended,
   Store!Terminal

\* A turn comes to be underway from a launcher that has admitted it.
LEMMA WhoGoesUnderway ==
  ASSUME Typed, [Next]_vars, NEW r \in Runs, Underway(r)'
  PROVE  Underway(r) \/ \E p \in Launchers : EnqueueTurn(p) /\ Admitted(p, r)
<1>0. queue \in [Sessions -> Seq(MessageRow)]
  BY DEF Typed, MemoryTyped, QueueTyped
<1>1. ASSUME NEW s \in Sessions, Waits(queue'[s], r)
      PROVE  Waits(queue[s], r) \/ \E p \in Launchers : EnqueueTurn(p) /\ Admitted(p, r)
  BY <1>1, WhoWaits
<1>2. ASSUME NEW s \in Sessions, Executing(s, r)' PROVE Executing(s, r) \/ Waits(queue[s], r)
  <2>1. CASE turn'[s] = turn[s]
    BY <1>2, <2>1 DEF Executing
  <2>2. CASE queue[s] # <<>> /\ Head(queue[s]) = Message(r)
    BY <1>0, <2>2, WhatWaits
  <2> QED BY <1>2, <2>1, <2>2, WhoTurns DEF Executing
<1> QED BY <1>1, <1>2 DEF Underway

LEMMA OutlastedStep ==
  ASSUME Typed, SpentTyped, Store!IndInv, OwnInv, OneDeliverer, MaxCancels = 0, [Next]_vars,
         NEW r \in Runs, OnceFor(r), Ended(r) \/ Delivered(r), Guarded(r)
  PROVE  Outlasted(r)'
<1>1. CASE ~Ended(r) /\ Ended(r)'
  <2>1. EndedBySomeone(r)
    BY <1>1, SomeoneEnds DEF Store!IndInv
  <2> QED BY <1>1, <2>1, EndsQuietly DEF Store!IndInv, Outlasted
<1>2. CASE Ended(r)
  <2>1. ~Underway(r)'
    BY <1>2, WhoGoesUnderway DEF Guarded, Outlasted, Handled, Admitted
  <2>2. ASSUME NEW p \in Launchers, Handled(p, r, {"claimed", "sending", "admitted"})' PROVE FALSE
    <3>1. CASE job'[p] = job[p]
      BY <1>2, <2>2, <3>1 DEF Guarded, Outlasted, Handled
    <3>2. CASE Stages(p)
      BY <1>2, <2>2, <3>2 DEF Guarded, Outlasted, Handled, Stages, Onward
    <3>3. ASSUME NEW x \in Runs, ClaimedBy(p, x) PROVE FALSE
      <4>1. x = r
        BY <2>2, <3>3 DEF ClaimedBy, Handled
      <4> QED BY <1>2, <3>3, <4>1 DEF ClaimedBy, Ended, Store!Terminal, Store!Open
    <3>4. CASE Rests(p)
      BY <2>2, <3>4 DEF Rests, Handled, Delivering
    <3> QED BY <3>1, <3>2, <3>3, <3>4, WhoMovesJob
  <2> QED BY <2>1, <2>2 DEF Outlasted
<1>3. CASE ~Ended(r)'
  BY <1>3 DEF Outlasted
<1> QED BY <1>1, <1>2, <1>3

LEMMA TurnSettlesStep ==
  ASSUME Typed, [Next]_vars, NEW r \in Runs, Ended(r) \/ Delivered(r), TurnSettles(r)
  PROVE  TurnSettles(r)'
<1>0. started \in [Runs -> Nat] /\ r # NoRun
  BY StoreAssumption DEF Typed, DiskTyped, Store!IdAssumption
<1>1. started'[r] >= started[r]
  BY <1>0, WhoStarts
<1> SUFFICES ASSUME NEW s \in Sessions, turn'[s].run = r
             PROVE  /\ started'[r] >= 1
                    /\ turn'[s].phase \in {"ended", "finalized", "notified"} => Ended(r)'
  BY DEF TurnSettles
<1>2. ASSUME turn[s].run = r PROVE started'[r] >= 1
  <2>1. started[r] >= 1 /\ started'[r] \in Nat
    BY <1>0, <1>2, WhoStarts DEF TurnSettles
  <2> QED BY <1>0, <1>1, <2>1
<1>3. CASE turn'[s] = turn[s]
  BY <1>2, <1>3, EndsForGood DEF TurnSettles
<1>4. CASE StartTurn(s) /\ Head(queue[s]) = Message(r) /\ Executing(s, r)'
  <2>1. started'[r] = started[r] + 1
    BY <1>0, <1>4 DEF StartTurn, Message
  <2> QED BY <1>0, <1>4, <2>1 DEF Executing
<1>5. CASE Executing(s, r) /\ Executing(s, r)'
  BY <1>2, <1>5 DEF Executing
<1>6. ASSUME NEW o \in Outcomes, EndTurn(s, o), Executing(s, r)
      PROVE  started'[r] >= 1 /\ Ended(r)'
  BY <1>2, <1>6, TurnEndsRun DEF Executing
<1>7. CASE turn[s].run = r /\ turn[s].phase \in {"ended", "finalized"}
  BY <1>2, <1>7, EndsForGood DEF TurnSettles
<1> QED BY <1>3, <1>4, <1>5, <1>6, <1>7, WhoTurns

LEMMA ForsakenStep ==
  ASSUME Typed, OwnInv, [Next]_vars, NEW r \in Runs, Unbound(r), Ended(r) \/ Delivered(r),
         Forsaken(r), Anew(r)
  PROVE  Forsaken(r)'
<1> SUFFICES ASSUME NEW c \in todo', c.run = r, c.status \in DOMAIN InterruptedVerdict, Busy(r)'
             PROVE  FALSE
  BY DEF Forsaken
<1>1. CASE todo' \subseteq todo
  <2>1. c \in todo /\ ~Busy(r) /\ host = "recovering"
    BY <1>1 DEF Forsaken, OwnInv, Recovering
  <2>2. run[r].status # "absent"
    BY <2>1 DEF Typed, TablesTyped
  <2>3. \A p \in Inline : ~Reserve(p, r)
    BY <2>2 DEF Reserve, Store!Enqueue, Store!Insert
  <2> QED BY <2>1, <2>3, WhoIsBusy
<1>2. CASE ListInterrupted
  <2>1. /\ run[r].status \in Store!Active /\ run[r].session # NoSession
        /\ c.status = session[run[r].session].status
        /\ host = "booted" /\ UNCHANGED <<workers, job>>
    BY <1>2 DEF ListInterrupted, callers
  <2>2. Busy(r)
    BY <2>1 DEF workers, Busy, Accounted
  <2>3. run[r].session = Target(r)
    BY <2>1 DEF OwnInv, Placed
  <2>4. Awaiting(r) /\ ~Ended(r)
    BY <2>1 DEF Unbound, Awaiting, Ended, Store!Active, Store!Terminal
  <2>5. \A p \in Launchers : ~Handled(p, r, {"failed"})
    BY <2>4 DEF Delivered, Handled, Unaccepted, Awaiting
  <2>6. c.status \in {"absent", "idle", "running"}
    BY <2>1, <2>2, <2>3, <2>4, <2>5 DEF Anew
  <2> QED BY <2>6 DEF InterruptedVerdict
<1> QED BY <1>1, <1>2, TodoShrinks

LEMMA WhoBoots ==
  ASSUME [Next]_vars, host' = "booted"
  PROVE  host = "booted" \/ RunPersistenceStartupRecovery
<1>1. ASSUME NEW p \in Launchers, LauncherStep(p) PROVE host' = host
  BY <1>1 DEF LauncherStep, TakeReserved, Prepare, Admit, EnqueueTurn, QueueFull, Acknowledge,
              GiveBack, CannotLaunch
<1>2. ASSUME NEW s \in Sessions, WorkerStep(s) PROVE host' = host
  BY <1>2 DEF WorkerStep, DropStale, StartTurn, PromoteTurnToRunning, FinalizeSession,
              NotifySessionTerminal, CloseTurn, EndTurn
<1>3. ASSUME NEW c \in Retriers, RetrierStep(c) PROVE host' = host
  BY <1>3 DEF RetrierStep, CheckRetry, RetryRefused, InsertRetry
<1>4. ASSUME RecoveryStep, ~RunPersistenceStartupRecovery PROVE host' = host
  BY <1>4 DEF RecoveryStep, ListInterrupted, FinishRecovery, SettleInterrupted
<1>5. ASSUME UserStep PROVE host' = host
  BY <1>5 DEF UserStep, Say, Stop, Click, Produce, Reserve, CancelRoutineRun
<1>6. ASSUME \/ Crash \/ ReconcileTerminalIntent \/ UNCHANGED vars
             \/ \E r \in Runs : Take(r) \/ DeadlinePasses(r)
             \/ \E x \in Launchers \cup Sessions : Epilogue(x)
             \/ \E p \in Paths : PathLockLapses(p)
      PROVE  host' = host
  BY <1>6 DEF Crash, ReconcileTerminalIntent, vars, Take, DeadlinePasses, Epilogue, PathLockLapses
<1> QED BY <1>1, <1>2, <1>3, <1>4, <1>5, <1>6 DEF Next

\* A Run that is inserted is in nobody else's hands, and its Session does not exist.
LEMMA WhatReserveDoes ==
  ASSUME Typed, OwnInv, NEW r \in Runs, NEW p \in Inline, Reserve(p, r)
  PROVE  /\ ~Busy(r) /\ ~Present(r)
         /\ \A q \in Launchers : q # p => job'[q] = job[q]
         /\ UNCHANGED workers
         /\ Target(r)' \in Sessions /\ session'[Target(r)'].status = "absent"
<1>1. PICK k \in FreshKey : Store!Enqueue(r, k, NoSession, TRUE)
  BY DEF Reserve
<1>2. run[r].status = "absent"
  BY <1>1 DEF Store!Enqueue, Store!Insert
<1>3. ~Present(r) /\ ~Busy(r)
  BY <1>2 DEF Present, OwnInv, Placed
<1>4. run'[r].resume = NoSession
  <2>1. run'[r] = [Store!NoRunRow EXCEPT !.status = "queued", !.attempt = 1, !.parent = NoRun,
                                         !.resume = NoSession]
    BY <1>1 DEF Store!Enqueue, Store!Insert, Typed, TablesTyped, Store!TypeOK
  <2>2. "resume" \in DOMAIN Store!NoRunRow
    BY DEF Store!NoRunRow
  <2> QED BY <2>1, <2>2
<1>5. Target(r)' = Home[r] /\ Home[r] \in Sessions
  BY <1>4, SessionAssumption DEF Target
<1>6. session[Home[r]].status = "absent"
  <2> SUFFICES ASSUME session[Home[r]].status # "absent" PROVE FALSE
    OBVIOUS
  <2>1. PICK x \in Runs : Present(x) /\ Home[r] = Home[x]
    BY <1>5 DEF OwnInv, Placed
  <2> QED BY <1>3, <2>1, SessionAssumption
<1>7. UNCHANGED <<session, workers>> /\ \A q \in Launchers : q # p => job'[q] = job[q]
  BY DEF Reserve, disk, Typed, MemoryTyped, JobTyped
<1> QED BY <1>3, <1>5, <1>6, <1>7

LEMMA AnewStep ==
  ASSUME Typed, OwnInv, [Next]_vars, NEW r \in Runs, Ended(r) \/ Delivered(r),
         TurnSettles(r), Anew(r)
  PROVE  Anew(r)'
<1>0. job \in [Launchers -> JobRow] /\ \A p \in Launchers : job[p].run = r => Busy(r)
  BY DEF Typed, MemoryTyped, JobTyped, Busy
<1> SUFFICES ASSUME host' = "booted"
             PROVE  /\ \A p, q \in Launchers : job'[p].run = r /\ job'[q].run = r => p = q
                    /\ Busy(r)' => \/ Ended(r)'
                                   \/ session'[Target(r)'].status \in {"absent", "idle", "running"}
                                   \/ \E p \in Launchers : Handled(p, r, {"failed"})'
  BY DEF Anew
<1>1. CASE RunPersistenceStartupRecovery
  <2>1. ~Busy(r) /\ UNCHANGED <<workers, job>>
    BY <1>1 DEF RunPersistenceStartupRecovery, callers, OwnInv, Recovering
  <2>2. ~Busy(r)'
    BY <2>1 DEF workers, Busy, Accounted
  <2> QED BY <1>0, <2>1, <2>2
<1>2. CASE \E p \in Inline : Reserve(p, r)
  <2>1. PICK p \in Inline : Reserve(p, r)
    BY <1>2
  <2>2. /\ ~Busy(r) /\ \A q \in Launchers : q # p => job'[q] = job[q]
        /\ session'[Target(r)'].status = "absent"
    BY <2>1, WhatReserveDoes
  <2> QED BY <1>0, <2>2
<1>3. CASE /\ ~RunPersistenceStartupRecovery
           /\ ~\E p \in Inline : Reserve(p, r)
  <2>1. host = "booted"
    BY <1>3, WhoBoots
  <2>2. /\ \A p \in Launchers : job'[p].run = r => job[p].run = r
        /\ Busy(r)' => Busy(r)
    BY <1>3, <2>1, WhoIsBusy
  <2>3. \A p, q \in Launchers : job[p].run = r /\ job[q].run = r => p = q
    BY <2>1 DEF Anew
  <2>4. ASSUME Busy(r)', ~Ended(r)'
        PROVE  \/ session'[Target(r)'].status \in {"absent", "idle", "running"}
               \/ \E p \in Launchers : Handled(p, r, {"failed"})'
    <3>1. Busy(r) /\ ~Ended(r) /\ Delivered(r) /\ Present(r)
      BY <2>2, <2>4, EndsForGood DEF OwnInv, Placed
    <3>2. Target(r)' = Target(r) /\ Target(r) \in Sessions
      BY <3>1, TargetStays, TargetIsSession DEF Typed, TablesTyped
    <3>3. ASSUME NEW p \in Launchers, Handled(p, r, {"failed"})
          PROVE  Handled(p, r, {"failed"})'
      <4>1. CASE job'[p] = job[p]
        BY <3>3, <4>1 DEF Handled
      <4>2. CASE GiveBack(p)
        <5>1. job'[p].run = NoRun /\ UNCHANGED workers /\ r # NoRun
          BY <1>0, <4>2, StoreAssumption DEF GiveBack, Rest, NoJob, Store!IdAssumption
        <5>2. \A q \in Launchers : job'[q].run # r
          BY <2>2, <2>3, <3>3, <5>1 DEF Handled
        <5>3. \A s \in Sessions : ~Accounted(s, r)'
          BY <3>1, <3>3, <5>1 DEF workers, Accounted, Delivered, Handled, Unaccepted
        <5> QED BY <2>4, <5>2, <5>3 DEF Busy
      <4>3. ~Stages(p) /\ ~Crash /\ ~\E x \in Runs : ClaimedBy(p, x)
        BY <3>3 DEF Handled, Stages, Crash, ClaimedBy, Delivering
      <4> QED BY <3>3, <4>1, <4>2, <4>3, WhoMovesJob DEF Rests, Handled, Delivering
    <3>4. CASE session[Target(r)].status \in {"absent", "idle", "running"}
      <4>1. turn[Target(r)].phase # "ended"
        <5> SUFFICES ASSUME turn[Target(r)].phase = "ended" PROVE FALSE
          OBVIOUS
        <5>1. turn[Target(r)].run = r
          BY <3>1, <3>2, TurnIsOwn, OneRunOfSession
        <5> QED BY <3>1, <3>2, <5>1 DEF TurnSettles
      <4>2. ASSUME NEW p \in Launchers, job[p].run \in Runs, Target(job[p].run) = Target(r),
                   job'[p].run = job[p].run, job'[p].phase = "failed"
            PROVE  Handled(p, r, {"failed"})'
        <5>1. job[p].run = r
          BY <3>1, <4>2, OneRunOfSession DEF Busy
        <5> QED BY <4>2, <5>1 DEF Handled
      <4> QED BY <1>3, <3>2, <3>4, <4>1, <4>2, WhoEndsSession
    <3> QED BY <2>1, <3>1, <3>3, <3>4 DEF Anew
  <2> QED BY <2>2, <2>3, <2>4
<1> QED BY <1>1, <1>2, <1>3

\* A Stop that falls between the admission of a turn and its enqueueing makes the intent of a
\* message stale that will not be stale.
StopsMissAdmissions ==
  \A p \in Launchers : job[p].phase = "admitted" => intent[job[p].run] # "stale"

\* Who takes the only message of Run r leaves none, and nobody sends another one.
LEMMA NothingElseWaits ==
  ASSUME Typed, [Next]_vars, NEW r \in Runs, OnceFor(r), NEW s \in Sessions,
         DropStale(s) \/ StartTurn(s), queue[s] # <<>>, Head(queue[s]).run = r
  PROVE  /\ started[r] = 0
         /\ \A t \in Sessions : ~Waits(queue'[t], r)
         /\ \A p \in Launchers : ~Admitted(p, r)'
<1>0. queue \in [Sessions -> Seq(MessageRow)]
  BY DEF Typed, MemoryTyped, QueueTyped
<1>1. r \in IdsOf(queue[s]) /\ r \notin IdsOf(Tail(queue[s]))
  <2>1. queue[s] \in Seq(MessageRow) /\ Once(queue[s], r)
    BY <1>0 DEF OnceFor
  <2>2. r \in IdsOf(queue[s])
    BY <2>1 DEF IdsOf
  <2>3. r \notin IdsOf(Tail(queue[s]))
    BY <2>1, OnceInQueue
  <2> QED BY <2>2, <2>3
<1>2. queue'[s] = Tail(queue[s]) /\ \A t \in Sessions : t # s => queue'[t] = queue[t]
  BY <1>0 DEF DropStale, StartTurn
<1>3. ASSUME NEW t \in Sessions PROVE ~Waits(queue'[t], r)
  <2>1. r \notin IdsOf(queue'[t])
    BY <1>1, <1>2 DEF OnceFor
  <2> QED BY <2>1 DEF Waits, IdsOf, Message
<1>4. \A p \in Launchers : ~Admitted(p, r)'
  <2>1. \A p \in Launchers : ~Admitted(p, r) /\ ~Sending(p, r)
    BY <1>1 DEF OnceFor, Unsent
  <2> QED BY <2>1, WhoSends
<1> QED BY <1>1, <1>3, <1>4 DEF OnceFor

LEMMA IntendedStep ==
  ASSUME Typed, SpentTyped, OwnInv, OneDeliverer, MaxStops = 0 \/ StopsMissAdmissions',
         [Next]_vars, NEW r \in Runs, OnceFor(r), Ended(r) \/ Delivered(r),
         Intended(r), TurnSettles(r)
  PROVE  Intended(r)'
<1>0. /\ job \in [Launchers -> JobRow] /\ intent \in [Runs -> IntentStatus]
      /\ queue \in [Sessions -> Seq(MessageRow)]
  BY DEF Typed, MemoryTyped, JobTyped, DiskTyped, QueueTyped
<1> SUFFICES ASSUME ~Ended(r)'
             PROVE  /\ \A p \in Launchers : Admitted(p, r)' => intent'[r] = "queued"
                    /\ \A s \in Sessions : Waits(queue'[s], r) => intent'[r] = "queued"
                    /\ \A s \in Sessions : Executing(s, r)' => intent'[r] = "running"
  BY DEF Intended
<1>1. /\ ~Ended(r) /\ Delivered(r)
      /\ \A p \in Launchers : Admitted(p, r) => intent[r] = "queued"
      /\ \A s \in Sessions : Waits(queue[s], r) => intent[r] = "queued"
      /\ \A s \in Sessions : Executing(s, r) => intent[r] = "running" /\ started[r] >= 1
  BY EndsForGood DEF Intended, TurnSettles, Executing
<1> DEFINE Takes(s) == /\ DropStale(s) \/ StartTurn(s)
                       /\ queue[s] # <<>> /\ Head(queue[s]).run = r
           Admits == \E p \in Launchers : Admit(p) /\ Sending(p, r)
<1>2. ASSUME NEW s \in Sessions, Takes(s), StartTurn(s), Head(queue[s]) = Message(r)
      PROVE  intent'[r] = "running"
  <2>1. Waits(queue[s], r)
    BY <1>0, <1>2, WhatWaits
  <2>2. UpdateIntent(r, "running") /\ intent[r] = "queued"
    BY <1>1, <1>2, <2>1, StoreAssumption DEF StartTurn, Store!IdAssumption
  <2> QED BY <1>0, <2>2 DEF UpdateIntent, TransitionAllowed
<1>3. CASE \E s \in Sessions : Takes(s)
  <2>1. PICK s \in Sessions : Takes(s)
    BY <1>3
  <2>2. /\ started[r] = 0 /\ \A t \in Sessions : ~Waits(queue'[t], r)
        /\ \A p \in Launchers : ~Admitted(p, r)'
    BY <2>1, NothingElseWaits
  <2>3. \A t \in Sessions : ~Executing(t, r)
    BY <1>1, <2>2
  <2>4. ASSUME NEW t \in Sessions, Executing(t, r)' PROVE intent'[r] = "running"
    <3>1. \/ turn'[t] = turn[t]
          \/ StartTurn(t) /\ queue[t] # <<>> /\ Head(queue[t]) = Message(r)
      BY <2>3, <2>4, WhoTurns DEF Executing
    <3>2. Message(r).run = r
      BY DEF Message
    <3> QED BY <1>2, <2>3, <2>4, <3>1, <3>2 DEF Executing
  <2> QED BY <2>2, <2>4
<1>4. CASE ~\E s \in Sessions : Takes(s)
  <2>1. ASSUME NEW t \in Sessions, Executing(t, r)' PROVE Executing(t, r)
    <3>1. Message(r).run = r
      BY DEF Message
    <3> QED BY <1>4, <2>1, <3>1, WhoTurns DEF Executing
  <2>2. \A t \in Sessions : Waits(queue'[t], r) => Waits(queue[t], r) \/ \E p \in Launchers : Admitted(p, r)
    BY WhoWaits
  <2>3. \A p \in Launchers : Admitted(p, r)' => Admitted(p, r) \/ (Admit(p) /\ Sending(p, r))
    BY WhoSends
  <2>4. CASE Admits
    <3>1. intent[r] = "absent" /\ Unsent(r)
      BY <2>4 DEF OnceFor
    <3>2. intent'[r] = "queued"
      BY <1>0, <2>4, <3>1 DEF Admit, Sending
    <3>3. \A t \in Sessions : ~Executing(t, r)
      BY <1>1, <3>1
    <3> QED BY <2>1, <3>2, <3>3
  <2>5. CASE intent'[r] = intent[r] /\ ~Admits
    BY <1>1, <2>1, <2>2, <2>3, <2>5
  <2>6. ASSUME NEW p \in Launchers, QueueFull(p), Admitted(p, r)
        PROVE  /\ \A q \in Launchers : ~Admitted(q, r)'
               /\ \A t \in Sessions : ~Waits(queue'[t], r) /\ ~Executing(t, r)'
    <3>1. started[r] = 0 /\ \A t \in Sessions : r \notin IdsOf(queue[t])
      BY <2>6 DEF OnceFor, Unsent
    <3>2. queue' = queue /\ job'[p].phase = "failed" /\ \A q \in Launchers : q # p => job'[q] = job[q]
      BY <1>0, <2>6 DEF QueueFull, workers, Abort, JobRow
    <3>3. \A t \in Sessions : ~Waits(queue'[t], r) /\ ~Executing(t, r)'
      BY <1>1, <2>1, <3>1, <3>2 DEF Waits, IdsOf, Message
    <3>4. \A q \in Launchers : ~Admitted(q, r)'
      BY <2>6, <3>2 DEF Admitted, OneDeliverer, Delivering
    <3> QED BY <3>3, <3>4
  <2>7. ASSUME NEW s \in Sessions, CloseTurn(s), turn[s].run = r PROVE FALSE
    BY <1>1, <2>7 DEF CloseTurn, Working, TurnSettles
  <2>8. ASSUME NEW s \in Sessions, Stop(s), Target(r) = s, intent[r] = "queued"
        PROVE  /\ \A q \in Launchers : ~Admitted(q, r)'
               /\ \A t \in Sessions : ~Waits(queue'[t], r) /\ ~Executing(t, r)'
    <3>1. intent'[r] = "stale" /\ job' = job
      BY <2>8 DEF Stop, callers
    <3>2. MaxStops # 0
      <4>1. spent.stops \in Nat /\ spent.stops < MaxStops
        BY <2>8 DEF Stop, SpentTyped
      <4> QED BY <4>1
    <3>3. \A q \in Launchers : ~Admitted(q, r)'
      BY <3>1, <3>2 DEF StopsMissAdmissions, Admitted
    <3>4. \A t \in Sessions : ~Executing(t, r)'
      BY <1>1, <2>1, <2>8
    <3>5. ASSUME NEW t \in Sessions, t # s PROVE ~Waits(queue'[t], r)
      <4>1. queue'[t] = queue[t]
        BY <1>0, <2>8, <3>5 DEF Stop
      <4>2. ~Accounted(t, r)
        BY <2>8, <3>5 DEF OwnInv, Placed
      <4> QED BY <4>1, <4>2, UnderwayIsAccounted
    <3>6. ~Waits(queue'[s], r)
      <4>1. queue'[s] = [i \in DOMAIN queue[s] |-> [queue[s][i] EXCEPT !.stale = TRUE]]
        BY <1>0, <2>8 DEF Stop
      <4> QED BY <1>0, <4>1, WhatWaits
    <3> QED BY <3>3, <3>4, <3>5, <3>6
  <2>9. CASE RunPersistenceStartupRecovery
    <3>1. UNCHANGED <<workers, job>> /\ ~Busy(r)
      BY <2>9 DEF RunPersistenceStartupRecovery, callers, OwnInv, Recovering
    <3>2. /\ \A q \in Launchers : ~Admitted(q, r)'
          /\ \A t \in Sessions : ~Accounted(t, r)
      BY <3>1 DEF Busy, Admitted
    <3>3. \A t \in Sessions : ~Waits(queue'[t], r) /\ ~Executing(t, r)'
      BY <3>1, <3>2, UnderwayIsAccounted DEF workers, Executing
    <3> QED BY <3>2, <3>3
  <2> QED BY <1>4, <2>4, <2>5, <2>6, <2>7, <2>8, <2>9, WhoMovesIntent
<1> QED BY <1>3, <1>4

\* Where recovery and users end nothing that executes, every Run stays guarded.
LEMMA AlwaysGuarded ==
  ASSUME OwnTurnsOnly, MaxCancels = 0
  PROVE  Spec /\ []OneDeliverer /\ [](MaxStops = 0 \/ StopsMissAdmissions)
         => [](\A r \in Runs : (Ended(r) \/ Delivered(r)) /\ Guarded(r))
<1> DEFINE Safe == MaxStops = 0 \/ StopsMissAdmissions
           Free == \A r \in Runs : Unbound(r)
           Single == \A r \in Runs : OnceFor(r)
           Known == \A r \in Runs : Ended(r) \/ Delivered(r)
           Inv == \A r \in Runs : Guarded(r)
<1>1. Init => Inv
  <2> SUFFICES ASSUME Init, NEW r \in Runs PROVE Guarded(r)
    OBVIOUS
  <2>1. /\ \A p \in Launchers : job[p].phase = "idle"
        /\ \A s \in Sessions : turn[s].run = NoRun /\ queue[s] = <<>>
        /\ todo = {} /\ host = "up" /\ r # NoRun
    BY StoreAssumption DEF Init, NoJob, NoTurn, Store!IdAssumption
  <2>2. /\ \A s \in Sessions : ~Executing(s, r) /\ ~Waits(queue[s], r)
        /\ \A p \in Launchers : ~Admitted(p, r) /\ ~Handled(p, r, {"claimed", "sending", "admitted"})
    BY <2>1 DEF Executing, Waits, Admitted, Handled
  <2>3. Outlasted(r) /\ Intended(r)
    BY <2>2 DEF Outlasted, Underway, Intended
  <2>4. TurnSettles(r) /\ Forsaken(r) /\ Anew(r)
    BY <2>1 DEF TurnSettles, Forsaken, Anew
  <2> QED BY <2>3, <2>4 DEF Guarded
<1>2. /\ Typed /\ SpentTyped /\ Store!IndInv /\ OwnInv /\ Free /\ Single /\ Known
      /\ OneDeliverer /\ Safe' /\ Inv /\ [Next]_vars
      => Inv'
  <2> SUFFICES ASSUME Typed, SpentTyped, Store!IndInv, OwnInv, Free, Single, Known,
                      OneDeliverer, Safe', Inv, [Next]_vars, NEW r \in Runs
               PROVE  Guarded(r)'
    OBVIOUS
  <2>1. /\ Unbound(r) /\ OnceFor(r) /\ (Ended(r) \/ Delivered(r)) /\ Guarded(r)
        /\ Outlasted(r) /\ Intended(r) /\ TurnSettles(r) /\ Forsaken(r) /\ Anew(r)
    BY DEF Guarded
  <2>2. MaxStops = 0 \/ StopsMissAdmissions'
    OBVIOUS
  <2>3. Outlasted(r)'
    BY <2>1, OutlastedStep
  <2>4. Intended(r)'
    BY <2>1, <2>2, IntendedStep
  <2>5. TurnSettles(r)'
    BY <2>1, TurnSettlesStep
  <2>6. Forsaken(r)'
    BY <2>1, ForsakenStep
  <2>7. Anew(r)'
    BY <2>1, AnewStep
  <2> QED BY <2>3, <2>4, <2>5, <2>6, <2>7 DEF Guarded
<1>3. Known /\ Inv => \A r \in Runs : (Ended(r) \/ Delivered(r)) /\ Guarded(r)
  OBVIOUS
<1> HIDE DEF Inv, Free, Single, Known, Safe
<1>4. Spec => []Free
  BY AlwaysUnbound DEF Free
<1>5. Spec /\ []OneDeliverer => []Single
  BY AlwaysOnce, DelivererIsSender, PTL DEF Single
<1>6. Spec /\ []OneDeliverer => []Known
  BY AlwaysDelivered DEF Known
<1>7. Spec /\ []OneDeliverer /\ []Safe => [](\A r \in Runs : (Ended(r) \/ Delivered(r)) /\ Guarded(r))
  BY <1>1, <1>2, <1>3, <1>4, <1>5, <1>6, AlwaysTyped, AlwaysSpent, AlwaysOwn, StoreStaysSound,
     PTL DEF Spec
<1> QED BY <1>7 DEF Safe

LEMMA GuardedTurnsHold ==
  ASSUME Store!IndInv, \A r \in Runs : (Ended(r) \/ Delivered(r)) /\ Guarded(r)
  PROVE  TurnRunsUnderItsLock
<1> SUFFICES ASSUME NEW s \in Sessions, NEW r \in Runs, Executing(s, r)
             PROVE  /\ run[r].status \in Store!Active
                    /\ Workspace[r] # NoPath => owner[Workspace[r]] = r \/ r \in overdue
  BY DEF TurnRunsUnderItsLock
<1>1. ~Ended(r)
  BY DEF Guarded, Outlasted, Underway
<1>2. run[r].status \in Store!Active
  BY <1>1, ExecutesForActive
<1> QED BY <1>2 DEF Store!IndInv, Store!ActiveRunHoldsItsPath

\* An agent works in a directory only while its Run is active and holds the directory,
\* through crashes, recovery, redeliveries and retries (work_run_service/terminal.rs,
\* send.rs, startup_recovery.rs).  Excluded is what lets a turn outlive its Run: turns that
\* are not the Run's own, users' retries and cancellations, a launcher that goes on with a
\* delivery another one has taken over, and a Stop between the admission of a turn and its
\* enqueueing.
THEOREM TurnsRunUnderTheirLocks ==
  ASSUME OwnTurnsOnly, MaxCancels = 0
  PROVE  Spec /\ []OneDeliverer /\ []StopsMissAdmissions => []TurnRunsUnderItsLock
BY AlwaysGuarded, GuardedTurnsHold, StoreStaysSound, PTL

\* The dispatcher alone, however often it dies and delivers a Run again, keeps every turn
\* within its Run and its directory (work_item_run_dispatcher.rs).
THEOREM DispatcherKeepsItsLocks ==
  ASSUME OwnTurnsOnly, MaxCancels = 0, MaxStops = 0, Inline = {}
  PROVE  Spec => []TurnRunsUnderItsLock
BY AlwaysGuarded, GuardedTurnsHold, StoreStaysSound, OneLauncher, PTL

\* So do the dispatcher and the inline callers together, where each Run is delivered once
\* (work_item_run_dispatcher.rs, session/launch.rs).
THEOREM LaunchersKeepTheirLocks ==
  ASSUME OwnTurnsOnly, MaxCancels = 0, MaxStops = 0, MaxDeliveries = 1
  PROVE  Spec => []TurnRunsUnderItsLock
BY AlwaysGuarded, GuardedTurnsHold, StoreStaysSound, OneDelivery, PTL
=============================================================================
