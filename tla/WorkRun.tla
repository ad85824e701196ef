------------------------------- MODULE WorkRun -------------------------------
(***************************************************************************)
(* The durable Work Item Run store of ORG-2: the tables                    *)
(* pm_work_item_runs, pm_dispatch_outbox and pm_work_item_path_locks and   *)
(* the transactions of work_run_service over them (crates/                 *)
(* project-management/src/work_run_service).                               *)
(*                                                                         *)
(* Every public operation of the service opens one IMMEDIATE transaction   *)
(* of SQLite, so an operation is one action.  An operation that returns an *)
(* error rolls back and is not a step.  This module leaves the callers     *)
(* free: any process may call any operation at any time.  The callers, and *)
(* the order in which each of them calls, are those of WorkRunDispatch.    *)
(*                                                                         *)
(* The deadlines (available_at, lease_expires_at of an outbox row and the  *)
(* seven days of a path lock) are compared with the clock and with nothing *)
(* else.  A deadline is therefore a flag that the passing of time raises.  *)
(***************************************************************************)
EXTENDS Naturals

CONSTANTS
  Runs,           \* ids of Work Item Runs; a new Run takes a fresh one
  Sessions,       \* ids of agent Sessions
  Paths,          \* workspace directories that a Run may need for itself
  Keys,           \* idempotency keys of one Work Item
  Agents,         \* agent definitions
  Workspace,      \* Runs -> the directory the Run's target snapshot names
  AgentOf,        \* Runs -> the agent its target snapshot names
  Escalations,    \* Runs whose input says discussionWakeReason = assignee_deferred
  MaxAttempts,    \* max_attempts of every request (the producers all say 3)
  MaxDeliveries,  \* bound of the model: claims of one outbox row
  NoRun, NoSession, NoPath

ASSUME IdAssumption ==
  /\ NoRun \notin Runs
  /\ NoSession \notin Sessions
  /\ NoPath \notin Paths

ASSUME RequestAssumption ==
  /\ Workspace \in [Runs -> Paths \cup {NoPath}]
  /\ AgentOf \in [Runs -> Agents]
  /\ Escalations \subseteq Runs
  /\ MaxAttempts \in Nat \ {0}
  /\ MaxDeliveries \in Nat

VARIABLES
  run,      \* pm_work_item_runs
  outbox,   \* pm_dispatch_outbox, one row for each Run
  byKey,    \* the unique index (scope_key, work_item_id, idempotency_key)
  owner,    \* pm_work_item_path_locks: the Run that holds a path
  lapsed,   \* the paths whose lock has passed its seven days
  overdue   \* history: the Runs whose lock lapsed since they were claimed

vars == <<run, outbox, byKey, owner, lapsed, overdue>>

Open == {"queued", "deferred", "dispatching"}
Active == {"dispatching", "running", "waiting"}
Terminal == {"succeeded", "failed", "cancelled"}
RunStatus == Open \cup Active \cup Terminal \cup {"absent"}

\* What failure_json tells a later retry: nothing recorded, retry in the same
\* Session, retry in a new Session, or not retryable.
Failures == {"none", "resume", "fresh", "final"}
Retryable == {"resume", "fresh"}

Undelivered == {"pending", "retry_wait"}
OutboxStatus == Undelivered \cup
  {"absent", "leased", "delivered", "dead_letter", "cancelled"}

RunRow == [status: RunStatus, session: Sessions \cup {NoSession},
           failure: Failures, attempt: Nat, parent: Runs \cup {NoRun},
           resume: Sessions \cup {NoSession}]

\* The token of a lease is a fresh uuid and every claim counts one delivery
\* attempt, so a token is named by its ordinal; 0 stands for NULL.
OutboxRow == [status: OutboxStatus, due: BOOLEAN, token: Nat, tries: Nat]

NoRunRow == [status |-> "absent", session |-> NoSession, failure |-> "none",
             attempt |-> 0, parent |-> NoRun, resume |-> NoSession]
NoOutboxRow == [status |-> "absent", due |-> FALSE, token |-> 0, tries |-> 0]

Init ==
  /\ run = [r \in Runs |-> NoRunRow]
  /\ outbox = [r \in Runs |-> NoOutboxRow]
  /\ byKey = [k \in Keys |-> NoRun]
  /\ owner = [p \in Paths |-> NoRun]
  /\ lapsed = {}
  /\ overdue = {}

-----------------------------------------------------------------------------
(* Path locks. *)

\* Mutant: the lock row is replaced whoever owns it.
PathFree_Never_Refused(r) == r \in Runs

PathFree(r) ==
  Workspace[r] # NoPath =>
    Workspace[r] \in lapsed \/ owner[Workspace[r]] \in {NoRun, r}

\* Every lapsed lock is deleted on the way to the one that is wanted.
AcquirePathLock(r) ==
  IF Workspace[r] = NoPath
  THEN UNCHANGED <<owner, lapsed>>
  ELSE /\ owner' = [p \in Paths |-> IF p = Workspace[r] THEN r
                                    ELSE IF p \in lapsed THEN NoRun
                                    ELSE owner[p]]
       /\ lapsed' = {}

\* Mutant: the DELETE names the path and forgets the Run.
ReleasePathLock_Of_Anyone(r) ==
  /\ owner' = [p \in Paths |-> IF Workspace[r] = p THEN NoRun ELSE owner[p]]
  /\ lapsed' = lapsed \ {Workspace[r]}
  /\ overdue' = overdue \ {r}

ReleasePathLock(r) ==
  /\ owner' = [p \in Paths |-> IF owner[p] = r THEN NoRun ELSE owner[p]]
  /\ lapsed' = {p \in lapsed : owner[p] # r}
  /\ overdue' = overdue \ {r}

-----------------------------------------------------------------------------
(* Enqueue. *)

Insert(r, k, parent, attempt, resume, delayed) ==
  /\ run[r].status = "absent"
  /\ byKey[k] = NoRun
  /\ attempt <= MaxAttempts
  /\ run' = [run EXCEPT ![r] = [NoRunRow EXCEPT
                !.status = "queued", !.attempt = attempt,
                !.parent = parent, !.resume = resume]]
  /\ outbox' = [outbox EXCEPT ![r] = [NoOutboxRow EXCEPT
                   !.status = "pending", !.due = ~delayed]]
  /\ byKey' = [byKey EXCEPT ![k] = r]
  /\ UNCHANGED <<owner, lapsed, overdue>>

\* A producer's request.  It starts the Work Item in a new Session
\* (s = NoSession) or resumes Session s; it is delayed when the caller means to
\* deliver it inline.
Enqueue(r, k, s, delayed) == Insert(r, k, NoRun, 1, s, delayed)

\* The transaction that retry ends with.  Its read of the failed parent is
\* still true here, because a failed Run never changes again.
MayRetry(p) ==
  /\ run[p].status = "failed"
  /\ run[p].failure \in Retryable
  /\ run[p].attempt < MaxAttempts
  /\ run[p].failure = "resume" => run[p].session # NoSession

RetryTarget(p) ==
  IF run[p].failure = "resume" THEN run[p].session ELSE run[p].resume

\* A retry copies the parent's target snapshot and its input.
SameRequest(r, p) ==
  /\ Workspace[r] = Workspace[p]
  /\ AgentOf[r] = AgentOf[p]
  /\ r \in Escalations <=> p \in Escalations

Retry(r, k, p) ==
  /\ MayRetry(p)
  /\ SameRequest(r, p)
  /\ Insert(r, k, p, run[p].attempt + 1, RetryTarget(p), FALSE)

-----------------------------------------------------------------------------
(* Claims. *)

\* Mutants: the claim forgets to ask for the status of the Run, or looks for
\* pending rows only.
Claimable_Though_Ended(r) ==
  \/ outbox[r].status \in Undelivered
  \/ outbox[r].status = "leased" /\ outbox[r].due

Claimable_First_Time(r) == outbox[r].status = "pending" /\ run[r].status \in Open

Claimable(r) ==
  /\ \/ outbox[r].status \in Undelivered
     \/ outbox[r].status = "leased" /\ outbox[r].due
  /\ run[r].status \in Open

Lease(r) ==
  /\ Claimable(r)
  /\ PathFree(r)
  /\ outbox[r].tries < MaxDeliveries
  /\ AcquirePathLock(r)
  /\ outbox' = [outbox EXCEPT ![r].status = "leased", ![r].due = FALSE,
                              ![r].token = outbox[r].tries + 1,
                              ![r].tries = outbox[r].tries + 1]
  /\ run' = [run EXCEPT ![r].status = "dispatching"]
  /\ overdue' = overdue \ {r}
  /\ UNCHANGED byKey

\* The dispatcher takes any row that is due.  The code takes the oldest one.
ClaimNextDispatch(r) == outbox[r].due /\ Lease(r)

\* An inline caller claims its own Run and does not wait for available_at.
ClaimDispatchForRun(r) == Lease(r)

\* A lease is recognised by its token alone: an expired one still counts until
\* another claim replaces it.
Leased(r, token) == outbox[r].status = "leased" /\ outbox[r].token = token

MayAcknowledge(r, token, s) ==
  /\ Leased(r, token)
  /\ run[r].status \in {"dispatching", "running", "waiting"} \cup Terminal
  /\ run[r].session \in {NoSession, s}

\* Mutant: a late acknowledgement sets the Run running again.
Acknowledge_Reopens(r, token, s) ==
  /\ MayAcknowledge(r, token, s)
  /\ outbox' = [outbox EXCEPT ![r].status = "delivered", ![r].token = 0,
                              ![r].due = FALSE]
  /\ run' = [run EXCEPT ![r].status = "running", ![r].failure = "none", ![r].session = s]
  /\ UNCHANGED <<byKey, owner, lapsed, overdue>>

AcknowledgeDispatchStarted(r, token, s) ==
  /\ MayAcknowledge(r, token, s)
  /\ outbox' = [outbox EXCEPT ![r].status = "delivered", ![r].token = 0,
                              ![r].due = FALSE]
  /\ run' = [run EXCEPT
       ![r].status = IF @ = "dispatching" THEN "running" ELSE @,
       ![r].failure = IF run[r].status = "dispatching" THEN "none" ELSE @,
       ![r].session = s]
  /\ UNCHANGED <<byKey, owner, lapsed, overdue>>

\* The nack.  classify_failure(message, false) never asks to resume a Session.
DispatchFailures == {"fresh", "final"}

WillRetry(r, failure) ==
  failure \in Retryable /\ outbox[r].tries < MaxAttempts

\* Mutant: the nack keeps the directory.
Nack_Keeps_Lock(r, token, failure, row, status) ==
  /\ Leased(r, token)
  /\ outbox' = [outbox EXCEPT ![r].status = row, ![r].token = 0, ![r].due = FALSE]
  /\ run' = IF run[r].status = "dispatching"
            THEN [run EXCEPT ![r].status = status, ![r].failure = failure]
            ELSE run
  /\ UNCHANGED <<byKey, owner, lapsed, overdue>>

Nack(r, token, failure, row, status) ==
  /\ Leased(r, token)
  /\ outbox' = [outbox EXCEPT ![r].status = row, ![r].token = 0, ![r].due = FALSE]
  /\ run' = IF run[r].status = "dispatching"
            THEN [run EXCEPT ![r].status = status, ![r].failure = failure]
            ELSE run
  /\ ReleasePathLock(r)
  /\ UNCHANGED byKey

RecordDispatchFailure(r, token, failure) ==
  \/ /\ WillRetry(r, failure)
     /\ Nack(r, token, failure, "retry_wait", "deferred")
  \/ /\ ~WillRetry(r, failure)
     /\ Nack(r, token, failure, "dead_letter", "failed")

-----------------------------------------------------------------------------
(* Terminals. *)

\* The pairs of status and failure that an outcome and its error text become.
\* A success whose text says that the context is exhausted is a failure.
Verdicts == {<<"succeeded", "none">>, <<"cancelled", "final">>,
             <<"failed", "resume">>, <<"failed", "fresh">>, <<"failed", "final">>}

\* Mutants: a terminal overwrites the status it finds, finds only Runs that
\* were acknowledged, or writes its two columns in the wrong order.
EndFrom(statuses, r, s, status, failure) ==
  /\ run[r].status # "absent"
  /\ run[r].session \in {NoSession, s}
  /\ run' = IF run[r].status \in statuses
            THEN [run EXCEPT ![r].status = status, ![r].failure = failure, ![r].session = s]
            ELSE run
  /\ ReleasePathLock(r)
  /\ UNCHANGED <<outbox, byKey>>

RecordRunTerminal_Twice(r, s, verdict) ==
  EndFrom(Active \cup Terminal, r, s, verdict[1], verdict[2])

RecordRunTerminal_Acknowledged(r, s, verdict) ==
  EndFrom({"running", "waiting"}, r, s, verdict[1], verdict[2])

RecordRunTerminal(r, s, verdict) ==
  /\ run[r].status # "absent"
  /\ run[r].session \in {NoSession, s}
  /\ run' = IF run[r].status \in Active
            THEN [run EXCEPT ![r].status = verdict[1], ![r].failure = verdict[2],
                             ![r].session = s]
            ELSE run
  /\ ReleasePathLock(r)
  /\ UNCHANGED <<outbox, byKey>>

MarkWaiting(r) ==
  /\ run[r].status = "running"
  /\ run' = [run EXCEPT ![r].status = "waiting"]
  /\ UNCHANGED <<outbox, byKey, owner, lapsed, overdue>>

\* The deferred escalations that the end of Run e, or a reply of the agent of
\* its Session, makes pointless.
Matching(e) ==
  {r \in Escalations :
     /\ run[r].status = "queued"
     /\ outbox[r].status = "pending"
     /\ \/ run[r].resume # NoSession /\ run[r].resume = run[e].session
        \/ AgentOf[r] = AgentOf[e]}

\* Mutant: the outbox row stays pending.
CancelAssigneeEscalations_Half(e) ==
  /\ run' = [r \in Runs |-> IF r \in Matching(e)
               THEN [run[r] EXCEPT !.status = "cancelled"] ELSE run[r]]
  /\ UNCHANGED <<outbox, byKey, owner, lapsed, overdue>>

CancelAssigneeEscalations(e) ==
  /\ run' = [r \in Runs |-> IF r \in Matching(e)
               THEN [run[r] EXCEPT !.status = "cancelled"] ELSE run[r]]
  /\ outbox' = [r \in Runs |-> IF r \in Matching(e)
               THEN [outbox[r] EXCEPT !.status = "cancelled", !.due = FALSE]
               ELSE outbox[r]]
  /\ UNCHANGED <<byKey, owner, lapsed, overdue>>

\* A cancelled routine run takes with it every Run that has not ended and whose
\* Work Item it generated (routine_service).
CancelRoutineRun(S) ==
  /\ S # {}
  /\ \A r \in S : run[r].status \in Open \cup Active
  /\ run' = [r \in Runs |-> IF r \in S THEN [run[r] EXCEPT !.status = "cancelled"]
                            ELSE run[r]]
  /\ outbox' = [r \in Runs |->
       IF r \in S /\ outbox[r].status \in Undelivered \cup {"leased"}
       THEN [outbox[r] EXCEPT !.status = "cancelled", !.token = 0, !.due = FALSE]
       ELSE outbox[r]]
  /\ owner' = [p \in Paths |-> IF owner[p] \in S THEN NoRun ELSE owner[p]]
  /\ lapsed' = {p \in lapsed : owner[p] \notin S}
  /\ overdue' = overdue \ S
  /\ UNCHANGED byKey

-----------------------------------------------------------------------------
(* The clock. *)

\* A comment that is merged into the Run of an earlier one postpones it
\* (discussion.rs), until a claim closes the window.
ExtendWakeWindow(r) ==
  /\ run[r].status = "queued"
  /\ run[r].parent = NoRun
  /\ outbox[r].status = "pending"
  /\ outbox[r].due
  /\ outbox' = [outbox EXCEPT ![r].due = FALSE]
  /\ UNCHANGED <<run, byKey, owner, lapsed, overdue>>

DeadlinePasses(r) ==
  /\ outbox[r].status \in Undelivered \cup {"leased"}
  /\ ~outbox[r].due
  /\ outbox' = [outbox EXCEPT ![r].due = TRUE]
  /\ UNCHANGED <<run, byKey, owner, lapsed, overdue>>

PathLockLapses(p) ==
  /\ owner[p] # NoRun
  /\ p \notin lapsed
  /\ lapsed' = lapsed \cup {p}
  /\ overdue' = overdue \cup {owner[p]}
  /\ UNCHANGED <<run, outbox, byKey, owner>>

-----------------------------------------------------------------------------
Submission ==
  \E r \in Runs, k \in Keys :
    \/ \E s \in Sessions \cup {NoSession}, delayed \in BOOLEAN : Enqueue(r, k, s, delayed)
    \/ \E p \in Runs : Retry(r, k, p)

Delivery ==
  \E r \in Runs :
    \/ ClaimNextDispatch(r)
    \/ ClaimDispatchForRun(r)
    \/ \E token \in 1..MaxDeliveries :
         \/ \E s \in Sessions : AcknowledgeDispatchStarted(r, token, s)
         \/ \E f \in DispatchFailures : RecordDispatchFailure(r, token, f)

Ending ==
  \/ \E r \in Runs :
       \/ \E s \in Sessions, v \in Verdicts : RecordRunTerminal(r, s, v)
       \/ MarkWaiting(r)
       \/ CancelAssigneeEscalations(r)
  \/ \E S \in SUBSET Runs : CancelRoutineRun(S)

Passing ==
  \/ \E r \in Runs : DeadlinePasses(r) \/ ExtendWakeWindow(r)
  \/ \E p \in Paths : PathLockLapses(p)

Next == Submission \/ Delivery \/ Ending \/ Passing

Spec == Init /\ [][Next]_vars

-----------------------------------------------------------------------------
(* Properties. *)

\* Every table holds rows of its schema.
TypeOK ==
  /\ run \in [Runs -> RunRow]
  /\ outbox \in [Runs -> OutboxRow]
  /\ byKey \in [Keys -> Runs \cup {NoRun}]
  /\ owner \in [Paths -> Runs \cup {NoRun}]
  /\ lapsed \subseteq Paths
  /\ overdue \subseteq Runs

\* The two halves of a Run agree, so that no Run is lost between them: a Run
\* that is still open has an outbox row that a claim will find once its
\* deadline has passed, a Run that executes has been delivered to a Session,
\* and a row that nobody will look at again belongs to a Run that has ended.
RowsAgree(r) ==
  /\ run[r].status = "absent" <=> outbox[r].status = "absent"
  /\ run[r].status = "queued" <=> outbox[r].status = "pending"
  /\ run[r].status = "deferred" => outbox[r].status = "retry_wait"
  /\ run[r].status = "dispatching" => outbox[r].status = "leased"
  /\ run[r].status \in {"running", "waiting"} =>
       outbox[r].status = "delivered" /\ run[r].session # NoSession
  /\ outbox[r].status \in {"dead_letter", "cancelled"} => run[r].status \in Terminal

NoRunStranded == \A r \in Runs : RowsAgree(r)

\* One claim of a directory at a time: two Runs that are being delivered or
\* executed in the same directory are possible only once a lock has outlived
\* its seven days.
PathExclusion ==
  \A q, r \in Runs :
    (/\ q # r
     /\ Workspace[q] = Workspace[r]
     /\ Workspace[r] # NoPath
     /\ run[q].status \in Active
     /\ run[r].status \in Active) => q \in overdue \/ r \in overdue

\* What keeps it so: every active Run that wants a directory owns its lock.
ActiveRunHoldsItsPath ==
  \A r \in Runs :
    run[r].status \in Active /\ Workspace[r] # NoPath =>
      owner[Workspace[r]] = r \/ r \in overdue

\* A lock is never left behind by a Run that has ended or waits for another
\* delivery: whoever owns a lock is being delivered or executed.
NoLeakedLock ==
  \A p \in Paths : owner[p] # NoRun =>
    run[owner[p]].status \in Active /\ Workspace[owner[p]] = p

\* Retry episodes form chains: a Run with a parent follows a Run of the same
\* request that failed retryably, and no chain outgrows its attempt budget.
Lineage(r) ==
  run[r].parent # NoRun =>
    LET p == run[r].parent IN
      /\ run[p].status = "failed"
      /\ run[p].failure \in Retryable
      /\ run[r].attempt = run[p].attempt + 1
      /\ run[r].attempt <= MaxAttempts
      /\ SameRequest(r, p)
      /\ run[p].failure = "resume" => run[r].resume = run[p].session

RetryLineage == \A r \in Runs : Lineage(r)

\* What the invariants above rest on: a lock in its eighth day belongs to a Run
\* that is known to be overdue, only an active Run is overdue, and a Run that may
\* be retried in its Session has one.
LapsedLockOverdue == \A p \in lapsed : owner[p] \in overdue

OverdueIsActive == \A r \in overdue : run[r].status \in Active

ResumableHasSession ==
  \A r \in Runs : run[r].failure = "resume" => run[r].session # NoSession

\* The inductive invariant.
IndInv ==
  /\ TypeOK
  /\ NoRunStranded
  /\ NoLeakedLock
  /\ ActiveRunHoldsItsPath
  /\ LapsedLockOverdue
  /\ OverdueIsActive
  /\ RetryLineage
  /\ ResumableHasSession

\* Finality: an ended Run keeps its outcome whatever callers, late or
\* duplicate, do afterwards, and a Run never changes its Session.
FinalityStep ==
  \A r \in Runs :
    /\ run[r].status \in Terminal =>
         run'[r].status = run[r].status /\ run'[r].failure = run[r].failure
    /\ run[r].session # NoSession => run'[r].session = run[r].session

Finality == [][FinalityStep]_vars

\* The store implements the exclusive queue: the outbox, the lease tokens, the
\* lock table and the deadlines are details of it.
StageOf ==
  [r \in Runs |->
     CASE run[r].status = "absent" -> "absent"
       [] run[r].status \in {"queued", "deferred"} -> "waiting"
       [] run[r].status = "dispatching" -> "held"
       [] run[r].status \in {"running", "waiting"} -> "accepted"
       [] OTHER -> "ended"]

Dispatch == INSTANCE ExclusiveDispatch WITH
              stage <- StageOf, holds <- [r \in Runs |-> outbox[r].tries]

ImplementsDispatch == Dispatch!Spec
=============================================================================
