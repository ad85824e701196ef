---------------------------- MODULE WorkRunProofs ----------------------------
(***************************************************************************)
(* Proofs about WorkRun, for any number of Runs, Sessions and directories, *)
(* any attempt budget and any number of deliveries.                        *)
(***************************************************************************)
EXTENDS WorkRun, TLAPS

-----------------------------------------------------------------------------
(* Types. *)

\* A fresh row of either table is a row of its schema.
LEMMA FreshRows == NoRunRow \in RunRow /\ NoOutboxRow \in OutboxRow
BY DEF NoRunRow, RunRow, NoOutboxRow, OutboxRow, RunStatus, Open, Active, Terminal,
       Failures, OutboxStatus, Undelivered

\* Releasing a lock leaves the lock table well formed.
LEMMA ReleaseType ==
  ASSUME TypeOK, NEW r \in Runs, ReleasePathLock(r)
  PROVE  /\ owner' \in [Paths -> Runs \cup {NoRun}]
         /\ lapsed' \subseteq Paths
         /\ overdue' \subseteq Runs
BY DEF TypeOK, ReleasePathLock

\* Writing status, failure and Session keeps the table of Runs well formed.
LEMMA UpdateType ==
  ASSUME run \in [Runs -> RunRow], NEW r \in Runs, NEW status \in RunStatus,
         NEW failure \in Failures, NEW s \in Sessions \cup {NoSession}
  PROVE  [run EXCEPT ![r].status = status, ![r].failure = failure, ![r].session = s]
           \in [Runs -> RunRow]
<1>1. [run[r] EXCEPT !.status = status, !.failure = failure, !.session = s] \in RunRow
  BY DEF RunRow
<1> QED BY <1>1

\* A new Run and its outbox row are rows of their schemas.
LEMMA InsertType ==
  ASSUME TypeOK, NEW r \in Runs, NEW k \in Keys, NEW parent \in Runs \cup {NoRun},
         NEW attempt \in Nat, NEW resume \in Sessions \cup {NoSession},
         NEW delayed \in BOOLEAN, Insert(r, k, parent, attempt, resume, delayed)
  PROVE  TypeOK'
<1>1. [NoRunRow EXCEPT !.status = "queued", !.attempt = attempt,
                       !.parent = parent, !.resume = resume] \in RunRow
  BY DEF NoRunRow, RunRow, RunStatus, Open, Active, Terminal, Failures
<1>2. [NoOutboxRow EXCEPT !.status = "pending", !.due = ~delayed] \in OutboxRow
  BY DEF NoOutboxRow, OutboxRow, OutboxStatus, Undelivered
<1> QED BY <1>1, <1>2 DEF TypeOK, Insert

\* A claim leaves all tables well formed.
LEMMA LeaseType ==
  ASSUME TypeOK, NEW r \in Runs, Lease(r)
  PROVE  TypeOK'
<1>1. run' \in [Runs -> RunRow]
  BY DEF TypeOK, Lease, RunRow, RunStatus, Open
<1>2. outbox' \in [Runs -> OutboxRow]
  BY DEF TypeOK, Lease, OutboxRow, OutboxStatus, Undelivered
<1>3. /\ owner' \in [Paths -> Runs \cup {NoRun}]
      /\ lapsed' \subseteq Paths
  BY DEF TypeOK, Lease, AcquirePathLock
<1> QED BY <1>1, <1>2, <1>3 DEF TypeOK, Lease

\* So does a nack.
LEMMA NackType ==
  ASSUME TypeOK, NEW r \in Runs, NEW token, NEW failure \in Failures,
         NEW row \in OutboxStatus, NEW status \in RunStatus,
         Nack(r, token, failure, row, status)
  PROVE  TypeOK'
<1>1. [run[r] EXCEPT !.status = status, !.failure = failure] \in RunRow
  BY DEF TypeOK, RunRow
<1>2. [outbox[r] EXCEPT !.status = row, !.token = 0, !.due = FALSE] \in OutboxRow
  BY DEF TypeOK, OutboxRow
<1>3. run' \in [Runs -> RunRow] /\ outbox' \in [Runs -> OutboxRow]
  BY <1>1, <1>2 DEF TypeOK, Nack
<1>4. ReleasePathLock(r) /\ byKey' = byKey
  BY DEF Nack
<1> QED BY <1>3, <1>4, ReleaseType DEF TypeOK

\* And the cancellation of a routine run.
LEMMA RoutineType ==
  ASSUME TypeOK, NEW S \in SUBSET Runs, CancelRoutineRun(S)
  PROVE  TypeOK'
<1>1. ASSUME NEW q \in Runs
      PROVE  [run[q] EXCEPT !.status = "cancelled"] \in RunRow
  BY DEF TypeOK, RunRow, RunStatus, Terminal
<1>2. ASSUME NEW q \in Runs
      PROVE  [outbox[q] EXCEPT !.status = "cancelled", !.token = 0, !.due = FALSE]
               \in OutboxRow
  BY DEF TypeOK, OutboxRow, OutboxStatus
<1>3. run' \in [Runs -> RunRow]
  BY <1>1 DEF TypeOK, CancelRoutineRun
<1>4. outbox' \in [Runs -> OutboxRow]
  BY <1>2 DEF TypeOK, CancelRoutineRun
<1>5. /\ owner' \in [Paths -> Runs \cup {NoRun}]
      /\ lapsed' \subseteq Paths
      /\ overdue' \subseteq Runs
      /\ byKey' = byKey
  BY DEF TypeOK, CancelRoutineRun
<1> QED BY <1>3, <1>4, <1>5 DEF TypeOK

\* Every operation leaves every table well formed.
LEMMA TypeStep ==
  ASSUME TypeOK, [Next]_vars
  PROVE  TypeOK'
<1>1. ASSUME NEW r \in Runs, NEW k \in Keys, NEW s \in Sessions \cup {NoSession},
             NEW delayed \in BOOLEAN, Enqueue(r, k, s, delayed)
      PROVE  TypeOK'
  BY <1>1, InsertType DEF Enqueue
<1>2. ASSUME NEW r \in Runs, NEW k \in Keys, NEW p \in Runs, Retry(r, k, p)
      PROVE  TypeOK'
  <2>1. run[p].attempt + 1 \in Nat /\ RetryTarget(p) \in Sessions \cup {NoSession}
    BY DEF TypeOK, RunRow, RetryTarget
  <2> QED BY <1>2, <2>1, InsertType DEF Retry
<1>3. ASSUME NEW r \in Runs, ClaimNextDispatch(r) \/ ClaimDispatchForRun(r)
      PROVE  TypeOK'
  BY <1>3, LeaseType DEF ClaimNextDispatch, ClaimDispatchForRun
<1>4. ASSUME NEW r \in Runs, NEW token \in 1..MaxDeliveries, NEW s \in Sessions,
             AcknowledgeDispatchStarted(r, token, s)
      PROVE  TypeOK'
  <2> DEFINE status == IF run[r].status = "dispatching" THEN "running" ELSE run[r].status
             failure == IF run[r].status = "dispatching" THEN "none" ELSE run[r].failure
  <2>1. status \in RunStatus /\ failure \in Failures
    BY DEF TypeOK, RunRow, RunStatus, Active, Failures
  <2>2. run' = [run EXCEPT ![r].status = status, ![r].failure = failure, ![r].session = s]
    BY <1>4 DEF AcknowledgeDispatchStarted
  <2> HIDE DEF status, failure
  <2>3. run' \in [Runs -> RunRow]
    BY <2>1, <2>2, UpdateType DEF TypeOK
  <2>4. outbox' \in [Runs -> OutboxRow]
    <3>1. [outbox[r] EXCEPT !.status = "delivered", !.token = 0, !.due = FALSE]
            \in OutboxRow
      BY DEF TypeOK, OutboxRow, OutboxStatus
    <3>2. outbox' = [outbox EXCEPT ![r].status = "delivered", ![r].token = 0,
                                   ![r].due = FALSE]
      BY <1>4 DEF AcknowledgeDispatchStarted
    <3> QED BY <3>1, <3>2 DEF TypeOK
  <2>5. UNCHANGED <<byKey, owner, lapsed, overdue>>
    BY <1>4 DEF AcknowledgeDispatchStarted
  <2> QED BY <2>3, <2>4, <2>5 DEF TypeOK
<1>5. ASSUME NEW r \in Runs, NEW token \in 1..MaxDeliveries, NEW f \in DispatchFailures,
             RecordDispatchFailure(r, token, f)
      PROVE  TypeOK'
  BY <1>5, NackType DEF RecordDispatchFailure, RunStatus, Open, Terminal, OutboxStatus,
                        Undelivered, DispatchFailures, Failures
<1>6. ASSUME NEW r \in Runs, NEW s \in Sessions, NEW v \in Verdicts,
             RecordRunTerminal(r, s, v)
      PROVE  TypeOK'
  <2>1. v[1] \in RunStatus /\ v[2] \in Failures
    BY DEF Verdicts, RunStatus, Terminal, Failures
  <2>2. run' \in {run, [run EXCEPT ![r].status = v[1], ![r].failure = v[2],
                                   ![r].session = s]}
    BY <1>6 DEF RecordRunTerminal
  <2>3. run' \in [Runs -> RunRow]
    BY <2>1, <2>2 DEF TypeOK, RunRow
  <2>4. ReleasePathLock(r) /\ byKey' = byKey /\ outbox' = outbox
    BY <1>6 DEF RecordRunTerminal
  <2> QED BY <2>3, <2>4, ReleaseType DEF TypeOK
<1>7. ASSUME NEW r \in Runs, MarkWaiting(r)
      PROVE  TypeOK'
  BY <1>7 DEF TypeOK, MarkWaiting, RunRow, RunStatus, Active
<1>11. ASSUME NEW r \in Runs, CancelAssigneeEscalations(r)
      PROVE  TypeOK'
  <2>1. ASSUME NEW q \in Runs
        PROVE  /\ [run[q] EXCEPT !.status = "cancelled"] \in RunRow
               /\ [outbox[q] EXCEPT !.status = "cancelled", !.due = FALSE] \in OutboxRow
    <3>1. [run[q] EXCEPT !.status = "cancelled"] \in RunRow
      BY DEF TypeOK, RunRow, RunStatus, Terminal
    <3>2. [outbox[q] EXCEPT !.status = "cancelled", !.due = FALSE] \in OutboxRow
      BY DEF TypeOK, OutboxRow, OutboxStatus
    <3> QED BY <3>1, <3>2
  <2>2. run' \in [Runs -> RunRow]
    BY <1>11, <2>1 DEF TypeOK, CancelAssigneeEscalations
  <2>3. outbox' \in [Runs -> OutboxRow]
    BY <1>11, <2>1 DEF TypeOK, CancelAssigneeEscalations
  <2> QED BY <1>11, <2>2, <2>3 DEF TypeOK, CancelAssigneeEscalations
<1>8. ASSUME NEW r \in Runs, DeadlinePasses(r) \/ ExtendWakeWindow(r)
      PROVE  TypeOK'
  BY <1>8 DEF TypeOK, DeadlinePasses, ExtendWakeWindow, OutboxRow
<1>12. ASSUME NEW S \in SUBSET Runs, CancelRoutineRun(S)
       PROVE  TypeOK'
  BY <1>12, RoutineType
<1>9. ASSUME NEW p \in Paths, PathLockLapses(p)
      PROVE  TypeOK'
  BY <1>9 DEF TypeOK, PathLockLapses
<1>10. CASE UNCHANGED vars
  BY <1>10 DEF TypeOK, vars
<1> QED BY <1>1, <1>2, <1>3, <1>4, <1>5, <1>6, <1>7, <1>8, <1>9, <1>10, <1>11,
           <1>12
        DEF Next, Submission, Delivery, Ending, Passing

\* Every table always holds rows of its schema.
THEOREM TypeCorrect == Spec => []TypeOK
<1>1. Init => TypeOK
  BY FreshRows DEF Init, TypeOK
<1>2. TypeOK /\ [Next]_vars => TypeOK'
  BY TypeStep
<1> QED BY <1>1, <1>2, PTL DEF Spec

\* A lease carries the token that a claim gave it, one of the deliveries counted.
TokenGiven(r) == outbox[r].status = "leased" => outbox[r].token \in 1 .. MaxDeliveries

\* Only a claim makes a lease, and it gives the next token.
LEMMA TokenStep ==
  ASSUME TypeOK, [Next]_vars, NEW q \in Runs, TokenGiven(q)
  PROVE  TokenGiven(q)'
<1>1. SUFFICES ASSUME outbox'[q].status = "leased",
                      ~(outbox'[q].status = outbox[q].status /\ outbox'[q].token = outbox[q].token)
               PROVE  outbox'[q].token \in 1 .. MaxDeliveries
  BY DEF TokenGiven
<1>2. outbox'[q] # outbox[q]
  BY <1>1
<1>3. ASSUME NEW r \in Runs, NEW k, NEW parent, NEW attempt, NEW resume, NEW delayed,
             Insert(r, k, parent, attempt, resume, delayed)
      PROVE  FALSE
  <2>1. outbox'[q] = [NoOutboxRow EXCEPT !.status = "pending", !.due = ~delayed]
    BY <1>2, <1>3 DEF Insert, TypeOK
  <2> QED BY <1>1, <2>1 DEF NoOutboxRow
<1>4. ASSUME NEW r \in Runs, Lease(r) PROVE outbox'[q].token \in 1 .. MaxDeliveries
  <2>1. q = r
    BY <1>2, <1>4 DEF Lease, TypeOK
  <2>2. outbox'[r].token = outbox[r].tries + 1 /\ outbox[r].tries \in Nat
    BY <1>4 DEF Lease, TypeOK, OutboxRow
  <2> QED BY <1>4, <2>1, <2>2, RequestAssumption DEF Lease
<1>5. ASSUME NEW r \in Runs, NEW token, NEW s, AcknowledgeDispatchStarted(r, token, s)
      PROVE  FALSE
  BY <1>1, <1>2, <1>5 DEF AcknowledgeDispatchStarted, TypeOK, OutboxRow
<1>6. ASSUME NEW r \in Runs, NEW token, NEW f, RecordDispatchFailure(r, token, f)
      PROVE  FALSE
  BY <1>1, <1>2, <1>6 DEF RecordDispatchFailure, Nack, TypeOK, OutboxRow
<1>7. CASE Ending
  <2>1. /\ outbox[q] \in OutboxRow
        /\ \/ outbox' = outbox
           \/ outbox'[q] = outbox[q]
           \/ outbox'[q] = [outbox[q] EXCEPT !.status = "cancelled", !.due = FALSE]
           \/ outbox'[q] = [outbox[q] EXCEPT !.status = "cancelled", !.token = 0, !.due = FALSE]
    BY <1>7 DEF Ending, RecordRunTerminal, MarkWaiting, CancelAssigneeEscalations,
                CancelRoutineRun, TypeOK
  <2> QED BY <1>1, <1>2, <2>1 DEF OutboxRow
<1>8. CASE Passing \/ UNCHANGED vars
  BY <1>1, <1>2, <1>8 DEF Passing, DeadlinePasses, ExtendWakeWindow, PathLockLapses, vars,
                          TypeOK, OutboxRow
<1> QED BY <1>3, <1>4, <1>5, <1>6, <1>7, <1>8
        DEF Next, Submission, Enqueue, Retry, Delivery, ClaimNextDispatch, ClaimDispatchForRun

\* The deliveries of a Run are counted and never uncounted.
LEMMA TriesGrow ==
  ASSUME TypeOK, [Next]_vars, NEW q \in Runs, run[q].status # "absent"
  PROVE  outbox'[q].tries \in Nat /\ outbox'[q].tries >= outbox[q].tries
<1>0. outbox[q] \in OutboxRow /\ outbox[q].tries \in Nat
  BY DEF TypeOK, OutboxRow
<1>1. SUFFICES ASSUME outbox'[q].tries # outbox[q].tries
               PROVE  outbox'[q].tries = outbox[q].tries + 1
  BY <1>0
<1>2. ASSUME NEW r \in Runs, NEW k, NEW parent, NEW attempt, NEW resume, NEW delayed,
             Insert(r, k, parent, attempt, resume, delayed)
      PROVE  FALSE
  BY <1>1, <1>2 DEF Insert, TypeOK
<1>3. ASSUME NEW r \in Runs, Lease(r) PROVE outbox'[q].tries = outbox[q].tries + 1
  BY <1>0, <1>1, <1>3 DEF Lease, TypeOK, OutboxRow
<1>4. ASSUME NEW r \in Runs, NEW token, NEW s, AcknowledgeDispatchStarted(r, token, s)
      PROVE  FALSE
  BY <1>0, <1>1, <1>4 DEF AcknowledgeDispatchStarted, TypeOK, OutboxRow
<1>5. ASSUME NEW r \in Runs, NEW token, NEW f, RecordDispatchFailure(r, token, f)
      PROVE  FALSE
  BY <1>0, <1>1, <1>5 DEF RecordDispatchFailure, Nack, TypeOK, OutboxRow
<1>6. CASE Ending
  <2>1. \/ outbox' = outbox
        \/ outbox'[q] = outbox[q]
        \/ outbox'[q] = [outbox[q] EXCEPT !.status = "cancelled", !.due = FALSE]
        \/ outbox'[q] = [outbox[q] EXCEPT !.status = "cancelled", !.token = 0, !.due = FALSE]
    BY <1>6 DEF Ending, RecordRunTerminal, MarkWaiting, CancelAssigneeEscalations,
                CancelRoutineRun, TypeOK
  <2> QED BY <1>0, <1>1, <2>1 DEF OutboxRow
<1>7. CASE Passing \/ UNCHANGED vars
  BY <1>0, <1>1, <1>7 DEF Passing, DeadlinePasses, ExtendWakeWindow, PathLockLapses, vars,
                          TypeOK, OutboxRow
<1> QED BY <1>2, <1>3, <1>4, <1>5, <1>6, <1>7
        DEF Next, Submission, Enqueue, Retry, Delivery, ClaimNextDispatch, ClaimDispatchForRun

-----------------------------------------------------------------------------
(* The two tables agree. *)

\* Every kind of step leaves the two rows of every Run in agreement.
LEMMA InsertAgrees ==
  ASSUME TypeOK, NoRunStranded, NEW r \in Runs, NEW k \in Keys, NEW parent, NEW attempt,
         NEW resume, NEW delayed, Insert(r, k, parent, attempt, resume, delayed)
  PROVE  NoRunStranded'
<1> SUFFICES ASSUME NEW q \in Runs PROVE RowsAgree(q)'
  BY DEF NoRunStranded
<1>1. RowsAgree(q)
  BY DEF NoRunStranded
<1>2. CASE q = r
  BY <1>2 DEF Insert, TypeOK, RowsAgree, NoRunRow, NoOutboxRow, Terminal
<1>3. CASE q # r
  <2>1. run'[q] = run[q] /\ outbox'[q] = outbox[q]
    BY <1>3 DEF Insert, TypeOK
  <2> QED BY <1>1, <2>1 DEF RowsAgree
<1> QED BY <1>2, <1>3

LEMMA LeaseAgrees ==
  ASSUME TypeOK, NoRunStranded, NEW r \in Runs, Lease(r)
  PROVE  NoRunStranded'
<1> SUFFICES ASSUME NEW q \in Runs PROVE RowsAgree(q)'
  BY DEF NoRunStranded
<1>1. RowsAgree(q)
  BY DEF NoRunStranded
<1>2. CASE q = r
  <2>1. run'[q].status = "dispatching" /\ outbox'[q].status = "leased"
    BY <1>2 DEF Lease, TypeOK, RunRow, OutboxRow
  <2> QED BY <2>1 DEF RowsAgree
<1>3. CASE q # r
  <2>1. run'[q] = run[q] /\ outbox'[q] = outbox[q]
    BY <1>3 DEF Lease, TypeOK
  <2> QED BY <1>1, <2>1 DEF RowsAgree
<1> QED BY <1>2, <1>3

LEMMA AcknowledgeAgrees ==
  ASSUME TypeOK, NoRunStranded, NEW r \in Runs, NEW token, NEW s \in Sessions,
         AcknowledgeDispatchStarted(r, token, s)
  PROVE  NoRunStranded'
<1> SUFFICES ASSUME NEW q \in Runs PROVE RowsAgree(q)'
  BY DEF NoRunStranded
<1>1. RowsAgree(q)
  BY DEF NoRunStranded
<1>2. CASE q = r
  <2>1. /\ run'[q].status = IF run[q].status = "dispatching" THEN "running" ELSE run[q].status
        /\ run'[q].session = s
        /\ outbox'[q].status = "delivered"
    BY <1>2 DEF AcknowledgeDispatchStarted, TypeOK, RunRow, OutboxRow
  <2>2. outbox[q].status = "leased" /\ s # NoSession
    BY <1>2, IdAssumption DEF AcknowledgeDispatchStarted, MayAcknowledge, Leased
  <2> QED BY <1>1, <2>1, <2>2 DEF RowsAgree
<1>3. CASE q # r
  <2>1. run'[q] = run[q] /\ outbox'[q] = outbox[q]
    BY <1>3 DEF AcknowledgeDispatchStarted, TypeOK
  <2> QED BY <1>1, <2>1 DEF RowsAgree
<1> QED BY <1>2, <1>3

LEMMA NackAgrees ==
  ASSUME TypeOK, NoRunStranded, NEW r \in Runs, NEW token, NEW f \in DispatchFailures,
         RecordDispatchFailure(r, token, f)
  PROVE  NoRunStranded'
<1> SUFFICES ASSUME NEW q \in Runs PROVE RowsAgree(q)'
  BY DEF NoRunStranded
<1>1. RowsAgree(q)
  BY DEF NoRunStranded
<1>2. outbox[r].status = "leased"
  BY DEF RecordDispatchFailure, Nack, Leased
<1>3. CASE q = r
  <2>1. run[q].status \in Terminal \cup {"dispatching"}
    BY <1>1, <1>2, <1>3 DEF RowsAgree, TypeOK, RunRow, RunStatus, Open, Active
  <2>2. CASE run[q].status = "dispatching"
    <3>1. \/ run'[q].status = "deferred" /\ outbox'[q].status = "retry_wait"
          \/ run'[q].status = "failed" /\ outbox'[q].status = "dead_letter"
      BY <1>3, <2>2 DEF RecordDispatchFailure, Nack, TypeOK, RunRow, OutboxRow
    <3> QED BY <3>1 DEF RowsAgree, Terminal
  <2>3. CASE run[q].status # "dispatching"
    <3>1. /\ run'[q] = run[q]
          /\ outbox'[q].status \in {"retry_wait", "dead_letter"}
      BY <1>3, <2>3 DEF RecordDispatchFailure, Nack, TypeOK, OutboxRow
    <3> QED BY <2>1, <2>3, <3>1 DEF RowsAgree, Terminal
  <2> QED BY <2>2, <2>3
<1>4. CASE q # r
  <2>1. run'[q] = run[q] /\ outbox'[q] = outbox[q]
    BY <1>4 DEF RecordDispatchFailure, Nack, TypeOK
  <2> QED BY <1>1, <2>1 DEF RowsAgree
<1> QED BY <1>3, <1>4

LEMMA TerminalAgrees ==
  ASSUME TypeOK, NoRunStranded, NEW r \in Runs, NEW s \in Sessions, NEW v \in Verdicts,
         RecordRunTerminal(r, s, v)
  PROVE  NoRunStranded'
<1> SUFFICES ASSUME NEW q \in Runs PROVE RowsAgree(q)'
  BY DEF NoRunStranded
<1>1. RowsAgree(q) /\ outbox' = outbox
  BY DEF NoRunStranded, RecordRunTerminal
<1>2. CASE run'[q] = run[q]
  BY <1>1, <1>2 DEF RowsAgree
<1>3. CASE run'[q] # run[q]
  <2>1. run[q].status \in Active /\ run'[q].status \in Terminal
    BY <1>3 DEF RecordRunTerminal, TypeOK, RunRow, Verdicts, Terminal
  <2> QED BY <1>1, <2>1 DEF RowsAgree, Active, Terminal
<1> QED BY <1>2, <1>3

LEMMA CancelAgrees ==
  ASSUME TypeOK, NoRunStranded, NEW e \in Runs, CancelAssigneeEscalations(e)
  PROVE  NoRunStranded'
<1> SUFFICES ASSUME NEW q \in Runs PROVE RowsAgree(q)'
  BY DEF NoRunStranded
<1>1. RowsAgree(q)
  BY DEF NoRunStranded
<1>2. CASE q \in Matching(e)
  <2>1. run'[q].status = "cancelled" /\ outbox'[q].status = "cancelled"
    BY <1>2 DEF CancelAssigneeEscalations, TypeOK, RunRow, OutboxRow
  <2> QED BY <2>1 DEF RowsAgree, Terminal
<1>3. CASE q \notin Matching(e)
  <2>1. run'[q] = run[q] /\ outbox'[q] = outbox[q]
    BY <1>3 DEF CancelAssigneeEscalations
  <2> QED BY <1>1, <2>1 DEF RowsAgree
<1> QED BY <1>2, <1>3

LEMMA RoutineAgrees ==
  ASSUME TypeOK, NoRunStranded, NEW S \in SUBSET Runs, CancelRoutineRun(S)
  PROVE  NoRunStranded'
<1> SUFFICES ASSUME NEW q \in Runs PROVE RowsAgree(q)'
  BY DEF NoRunStranded
<1>1. RowsAgree(q)
  BY DEF NoRunStranded
<1>2. CASE q \in S
  <2>1. run'[q].status = "cancelled" /\ run[q].status \in Open \cup Active
    BY <1>2 DEF CancelRoutineRun, TypeOK, RunRow
  <2>2. outbox'[q].status \in {"cancelled", outbox[q].status}
    BY <1>2 DEF CancelRoutineRun, TypeOK, OutboxRow
  <2>3. outbox'[q].status \notin {"absent", "pending"}
    <3>1. outbox[q].status # "absent"
      BY <1>1, <2>1 DEF RowsAgree, Open, Active
    <3>2. outbox[q].status = "pending" => outbox'[q].status = "cancelled"
      BY <1>2 DEF CancelRoutineRun, TypeOK, OutboxRow, Undelivered
    <3> QED BY <2>2, <3>1, <3>2
  <2> QED BY <2>1, <2>3 DEF RowsAgree, Terminal
<1>3. CASE q \notin S
  <2>1. run'[q] = run[q] /\ outbox'[q] = outbox[q]
    BY <1>3 DEF CancelRoutineRun
  <2> QED BY <1>1, <2>1 DEF RowsAgree
<1> QED BY <1>2, <1>3

LEMMA TimeAgrees ==
  ASSUME TypeOK, NoRunStranded,
         \/ Passing
         \/ \E r \in Runs : MarkWaiting(r)
         \/ UNCHANGED vars
  PROVE  NoRunStranded'
<1> SUFFICES ASSUME NEW q \in Runs PROVE RowsAgree(q)'
  BY DEF NoRunStranded
<1>1. RowsAgree(q)
  BY DEF NoRunStranded
<1>2. /\ run'[q].session = run[q].session
      /\ outbox'[q].status = outbox[q].status
      /\ \/ run'[q].status = run[q].status
         \/ run[q].status = "running" /\ run'[q].status = "waiting"
  BY DEF Passing, DeadlinePasses, ExtendWakeWindow, PathLockLapses, MarkWaiting, vars,
         TypeOK, RunRow, OutboxRow
<1> QED BY <1>1, <1>2 DEF RowsAgree

\* No Run is lost between the table of Runs and the outbox.
THEOREM NothingStranded == Spec => []NoRunStranded
<1>1. Init => NoRunStranded
  <2> SUFFICES ASSUME Init, NEW r \in Runs PROVE RowsAgree(r)
    BY DEF NoRunStranded
  <2>1. run[r].status = "absent" /\ outbox[r].status = "absent"
    BY DEF Init, NoRunRow, NoOutboxRow
  <2> QED BY <2>1 DEF RowsAgree
<1>2. TypeOK /\ NoRunStranded /\ [Next]_vars => NoRunStranded'
  <2> SUFFICES ASSUME TypeOK, NoRunStranded, [Next]_vars PROVE NoRunStranded'
    OBVIOUS
  <2>1. CASE Submission
    BY <2>1, InsertAgrees DEF Submission, Enqueue, Retry
  <2>2. CASE Delivery
    BY <2>2, LeaseAgrees, AcknowledgeAgrees, NackAgrees
       DEF Delivery, ClaimNextDispatch, ClaimDispatchForRun
  <2>3. CASE Ending
    BY <2>3, TerminalAgrees, CancelAgrees, RoutineAgrees, TimeAgrees DEF Ending
  <2>4. CASE Passing \/ UNCHANGED vars
    BY <2>4, TimeAgrees
  <2> QED BY <2>1, <2>2, <2>3, <2>4 DEF Next
<1> QED BY <1>1, <1>2, TypeCorrect, PTL DEF Spec
=============================================================================
