-------------------------- MODULE WorkRunLockProofs --------------------------
(***************************************************************************)
(* Proofs that a directory belongs to one Run at a time, that an ended Run *)
(* keeps its outcome and a Run its Session, and that retries form chains.  *)
(***************************************************************************)
EXTENDS WorkRunProofs

\* What the lock table and the Runs must satisfy together to be inductive.
LockInv ==
  NoLeakedLock /\ ActiveRunHoldsItsPath /\ LapsedLockOverdue /\ OverdueIsActive

\* A step that touches no lock and changes no Run's activity.
LEMMA NeutralStep ==
  ASSUME TypeOK, LockInv, UNCHANGED <<owner, lapsed, overdue>>,
         \A r \in Runs : run'[r].status \in Active <=> run[r].status \in Active
  PROVE  LockInv'
<1>1. NoLeakedLock'
  BY DEF TypeOK, LockInv, NoLeakedLock
<1>2. ActiveRunHoldsItsPath'
  BY DEF LockInv, ActiveRunHoldsItsPath
<1>3. LapsedLockOverdue'
  BY DEF LockInv, LapsedLockOverdue
<1>4. OverdueIsActive'
  BY DEF TypeOK, LockInv, OverdueIsActive
<1> QED BY <1>1, <1>2, <1>3, <1>4 DEF LockInv

\* A step that releases the lock of a Run, after which the Run is not active.
LEMMA ReleasingStep ==
  ASSUME TypeOK, LockInv, NEW r \in Runs, ReleasePathLock(r),
         run'[r].status \notin Active,
         \A q \in Runs \ {r} : run'[q].status \in Active <=> run[q].status \in Active
  PROVE  LockInv'
<1>1. NoLeakedLock'
  <2> SUFFICES ASSUME NEW p \in Paths, owner'[p] # NoRun
               PROVE  run'[owner'[p]].status \in Active /\ Workspace[owner'[p]] = p
    BY DEF NoLeakedLock
  <2>1. owner'[p] = owner[p] /\ owner[p] \in Runs \ {r}
    BY DEF ReleasePathLock, TypeOK
  <2> QED BY <2>1, IdAssumption DEF LockInv, NoLeakedLock
<1>2. ActiveRunHoldsItsPath'
  <2> SUFFICES ASSUME NEW q \in Runs, run'[q].status \in Active, Workspace[q] # NoPath
               PROVE  owner'[Workspace[q]] = q \/ q \in overdue'
    BY DEF ActiveRunHoldsItsPath
  <2>1. q # r /\ Workspace[q] \in Paths
    BY RequestAssumption
  <2>2. owner[Workspace[q]] = q \/ q \in overdue
    BY <2>1 DEF LockInv, ActiveRunHoldsItsPath
  <2> QED BY <2>1, <2>2 DEF ReleasePathLock, TypeOK
<1>3. LapsedLockOverdue'
  BY DEF LockInv, LapsedLockOverdue, ReleasePathLock, TypeOK
<1>4. OverdueIsActive'
  BY DEF TypeOK, LockInv, OverdueIsActive, ReleasePathLock
<1> QED BY <1>1, <1>2, <1>3, <1>4 DEF LockInv

\* A claim.
LEMMA LeasingStep ==
  ASSUME TypeOK, LockInv, NEW r \in Runs, Lease(r)
  PROVE  LockInv'
<1>1. /\ run'[r].status = "dispatching"
      /\ \A q \in Runs \ {r} : run'[q] = run[q]
  BY DEF TypeOK, Lease, RunRow
<1>2. overdue' = overdue \ {r} /\ AcquirePathLock(r) /\ PathFree(r)
  BY DEF Lease
<1>3. OverdueIsActive'
  BY <1>1, <1>2 DEF TypeOK, LockInv, OverdueIsActive
<1>4. CASE Workspace[r] = NoPath
  <2>1. UNCHANGED <<owner, lapsed>>
    BY <1>2, <1>4 DEF AcquirePathLock
  <2>2. \A p \in Paths : owner[p] # r
    BY <1>4, IdAssumption DEF LockInv, NoLeakedLock
  <2>3. NoLeakedLock'
    BY <1>1, <2>1, <2>2 DEF LockInv, NoLeakedLock, TypeOK
  <2>4. ActiveRunHoldsItsPath'
    BY <1>1, <1>2, <1>4, <2>1 DEF LockInv, ActiveRunHoldsItsPath
  <2>5. LapsedLockOverdue'
    BY <1>2, <2>1, <2>2 DEF LockInv, LapsedLockOverdue, TypeOK
  <2> QED BY <1>3, <2>3, <2>4, <2>5 DEF LockInv
<1>5. CASE Workspace[r] # NoPath
  <2>1. Workspace[r] \in Paths /\ lapsed' = {}
    BY <1>2, <1>5, RequestAssumption DEF AcquirePathLock
  <2>2. \A p \in Paths : owner'[p] = IF p = Workspace[r] THEN r
                                     ELSE IF p \in lapsed THEN NoRun ELSE owner[p]
    BY <1>2, <1>5 DEF AcquirePathLock
  <2>3. NoLeakedLock'
    <3> SUFFICES ASSUME NEW p \in Paths, owner'[p] # NoRun
                 PROVE  run'[owner'[p]].status \in Active /\ Workspace[owner'[p]] = p
      BY DEF NoLeakedLock
    <3>1. CASE p = Workspace[r]
      BY <1>1, <2>2, <3>1 DEF Active
    <3>2. CASE p # Workspace[r]
      <4>1. owner'[p] = owner[p] /\ owner[p] # NoRun
        BY <2>2, <3>2
      <4>2. Workspace[owner[p]] = p /\ run[owner[p]].status \in Active
        BY <4>1 DEF LockInv, NoLeakedLock
      <4>3. owner[p] \in Runs \ {r}
        BY <3>2, <4>1, <4>2 DEF TypeOK
      <4> QED BY <1>1, <4>1, <4>2, <4>3
    <3> QED BY <3>1, <3>2
  <2>4. ActiveRunHoldsItsPath'
    <3> SUFFICES ASSUME NEW q \in Runs, run'[q].status \in Active, Workspace[q] # NoPath
                 PROVE  owner'[Workspace[q]] = q \/ q \in overdue'
      BY DEF ActiveRunHoldsItsPath
    <3>1. CASE q = r
      BY <2>1, <2>2, <3>1
    <3>2. CASE q # r
      <4>1. owner[Workspace[q]] = q \/ q \in overdue
        BY <1>1, <3>2 DEF LockInv, ActiveRunHoldsItsPath
      <4>2. CASE q \in overdue
        BY <1>2, <3>2, <4>2
      <4>3. CASE owner[Workspace[q]] = q /\ q \notin overdue
        <5>1. Workspace[q] \in Paths \ lapsed
          BY <4>3, RequestAssumption DEF LockInv, LapsedLockOverdue
        <5>2. Workspace[q] # Workspace[r]
          BY <1>2, <1>5, <3>2, <4>3, <5>1, IdAssumption DEF PathFree
        <5> QED BY <2>2, <4>3, <5>1, <5>2
      <4> QED BY <4>1, <4>2, <4>3
    <3> QED BY <3>1, <3>2
  <2>5. LapsedLockOverdue'
    BY <2>1 DEF LapsedLockOverdue
  <2> QED BY <1>3, <2>3, <2>4, <2>5 DEF LockInv
<1> QED BY <1>4, <1>5

\* A lock that reaches its seven days.
LEMMA LapsingStep ==
  ASSUME TypeOK, LockInv, NEW p \in Paths, PathLockLapses(p)
  PROVE  LockInv'
<1>1. NoLeakedLock'
  BY DEF PathLockLapses, LockInv, NoLeakedLock
<1>2. ActiveRunHoldsItsPath'
  BY DEF PathLockLapses, LockInv, ActiveRunHoldsItsPath
<1>3. LapsedLockOverdue'
  BY DEF PathLockLapses, LockInv, LapsedLockOverdue
<1>4. OverdueIsActive'
  BY DEF PathLockLapses, LockInv, OverdueIsActive, NoLeakedLock
<1> QED BY <1>1, <1>2, <1>3, <1>4 DEF LockInv

\* A cancelled routine run releases the locks of all its Runs at once.
LEMMA CancellingStep ==
  ASSUME TypeOK, LockInv, NEW S \in SUBSET Runs, CancelRoutineRun(S)
  PROVE  LockInv'
<1>1. /\ \A q \in S : run'[q].status \notin Active
      /\ \A q \in Runs \ S : run'[q] = run[q]
  BY DEF CancelRoutineRun, TypeOK, RunRow, Active
<1>2. /\ owner' = [p \in Paths |-> IF owner[p] \in S THEN NoRun ELSE owner[p]]
      /\ lapsed' = {p \in lapsed : owner[p] \notin S}
      /\ overdue' = overdue \ S
  BY DEF CancelRoutineRun
<1>3. NoLeakedLock'
  <2> SUFFICES ASSUME NEW p \in Paths, owner'[p] # NoRun
               PROVE  run'[owner'[p]].status \in Active /\ Workspace[owner'[p]] = p
    BY DEF NoLeakedLock
  <2>1. owner'[p] = owner[p] /\ owner[p] \in Runs \ S
    BY <1>2 DEF TypeOK
  <2> QED BY <1>1, <2>1, IdAssumption DEF LockInv, NoLeakedLock
<1>4. ActiveRunHoldsItsPath'
  <2> SUFFICES ASSUME NEW q \in Runs, run'[q].status \in Active, Workspace[q] # NoPath
               PROVE  owner'[Workspace[q]] = q \/ q \in overdue'
    BY DEF ActiveRunHoldsItsPath
  <2>1. q \notin S /\ Workspace[q] \in Paths
    BY <1>1, RequestAssumption
  <2>2. owner[Workspace[q]] = q \/ q \in overdue
    BY <1>1, <2>1 DEF LockInv, ActiveRunHoldsItsPath
  <2> QED BY <1>2, <2>1, <2>2
<1>5. LapsedLockOverdue'
  BY <1>2 DEF LockInv, LapsedLockOverdue, TypeOK
<1>6. OverdueIsActive'
  BY <1>1, <1>2 DEF LockInv, OverdueIsActive, TypeOK
<1> QED BY <1>3, <1>4, <1>5, <1>6 DEF LockInv

-----------------------------------------------------------------------------
\* Which operations are of which kind.
LEMMA SubmissionKeepsLocks ==
  ASSUME TypeOK, LockInv, Submission
  PROVE  LockInv'
<1>0. PICK r \in Runs, k \in Keys :
        \E parent, attempt, resume, delayed : Insert(r, k, parent, attempt, resume, delayed)
  BY DEF Submission, Enqueue, Retry
<1>1. PICK parent, attempt, resume, delayed : Insert(r, k, parent, attempt, resume, delayed)
  BY <1>0
<1>2. /\ run[r].status = "absent"
      /\ run'[r].status = "queued"
      /\ \A q \in Runs \ {r} : run'[q] = run[q]
  BY <1>1 DEF Insert, TypeOK, NoRunRow
<1>3. UNCHANGED <<owner, lapsed, overdue>>
  BY <1>1 DEF Insert
<1> QED BY <1>2, <1>3, NeutralStep DEF Active

LEMMA AcknowledgeKeepsLocks ==
  ASSUME TypeOK, LockInv, NEW r \in Runs, NEW token, NEW s \in Sessions,
         AcknowledgeDispatchStarted(r, token, s)
  PROVE  LockInv'
<1>1. /\ run'[r].status = IF run[r].status = "dispatching" THEN "running" ELSE run[r].status
      /\ \A q \in Runs \ {r} : run'[q] = run[q]
  BY DEF AcknowledgeDispatchStarted, TypeOK, RunRow
<1>2. UNCHANGED <<owner, lapsed, overdue>>
  BY DEF AcknowledgeDispatchStarted
<1> QED BY <1>1, <1>2, NeutralStep DEF Active

\* A nack releases the lock of a Run that nobody executes: the row is leased,
\* so the Run is neither running nor waiting.
LEMMA NackKeepsLocks ==
  ASSUME TypeOK, NoRunStranded, LockInv, NEW r \in Runs, NEW token,
         NEW f \in DispatchFailures, RecordDispatchFailure(r, token, f)
  PROVE  LockInv'
<1>1. outbox[r].status = "leased" /\ ReleasePathLock(r)
  BY DEF RecordDispatchFailure, Nack, Leased
<1>2. run[r].status \notin {"running", "waiting"}
  BY <1>1 DEF NoRunStranded, RowsAgree
<1>3. \/ run'[r].status \in {"deferred", "failed"}
      \/ run'[r].status = run[r].status /\ run[r].status # "dispatching"
  BY DEF RecordDispatchFailure, Nack, TypeOK, RunRow
<1>4. \A q \in Runs \ {r} : run'[q] = run[q]
  BY DEF RecordDispatchFailure, Nack, TypeOK
<1> QED BY <1>1, <1>2, <1>3, <1>4, ReleasingStep DEF Active

LEMMA TerminalKeepsLocks ==
  ASSUME TypeOK, LockInv, NEW r \in Runs, NEW s \in Sessions, NEW v \in Verdicts,
         RecordRunTerminal(r, s, v)
  PROVE  LockInv'
<1>1. run'[r].status \notin Active
  BY DEF RecordRunTerminal, TypeOK, RunRow, Verdicts, Active
<1>2. \A q \in Runs \ {r} : run'[q] = run[q]
  BY DEF RecordRunTerminal, TypeOK
<1>3. ReleasePathLock(r)
  BY DEF RecordRunTerminal
<1> QED BY <1>1, <1>2, <1>3, ReleasingStep

\* A Run that is cancelled as an escalation was queued and held no lock.
LEMMA RestKeepsLocks ==
  ASSUME TypeOK, LockInv,
         \/ \E r \in Runs : MarkWaiting(r) \/ CancelAssigneeEscalations(r)
         \/ \E r \in Runs : DeadlinePasses(r) \/ ExtendWakeWindow(r)
         \/ UNCHANGED vars
  PROVE  LockInv'
<1>1. ASSUME NEW r \in Runs, MarkWaiting(r) PROVE LockInv'
  <2>1. \A q \in Runs : run'[q].status \in Active <=> run[q].status \in Active
    BY <1>1 DEF MarkWaiting, TypeOK, RunRow, Active
  <2> QED BY <1>1, <2>1, NeutralStep DEF MarkWaiting
<1>2. ASSUME NEW e \in Runs, CancelAssigneeEscalations(e) PROVE LockInv'
  <2>1. ASSUME NEW q \in Runs
        PROVE  run'[q].status \in Active <=> run[q].status \in Active
    <3>1. CASE q \in Matching(e)
      <4>1. run[q].status = "queued" /\ run'[q].status = "cancelled"
        BY <1>2, <3>1 DEF CancelAssigneeEscalations, Matching, TypeOK, RunRow
      <4> QED BY <4>1 DEF Active
    <3>2. CASE q \notin Matching(e)
      BY <1>2, <3>2 DEF CancelAssigneeEscalations
    <3> QED BY <3>1, <3>2
  <2> QED BY <1>2, <2>1, NeutralStep DEF CancelAssigneeEscalations
<1>3. ASSUME NEW r \in Runs, DeadlinePasses(r) \/ ExtendWakeWindow(r) PROVE LockInv'
  BY <1>3, NeutralStep DEF DeadlinePasses, ExtendWakeWindow
<1>4. CASE UNCHANGED vars
  BY <1>4, NeutralStep DEF vars
<1> QED BY <1>1, <1>2, <1>3, <1>4

\* The three lock tables are consistent in every reachable state.
THEOREM LocksConsistent == Spec => []LockInv
<1>1. Init => LockInv
  BY DEF Init, LockInv, NoLeakedLock, ActiveRunHoldsItsPath, LapsedLockOverdue,
         OverdueIsActive, NoRunRow, Active
<1>2. TypeOK /\ NoRunStranded /\ LockInv /\ [Next]_vars => LockInv'
  <2> SUFFICES ASSUME TypeOK, NoRunStranded, LockInv, [Next]_vars PROVE LockInv'
    OBVIOUS
  <2>1. CASE Submission
    BY <2>1, SubmissionKeepsLocks
  <2>2. CASE Delivery
    BY <2>2, LeasingStep, AcknowledgeKeepsLocks, NackKeepsLocks
       DEF Delivery, ClaimNextDispatch, ClaimDispatchForRun
  <2>3. CASE Ending
    BY <2>3, TerminalKeepsLocks, RestKeepsLocks, CancellingStep DEF Ending
  <2>4. CASE Passing
    BY <2>4, RestKeepsLocks, LapsingStep DEF Passing
  <2>5. CASE UNCHANGED vars
    BY <2>5, RestKeepsLocks
  <2> QED BY <2>1, <2>2, <2>3, <2>4, <2>5 DEF Next
<1> QED BY <1>1, <1>2, TypeCorrect, NothingStranded, PTL DEF Spec

\* Two Runs are delivered or executed in one directory only if the lock of one
\* of them has outlived its seven days.
THEOREM OneRunPerPath == Spec => []PathExclusion
<1>1. LockInv => PathExclusion
  BY DEF LockInv, ActiveRunHoldsItsPath, PathExclusion
<1> QED BY <1>1, LocksConsistent, PTL

\* A directory whose Run has ended, or waits for another delivery, is free.
THEOREM LocksReturned == Spec => []NoLeakedLock
<1>1. LockInv => NoLeakedLock
  BY DEF LockInv
<1> QED BY <1>1, LocksConsistent, PTL

-----------------------------------------------------------------------------
(* What a Run was asked for and how it ended: none of it changes. *)

\* What no step changes in the row of a Run that exists: its place in the chain
\* of retries and the Session it was asked to resume.
SameRequestRow(r) ==
  /\ run'[r].attempt = run[r].attempt
  /\ run'[r].parent = run[r].parent
  /\ run'[r].resume = run[r].resume

\* A Run that is not there yet is left alone or submitted.  A Run that is there
\* keeps its request and, once it has them, its outcome and its Session.
Kept(r) ==
  /\ run[r].status = "absent" => run'[r] = run[r] \/ run'[r].status = "queued"
  /\ run[r].status # "absent" =>
       /\ SameRequestRow(r)
       /\ run'[r].status # "absent"
       /\ run[r].status \in Terminal =>
            run'[r].status = run[r].status /\ run'[r].failure = run[r].failure
       /\ run[r].session # NoSession => run'[r].session = run[r].session

\* A Run that may be resumed in its Session has one after the step, too.
KeptResumable(r) ==
  run'[r].failure = "resume" => run'[r].session # NoSession

LEMMA InsertKeeps ==
  ASSUME TypeOK, ResumableHasSession, NEW r \in Runs, NEW k \in Keys, NEW parent,
         NEW attempt, NEW resume, NEW delayed,
         Insert(r, k, parent, attempt, resume, delayed), NEW q \in Runs
  PROVE  Kept(q) /\ KeptResumable(q)
<1>1. CASE q = r
  <2>1. /\ run[q].status = "absent"
        /\ run'[q].status = "queued"
        /\ run'[q].failure = "none"
    BY <1>1 DEF Insert, TypeOK, NoRunRow
  <2> QED BY <2>1 DEF Kept, KeptResumable
<1>2. CASE q # r
  <2>1. run'[q] = run[q]
    BY <1>2 DEF Insert, TypeOK
  <2> QED BY <2>1 DEF Kept, KeptResumable, SameRequestRow, ResumableHasSession
<1> QED BY <1>1, <1>2

LEMMA LeaseKeeps ==
  ASSUME TypeOK, ResumableHasSession, NEW r \in Runs, Lease(r), NEW q \in Runs
  PROVE  Kept(q) /\ KeptResumable(q)
<1>1. CASE q = r
  <2>1. run[q].status \in Open /\ run'[q] = [run[q] EXCEPT !.status = "dispatching"]
    BY <1>1 DEF Lease, Claimable, TypeOK
  <2>2. /\ SameRequestRow(q)
        /\ run'[q].status = "dispatching"
        /\ run'[q].failure = run[q].failure
        /\ run'[q].session = run[q].session
    BY <2>1 DEF SameRequestRow, TypeOK, RunRow
  <2> QED BY <2>1, <2>2 DEF Kept, KeptResumable, ResumableHasSession, Open, Terminal
<1>2. CASE q # r
  <2>1. run'[q] = run[q]
    BY <1>2 DEF Lease, TypeOK
  <2> QED BY <2>1 DEF Kept, KeptResumable, SameRequestRow, ResumableHasSession
<1> QED BY <1>1, <1>2

LEMMA AcknowledgeKeeps ==
  ASSUME TypeOK, ResumableHasSession, NEW r \in Runs, NEW token, NEW s \in Sessions,
         AcknowledgeDispatchStarted(r, token, s), NEW q \in Runs
  PROVE  Kept(q) /\ KeptResumable(q)
<1>1. CASE q = r
  <2>1. run[q].session \in {NoSession, s} /\ s # NoSession
    BY <1>1, IdAssumption DEF AcknowledgeDispatchStarted, MayAcknowledge
  <2> DEFINE status == IF run[q].status = "dispatching" THEN "running" ELSE run[q].status
             failure == IF run[q].status = "dispatching" THEN "none" ELSE run[q].failure
  <2>2. run' = [run EXCEPT ![q].status = status, ![q].failure = failure, ![q].session = s]
    BY <1>1 DEF AcknowledgeDispatchStarted
  <2>3. /\ run[q].status = "dispatching" => status = "running"
        /\ run[q].status # "dispatching" => status = run[q].status /\ failure = run[q].failure
    OBVIOUS
  <2> HIDE DEF status, failure
  <2>4. /\ SameRequestRow(q)
        /\ run'[q].status = status
        /\ run'[q].failure = failure
        /\ run'[q].session = s
    BY <2>2 DEF SameRequestRow, TypeOK, RunRow
  <2>5. run[q].status # "absent" /\ status # "absent"
    BY <1>1, <2>3 DEF AcknowledgeDispatchStarted, MayAcknowledge, Terminal
  <2> QED BY <2>1, <2>3, <2>4, <2>5 DEF Kept, KeptResumable, Terminal, ResumableHasSession
<1>2. CASE q # r
  <2>1. run'[q] = run[q]
    BY <1>2 DEF AcknowledgeDispatchStarted, TypeOK
  <2> QED BY <2>1 DEF Kept, KeptResumable, SameRequestRow, ResumableHasSession
<1> QED BY <1>1, <1>2

\* The first attempt to deliver leaves no request to resume: a nack never
\* writes one.
LEMMA NackKeeps ==
  ASSUME TypeOK, ResumableHasSession, NEW r \in Runs, NEW token, NEW f \in DispatchFailures,
         RecordDispatchFailure(r, token, f), NEW q \in Runs
  PROVE  Kept(q) /\ KeptResumable(q)
<1>1. CASE q = r /\ run[q].status = "dispatching"
  <2>1. PICK status \in {"deferred", "failed"} :
          run' = [run EXCEPT ![q].status = status, ![q].failure = f]
    BY <1>1 DEF RecordDispatchFailure, Nack
  <2>2. /\ SameRequestRow(q)
        /\ run'[q].status = status
        /\ run'[q].failure = f
        /\ run'[q].session = run[q].session
    BY <2>1 DEF SameRequestRow, TypeOK, RunRow
  <2> QED BY <1>1, <2>2 DEF Kept, KeptResumable, Terminal, DispatchFailures
<1>2. CASE ~(q = r /\ run[q].status = "dispatching")
  <2>1. run'[q] = run[q]
    BY <1>2 DEF RecordDispatchFailure, Nack, TypeOK
  <2> QED BY <2>1 DEF Kept, KeptResumable, SameRequestRow, ResumableHasSession
<1> QED BY <1>1, <1>2

LEMMA TerminalKeeps ==
  ASSUME TypeOK, ResumableHasSession, NEW r \in Runs, NEW s \in Sessions, NEW v \in Verdicts,
         RecordRunTerminal(r, s, v), NEW q \in Runs
  PROVE  Kept(q) /\ KeptResumable(q)
<1>1. CASE q = r /\ run[q].status \in Active
  <2>1. /\ run' = [run EXCEPT ![q].status = v[1], ![q].failure = v[2], ![q].session = s]
        /\ run[q].session \in {NoSession, s}
    BY <1>1 DEF RecordRunTerminal
  <2>2. /\ SameRequestRow(q)
        /\ run'[q].status = v[1]
        /\ run'[q].session = s
    BY <2>1 DEF SameRequestRow, TypeOK, RunRow
  <2>3. v[1] \in Terminal /\ s # NoSession
    BY IdAssumption DEF Verdicts, Terminal
  <2> QED BY <1>1, <2>1, <2>2, <2>3 DEF Kept, KeptResumable, Active, Terminal
<1>2. CASE ~(q = r /\ run[q].status \in Active)
  <2>1. run'[q] = run[q]
    BY <1>2 DEF RecordRunTerminal, TypeOK
  <2> QED BY <2>1 DEF Kept, KeptResumable, SameRequestRow, ResumableHasSession
<1> QED BY <1>1, <1>2

LEMMA RestKeeps ==
  ASSUME TypeOK, ResumableHasSession,
         \/ Passing
         \/ \E r \in Runs : MarkWaiting(r) \/ CancelAssigneeEscalations(r)
         \/ \E S \in SUBSET Runs : CancelRoutineRun(S)
         \/ UNCHANGED vars,
         NEW q \in Runs
  PROVE  Kept(q) /\ KeptResumable(q)
<1>1. CASE run'[q] = run[q]
  BY <1>1 DEF Kept, KeptResumable, SameRequestRow, ResumableHasSession
<1>2. CASE run'[q] # run[q]
  <2>1. \/ run[q].status = "running" /\ run'[q] = [run[q] EXCEPT !.status = "waiting"]
        \/ /\ run[q].status \in Open \cup Active
           /\ run'[q] = [run[q] EXCEPT !.status = "cancelled"]
    BY <1>2 DEF Passing, DeadlinePasses, ExtendWakeWindow, PathLockLapses, MarkWaiting,
                Matching, CancelAssigneeEscalations, CancelRoutineRun, Open, vars, TypeOK
  <2>2. /\ SameRequestRow(q)
        /\ run[q].status \in Open \cup Active
        /\ run'[q].status \in {"waiting", "cancelled"}
        /\ run'[q].failure = run[q].failure
        /\ run'[q].session = run[q].session
    BY <2>1 DEF SameRequestRow, TypeOK, RunRow, Active
  <2> QED BY <2>2 DEF Kept, KeptResumable, Open, Active, Terminal, ResumableHasSession
<1> QED BY <1>1, <1>2

\* Every step keeps what every Run remembers.
LEMMA StepKeeps ==
  ASSUME TypeOK, ResumableHasSession, [Next]_vars, NEW q \in Runs
  PROVE  Kept(q) /\ KeptResumable(q)
<1>1. CASE Submission
  BY <1>1, InsertKeeps DEF Submission, Enqueue, Retry
<1>2. CASE Delivery
  BY <1>2, LeaseKeeps, AcknowledgeKeeps, NackKeeps
     DEF Delivery, ClaimNextDispatch, ClaimDispatchForRun
<1>3. CASE Ending
  BY <1>3, TerminalKeeps, RestKeeps DEF Ending
<1>4. CASE Passing \/ UNCHANGED vars
  BY <1>4, RestKeeps
<1> QED BY <1>1, <1>2, <1>3, <1>4 DEF Next

\* A Run that failed resumably has a Session to resume.
THEOREM ResumableRunsHaveSessions == Spec => []ResumableHasSession
<1>1. Init => ResumableHasSession
  BY DEF Init, ResumableHasSession, NoRunRow
<1>2. TypeOK /\ ResumableHasSession /\ [Next]_vars => ResumableHasSession'
  BY StepKeeps DEF KeptResumable, ResumableHasSession
<1> QED BY <1>1, <1>2, TypeCorrect, PTL DEF Spec

-----------------------------------------------------------------------------
\* A Run that is not there yet has a blank row.
BlankUntilSubmitted == \A r \in Runs : run[r].status = "absent" => run[r] = NoRunRow

\* What the history of a Run rests on.
HistoryInv == TypeOK /\ ResumableHasSession /\ BlankUntilSubmitted

LEMMA HistoryKept == Spec => []HistoryInv
<1>1. Init => BlankUntilSubmitted
  BY DEF Init, BlankUntilSubmitted
<1>2. HistoryInv /\ [Next]_vars => BlankUntilSubmitted'
  <2> SUFFICES ASSUME HistoryInv, [Next]_vars, NEW r \in Runs, run'[r].status = "absent"
               PROVE  run'[r] = NoRunRow
    BY DEF BlankUntilSubmitted
  <2>1. Kept(r)
    BY StepKeeps DEF HistoryInv
  <2> QED BY <2>1 DEF Kept, HistoryInv, BlankUntilSubmitted
<1>3. TypeOK /\ ResumableHasSession /\ BlankUntilSubmitted <=> HistoryInv
  BY DEF HistoryInv
<1> QED BY <1>1, <1>2, <1>3, TypeCorrect, ResumableRunsHaveSessions, PTL DEF Spec

\* An ended Run keeps its outcome, and no Run changes its Session, whatever the
\* callers do.
THEOREM RunsAreFinal == Spec => Finality
<1>1. HistoryInv /\ [Next]_vars => [FinalityStep]_vars
  <2> SUFFICES ASSUME HistoryInv, [Next]_vars, NEW r \in Runs
               PROVE  /\ run[r].status \in Terminal =>
                           run'[r].status = run[r].status /\ run'[r].failure = run[r].failure
                      /\ run[r].session # NoSession => run'[r].session = run[r].session
    BY DEF FinalityStep
  <2>1. Kept(r)
    BY StepKeeps DEF HistoryInv
  <2>2. run[r].status = "absent" => run[r].session = NoSession
    BY DEF HistoryInv, BlankUntilSubmitted, NoRunRow
  <2> QED BY <2>1, <2>2 DEF Kept, Terminal
<1> QED BY <1>1, HistoryKept, PTL DEF Spec, Finality

-----------------------------------------------------------------------------
(* Retry episodes. *)

\* Only a submission changes the row of a Run that is not there yet.
LEMMA SomethingSubmitted ==
  ASSUME TypeOK, [Next]_vars, NEW q \in Runs, run[q].status = "absent", run'[q] # run[q]
  PROVE  Submission
<1>1. \A r \in Runs : ~Lease(r)
  BY DEF Lease, Claimable, TypeOK, Open
<1>2. \A r \in Runs, token \in 1..MaxDeliveries, s \in Sessions :
        ~AcknowledgeDispatchStarted(r, token, s)
  BY DEF AcknowledgeDispatchStarted, MayAcknowledge, TypeOK, Terminal
<1>3. \A r \in Runs, token \in 1..MaxDeliveries, f \in DispatchFailures :
        ~RecordDispatchFailure(r, token, f)
  BY DEF RecordDispatchFailure, Nack, TypeOK
<1>4. \A r \in Runs, s \in Sessions, v \in Verdicts : ~RecordRunTerminal(r, s, v)
  BY DEF RecordRunTerminal, TypeOK, Active
<1>5. \A r \in Runs : ~MarkWaiting(r) /\ ~CancelAssigneeEscalations(r)
  BY DEF MarkWaiting, CancelAssigneeEscalations, Matching, TypeOK
<1>6. \A S \in SUBSET Runs : ~CancelRoutineRun(S)
  BY DEF CancelRoutineRun, Open, Active
<1> QED BY <1>1, <1>2, <1>3, <1>4, <1>5, <1>6
        DEF Next, Delivery, Ending, Passing, ClaimNextDispatch, ClaimDispatchForRun,
            DeadlinePasses, ExtendWakeWindow, PathLockLapses, vars

\* A failed parent and a Run that exists stay what they were to each other.
LEMMA OldLineage ==
  ASSUME HistoryInv, RetryLineage, [Next]_vars, NEW r \in Runs, SameRequestRow(r)
  PROVE  Lineage(r)'
<1> DEFINE p == run[r].parent
<1> SUFFICES ASSUME p # NoRun PROVE Lineage(r)'
  BY DEF Lineage, SameRequestRow
<1>1. p \in Runs
  BY DEF HistoryInv, TypeOK, RunRow
<1>2. Lineage(r)
  BY DEF RetryLineage
<1>3. run[p].status = "failed"
  BY <1>2 DEF Lineage
<1>4. /\ run'[p].status = "failed"
      /\ run'[p].failure = run[p].failure
      /\ run'[p].attempt = run[p].attempt
      /\ run[p].session # NoSession => run'[p].session = run[p].session
  BY <1>1, <1>3, StepKeeps DEF HistoryInv, Kept, SameRequestRow, Terminal
<1>5. run[p].failure = "resume" => run[p].session # NoSession
  BY <1>1 DEF HistoryInv, ResumableHasSession
<1>6. run'[r].parent = p
  BY DEF SameRequestRow
<1> HIDE DEF p
<1> QED BY <1>2, <1>4, <1>5, <1>6 DEF Lineage, SameRequestRow, SameRequest, p

\* A retry is inserted behind a parent that allows it.
LEMMA NewLineage ==
  ASSUME HistoryInv, NEW r \in Runs, NEW k \in Keys, NEW p \in Runs, Retry(r, k, p)
  PROVE  Lineage(r)'
<1>1. /\ run'[r].parent = p
      /\ run'[r].attempt = run[p].attempt + 1
      /\ run'[r].resume = RetryTarget(p)
  BY DEF Retry, Insert, HistoryInv, TypeOK, NoRunRow
<1>2. run[p].status = "failed" /\ run[p].failure \in Retryable
  BY DEF Retry, MayRetry
<1>3. r # p /\ run'[p] = run[p]
  BY <1>2 DEF Retry, Insert, HistoryInv, TypeOK
<1>4. run[p].attempt + 1 <= MaxAttempts /\ SameRequest(r, p)
  BY DEF Retry, Insert
<1> QED BY <1>1, <1>2, <1>3, <1>4 DEF Lineage, RetryTarget, SameRequest

\* Retry episodes form chains of failed Runs of one request within its budget.
THEOREM RetriesFormChains == Spec => []RetryLineage
<1>1. Init => RetryLineage
  BY DEF Init, RetryLineage, Lineage, NoRunRow
<1>2. HistoryInv /\ RetryLineage /\ [Next]_vars => RetryLineage'
  <2> SUFFICES ASSUME HistoryInv, RetryLineage, [Next]_vars, NEW r \in Runs
               PROVE  Lineage(r)'
    BY DEF RetryLineage
  <2>1. Kept(r)
    BY StepKeeps DEF HistoryInv
  <2>2. CASE run[r].status # "absent" \/ run'[r] = run[r]
    BY <2>1, <2>2, OldLineage DEF Kept, SameRequestRow
  <2>3. CASE run[r].status = "absent" /\ run'[r] # run[r]
    <3>1. Submission
      BY <2>3, SomethingSubmitted DEF HistoryInv
    <3>2. PICK q \in Runs, k \in Keys :
            \/ \E s \in Sessions \cup {NoSession}, delayed \in BOOLEAN :
                 Enqueue(q, k, s, delayed)
            \/ \E p \in Runs : Retry(q, k, p)
      BY <3>1 DEF Submission
    <3>3. q = r
      BY <2>3, <3>2 DEF Enqueue, Retry, Insert, HistoryInv, TypeOK
    <3>4. CASE \E p \in Runs : Retry(q, k, p)
      BY <3>3, <3>4, NewLineage
    <3>5. CASE \E s \in Sessions \cup {NoSession}, delayed \in BOOLEAN :
                 Enqueue(q, k, s, delayed)
      <4>1. run'[r].parent = NoRun
        BY <3>3, <3>5 DEF Enqueue, Insert, HistoryInv, TypeOK, NoRunRow
      <4> QED BY <4>1 DEF Lineage
    <3> QED BY <3>2, <3>4, <3>5
  <2> QED BY <2>2, <2>3
<1> QED BY <1>1, <1>2, HistoryKept, PTL DEF Spec
=============================================================================
