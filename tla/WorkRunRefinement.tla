-------------------------- MODULE WorkRunRefinement --------------------------
(***************************************************************************)
(* Proof that the store implements the exclusive queue of                  *)
(* ExclusiveDispatch, and that IndInv is an invariant.                     *)
(***************************************************************************)
EXTENDS WorkRunLockProofs

\* IndInv, which TLC checks, is the conjunction of what is proved.
THEOREM InductiveInvariantHolds == Spec => []IndInv
<1>1. TypeOK /\ NoRunStranded /\ LockInv /\ RetryLineage /\ ResumableHasSession => IndInv
  BY DEF IndInv, LockInv
<1> QED BY <1>1, TypeCorrect, NothingStranded, LocksConsistent, RetriesFormChains,
           ResumableRunsHaveSessions, PTL

\* A Run that is not there yet has had no holder.
Unclaimed == \A r \in Runs : run[r].status = "absent" => outbox[r].tries = 0

\* What the refinement needs to know of a state.
Safe == TypeOK /\ NoRunStranded /\ LockInv /\ Unclaimed

-----------------------------------------------------------------------------
(* The mapping, one status and one step at a time. *)

Stage(status) ==
  CASE status = "absent" -> "absent"
    [] status \in {"queued", "deferred"} -> "waiting"
    [] status = "dispatching" -> "held"
    [] status \in {"running", "waiting"} -> "accepted"
    [] OTHER -> "ended"

Holds == [r \in Runs |-> outbox[r].tries]

LEMMA StageOfStatus ==
  ASSUME NEW r \in Runs
  PROVE  StageOf[r] = Stage(run[r].status)
BY DEF StageOf, Stage

LEMMA StageOfNextStatus ==
  ASSUME NEW r \in Runs
  PROVE  StageOf'[r] = Stage(run'[r].status)
BY DEF StageOf, Stage

LEMMA StageValues ==
  /\ Stage("absent") = "absent"
  /\ Stage("queued") = "waiting"
  /\ Stage("deferred") = "waiting"
  /\ Stage("dispatching") = "held"
  /\ Stage("running") = "accepted"
  /\ Stage("waiting") = "accepted"
  /\ \A t \in Terminal : Stage(t) = "ended"
BY DEF Stage, Terminal

\* A Run is held or accepted exactly while it is active.
LEMMA ActiveStages ==
  ASSUME NEW status \in RunStatus
  PROVE  Stage(status) \in {"held", "accepted"} <=> status \in Active
BY StageValues DEF RunStatus, Open, Active, Terminal

\* A step that moves one Run moves one stage.
LEMMA OneStageMoves ==
  ASSUME NEW r \in Runs, \A q \in Runs \ {r} : run'[q].status = run[q].status
  PROVE  StageOf' = [StageOf EXCEPT ![r] = Stage(run'[r].status)]
<1>1. \A q \in Runs \ {r} : StageOf'[q] = StageOf[q]
  BY StageOfStatus, StageOfNextStatus
<1>2. StageOf'[r] = Stage(run'[r].status)
  BY StageOfNextStatus
<1>3. /\ StageOf = [q \in Runs |-> StageOf[q]]
      /\ StageOf' = [q \in Runs |-> StageOf'[q]]
  BY DEF StageOf
<1> HIDE DEF Stage
<1> QED BY <1>1, <1>2, <1>3

\* A step that ends several Runs ends several stages.
LEMMA StagesEnd ==
  ASSUME NEW S \in SUBSET Runs, \A q \in S : run'[q].status \in Terminal,
         \A q \in Runs \ S : run'[q].status = run[q].status
  PROVE  StageOf' = [q \in Runs |-> IF q \in S THEN "ended" ELSE StageOf[q]]
<1>1. \A q \in Runs : StageOf'[q] = IF q \in S THEN "ended" ELSE StageOf[q]
  BY StageOfStatus, StageOfNextStatus, StageValues
<1>2. StageOf' = [q \in Runs |-> StageOf'[q]]
  BY DEF StageOf
<1> QED BY <1>1, <1>2

\* A step that changes no status changes no stage.
LEMMA NoStageMoves ==
  ASSUME \A q \in Runs : run'[q].status = run[q].status
  PROVE  StageOf' = StageOf
BY DEF StageOf

\* A step that changes no count of deliveries is no new hold.
LEMMA SameHolds ==
  ASSUME \A q \in Runs : outbox'[q].tries = outbox[q].tries
  PROVE  Holds' = Holds
BY DEF Holds

-----------------------------------------------------------------------------
(* The steps. *)

LEMMA InsertIsSubmit ==
  ASSUME Safe, NEW r \in Runs, NEW k \in Keys, NEW parent, NEW attempt, NEW resume,
         NEW delayed, Insert(r, k, parent, attempt, resume, delayed)
  PROVE  Dispatch!Submit(r) /\ Unclaimed'
<1>1. /\ run[r].status = "absent"
      /\ run'[r].status = "queued"
      /\ \A q \in Runs \ {r} : run'[q].status = run[q].status
  BY DEF Insert, Safe, TypeOK, NoRunRow
<1>2. \A q \in Runs : outbox'[q].tries = outbox[q].tries
  <2>1. outbox[r].tries = 0 /\ outbox'[r].tries = 0
    BY <1>1 DEF Insert, Safe, Unclaimed, TypeOK, NoOutboxRow
  <2>2. \A q \in Runs \ {r} : outbox'[q] = outbox[q]
    BY DEF Insert, Safe, TypeOK
  <2> QED BY <2>1, <2>2
<1>3. Dispatch!Submit(r)
  BY <1>1, <1>2, OneStageMoves, StageOfStatus, StageValues, SameHolds
     DEF Dispatch!Submit, Holds, Insert
<1>4. Unclaimed'
  BY <1>1, <1>2 DEF Safe, Unclaimed
<1> QED BY <1>3, <1>4

\* The Runs that are held or accepted in the directory of a Run that is claimed
\* have overstayed: otherwise one of them would own the lock.
LEMMA LeaseIsHold ==
  ASSUME Safe, NEW r \in Runs, Lease(r)
  PROVE  Dispatch!Hold(r) /\ Unclaimed'
<1>1. /\ run[r].status \in Open
      /\ run'[r].status = "dispatching"
      /\ \A q \in Runs \ {r} : run'[q].status = run[q].status
  BY DEF Lease, Claimable, Safe, TypeOK, RunRow
<1>2. Holds' = [Holds EXCEPT ![r] = @ + 1]
  <2>1. outbox'[r].tries = outbox[r].tries + 1
    BY DEF Lease, Safe, TypeOK, OutboxRow
  <2>2. \A q \in Runs \ {r} : outbox'[q] = outbox[q]
    BY DEF Lease, Safe, TypeOK
  <2> QED BY <2>1, <2>2 DEF Holds
<1>3. StageOf[r] \in {"waiting", "held"}
  BY <1>1, StageOfStatus, StageValues DEF Open
<1>4. Dispatch!Rivals(r) \subseteq overdue
  <2> SUFFICES ASSUME NEW q \in Runs \ {r}, Workspace[r] # NoPath,
                      Workspace[q] = Workspace[r], StageOf[q] \in {"held", "accepted"}
               PROVE  q \in overdue
    BY DEF Dispatch!Rivals
  <2>1. run[q].status \in Active
    BY StageOfStatus, ActiveStages DEF Safe, TypeOK, RunRow
  <2>2. owner[Workspace[r]] = q \/ q \in overdue
    BY <2>1 DEF Safe, LockInv, ActiveRunHoldsItsPath
  <2>3. Workspace[r] \in lapsed \/ owner[Workspace[r]] \in {NoRun, r}
    BY DEF Lease, PathFree
  <2> QED BY <2>2, <2>3, IdAssumption DEF Safe, LockInv, LapsedLockOverdue
<1>5. StageOf' = [StageOf EXCEPT ![r] = "held"]
  BY <1>1, OneStageMoves, StageValues
<1>6. overdue' = overdue \ {r}
  BY DEF Lease
<1>7. Unclaimed'
  BY <1>1 DEF Safe, Unclaimed, Lease, TypeOK
<1> QED BY <1>2, <1>3, <1>4, <1>5, <1>6, <1>7 DEF Dispatch!Hold, Holds

LEMMA AcknowledgeIsAccept ==
  ASSUME Safe, NEW r \in Runs, NEW token, NEW s \in Sessions,
         AcknowledgeDispatchStarted(r, token, s)
  PROVE  (Dispatch!Accept(r) \/ UNCHANGED Dispatch!vars) /\ Unclaimed'
<1>1. /\ run'[r].status = IF run[r].status = "dispatching" THEN "running" ELSE run[r].status
      /\ \A q \in Runs \ {r} : run'[q].status = run[q].status
  BY DEF AcknowledgeDispatchStarted, Safe, TypeOK, RunRow
<1>2. \A q \in Runs : outbox'[q].tries = outbox[q].tries
  BY DEF AcknowledgeDispatchStarted, Safe, TypeOK, OutboxRow
<1>3. overdue' = overdue
  BY DEF AcknowledgeDispatchStarted
<1>4. Unclaimed'
  BY <1>1, <1>2 DEF Safe, Unclaimed
<1>5. CASE run[r].status = "dispatching"
  <2>1. StageOf[r] = "held" /\ StageOf' = [StageOf EXCEPT ![r] = "accepted"]
    BY <1>1, <1>5, OneStageMoves, StageOfStatus, StageValues
  <2>2. Dispatch!Accept(r)
    BY <1>2, <1>3, <2>1, SameHolds DEF Dispatch!Accept, Holds
  <2> QED BY <1>4, <2>2
<1>6. CASE run[r].status # "dispatching"
  <2>1. StageOf' = StageOf
    BY <1>1, <1>6, NoStageMoves
  <2>2. UNCHANGED Dispatch!vars
    BY <1>2, <1>3, <2>1, SameHolds DEF Dispatch!vars, Holds
  <2> QED BY <1>4, <2>2
<1> QED BY <1>5, <1>6

\* A nack gives a Run back or ends it.  The nack of a launch whose Run has ended
\* meanwhile changes nothing that shows.
LEMMA NackIsReturn ==
  ASSUME Safe, NEW r \in Runs, NEW token, NEW f \in DispatchFailures,
         RecordDispatchFailure(r, token, f)
  PROVE  (Dispatch!Return(r) \/ Dispatch!End({r}) \/ UNCHANGED Dispatch!vars) /\ Unclaimed'
<1> PICK row \in {"retry_wait", "dead_letter"}, status \in {"deferred", "failed"} :
       Nack(r, token, f, row, status)
  BY DEF RecordDispatchFailure
<1>1. outbox[r].status = "leased" /\ overdue' = overdue \ {r}
  BY DEF Nack, Leased, ReleasePathLock
<1>2. \A q \in Runs : outbox'[q].tries = outbox[q].tries
  BY DEF Nack, Safe, TypeOK, OutboxRow
<1>3. \A q \in Runs \ {r} : run'[q].status = run[q].status
  BY DEF Nack, Safe, TypeOK
<1>4. CASE run[r].status = "dispatching"
  <2>1. run'[r].status \in {"deferred", "failed"}
    BY <1>4 DEF Nack, Safe, TypeOK, RunRow
  <2>2. StageOf[r] = "held" /\ Stage(run'[r].status) \in {"waiting", "ended"}
    BY <1>4, <2>1, StageOfStatus, StageValues DEF Terminal
  <2>3. StageOf' = [StageOf EXCEPT ![r] = Stage(run'[r].status)]
    BY <1>3, OneStageMoves
  <2>4. Dispatch!Return(r) \/ Dispatch!End({r})
    <3>1. CASE run'[r].status = "deferred"
      <4>1. Stage(run'[r].status) = "waiting"
        BY <3>1, StageValues
      <4> QED BY <1>1, <1>2, <2>2, <2>3, <4>1, SameHolds DEF Dispatch!Return, Holds
    <3>2. CASE run'[r].status = "failed"
      <4>1. StageOf' = [q \in Runs |-> IF q \in {r} THEN "ended" ELSE StageOf[q]]
        BY <1>3, <3>2, StagesEnd DEF Terminal
      <4> QED BY <1>1, <1>2, <2>2, <4>1, SameHolds DEF Dispatch!End, Holds
    <3> QED BY <2>1, <3>1, <3>2
  <2>5. Unclaimed'
    BY <1>2, <1>3, <2>1 DEF Safe, Unclaimed
  <2> QED BY <2>4, <2>5
<1>5. CASE run[r].status # "dispatching"
  <2>1. run'[r].status = run[r].status
    BY <1>5 DEF Nack
  <2>2. run[r].status \notin Active
    BY <1>1, <1>5 DEF Safe, NoRunStranded, RowsAgree, Active
  <2>3. overdue' = overdue
    BY <1>1, <2>2 DEF Safe, LockInv, OverdueIsActive
  <2>4. UNCHANGED Dispatch!vars
    BY <1>2, <1>3, <2>1, <2>3, NoStageMoves, SameHolds DEF Dispatch!vars, Holds
  <2>5. Unclaimed'
    BY <1>2, <1>3, <2>1 DEF Safe, Unclaimed
  <2> QED BY <2>4, <2>5
<1> QED BY <1>4, <1>5

LEMMA TerminalIsEnd ==
  ASSUME Safe, NEW r \in Runs, NEW s \in Sessions, NEW v \in Verdicts,
         RecordRunTerminal(r, s, v)
  PROVE  (Dispatch!End({r}) \/ UNCHANGED Dispatch!vars) /\ Unclaimed'
<1>1. outbox' = outbox /\ overdue' = overdue \ {r}
  BY DEF RecordRunTerminal, ReleasePathLock
<1>2. \A q \in Runs \ {r} : run'[q].status = run[q].status
  BY DEF RecordRunTerminal, Safe, TypeOK
<1>3. Holds' = Holds
  BY <1>1 DEF Holds
<1>4. CASE run[r].status \in Active
  <2>1. run'[r].status \in Terminal
    BY <1>4 DEF RecordRunTerminal, Safe, TypeOK, RunRow, Verdicts, Terminal
  <2>2. StageOf[r] \in {"held", "accepted"}
    BY <1>4, StageOfStatus, StageValues DEF Active
  <2>3. StageOf' = [q \in Runs |-> IF q \in {r} THEN "ended" ELSE StageOf[q]]
    BY <1>2, <2>1, StagesEnd
  <2>4. Dispatch!End({r})
    BY <1>1, <1>3, <2>2, <2>3 DEF Dispatch!End, Holds
  <2>5. Unclaimed'
    BY <1>1, <1>2, <2>1 DEF Safe, Unclaimed, Terminal
  <2> QED BY <2>4, <2>5
<1>5. CASE run[r].status \notin Active
  <2>1. run' = run
    BY <1>5 DEF RecordRunTerminal
  <2>2. overdue' = overdue
    BY <1>1, <1>5 DEF Safe, LockInv, OverdueIsActive
  <2>3. StageOf' = StageOf
    BY <2>1, NoStageMoves
  <2>4. UNCHANGED Dispatch!vars
    BY <1>3, <2>2, <2>3 DEF Dispatch!vars, Holds
  <2>5. Unclaimed'
    BY <1>1, <2>1 DEF Safe, Unclaimed
  <2> QED BY <2>4, <2>5
<1> QED BY <1>4, <1>5

\* A Run that waits for an answer is still accepted.
LEMMA WaitingIsNothing ==
  ASSUME Safe, NEW r \in Runs, MarkWaiting(r)
  PROVE  UNCHANGED Dispatch!vars /\ Unclaimed'
<1>1. /\ run[r].status = "running" /\ run'[r].status = "waiting"
      /\ \A q \in Runs \ {r} : run'[q].status = run[q].status
      /\ UNCHANGED <<outbox, overdue>>
  BY DEF MarkWaiting, Safe, TypeOK, RunRow
<1>2. StageOf' = [StageOf EXCEPT ![r] = "accepted"] /\ StageOf[r] = "accepted"
  BY <1>1, OneStageMoves, StageOfStatus, StageValues
<1>3. StageOf' = StageOf
  BY <1>2 DEF StageOf
<1>4. UNCHANGED Dispatch!vars
  BY <1>1, <1>3 DEF Dispatch!vars, Holds
<1>5. Unclaimed'
  BY <1>1 DEF Safe, Unclaimed
<1> QED BY <1>4, <1>5

LEMMA CancelIsEnd ==
  ASSUME Safe, NEW e \in Runs, CancelAssigneeEscalations(e)
  PROVE  Dispatch!End(Matching(e)) /\ Unclaimed'
<1>1. /\ Matching(e) \subseteq Runs
      /\ \A q \in Matching(e) : run[q].status = "queued" /\ run'[q].status = "cancelled"
      /\ \A q \in Runs \ Matching(e) : run'[q] = run[q]
  BY RequestAssumption DEF CancelAssigneeEscalations, Matching, Safe, TypeOK, RunRow
<1>2. \A q \in Runs : outbox'[q].tries = outbox[q].tries
  BY DEF CancelAssigneeEscalations, Safe, TypeOK, OutboxRow
<1>3. overdue' = overdue \ Matching(e)
  BY <1>1 DEF CancelAssigneeEscalations, Safe, LockInv, OverdueIsActive, Active
<1>4. StageOf' = [q \in Runs |-> IF q \in Matching(e) THEN "ended" ELSE StageOf[q]]
  BY <1>1, StagesEnd DEF Terminal
<1>5. \A q \in Matching(e) : StageOf[q] = "waiting"
  BY <1>1, StageOfStatus, StageValues
<1>6. Dispatch!End(Matching(e))
  BY <1>2, <1>3, <1>4, <1>5, SameHolds DEF Dispatch!End, Holds
<1>7. Unclaimed'
  BY <1>1, <1>2 DEF Safe, Unclaimed
<1> QED BY <1>6, <1>7

LEMMA RoutineIsEnd ==
  ASSUME Safe, NEW S \in SUBSET Runs, CancelRoutineRun(S)
  PROVE  Dispatch!End(S) /\ Unclaimed'
<1>1. /\ \A q \in S : run[q].status \in Open \cup Active /\ run'[q].status = "cancelled"
      /\ \A q \in Runs \ S : run'[q] = run[q]
      /\ overdue' = overdue \ S
  BY DEF CancelRoutineRun, Safe, TypeOK, RunRow
<1>2. \A q \in Runs : outbox'[q].tries = outbox[q].tries
  BY DEF CancelRoutineRun, Safe, TypeOK, OutboxRow
<1>3. StageOf' = [q \in Runs |-> IF q \in S THEN "ended" ELSE StageOf[q]]
  BY <1>1, StagesEnd DEF Terminal
<1>4. \A q \in S : StageOf[q] \in {"waiting", "held", "accepted"}
  BY <1>1, StageOfStatus, StageValues DEF Open, Active
<1>5. Dispatch!End(S)
  BY <1>1, <1>2, <1>3, <1>4, SameHolds DEF Dispatch!End, Holds
<1>6. Unclaimed'
  BY <1>1, <1>2 DEF Safe, Unclaimed
<1> QED BY <1>5, <1>6

LEMMA DeadlineIsNothing ==
  ASSUME Safe, NEW r \in Runs, DeadlinePasses(r) \/ ExtendWakeWindow(r)
  PROVE  UNCHANGED Dispatch!vars /\ Unclaimed'
<1>1. UNCHANGED <<run, overdue>>
  BY DEF DeadlinePasses, ExtendWakeWindow
<1>2. \A q \in Runs : outbox'[q].tries = outbox[q].tries
  BY DEF DeadlinePasses, ExtendWakeWindow, Safe, TypeOK, OutboxRow
<1>3. StageOf' = StageOf
  BY <1>1, NoStageMoves
<1>4. Holds' = Holds
  BY <1>2, SameHolds
<1>5. UNCHANGED Dispatch!vars
  BY <1>1, <1>3, <1>4 DEF Dispatch!vars, Holds
<1>6. Unclaimed'
  BY <1>1, <1>2 DEF Safe, Unclaimed
<1> QED BY <1>5, <1>6

LEMMA LapseIsOverstay ==
  ASSUME Safe, NEW p \in Paths, PathLockLapses(p)
  PROVE  (\E r \in Runs : Dispatch!Overstay(r)) /\ Unclaimed'
<1>1. /\ owner[p] \in Runs
      /\ overdue' = overdue \cup {owner[p]}
      /\ UNCHANGED <<run, outbox>>
  BY DEF PathLockLapses, Safe, TypeOK
<1>2. run[owner[p]].status \in Active
  BY DEF PathLockLapses, Safe, LockInv, NoLeakedLock
<1>3. StageOf[owner[p]] \in {"held", "accepted"}
  BY <1>1, <1>2, StageOfStatus, StageValues DEF Active
<1>4. StageOf' = StageOf
  BY <1>1, NoStageMoves
<1>5. Dispatch!Overstay(owner[p])
  BY <1>1, <1>3, <1>4 DEF Dispatch!Overstay, Holds
<1>6. Unclaimed'
  BY <1>1 DEF Safe, Unclaimed
<1> QED BY <1>1, <1>5, <1>6

LEMMA StutterIsNothing ==
  ASSUME Safe, UNCHANGED vars
  PROVE  UNCHANGED Dispatch!vars /\ Unclaimed'
<1>1. UNCHANGED <<run, outbox, overdue>>
  BY DEF vars
<1>2. StageOf' = StageOf
  BY <1>1, NoStageMoves
<1> QED BY <1>1, <1>2 DEF Dispatch!vars, Safe, Unclaimed

\* Every step of the store is a step of the exclusive queue or leaves it alone.
LEMMA StepSimulates ==
  ASSUME Safe, [Next]_vars
  PROVE  [Dispatch!Next]_(Dispatch!vars) /\ Unclaimed'
<1>1. CASE Submission
  BY <1>1, InsertIsSubmit DEF Submission, Enqueue, Retry, Dispatch!Next
<1>2. CASE Delivery
  BY <1>2, LeaseIsHold, AcknowledgeIsAccept, NackIsReturn
     DEF Delivery, ClaimNextDispatch, ClaimDispatchForRun, Dispatch!Next
<1>3. CASE Ending
  <2>1. \A e \in Runs : Matching(e) \in SUBSET Runs
    BY RequestAssumption DEF Matching
  <2> QED
    BY <1>3, <2>1, TerminalIsEnd, WaitingIsNothing, CancelIsEnd, RoutineIsEnd
       DEF Ending, Dispatch!Next
<1>4. CASE Passing
  BY <1>4, DeadlineIsNothing, LapseIsOverstay DEF Passing, Dispatch!Next
<1>5. CASE UNCHANGED vars
  BY <1>5, StutterIsNothing
<1> QED BY <1>1, <1>2, <1>3, <1>4, <1>5 DEF Next

LEMMA AlwaysSafe == Spec => []Safe
<1>1. Init => Unclaimed
  BY DEF Init, Unclaimed, NoOutboxRow
<1>2. Safe /\ [Next]_vars => Unclaimed'
  BY StepSimulates
<1>3. TypeOK /\ NoRunStranded /\ LockInv /\ Unclaimed <=> Safe
  BY DEF Safe
<1> QED BY <1>1, <1>2, <1>3, TypeCorrect, NothingStranded, LocksConsistent, PTL DEF Spec

\* The store implements the exclusive queue.
THEOREM StoreImplementsQueue == Spec => ImplementsDispatch
<1>1. Init => Dispatch!Init
  <2> SUFFICES ASSUME Init PROVE Dispatch!Init
    OBVIOUS
  <2>1. \A r \in Runs : run[r].status = "absent" /\ outbox[r].tries = 0
    BY DEF Init, NoRunRow, NoOutboxRow
  <2>2. StageOf = [r \in Runs |-> "absent"]
    BY <2>1 DEF StageOf
  <2> QED BY <2>1, <2>2 DEF Init, Dispatch!Init
<1>2. Safe /\ [Next]_vars => [Dispatch!Next]_(Dispatch!vars)
  BY StepSimulates
<1> QED BY <1>1, <1>2, AlwaysSafe, PTL DEF Spec, ImplementsDispatch, Dispatch!Spec
=============================================================================
