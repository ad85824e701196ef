------------------------- MODULE MessageQueueProofs -------------------------
(***************************************************************************)
(* What MessageQueue promises for every number of messages, commands and   *)
(* faults: its types under every circumstance; and, unless a cancel is     *)
(* overtaken by what is dispatched after it, that a message is accepted    *)
(* once, that a row shown as failed was not sent (Inv), that a parked row  *)
(* does not follow naturally (ParkedInv), that what follows naturally      *)
(* finds the backend ready (ReadyInv), and that a Session is not left      *)
(* working for nobody (Attended).  Each of the last three excludes one     *)
(* more circumstance, which its theorem names.                             *)
(***************************************************************************)
EXTENDS MessageQueue, SequenceTheorems, TLAPS

(* What decides whether a message can be sent again. *)

\* A message was accepted as often as its send got that far, which is once.
SentByStep == \A m \in Messages : sent[m] = IF step[m] \in {"answered", "accepted"} THEN 1 ELSE 0

OneRow == \A i, j \in DOMAIN queue : queue[i] = queue[j] => i = j

\* A row waits, or the dispatcher is sending it.
RowsWait == \A m \in Messages : Queued(m) => step[m] = "waiting" \/ lock = m

\* While the backend is asked, nothing of the message was sent.
LockWaits == verdict # "none" => lock \in Messages /\ step[lock] = "waiting"

\* A failed row is parked, and nobody sends it.
FailedWait == \A m \in failed : m \in held /\ m \notin now /\ m # lock /\ step[m] = "waiting"

\* So is the row that a Send Now interrupts for, until the interrupt is settled.
CancelWaits ==
  LET asking == cancel["force-send"] IN
  asking.at \in {"asked", "refused"} =>
    /\ asking.message \in Messages
    /\ step[asking.message] = "waiting" /\ lock # asking.message
    /\ Queued(asking.message) => asking.message \in now

\* The dispatcher sends what was submitted.
LockStarted == lock # NoMessage => step[lock] # "new"

Inv ==
  SentByStep /\ OneRow /\ RowsWait /\ LockWaits /\ FailedWait /\ CancelWaits /\ LockStarted

-----------------------------------------------------------------------------
(* Rows. *)

RowTypes == queue \in Seq(Messages) /\ OneRow

\* What is left when one place of a sequence is removed.
LEMMA RemoveAtDef ==
  ASSUME NEW S, NEW q \in Seq(S), NEW i \in 1 .. Len(q)
  PROVE  /\ RemoveAt(q, i) \in Seq(S)
         /\ Len(RemoveAt(q, i)) = Len(q) - 1
         /\ \A j \in 1 .. Len(q) - 1 : RemoveAt(q, i)[j] = IF j < i THEN q[j] ELSE q[j + 1]
<1> DEFINE front == SubSeq(q, 1, i - 1)
           back == SubSeq(q, i + 1, Len(q))
<1>1. Len(q) \in Nat /\ i \in Nat /\ 1 <= i /\ i <= Len(q) /\ \A j \in 1 .. Len(q) : q[j] \in S
  OBVIOUS
<1>2. front \in Seq(S) /\ Len(front) = i - 1 /\ \A j \in 1 .. i - 1 : front[j] = q[j]
  OBVIOUS
<1>3. /\ back \in Seq(S) /\ Len(back) = Len(q) - i
      /\ \A j \in 1 .. Len(q) - i : back[j] = q[j + i]
  <2>1. /\ i + 1 \in Int /\ Len(q) \in Int /\ Len(q) - (i + 1) + 1 = Len(q) - i
        /\ \A j \in (i + 1) .. Len(q) : q[j] \in S
    BY <1>1
  <2>2. /\ back \in Seq(S)
        /\ Len(back) = IF i + 1 <= Len(q) THEN Len(q) - (i + 1) + 1 ELSE 0
        /\ \A j \in 1 .. Len(q) - (i + 1) + 1 : back[j] = q[(i + 1) + j - 1]
    BY <2>1, SubSeqProperties
  <2> HIDE DEF back
  <2>3. Len(back) = Len(q) - i
    BY <1>1, <2>2
  <2>4. ASSUME NEW j \in 1 .. Len(q) - i
        PROVE  back[j] = q[j + i]
    <3>1. j \in 1 .. Len(q) - (i + 1) + 1 /\ (i + 1) + j - 1 = j + i
      BY <1>1
    <3>2. back[j] = q[(i + 1) + j - 1]
      BY <2>2, <3>1
    <3> QED
      BY <3>1, <3>2
  <2> QED
    BY <2>2, <2>3, <2>4
<1> HIDE DEF front, back
<1>4. /\ front \o back \in Seq(S) /\ Len(front \o back) = (i - 1) + (Len(q) - i)
      /\ \A j \in 1 .. (i - 1) + (Len(q) - i) :
           (front \o back)[j] = IF j <= i - 1 THEN front[j] ELSE back[j - (i - 1)]
  <2>1. /\ front \o back \in Seq(S) /\ Len(front \o back) = Len(front) + Len(back)
        /\ \A j \in 1 .. Len(front) + Len(back) :
             (front \o back)[j] = IF j <= Len(front) THEN front[j] ELSE back[j - Len(front)]
    BY <1>2, <1>3, ConcatProperties
  <2> QED
    BY <1>2, <1>3, <2>1
<1>5. (i - 1) + (Len(q) - i) = Len(q) - 1
  BY <1>1
<1>6. ASSUME NEW j \in 1 .. Len(q) - 1
      PROVE  (front \o back)[j] = IF j < i THEN q[j] ELSE q[j + 1]
  <2>1. j \in Nat /\ (j < i \/ j >= i)
    BY <1>1
  <2>2. CASE j < i
    <3>1. j <= i - 1 /\ j \in 1 .. i - 1
      BY <1>1, <2>2
    <3> QED
      BY <1>2, <1>4, <1>5, <2>2, <3>1
  <2>3. CASE j >= i
    <3>1. /\ ~(j <= i - 1) /\ ~(j < i)
          /\ j - (i - 1) \in 1 .. Len(q) - i /\ (j - (i - 1)) + i = j + 1
      BY <1>1, <2>3
    <3> QED
      BY <1>3, <1>4, <1>5, <3>1
  <2> QED
    BY <2>1, <2>2, <2>3
<1> QED
  BY <1>4, <1>5, <1>6 DEF RemoveAt, front, back

LEMMA QueuedDef == ASSUME NEW m PROVE Queued(m) <=> \E i \in 1 .. Len(queue) : queue[i] = m
  BY DEF Queued, Contains

\* Without its row, a message is not queued, and the others are as before.
LEMMA WithoutDef ==
  ASSUME RowTypes, NEW m \in Messages, Queued(m)
  PROVE  /\ Without(m) \in Seq(Messages)
         /\ Len(Without(m)) = Len(queue) - 1
         /\ \A i, j \in 1 .. Len(queue) - 1 : Without(m)[i] = Without(m)[j] => i = j
         /\ \A n \in Messages :
              (\E i \in 1 .. Len(queue) - 1 : Without(m)[i] = n) <=> (Queued(n) /\ n # m)
<1> DEFINE k == CHOOSE i \in DOMAIN queue : queue[i] = m
           rest == Without(m)
<1>1. /\ queue \in Seq(Messages) /\ DOMAIN queue = 1 .. Len(queue) /\ Len(queue) \in Nat
      /\ \A i, j \in 1 .. Len(queue) : queue[i] = queue[j] => i = j
  BY DEF RowTypes, OneRow
<1>2. k \in 1 .. Len(queue) /\ queue[k] = m
  BY <1>1, QueuedDef
<1> HIDE DEF k
<1>3. /\ rest \in Seq(Messages) /\ Len(rest) = Len(queue) - 1
      /\ \A j \in 1 .. Len(queue) - 1 : rest[j] = IF j < k THEN queue[j] ELSE queue[j + 1]
  BY <1>1, <1>2, RemoveAtDef DEF Without, k
<1> HIDE DEF rest
<1>4. ASSUME NEW i \in 1 .. Len(queue) - 1, NEW j \in 1 .. Len(queue) - 1, rest[i] = rest[j]
      PROVE  i = j
  BY <1>1, <1>2, <1>3, <1>4
<1>5. ASSUME NEW n \in Messages, NEW i \in 1 .. Len(queue) - 1, rest[i] = n
      PROVE  Queued(n) /\ n # m
  <2>1. CASE i < k
    BY <1>1, <1>2, <1>3, <1>5, <2>1, QueuedDef
  <2>2. CASE i >= k
    <3>1. i + 1 \in 1 .. Len(queue) /\ i + 1 # k /\ queue[i + 1] = n
      BY <1>1, <1>2, <1>3, <1>5, <2>2
    <3> QED
      BY <1>1, <1>2, <3>1, QueuedDef
  <2> QED
    BY <1>1, <1>2, <2>1, <2>2
<1>6. ASSUME NEW n \in Messages, Queued(n), n # m
      PROVE  \E i \in 1 .. Len(queue) - 1 : rest[i] = n
  <2>1. PICK j \in 1 .. Len(queue) : queue[j] = n
    BY <1>6, QueuedDef
  <2>2. CASE j < k
    BY <1>1, <1>2, <1>3, <2>1, <2>2
  <2>3. CASE j > k
    <3>1. j - 1 \in 1 .. Len(queue) - 1 /\ (j - 1) + 1 = j /\ ~(j - 1 < k)
      BY <1>1, <1>2, <2>3
    <3> QED
      BY <1>3, <2>1, <3>1
  <2> QED
    BY <1>1, <1>2, <1>6, <2>1, <2>2, <2>3
<1> QED
  BY <1>3, <1>4, <1>5, <1>6 DEF rest

\* How the four writes of the queue change what is queued.
LEMMA DropRowDef ==
  ASSUME RowTypes, NEW m \in Messages, DropRow(m)
  PROVE  /\ RowTypes'
         /\ \A n \in Messages : Queued(n)' <=> (Queued(n) /\ n # m)
<1>1. CASE Queued(m)
  <2>1. queue' = Without(m)
    BY <1>1 DEF DropRow
  <2>2. queue' \in Seq(Messages) /\ Len(queue') = Len(queue) - 1
    BY <1>1, <2>1, WithoutDef
  <2>3. OneRow'
    BY <1>1, <2>1, <2>2, WithoutDef DEF OneRow
  <2>4. \A n \in Messages : Queued(n)' <=> \E i \in 1 .. Len(queue) - 1 : queue'[i] = n
    BY <2>2 DEF Queued, Contains
  <2>5. \A n \in Messages :
           (\E i \in 1 .. Len(queue) - 1 : Without(m)[i] = n) <=> (Queued(n) /\ n # m)
    BY <1>1, WithoutDef
  <2>6. \A n \in Messages : Queued(n)' <=> (Queued(n) /\ n # m)
    BY <2>1, <2>4, <2>5, Zenon
  <2>7. RowTypes'
    BY <2>2, <2>3 DEF RowTypes
  <2> QED
    BY <2>6, <2>7
<1>2. CASE ~Queued(m)
  BY <1>2 DEF DropRow, RowTypes, OneRow, Queued, Contains
<1> QED
  BY <1>1, <1>2

LEMMA ReorderDef ==
  ASSUME RowTypes, NEW m \in Messages, Reorder(m)
  PROVE  /\ RowTypes'
         /\ \A n \in Messages : Queued(n)' <=> Queued(n)
<1> DEFINE rest == Without(m)
<1>1. Queued(m) /\ queue' = <<m>> \o rest
  BY DEF Reorder
<1>2. /\ rest \in Seq(Messages) /\ Len(rest) = Len(queue) - 1
      /\ \A i, j \in 1 .. Len(queue) - 1 : rest[i] = rest[j] => i = j
      /\ \A n \in Messages : (\E i \in 1 .. Len(queue) - 1 : rest[i] = n) <=> (Queued(n) /\ n # m)
  BY <1>1, WithoutDef
<1> HIDE DEF rest
<1>3. Len(queue) \in Nat /\ Len(queue) >= 1
  BY <1>1, QueuedDef DEF RowTypes
<1>4. /\ queue' \in Seq(Messages) /\ Len(queue') = Len(queue)
      /\ queue'[1] = m
      /\ \A i \in 2 .. Len(queue) : queue'[i] = rest[i - 1]
  BY <1>1, <1>2, <1>3
<1>5. \A i \in 2 .. Len(queue) : i - 1 \in 1 .. Len(queue) - 1 /\ rest[i - 1] \in Messages /\ rest[i - 1] # m
  BY <1>2, <1>3
<1>6. OneRow'
  <2> SUFFICES ASSUME NEW i \in 1 .. Len(queue), NEW j \in 1 .. Len(queue), queue'[i] = queue'[j]
               PROVE  i = j
    BY <1>4 DEF OneRow
  <2>1. CASE i = 1 \/ j = 1
    BY <1>3, <1>4, <1>5, <2>1
  <2>2. CASE i # 1 /\ j # 1
    <3>1. /\ i \in 2 .. Len(queue) /\ j \in 2 .. Len(queue)
      BY <1>3, <2>2
    <3>2. rest[i - 1] = rest[j - 1] /\ i - 1 \in 1 .. Len(queue) - 1 /\ j - 1 \in 1 .. Len(queue) - 1
      BY <1>4, <1>5, <3>1
    <3>3. i - 1 = j - 1
      BY <1>2, <3>2
    <3> QED
      BY <3>1, <3>3
  <2> QED
    BY <2>1, <2>2
<1>7. ASSUME NEW n \in Messages
      PROVE  Queued(n)' <=> Queued(n)
  <2>1. Queued(n)' <=> \E i \in 1 .. Len(queue) : queue'[i] = n
    BY <1>4 DEF Queued, Contains
  <2>2. CASE n = m
    BY <1>1, <1>3, <1>4, <2>1, <2>2
  <2>3. ASSUME n # m, NEW i \in 1 .. Len(queue), queue'[i] = n
        PROVE  Queued(n)
    BY <1>2, <1>3, <1>4, <1>5, <2>3
  <2>4. ASSUME n # m, Queued(n)
        PROVE  \E i \in 1 .. Len(queue) : queue'[i] = n
    <3>1. PICK j \in 1 .. Len(queue) - 1 : rest[j] = n
      BY <1>2, <2>4
    <3>2. j + 1 \in 2 .. Len(queue) /\ (j + 1) - 1 = j /\ j + 1 \in 1 .. Len(queue)
      BY <1>3
    <3> QED
      BY <1>4, <3>1, <3>2
  <2> QED
    BY <2>1, <2>2, <2>3, <2>4
<1> QED
  BY <1>4, <1>6, <1>7 DEF RowTypes

LEMMA AppendDef ==
  ASSUME RowTypes, NEW m \in Messages, ~Queued(m), queue' = Append(queue, m)
  PROVE  /\ RowTypes'
         /\ \A n \in Messages : Queued(n)' <=> (Queued(n) \/ n = m)
<1>1. /\ queue' \in Seq(Messages) /\ Len(queue) \in Nat /\ Len(queue') = Len(queue) + 1
      /\ queue'[Len(queue) + 1] = m /\ \A i \in 1 .. Len(queue) : queue'[i] = queue[i]
  BY DEF RowTypes
<1>2. \A i \in 1 .. Len(queue) : queue[i] # m
  BY QueuedDef
<1>3. OneRow'
  BY <1>1, <1>2 DEF RowTypes, OneRow
<1>4. \A n \in Messages : Queued(n)' <=> (Queued(n) \/ n = m)
  BY <1>1, <1>2 DEF Queued, Contains
<1> QED
  BY <1>1, <1>3, <1>4 DEF RowTypes

LEMMA FailRowDef ==
  ASSUME RowTypes, NEW m \in Messages, FailRow(m)
  PROVE  /\ RowTypes'
         /\ \A n \in Messages : Queued(n)' <=> (Queued(n) \/ n = m)
<1>1. CASE Queued(m)
  BY <1>1 DEF FailRow, RowTypes, OneRow, Queued, Contains
<1>2. CASE ~Queued(m)
  BY <1>2, AppendDef DEF FailRow
<1> QED
  BY <1>1, <1>2

-----------------------------------------------------------------------------
(* Types. *)

USE DEF Phases, NoGeneration, NoTurn

LEMMA NoMessageIsNone == NoMessage \notin Messages
  BY QueueAssumption DEF Messages, NoMessage

Turns == [phase : Phases, generation : Nat]
Cancels == [Boundaries -> [at : {"none", "asked", "done", "refused"},
                           message : Messages \cup {NoMessage}, generation : Nat]]
Counts == [commands : 0 .. MaxCommands, faults : 0 .. MaxFaults]

RowsTyped == queue \in Seq(Messages) /\ now \subseteq Messages /\ held \subseteq Messages
             /\ failed \subseteq Messages
SendingTyped ==
  /\ step \in [Messages -> Steps] /\ dispatchOf \in [Messages -> Nat]
  /\ lock \in Messages \cup {NoMessage} /\ natural \in BOOLEAN
  /\ verdict \in {"none", "asked", "ready", "busy", "dead", "unknown"}
\* A Send Now is on behalf of a message.
BoundaryTyped ==
  /\ asked \subseteq Messages /\ cancel \in Cancels /\ postStop \in BOOLEAN
  /\ cancel["force-send"].at # "none" => cancel["force-send"].message \in Messages
\* What runs was accepted.
BackendTyped ==
  /\ jobs \in Seq(Messages) /\ running \in BOOLEAN /\ dead \in BOOLEAN
  /\ sent \in [Messages -> Nat]
  /\ running => jobs # <<>>
Statuses == [status : {"running", "terminal"}, intent : Messages]
ToldTyped == channel \in Seq(Statuses) /\ events \in Seq(Messages)

Typed ==
  /\ turn \in Turns /\ RowsTyped /\ SendingTyped /\ editing \in Messages \cup {NoMessage}
  /\ BoundaryTyped /\ BackendTyped /\ ToldTyped /\ count \in Counts

LEMMA TypedIsTypeOK == Typed => TypeOK
  BY DEF Typed, TypeOK, Turns, RowsTyped, SendingTyped, BoundaryTyped, BackendTyped, ToldTyped,
         Cancels, Counts, Statuses

\* What a step leaves alone keeps its type.
LEMMA UnchangedTyped ==
  ASSUME Typed
  PROVE  /\ UNCHANGED rows => RowsTyped'
         /\ UNCHANGED sending => SendingTyped'
         /\ UNCHANGED boundary => BoundaryTyped'
         /\ UNCHANGED backend => BackendTyped'
         /\ UNCHANGED told => ToldTyped'
         /\ turn' = turn => turn' \in Turns
         /\ count' = count => count' \in Counts
<1>1. UNCHANGED rows => RowsTyped'
  BY DEF Typed, RowsTyped, rows
<1>2. UNCHANGED sending => SendingTyped'
  BY DEF Typed, SendingTyped, sending
<1>3. UNCHANGED boundary => BoundaryTyped'
  BY DEF Typed, BoundaryTyped, boundary
<1>4. UNCHANGED backend => BackendTyped'
  BY DEF Typed, BackendTyped, backend
<1>5. UNCHANGED told => ToldTyped'
  BY DEF Typed, ToldTyped, told
<1> QED
  BY <1>1, <1>2, <1>3, <1>4, <1>5 DEF Typed

\* Every operator of the lifecycle yields a lifecycle state.
LEMMA LifecycleTyped ==
  ASSUME NEW t \in Turns, NEW g \in Nat
  PROVE  /\ BeginTurnDispatch(t) \in Turns
         /\ MarkTurnRunning(t, g) \in Turns
         /\ ConfirmTurnRunning(t) \in Turns
         /\ BeginTurnStopping(t) \in Turns
         /\ RestoreTurnWorking(t, g) \in Turns
         /\ MarkTurnTerminal(t, g) \in Turns
         /\ ForceTurnIdle(t) \in Turns
  BY DEF Turns, BeginTurnDispatch, MarkTurnRunning, ConfirmTurnRunning, RestoreTurnWorking,
         BeginTurnStopping, MarkTurnTerminal, ForceTurnIdle

LEMMA CountedTyped ==
  ASSUME Typed
  PROVE  (Command => count' \in Counts) /\ (Fault => count' \in Counts)
<1>1. MaxCommands \in Nat /\ MaxFaults \in Nat
  BY QueueAssumption
<1>2. /\ count = [commands |-> count.commands, faults |-> count.faults]
      /\ count.commands \in 0 .. MaxCommands /\ count.faults \in 0 .. MaxFaults
  BY DEF Typed, Counts
<1>3. /\ Counted("commands") => count' = [commands |-> count.commands + 1, faults |-> count.faults]
      /\ Counted("faults") => count' = [commands |-> count.commands, faults |-> count.faults + 1]
  BY <1>2 DEF Counted
<1>4. /\ count.commands < MaxCommands => count.commands + 1 \in 0 .. MaxCommands
      /\ count.faults < MaxFaults => count.faults + 1 \in 0 .. MaxFaults
  BY <1>1, <1>2
<1> QED
  BY <1>2, <1>3, <1>4 DEF Command, Fault, Counts

LEMMA WithoutTyped ==
  ASSUME RowsTyped, NEW m \in Messages, Queued(m)
  PROVE  Without(m) \in Seq(Messages)
<1>1. (CHOOSE i \in DOMAIN queue : queue[i] = m) \in 1 .. Len(queue)
  BY QueuedDef DEF RowsTyped
<1> QED
  BY <1>1, RemoveAtDef DEF RowsTyped, Without

LEMMA DropRowTyped ==
  ASSUME RowsTyped, NEW m \in Messages, DropRow(m)
  PROVE  RowsTyped'
<1>1. queue' \in Seq(Messages)
  BY WithoutTyped DEF RowsTyped, DropRow
<1> QED
  BY <1>1 DEF RowsTyped, DropRow

LEMMA FailRowTyped ==
  ASSUME RowsTyped, asked \subseteq Messages, NEW m \in Messages, FailRow(m)
  PROVE  RowsTyped' /\ asked' \subseteq Messages
<1>1. queue' \in Seq(Messages)
  BY DEF RowsTyped, FailRow
<1> QED
  BY <1>1 DEF RowsTyped, FailRow

LEMMA FirstTyped ==
  ASSUME RowsTyped, NEW m, NEW S, FirstOf(m, S)
  PROVE  m \in Messages /\ m \in S /\ Queued(m)
  BY DEF RowsTyped, FirstOf, Queued, Contains

LEMMA ReserveTyped ==
  ASSUME Typed, NEW m, Reserve(m)
  PROVE  turn' \in Turns /\ dispatchOf' \in [Messages -> Nat] /\ step' \in [Messages -> Steps]
<1>1. turn' \in Turns /\ turn'.generation \in Nat
  BY LifecycleTyped DEF Typed, Reserve, Turns
<1> QED
  BY <1>1 DEF Typed, SendingTyped, Reserve, Steps

LEMMA StatusTyped ==
  ASSUME NEW status \in {"running", "terminal"}, NEW m \in Messages
  PROVE  Status(status, m) \in Statuses
  BY DEF Status, Statuses

\* A send that fails: its row comes back, or it had none.
LEMMA SendFailsTyped ==
  ASSUME Typed, NEW m \in Messages, SendFails(m), count' \in Counts
  PROVE  Typed'
<1>1. turn' \in Turns
  BY LifecycleTyped DEF Typed, SendingTyped, SendFails
<1>2. BackendTyped' /\ ToldTyped' /\ editing' = editing
  BY UnchangedTyped DEF SendFails
<1>3. CASE lock = m
  <2>1. FailRow(m) /\ Release /\ step' = [step EXCEPT ![m] = "waiting"]
        /\ UNCHANGED <<dispatchOf, cancel, postStop>>
    BY <1>3 DEF SendFails
  <2>2. RowsTyped' /\ asked' \subseteq Messages
    BY <2>1, FailRowTyped DEF Typed, BoundaryTyped
  <2>3. SendingTyped'
    BY <2>1 DEF Typed, SendingTyped, Release, Steps
  <2>4. BoundaryTyped'
    BY <2>1, <2>2 DEF Typed, BoundaryTyped
  <2> QED
    BY <1>1, <1>2, <2>2, <2>3, <2>4 DEF Typed
<1>4. CASE lock # m
  <2>1. /\ step' = [step EXCEPT ![m] = "failed"]
        /\ UNCHANGED <<rows, asked, lock, verdict, natural, dispatchOf, cancel, postStop>>
    BY <1>4 DEF SendFails
  <2>2. RowsTyped' /\ BoundaryTyped'
    BY <2>1, UnchangedTyped DEF Typed, BoundaryTyped
  <2>3. SendingTyped'
    BY <2>1 DEF Typed, SendingTyped, Steps
  <2> QED
    BY <1>1, <1>2, <2>2, <2>3 DEF Typed
<1> QED
  BY <1>3, <1>4

LEMMA SendingStepTyped ==
  ASSUME Typed, NEW m \in Messages, Sending(m)
  PROVE  Typed'
<1>1. CASE SubmitDirect(m)
  <2>1. turn' \in Turns /\ SendingTyped'
    BY <1>1, ReserveTyped DEF SubmitDirect, Typed, SendingTyped
  <2> QED
    BY <1>1, <2>1, UnchangedTyped DEF SubmitDirect, Typed
<1>2. CASE Enqueue(m)
  <2>1. queue' \in Seq(Messages)
    BY <1>2 DEF Enqueue, Typed, RowsTyped
  <2>2. RowsTyped'
    BY <1>2, <2>1 DEF Enqueue, Typed, RowsTyped
  <2>3. SendingTyped'
    BY <1>2 DEF Enqueue, Typed, SendingTyped, Steps
  <2> QED
    BY <1>2, <2>2, <2>3, UnchangedTyped DEF Enqueue, Typed
<1>3. CASE AppendFails(m)
  BY <1>3, CountedTyped, SendFailsTyped DEF AppendFails
<1>4. CASE SendSuperseded(m)
  BY <1>4, SendFailsTyped DEF SendSuperseded, Typed
<1>5. CASE SendMessage(m)
  <2>1. SendingTyped'
    BY <1>5 DEF SendMessage, Typed, SendingTyped, Steps
  <2> QED
    BY <1>5, <2>1, UnchangedTyped DEF SendMessage, Typed
<1>6. CASE SendRefused(m)
  BY <1>6, SendFailsTyped DEF SendRefused, Typed
<1>7. CASE ConfirmSent(m)
  <2>1. turn' \in Turns
    BY <1>7, LifecycleTyped DEF ConfirmSent, Typed
  <2>2. SendingTyped'
    BY <1>7 DEF ConfirmSent, Typed, SendingTyped, Steps, Release
  <2>3. RowsTyped'
    BY <1>7, DropRowTyped, UnchangedTyped DEF ConfirmSent, Typed
  <2>4. /\ asked' = asked \/ asked' = asked \ {m}
        /\ cancel' = cancel /\ postStop' = postStop
    BY <1>7 DEF ConfirmSent
  <2>5. BoundaryTyped'
    BY <2>4 DEF Typed, BoundaryTyped
  <2> QED
    BY <1>7, <2>1, <2>2, <2>3, <2>5, UnchangedTyped DEF ConfirmSent, Typed
<1>8. CASE AcceptMessage(m)
  <2>1. SendingTyped'
    BY <1>8 DEF AcceptMessage, Typed, SendingTyped, Steps
  <2>2. jobs' \in Seq(Messages) /\ jobs' # <<>>
    <3>1. jobs \in Seq(Messages) /\ jobs' = Append(jobs, m)
      BY <1>8 DEF AcceptMessage, Typed, BackendTyped
    <3>2. Len(jobs') # 0
      BY <3>1
    <3> QED
      BY <3>1, <3>2
  <2>3. sent' \in [Messages -> Nat]
    BY <1>8 DEF AcceptMessage, Typed, BackendTyped
  <2>4. BackendTyped'
    BY <1>8, <2>2, <2>3 DEF AcceptMessage, Typed, BackendTyped
  <2> QED
    BY <1>8, <2>1, <2>4, UnchangedTyped DEF AcceptMessage, Typed
<1>9. CASE RefuseMessage(m)
  <2>1. SendingTyped'
    BY <1>9 DEF RefuseMessage, Typed, SendingTyped, Steps
  <2> QED
    BY <1>9, <2>1, CountedTyped, UnchangedTyped DEF RefuseMessage, Typed
<1> QED
  BY <1>1, <1>2, <1>3, <1>4, <1>5, <1>6, <1>7, <1>8, <1>9 DEF Sending

LEMMA ChangingTyped ==
  ASSUME Typed, NEW m \in Messages, Changing(m)
  PROVE  Typed'
<1>1. CASE ForceSend(m)
  <2>1. RowsTyped'
    BY <1>1 DEF ForceSend, Typed, RowsTyped
  <2> QED
    BY <1>1, <2>1, CountedTyped, UnchangedTyped DEF ForceSend, Typed
<1>2. CASE StartEdit(m)
  BY <1>2, CountedTyped, UnchangedTyped DEF StartEdit, Typed
<1>3. CASE ClearRow(m)
  BY <1>3, CountedTyped, DropRowTyped, UnchangedTyped DEF ClearRow, Typed
<1>4. CASE Reorder(m)
  <2>1. queue' \in Seq(Messages)
    BY <1>4, WithoutTyped, ConcatProperties DEF Reorder, Typed
  <2>2. RowsTyped'
    BY <1>4, <2>1 DEF Reorder, Typed, RowsTyped
  <2> QED
    BY <1>4, <2>2, CountedTyped, UnchangedTyped DEF Reorder, Typed
<1> QED
  BY <1>1, <1>2, <1>3, <1>4 DEF Changing

LEMMA BoundaryBegun ==
  ASSUME Typed, NEW kind \in Boundaries, NEW m \in Messages \cup {NoMessage},
         kind = "force-send" => m \in Messages, BeginBoundary(kind, m)
  PROVE  /\ turn' \in Turns /\ cancel' \in Cancels
         /\ cancel'["force-send"].at # "none" => cancel'["force-send"].message \in Messages
<1>1. turn' \in Turns /\ turn.generation \in Nat
  BY LifecycleTyped DEF BeginBoundary, Typed, Turns
<1>2. CASE turn.phase # "idle" /\ cancel[kind] = NoCancel
  <2>1. cancel' = [cancel EXCEPT ![kind] = [at |-> "asked", message |-> m,
                                            generation |-> turn.generation]]
    BY <1>2 DEF BeginBoundary
  <2> QED
    BY <1>1, <2>1 DEF Typed, BoundaryTyped, Cancels, Boundaries
<1>3. CASE ~(turn.phase # "idle" /\ cancel[kind] = NoCancel)
  BY <1>1, <1>3 DEF BeginBoundary, Typed, BoundaryTyped
<1> QED
  BY <1>2, <1>3

LEMMA DispatchingTyped ==
  ASSUME Typed, NEW m \in Messages, Dispatching(m)
  PROVE  Typed'
<1>1. CASE DispatchNow(m)
  <2>1. turn' \in Turns /\ SendingTyped'
    BY <1>1, ReserveTyped DEF DispatchNow, Typed, SendingTyped
  <2>2. BoundaryTyped'
    BY <1>1 DEF DispatchNow, Typed, BoundaryTyped
  <2> QED
    BY <1>1, <2>1, <2>2, UnchangedTyped DEF DispatchNow, Typed
<1>2. CASE InterruptFor(m)
  <2>1. BoundaryTyped' /\ turn' \in Turns
    BY <1>2, BoundaryBegun DEF InterruptFor, Typed, BoundaryTyped, Boundaries
  <2> QED
    BY <1>2, <2>1, UnchangedTyped DEF InterruptFor, Typed
<1>3. CASE AskVerdict(m)
  <2>1. SendingTyped'
    BY <1>3 DEF AskVerdict, Typed, SendingTyped
  <2> QED
    BY <1>3, <2>1, UnchangedTyped DEF AskVerdict, Typed
<1> QED
  BY <1>1, <1>2, <1>3 DEF Dispatching

\* What the user, the answers and the timer do besides.
LEMMA EndEditTyped == ASSUME Typed, EndEdit PROVE Typed'
<1>1. RowsTyped'
  BY DEF EndEdit, Typed, RowsTyped
<1> QED
  BY <1>1, UnchangedTyped DEF EndEdit, Typed

LEMMA StopTyped == ASSUME Typed, Stop PROVE Typed'
<1>1. BoundaryTyped' /\ turn' \in Turns
  BY BoundaryBegun DEF Stop, Typed, BoundaryTyped, Boundaries
<1>2. RowsTyped'
  BY DEF Stop, Typed, RowsTyped
<1> QED
  BY <1>1, <1>2, CountedTyped, UnchangedTyped DEF Stop, Typed

\* A cancel moves on and keeps its message, or is forgotten.
LEMMA CancelMoved ==
  ASSUME Typed, NEW kind \in Boundaries,
         \/ cancel' = [cancel EXCEPT ![kind] = NoCancel]
         \/ \E at \in {"done", "refused"} :
              cancel[kind].at = "asked" /\ cancel' = [cancel EXCEPT ![kind].at = at],
         asked' \subseteq Messages, postStop' = postStop
  PROVE  BoundaryTyped'
<1>1. CASE cancel' = [cancel EXCEPT ![kind] = NoCancel]
  BY <1>1 DEF Typed, BoundaryTyped, Cancels, Boundaries, NoCancel
<1>2. ASSUME NEW at \in {"done", "refused"}, cancel[kind].at = "asked",
             cancel' = [cancel EXCEPT ![kind].at = at]
      PROVE  BoundaryTyped'
  BY <1>2 DEF Typed, BoundaryTyped, Cancels, Boundaries
<1> QED
  BY <1>1, <1>2

LEMMA AnswersTyped ==
  ASSUME Typed,
         \/ \E kind \in Boundaries : Cancel(kind) \/ CancelFails(kind) \/ CancelAnswered(kind)
         \/ StopRefused \/ ForceSendRefused
  PROVE  Typed'
<1>1. ASSUME NEW kind \in Boundaries, Cancel(kind)
      PROVE  Typed'
  <2>1. BoundaryTyped'
    BY <1>1, CancelMoved DEF Cancel, Typed, BoundaryTyped
  <2>2. jobs' \in Seq(Messages)
    BY <1>1 DEF Cancel, Typed, BackendTyped
  <2>3. running => jobs' # <<>>
    BY <1>1 DEF Cancel, Typed, BackendTyped
  <2>4. BackendTyped'
    BY <1>1, <2>2, <2>3 DEF Cancel, Typed, BackendTyped
  <2> QED
    BY <1>1, <2>1, <2>4, UnchangedTyped DEF Cancel, Typed
<1>2. ASSUME NEW kind \in Boundaries, CancelFails(kind)
      PROVE  Typed'
  <2>1. BoundaryTyped'
    BY <1>2, CancelMoved DEF CancelFails, Typed, BoundaryTyped
  <2> QED
    BY <1>2, <2>1, CountedTyped, UnchangedTyped DEF CancelFails, Typed
<1>3. ASSUME NEW kind \in Boundaries, CancelAnswered(kind)
      PROVE  Typed'
  <2>1. BoundaryTyped'
    BY <1>3, CancelMoved DEF CancelAnswered, Typed, BoundaryTyped
  <2> QED
    BY <1>3, <2>1, UnchangedTyped DEF CancelAnswered, Typed
<1>4. CASE StopRefused
  <2>1. BoundaryTyped' /\ turn' \in Turns
    BY <1>4, CancelMoved, LifecycleTyped DEF StopRefused, Typed, BoundaryTyped, Boundaries
  <2> QED
    BY <1>4, <2>1, UnchangedTyped DEF StopRefused, Typed
<1>5. CASE ForceSendRefused
  <2> DEFINE m == cancel["force-send"].message
  <2>1. m \in Messages /\ cancel["force-send"].generation \in Nat
    BY <1>5 DEF ForceSendRefused, Typed, BoundaryTyped, Cancels, Boundaries
  <2>2. RowsTyped' /\ asked' \subseteq Messages
    BY <1>5, <2>1, FailRowTyped DEF ForceSendRefused, Typed, BoundaryTyped
  <2>3. BoundaryTyped' /\ turn' \in Turns
    BY <1>5, <2>1, <2>2, CancelMoved, LifecycleTyped DEF ForceSendRefused, Typed, Boundaries
  <2> QED
    BY <1>5, <2>2, <2>3, UnchangedTyped DEF ForceSendRefused, Typed
<1> QED
  BY <1>1, <1>2, <1>3, <1>4, <1>5

LEMMA VerdictTyped ==
  ASSUME Typed,
         ReadVerdict \/ ReadVerdictFails \/ BackOff \/ ParkDead \/ Rebusied \/ DispatchNatural
  PROVE  Typed'
<1>1. CASE ReadVerdict
  <2>1. SendingTyped'
    BY <1>1 DEF ReadVerdict, Typed, SendingTyped
  <2> QED
    BY <1>1, <2>1, UnchangedTyped DEF ReadVerdict, Typed
<1>2. CASE ReadVerdictFails
  <2>1. SendingTyped'
    BY <1>2 DEF ReadVerdictFails, Typed, SendingTyped
  <2> QED
    BY <1>2, <2>1, CountedTyped, UnchangedTyped DEF ReadVerdictFails, Typed
<1>3. CASE BackOff \/ Rebusied
  <2>1. SendingTyped'
    BY <1>3 DEF BackOff, Rebusied, Release, Typed, SendingTyped
  <2> QED
    BY <1>3, <2>1, UnchangedTyped DEF BackOff, Rebusied, Typed
<1>4. CASE ParkDead
  <2>1. SendingTyped'
    BY <1>4 DEF ParkDead, Release, Typed, SendingTyped
  <2>2. Queued(lock) => lock \in Messages
    BY QueuedDef DEF Typed, RowsTyped
  <2>3. RowsTyped'
    BY <1>4, <2>2 DEF ParkDead, Typed, RowsTyped
  <2> QED
    BY <1>4, <2>1, <2>3, UnchangedTyped DEF ParkDead, Typed
<1>5. CASE DispatchNatural
  <2>1. turn' \in Turns /\ SendingTyped'
    BY <1>5, ReserveTyped DEF DispatchNatural, Typed, SendingTyped
  <2> QED
    BY <1>5, <2>1, UnchangedTyped DEF DispatchNatural, Typed
<1> QED
  BY <1>1, <1>2, <1>3, <1>4, <1>5

LEMMA TurnToldTyped ==
  ASSUME Typed, Deadman \/ DeliverChannel \/ DeliverEvent
  PROVE  Typed'
<1>1. CASE Deadman
  BY <1>1, LifecycleTyped, UnchangedTyped DEF Deadman, Typed
<1>2. CASE DeliverChannel
  <2>1. Head(channel) \in Statuses /\ Tail(channel) \in Seq(Statuses)
    BY <1>2 DEF DeliverChannel, Typed, ToldTyped
  <2>2. dispatchOf[Head(channel).intent] \in Nat
    BY <2>1 DEF Typed, SendingTyped, Statuses
  <2>3. turn' \in Turns
    BY <1>2, <2>2, LifecycleTyped DEF DeliverChannel, Typed
  <2>4. ToldTyped'
    BY <1>2, <2>1 DEF DeliverChannel, Typed, ToldTyped
  <2> QED
    BY <1>2, <2>3, <2>4, UnchangedTyped DEF DeliverChannel, Typed
<1>3. CASE DeliverEvent
  <2>1. ToldTyped'
    BY <1>3 DEF DeliverEvent, Typed, ToldTyped
  <2>2. turn' \in Turns
    BY <1>3, LifecycleTyped DEF DeliverEvent, Typed
  <2> QED
    BY <1>3, <2>1, <2>2, UnchangedTyped DEF DeliverEvent, Typed
<1> QED
  BY <1>1, <1>2, <1>3

LEMMA RunnerTyped ==
  ASSUME Typed, RunnerStarts \/ RunnerEnds \/ RunnerFails
  PROVE  Typed'
<1>1. jobs # <<>>
  BY DEF RunnerStarts, RunnerEnds, RunnerFails, Typed, BackendTyped
<1>2. Head(jobs) \in Messages /\ Tail(jobs) \in Seq(Messages)
  BY <1>1 DEF Typed, BackendTyped
<1>3. CASE RunnerStarts
  <2>1. Append(channel, Status("running", Head(jobs))) \in Seq(Statuses)
    BY <1>2, StatusTyped DEF Typed, ToldTyped
  <2>2. ToldTyped'
    BY <1>3, <2>1 DEF RunnerStarts, Typed, ToldTyped
  <2>3. BackendTyped'
    BY <1>1, <1>3 DEF RunnerStarts, Typed, BackendTyped
  <2> QED
    BY <1>3, <2>2, <2>3, UnchangedTyped DEF RunnerStarts, Typed
<1>4. CASE RunnerEnds \/ RunnerFails
  <2>1. Append(channel, Status("terminal", Head(jobs))) \in Seq(Statuses)
    BY <1>2, StatusTyped DEF Typed, ToldTyped
  <2>2. ToldTyped'
    <3>1. /\ channel' = Append(channel, Status("terminal", Head(jobs)))
          /\ events' = Append(events, Head(jobs))
      BY <1>4 DEF RunnerEnds, RunnerFails, EndTurn
    <3>2. events' \in Seq(Messages)
      BY <1>2, <3>1 DEF Typed, ToldTyped
    <3> QED
      BY <2>1, <3>1, <3>2 DEF ToldTyped
  <2>3. BackendTyped'
    BY <1>2, <1>4 DEF RunnerEnds, RunnerFails, EndTurn, Typed, BackendTyped
  <2>4. count' \in Counts
    BY <1>4, CountedTyped DEF RunnerEnds, RunnerFails, Typed
  <2> QED
    BY <1>4, <2>2, <2>3, <2>4, UnchangedTyped DEF RunnerEnds, RunnerFails, Typed
<1> QED
  BY <1>3, <1>4

LEMMA StepTyped == ASSUME Typed, [Next]_vars PROVE Typed'
<1>1. CASE UNCHANGED vars
  BY <1>1, UnchangedTyped DEF vars, Typed
<1>2. CASE Next
  BY <1>2, SendingStepTyped, ChangingTyped, DispatchingTyped, EndEditTyped, StopTyped, AnswersTyped,
     VerdictTyped, TurnToldTyped, RunnerTyped DEF Next
<1> QED
  BY <1>1, <1>2

LEMMA InitTyped == Init => Typed
<1> SUFFICES ASSUME Init PROVE Typed
  OBVIOUS
<1>1. count \in Counts
  BY QueueAssumption DEF Init, Counts
<1>2. RowsTyped /\ ToldTyped
  BY DEF Init, RowsTyped, ToldTyped
<1>3. SendingTyped /\ turn \in Turns /\ editing = NoMessage
  BY DEF Init, SendingTyped, Steps, Turns
<1>4. BoundaryTyped
  BY DEF Init, BoundaryTyped, Cancels, NoCancel, Boundaries
<1>5. BackendTyped
  <2>1. jobs = <<>> /\ running = FALSE /\ dead = FALSE /\ sent = [m \in Messages |-> 0]
    BY DEF Init
  <2>2. sent \in [Messages -> Nat]
    BY <2>1
  <2> QED
    <3>1. running \in BOOLEAN /\ dead \in BOOLEAN /\ ~running
      BY <2>1, Zenon
    <3>2. jobs \in Seq(Messages)
      BY <2>1
    <3> QED
      BY <2>2, <3>1, <3>2 DEF BackendTyped
<1> QED
  BY <1>1, <1>2, <1>3, <1>4, <1>5 DEF Typed

\* Every variable of the queue keeps its type, whatever happens.
THEOREM QueueTyped == Spec => []TypeOK
<1>1. Typed /\ [Next]_vars => Typed'
  BY StepTyped
<1> QED
  BY <1>1, InitTyped, TypedIsTypeOK, PTL DEF Spec

-----------------------------------------------------------------------------
(* What is sent, unless a cancel is overtaken. *)

Asking == cancel["force-send"].at \in {"asked", "refused"}
AskedFor == cancel["force-send"].message

LEMMA CancelWaitsDef ==
  /\ CancelWaits <=>
       (Asking => /\ AskedFor \in Messages
                  /\ step[AskedFor] = "waiting" /\ lock # AskedFor
                  /\ Queued(AskedFor) => AskedFor \in now)
  /\ CancelWaits' <=>
       (Asking' => /\ AskedFor' \in Messages
                   /\ step'[AskedFor'] = "waiting" /\ lock' # AskedFor'
                   /\ Queued(AskedFor)' => AskedFor' \in now')
  BY DEF CancelWaits, Asking, AskedFor

\* The cancel of a Send Now as it was.
LEMMA CancelSame ==
  ASSUME cancel'["force-send"] = cancel["force-send"]
  PROVE  /\ Asking' <=> Asking
         /\ AskedFor' = AskedFor
         /\ (\A n \in Messages : Queued(n)' => Queued(n)) =>
              (AskedFor \in Messages => (Queued(AskedFor)' => Queued(AskedFor)))
  BY DEF Asking, AskedFor, Queued, Contains

\* Then nothing is dispatched while a Send Now is in flight.
LEMMA NotAsking ==
  ASSUME "cancel_overtaken" \notin Circumstances, NEW m, Reserve(m)
  PROVE  ~Asking
  BY DEF Reserve, Allowed, Cancelling, Asking, Boundaries

RowsKept == RowTypes' /\ \A n \in Messages : Queued(n)' <=> Queued(n)

LEMMA UnchangedRows == ASSUME Typed, Inv, queue' = queue PROVE RowsKept
  BY DEF RowsKept, RowTypes, Typed, RowsTyped, Inv, OneRow, Queued, Contains

\* Steps that send nothing and change no row.
LEMMA InvKept ==
  ASSUME Typed, Inv, UNCHANGED <<rows, step, lock, sent>>,
         verdict' # "none" => verdict # "none",
         Asking' => Asking /\ AskedFor' = AskedFor
  PROVE  Inv'
<1>1. RowsKept /\ UNCHANGED <<now, held, failed>>
  BY UnchangedRows DEF rows
<1>2. SentByStep' /\ OneRow' /\ RowsWait' /\ LockWaits' /\ FailedWait' /\ LockStarted'
  BY <1>1 DEF Inv, SentByStep, RowsKept, RowTypes, RowsWait, LockWaits, FailedWait, LockStarted
<1>3. CancelWaits'
  <2> SUFFICES ASSUME Asking'
               PROVE  /\ AskedFor' \in Messages
                      /\ step'[AskedFor'] = "waiting" /\ lock' # AskedFor'
                      /\ Queued(AskedFor)' => AskedFor' \in now'
    BY CancelWaitsDef
  <2>1. /\ AskedFor \in Messages /\ step[AskedFor] = "waiting" /\ lock # AskedFor
        /\ Queued(AskedFor) => AskedFor \in now
    BY CancelWaitsDef DEF Inv
  <2>2. Queued(AskedFor)' => Queued(AskedFor)
    BY <1>1, <2>1 DEF Queued, Contains, rows
  <2> QED
    BY <1>1, <2>1, <2>2
<1> QED
  BY <1>2, <1>3 DEF Inv

\* A send goes further, or is given up; its row, if it has one, stays.
LEMMA InvSent ==
  ASSUME Typed, Inv, NEW m \in Messages, step[m] # "waiting",
         NEW s, s # "new", step' = [step EXCEPT ![m] = s], SentByStep',
         UNCHANGED <<rows, lock, verdict>>, cancel'["force-send"] = cancel["force-send"]
  PROVE  Inv'
<1>1. RowsKept /\ UNCHANGED <<now, held, failed>>
  BY UnchangedRows DEF rows
<1>2. \A n \in Messages : n # m => step'[n] = step[n]
  BY DEF Typed, SendingTyped
<1>3. RowsWait'
  BY <1>1, <1>2 DEF Inv, RowsWait, RowsKept
<1>4. LockWaits' /\ FailedWait' /\ LockStarted'
  BY <1>1, <1>2, NoMessageIsNone
  DEF Inv, LockWaits, FailedWait, LockStarted, Typed, SendingTyped, RowsTyped
<1>5. CancelWaits'
  BY <1>1, <1>2, CancelSame, CancelWaitsDef DEF Inv, RowsKept
<1> QED
  BY <1>1, <1>3, <1>4, <1>5 DEF Inv, RowsKept, RowTypes

\* A send that fails: the row is a failed one, and the dispatcher is free.
LEMMA InvSendFails ==
  ASSUME Typed, Inv, NEW m \in Messages, step[m] \in {"appending", "refused"}, SendFails(m)
  PROVE  Inv'
<1>1. CASE lock # m
  <2>1. /\ step' = [step EXCEPT ![m] = "failed"]
        /\ UNCHANGED <<rows, lock, verdict, cancel, sent>>
    BY <1>1 DEF SendFails, backend
  <2>2. SentByStep'
    BY <2>1 DEF Inv, SentByStep, Typed, SendingTyped
  <2> QED
    BY <2>1, <2>2, InvSent
<1>2. CASE lock = m
  <2>1. /\ step' = [step EXCEPT ![m] = "waiting"]
        /\ FailRow(m) /\ lock' = NoMessage /\ verdict' = "none"
        /\ UNCHANGED <<cancel, sent>>
    BY <1>2 DEF SendFails, Release, backend
  <2>2. RowTypes' /\ \A n \in Messages : Queued(n)' <=> (Queued(n) \/ n = m)
    BY <2>1, FailRowDef DEF RowTypes, Typed, RowsTyped, Inv
  <2>3. step'[m] = "waiting" /\ \A n \in Messages : n # m => step'[n] = step[n]
    BY <2>1 DEF Typed, SendingTyped
  <2>4. SentByStep'
    BY <2>1, <2>3 DEF Inv, SentByStep
  <2>5. RowsWait'
    BY <1>2, <2>2, <2>3 DEF Inv, RowsWait
  <2>6. /\ now' = now \ {m} /\ held' = held \cup {m} /\ failed' = failed \cup {m}
    BY <2>1 DEF FailRow
  <2>7. FailedWait'
    BY <2>1, <2>3, <2>6, NoMessageIsNone DEF Inv, FailedWait, Typed, RowsTyped
  <2>8. LockWaits' /\ LockStarted'
    BY <2>1 DEF LockWaits, LockStarted
  <2>9. CancelWaits'
    <3> SUFFICES ASSUME Asking
                 PROVE  /\ AskedFor \in Messages
                        /\ step'[AskedFor] = "waiting" /\ lock' # AskedFor
                        /\ Queued(AskedFor)' => AskedFor \in now'
      BY <2>1, CancelSame, CancelWaitsDef DEF Queued, Contains
    <3>1. /\ AskedFor \in Messages /\ step[AskedFor] = "waiting"
          /\ Queued(AskedFor) => AskedFor \in now
      BY CancelWaitsDef DEF Inv
    <3>2. AskedFor # m
      BY <3>1
    <3>3. AskedFor' = AskedFor
      BY <2>1, CancelSame
    <3>4. Queued(AskedFor)' => Queued(AskedFor)
      BY <2>2, <3>1, <3>2, <3>3 DEF Queued, Contains
    <3> QED
      BY <2>1, <2>3, <2>6, <3>1, <3>2, <3>4, NoMessageIsNone
  <2> QED
    BY <2>2, <2>4, <2>5, <2>7, <2>8, <2>9 DEF Inv, RowTypes
<1> QED
  BY <1>1, <1>2

\* The row of the message that the Send Now asks for, when rows are removed or
\* keep their places.
LEMMA CancelWaitsStill ==
  ASSUME Typed, Inv, cancel'["force-send"] = cancel["force-send"],
         \A n \in Messages : Queued(n)' => Queued(n),
         Asking => /\ step'[AskedFor] = step[AskedFor]
                   /\ lock' # AskedFor
                   /\ Queued(AskedFor)' /\ AskedFor \in now => AskedFor \in now'
  PROVE  CancelWaits'
<1> SUFFICES ASSUME Asking
             PROVE  /\ AskedFor \in Messages
                    /\ step'[AskedFor] = "waiting" /\ lock' # AskedFor
                    /\ Queued(AskedFor)' => AskedFor \in now'
  BY CancelSame, CancelWaitsDef DEF Queued, Contains
<1>1. /\ AskedFor \in Messages /\ step[AskedFor] = "waiting"
      /\ Queued(AskedFor) => AskedFor \in now
  BY CancelWaitsDef DEF Inv
<1>2. Queued(AskedFor)' => Queued(AskedFor)
  BY <1>1, CancelSame
<1> QED
  BY <1>1, <1>2

LEMMA RowTypesNow == ASSUME Typed, Inv PROVE RowTypes
  BY DEF Typed, RowsTyped, Inv, RowTypes

\* acceptQueuedMessage: what was sent has no row any more.
LEMMA InvConfirmSent ==
  ASSUME Typed, Inv, NEW m \in Messages, ConfirmSent(m)
  PROVE  Inv'
<1>1. step[m] = "answered" /\ step' = [step EXCEPT ![m] = "accepted"] /\ UNCHANGED <<cancel, sent>>
  BY DEF ConfirmSent, backend
<1>2. SentByStep'
  BY <1>1 DEF Inv, SentByStep, Typed, SendingTyped
<1>3. CASE lock # m
  <2>1. UNCHANGED <<rows, lock, verdict>>
    BY <1>3 DEF ConfirmSent
  <2> QED
    BY <1>1, <1>2, <2>1, InvSent
<1>4. CASE lock = m
  <2>1. DropRow(m) /\ lock' = NoMessage /\ verdict' = "none"
    BY <1>4 DEF ConfirmSent, Release
  <2>2. RowTypes' /\ \A n \in Messages : Queued(n)' <=> (Queued(n) /\ n # m)
    BY <2>1, DropRowDef, RowTypesNow
  <2>3. step'[m] = "accepted" /\ \A n \in Messages : n # m => step'[n] = step[n]
    BY <1>1 DEF Typed, SendingTyped
  <2>4. RowsWait'
    BY <1>4, <2>2, <2>3 DEF Inv, RowsWait
  <2>5. now' = now \ {m} /\ held' = held \ {m} /\ failed' = failed \ {m}
    BY <2>1 DEF DropRow
  <2>6. FailedWait'
    BY <2>1, <2>3, <2>5, NoMessageIsNone DEF Inv, FailedWait, Typed, RowsTyped
  <2>7. LockWaits' /\ LockStarted'
    BY <2>1 DEF LockWaits, LockStarted
  <2>8. Asking => AskedFor \in Messages /\ AskedFor # m
    BY <1>1, CancelWaitsDef DEF Inv
  <2>9. CancelWaits'
    BY <1>1, <2>1, <2>2, <2>3, <2>5, <2>8, NoMessageIsNone, CancelWaitsStill
  <2> QED
    BY <1>2, <2>2, <2>4, <2>6, <2>7, <2>9 DEF Inv, RowTypes
<1> QED
  BY <1>3, <1>4

\* Whatever is submitted has no row yet.
LEMMA InvEnqueue ==
  ASSUME Typed, Inv, NEW m \in Messages, Enqueue(m)
  PROVE  Inv'
<1>1. /\ step[m] = "new" /\ step' = [step EXCEPT ![m] = "waiting"]
      /\ queue' = Append(queue, m)
      /\ UNCHANGED <<held, failed, lock, verdict, cancel, sent>>
      /\ now' = now \/ now' = now \cup {m}
  BY DEF Enqueue, Submitted, backend, boundary
<1>2. ~Queued(m) /\ lock # m /\ m \notin failed
  BY <1>1, NoMessageIsNone DEF Inv, RowsWait, LockStarted, FailedWait
<1>3. RowTypes' /\ \A n \in Messages : Queued(n)' <=> (Queued(n) \/ n = m)
  BY <1>1, <1>2, AppendDef, RowTypesNow
<1>4. step'[m] = "waiting" /\ \A n \in Messages : n # m => step'[n] = step[n]
  BY <1>1 DEF Typed, SendingTyped
<1>5. SentByStep'
  BY <1>1, <1>4 DEF Inv, SentByStep
<1>6. RowsWait'
  BY <1>1, <1>3, <1>4 DEF Inv, RowsWait
<1>7. LockWaits' /\ LockStarted' /\ FailedWait'
  BY <1>1, <1>2, <1>4, NoMessageIsNone
  DEF Inv, LockWaits, LockStarted, FailedWait, Typed, SendingTyped, RowsTyped
<1>8. CancelWaits'
  <2> SUFFICES ASSUME Asking
               PROVE  /\ AskedFor \in Messages
                      /\ step'[AskedFor] = "waiting" /\ lock' # AskedFor
                      /\ Queued(AskedFor)' => AskedFor \in now'
    BY <1>1, CancelSame, CancelWaitsDef DEF Queued, Contains
  <2>1. /\ AskedFor \in Messages /\ step[AskedFor] = "waiting" /\ lock # AskedFor
        /\ Queued(AskedFor) => AskedFor \in now
    BY CancelWaitsDef DEF Inv
  <2>2. AskedFor # m /\ AskedFor' = AskedFor
    BY <1>1, <2>1, CancelSame
  <2>3. Queued(AskedFor)' => Queued(AskedFor)
    BY <1>3, <2>1, <2>2 DEF Queued, Contains
  <2> QED
    BY <1>1, <1>4, <2>1, <2>2, <2>3
<1> QED
  BY <1>3, <1>5, <1>6, <1>7, <1>8 DEF Inv, RowTypes

\* The sends of a message: only one that the backend accepts counts, and it
\* does so once.
LEMMA InvSending ==
  ASSUME Typed, Inv, NEW m \in Messages, Sending(m)
  PROVE  Inv'
<1>1. CASE SubmitDirect(m)
  <2>1. /\ step[m] = "new" /\ step' = [step EXCEPT ![m] = "appending"]
        /\ UNCHANGED <<rows, lock, verdict, cancel, sent>>
    BY <1>1 DEF SubmitDirect, Submitted, Reserve, boundary, backend
  <2>2. SentByStep'
    BY <2>1 DEF Inv, SentByStep, Typed, SendingTyped
  <2> QED
    BY <2>1, <2>2, InvSent
<1>2. CASE Enqueue(m)
  BY <1>2, InvEnqueue
<1>3. CASE AppendFails(m) \/ SendSuperseded(m) \/ SendRefused(m)
  BY <1>3, InvSendFails DEF AppendFails, SendSuperseded, SendRefused
<1>4. CASE SendMessage(m)
  <2>1. /\ step[m] = "appending" /\ step' = [step EXCEPT ![m] = "sending"]
        /\ UNCHANGED <<rows, lock, verdict, cancel, sent>>
    BY <1>4 DEF SendMessage, boundary, backend
  <2>2. SentByStep'
    BY <2>1 DEF Inv, SentByStep, Typed, SendingTyped
  <2> QED
    BY <2>1, <2>2, InvSent
<1>5. CASE ConfirmSent(m)
  BY <1>5, InvConfirmSent
<1>6. CASE AcceptMessage(m)
  <2>1. /\ step[m] = "sending" /\ step' = [step EXCEPT ![m] = "answered"]
        /\ sent' = [sent EXCEPT ![m] = @ + 1]
        /\ UNCHANGED <<rows, lock, verdict, cancel>>
    BY <1>6 DEF AcceptMessage, boundary
  <2>2. sent[m] = 0
    BY <2>1 DEF Inv, SentByStep
  <2>3. SentByStep'
    BY <2>1, <2>2 DEF Inv, SentByStep, Typed, SendingTyped, BackendTyped
  <2> QED
    BY <2>1, <2>3, InvSent
<1>7. CASE RefuseMessage(m)
  <2>1. /\ step[m] = "sending" /\ step' = [step EXCEPT ![m] = "refused"]
        /\ UNCHANGED <<rows, lock, verdict, cancel, sent>>
    BY <1>7 DEF RefuseMessage, boundary, backend
  <2>2. SentByStep'
    BY <2>1 DEF Inv, SentByStep, Typed, SendingTyped
  <2> QED
    BY <2>1, <2>2, InvSent
<1> QED
  BY <1>1, <1>2, <1>3, <1>4, <1>5, <1>6, <1>7 DEF Sending

\* What the user does with a row sends nothing: it only parks or frees the row,
\* moves it or removes it.
LEMMA InvRows ==
  ASSUME Typed, Inv, UNCHANGED <<step, lock, verdict, sent>>,
         cancel'["force-send"] = cancel["force-send"],
         RowTypes', \A n \in Messages : Queued(n)' => Queued(n),
         \A n \in failed' : n \in failed /\ n \in held' /\ n \notin now',
         \A n \in Messages : Queued(n)' /\ n \in now => n \in now'
  PROVE  Inv'
<1>1. SentByStep' /\ OneRow' /\ LockWaits' /\ LockStarted'
  BY DEF Inv, SentByStep, RowTypes, LockWaits, LockStarted
<1>2. RowsWait'
  BY DEF Inv, RowsWait
<1>3. FailedWait'
  BY DEF Inv, FailedWait
<1>4. Asking => AskedFor \in Messages /\ lock # AskedFor
  BY CancelWaitsDef DEF Inv
<1>5. Asking => (Queued(AskedFor)' /\ AskedFor \in now => AskedFor \in now')
  <2> SUFFICES ASSUME Asking, Queued(AskedFor)', AskedFor \in now
               PROVE  AskedFor \in now'
    OBVIOUS
  <2>1. AskedFor \in Messages /\ AskedFor' = AskedFor
    BY <1>4, CancelSame
  <2> QED
    BY <2>1 DEF Queued, Contains
<1>6. CancelWaits'
  BY <1>4, <1>5, CancelWaitsStill
<1> QED
  BY <1>1, <1>2, <1>3, <1>6 DEF Inv

LEMMA InvChanging ==
  ASSUME Typed, Inv, NEW m \in Messages, Changing(m)
  PROVE  Inv'
<1>1. UNCHANGED <<step, lock, verdict, sent, cancel>>
  BY DEF Changing, ForceSend, StartEdit, ClearRow, Reorder, sending, backend, boundary
<1>2. \A n \in failed : n \in held /\ n \notin now
  BY DEF Inv, FailedWait
<1>3. CASE ForceSend(m)
  <2>1. /\ queue' = queue
        /\ now' = now \cup {m} /\ held' = held \ {m} /\ failed' = failed \ {m}
    BY <1>3 DEF ForceSend
  <2>2. RowsKept
    BY <2>1, UnchangedRows
  <2> QED
    BY <1>1, <1>2, <2>1, <2>2, InvRows DEF RowsKept
<1>4. CASE StartEdit(m)
  <2>1. UNCHANGED rows
    BY <1>4 DEF StartEdit
  <2> QED
    BY <1>1, <2>1, InvKept DEF Asking, AskedFor
<1>5. CASE ClearRow(m)
  <2>1. DropRow(m)
    BY <1>5 DEF ClearRow
  <2>2. RowTypes' /\ \A n \in Messages : Queued(n)' <=> (Queued(n) /\ n # m)
    BY <2>1, DropRowDef, RowTypesNow
  <2>3. now' = now \ {m} /\ held' = held \ {m} /\ failed' = failed \ {m}
    BY <2>1 DEF DropRow
  <2> QED
    BY <1>1, <1>2, <2>2, <2>3, InvRows
<1>6. CASE Reorder(m)
  <2>1. RowTypes' /\ \A n \in Messages : Queued(n)' <=> Queued(n)
    BY <1>6, ReorderDef, RowTypesNow
  <2>2. UNCHANGED <<now, held, failed>>
    BY <1>6 DEF Reorder
  <2> QED
    BY <1>1, <1>2, <2>1, <2>2, InvRows
<1> QED
  BY <1>3, <1>4, <1>5, <1>6 DEF Changing

LEMMA InvParking ==
  ASSUME Typed, Inv, EndEdit \/ Stop
  PROVE  Inv'
<1>1. \A n \in failed : n \in held /\ n \notin now
  BY DEF Inv, FailedWait
<1>2. /\ UNCHANGED <<step, lock, verdict, sent, queue, now>>
      /\ held \subseteq held' /\ failed' \subseteq failed
  BY DEF EndEdit, Stop, sending, backend
<1>3. cancel'["force-send"] = cancel["force-send"]
  BY DEF EndEdit, Stop, boundary, BeginBoundary, Typed, BoundaryTyped, Cancels, Boundaries
<1>4. RowsKept
  BY <1>2, UnchangedRows
<1> QED
  BY <1>1, <1>2, <1>3, <1>4, InvRows DEF RowsKept

\* A Send Now that is refused: its row waits still, so it is a failed one.
LEMMA InvForceSendRefused ==
  ASSUME Typed, Inv, ForceSendRefused
  PROVE  Inv'
<1>1. PICK m \in Messages : m = AskedFor
  BY CancelWaitsDef DEF Inv, ForceSendRefused, Asking
<1>2. step[m] = "waiting" /\ lock # m
  BY <1>1, CancelWaitsDef DEF Inv, ForceSendRefused, Asking
<1>3. /\ FailRow(m)
      /\ UNCHANGED <<step, lock, verdict, sent>>
  BY <1>1 DEF ForceSendRefused, AskedFor, sending, backend
<1>4. ~Asking'
  BY DEF ForceSendRefused, Asking, NoCancel, Typed, BoundaryTyped, Cancels, Boundaries
<1>5. RowTypes' /\ \A n \in Messages : Queued(n)' <=> (Queued(n) \/ n = m)
  BY <1>3, FailRowDef, RowTypesNow
<1>6. now' = now \ {m} /\ held' = held \cup {m} /\ failed' = failed \cup {m}
  BY <1>3 DEF FailRow
<1>7. SentByStep' /\ LockWaits' /\ LockStarted'
  BY <1>3 DEF Inv, SentByStep, LockWaits, LockStarted
<1>8. RowsWait'
  BY <1>2, <1>3, <1>5 DEF Inv, RowsWait
<1>9. FailedWait'
  BY <1>2, <1>3, <1>6 DEF Inv, FailedWait
<1> QED
  BY <1>4, <1>5, <1>7, <1>8, <1>9, CancelWaitsDef DEF Inv, RowTypes

\* What the dispatcher takes up is a row that waits, and that did not fail.
LEMMA InvDispatching ==
  ASSUME "cancel_overtaken" \notin Circumstances,
         Typed, Inv, NEW m \in Messages, Dispatching(m)
  PROVE  Inv'
<1>1. lock = NoMessage /\ Queued(m)
  BY FirstTyped DEF Dispatching, DispatchNow, InterruptFor, AskVerdict, MayDispatch, Typed
<1>2. step[m] = "waiting" /\ verdict = "none"
  BY <1>1, NoMessageIsNone DEF Inv, RowsWait, LockWaits
<1>3. RowsKept /\ UNCHANGED <<now, held, failed, sent>>
  BY UnchangedRows DEF Dispatching, DispatchNow, InterruptFor, AskVerdict, rows, backend
<1>4. CASE DispatchNow(m)
  <2>1. /\ step' = [step EXCEPT ![m] = "appending"]
        /\ lock' = m /\ verdict' = verdict /\ cancel' = cancel
    BY <1>4 DEF DispatchNow, Reserve
  <2>2. m \notin failed
    BY <1>4, FirstTyped DEF DispatchNow, Typed, Inv, FailedWait
  <2>3. step'[m] = "appending" /\ \A n \in Messages : n # m => step'[n] = step[n]
    BY <2>1 DEF Typed, SendingTyped
  <2>4. ~Asking'
    BY <1>4, <2>1, NotAsking, CancelSame DEF DispatchNow
  <2>5. SentByStep'
    BY <1>2, <1>3, <2>3 DEF Inv, SentByStep
  <2>6. RowsWait'
    BY <1>1, <1>3, <2>1, <2>3, NoMessageIsNone DEF Inv, RowsWait, RowsKept
  <2>7. LockWaits' /\ LockStarted'
    BY <1>2, <2>1, <2>3 DEF LockWaits, LockStarted
  <2>8. FailedWait'
    BY <1>3, <2>1, <2>2, <2>3 DEF Inv, FailedWait, Typed, RowsTyped
  <2> QED
    BY <1>3, <2>4, <2>5, <2>6, <2>7, <2>8, CancelWaitsDef DEF Inv, RowsKept, RowTypes
<1>5. CASE InterruptFor(m)
  <2>1. UNCHANGED <<step, lock, verdict>> /\ m \in now
    BY <1>5, FirstTyped DEF InterruptFor, Typed, sending
  <2>2. SentByStep' /\ RowsWait' /\ LockWaits' /\ FailedWait' /\ LockStarted'
    BY <1>3, <2>1 DEF Inv, SentByStep, RowsWait, LockWaits, FailedWait, LockStarted, RowsKept
  <2>3. \/ cancel'["force-send"] = cancel["force-send"]
        \/ Asking' /\ AskedFor' = m
    <3>1. \/ cancel' = cancel
          \/ cancel' = [cancel EXCEPT !["force-send"] =
                          [at |-> "asked", message |-> m, generation |-> turn.generation]]
      BY <1>5 DEF InterruptFor, BeginBoundary
    <3> QED
      BY <3>1 DEF Asking, AskedFor, Typed, BoundaryTyped, Cancels, Boundaries
  <2>4. CASE cancel'["force-send"] = cancel["force-send"]
    <3>1. Asking => AskedFor \in Messages /\ lock # AskedFor
      BY CancelWaitsDef DEF Inv
    <3>2. CancelWaits'
      BY <1>3, <2>1, <2>4, <3>1, CancelWaitsStill DEF RowsKept
    <3> QED
      BY <1>3, <2>2, <3>2 DEF Inv, RowsKept, RowTypes
  <2>5. CASE Asking' /\ AskedFor' = m
    <3>1. CancelWaits'
      BY <1>1, <1>2, <1>3, <2>1, <2>5, CancelWaitsDef, NoMessageIsNone
    <3> QED
      BY <1>3, <2>2, <3>1 DEF Inv, RowsKept, RowTypes
  <2> QED
    BY <2>3, <2>4, <2>5
<1>6. CASE AskVerdict(m)
  <2>1. /\ lock' = m /\ UNCHANGED <<step, cancel>>
    BY <1>6 DEF AskVerdict, boundary
  <2>2. m \notin held /\ m \notin now
    BY <1>6, FirstTyped DEF AskVerdict, Natural, Typed
  <2>3. SentByStep' /\ RowsWait' /\ LockWaits' /\ FailedWait' /\ LockStarted'
    <3>1. SentByStep' /\ LockWaits' /\ LockStarted'
      BY <1>2, <1>3, <2>1 DEF Inv, SentByStep, LockWaits, LockStarted
    <3>2. RowsWait'
      BY <1>1, <1>3, <2>1, NoMessageIsNone DEF Inv, RowsWait, RowsKept
    <3>3. FailedWait'
      BY <1>3, <2>1, <2>2 DEF Inv, FailedWait
    <3> QED
      BY <3>1, <3>2, <3>3
  <2>4. Asking => AskedFor \in Messages /\ AskedFor # m
    BY <1>1, <2>2, CancelWaitsDef DEF Inv
  <2>5. CancelWaits'
    BY <1>3, <2>1, <2>4, CancelWaitsStill DEF RowsKept
  <2> QED
    BY <1>3, <2>3, <2>5 DEF Inv, RowsKept, RowTypes
<1> QED
  BY <1>4, <1>5, <1>6 DEF Dispatching

\* The row whose verdict is read waits until it is dispatched.
LEMMA InvVerdict ==
  ASSUME "cancel_overtaken" \notin Circumstances, Typed, Inv,
         BackOff \/ ParkDead \/ Rebusied \/ DispatchNatural
  PROVE  Inv'
<1>1. lock \in Messages /\ step[lock] = "waiting"
  BY DEF Inv, LockWaits, BackOff, ParkDead, Rebusied, DispatchNatural
<1>2. RowsKept /\ UNCHANGED <<now, failed, sent>> /\ held \subseteq held' /\ verdict' = "none"
      /\ cancel' = cancel
  BY UnchangedRows
  DEF BackOff, ParkDead, Rebusied, DispatchNatural, Release, rows, backend, boundary
<1>3. CASE BackOff \/ ParkDead \/ Rebusied
  <2>1. lock' = NoMessage /\ step' = step
    BY <1>3 DEF BackOff, ParkDead, Rebusied, Release
  <2>2. SentByStep' /\ RowsWait' /\ LockWaits' /\ LockStarted'
    BY <1>1, <1>2, <2>1 DEF Inv, SentByStep, RowsWait, LockWaits, LockStarted, RowsKept
  <2>3. FailedWait'
    BY <1>2, <2>1, NoMessageIsNone DEF Inv, FailedWait, Typed, RowsTyped
  <2>4. Asking => AskedFor \in Messages /\ AskedFor # NoMessage
    BY NoMessageIsNone, CancelWaitsDef DEF Inv
  <2>5. CancelWaits'
    BY <1>2, <2>1, <2>4, CancelWaitsStill DEF RowsKept
  <2> QED
    BY <1>2, <2>2, <2>3, <2>5 DEF Inv, RowsKept, RowTypes
<1>4. CASE DispatchNatural
  <2>1. lock' = lock /\ step' = [step EXCEPT ![lock] = "appending"]
    BY <1>4 DEF DispatchNatural, Reserve
  <2>2. step'[lock] = "appending" /\ \A n \in Messages : n # lock => step'[n] = step[n]
    BY <1>1, <2>1 DEF Typed, SendingTyped
  <2>3. SentByStep' /\ LockWaits' /\ LockStarted'
    BY <1>1, <1>2, <2>1, <2>2 DEF Inv, SentByStep, LockWaits, LockStarted
  <2>4. RowsWait'
    BY <1>2, <2>1, <2>2 DEF Inv, RowsWait, RowsKept
  <2>5. FailedWait'
    BY <1>2, <2>1, <2>2 DEF Inv, FailedWait, Typed, RowsTyped
  <2>6. ~Asking'
    BY <1>2, <1>4, NotAsking, CancelSame DEF DispatchNatural
  <2> QED
    BY <1>2, <2>3, <2>4, <2>5, <2>6, CancelWaitsDef DEF Inv, RowsKept, RowTypes
<1> QED
  BY <1>3, <1>4

\* What the backend, the timer and the answers do sends nothing.
LEMMA InvElsewhere ==
  ASSUME Typed, Inv,
         \/ UNCHANGED vars
         \/ \E kind \in Boundaries : Cancel(kind) \/ CancelFails(kind) \/ CancelAnswered(kind)
         \/ StopRefused \/ Deadman \/ ReadVerdict \/ ReadVerdictFails
         \/ DeliverChannel \/ DeliverEvent \/ RunnerStarts \/ RunnerEnds \/ RunnerFails
  PROVE  Inv'
<1>1. CASE \/ UNCHANGED vars
           \/ StopRefused \/ Deadman \/ ReadVerdict \/ ReadVerdictFails
           \/ DeliverChannel \/ DeliverEvent \/ RunnerStarts \/ RunnerEnds \/ RunnerFails
  <2>1. /\ UNCHANGED <<rows, step, lock, sent>>
        /\ verdict' # "none" => verdict # "none"
    BY <1>1 DEF vars, StopRefused, Deadman, ReadVerdict, ReadVerdictFails, DeliverChannel,
                DeliverEvent, RunnerStarts, RunnerEnds, RunnerFails, sending, backend
  <2>2. cancel' = cancel \/ cancel' = [cancel EXCEPT !["stop"] = NoCancel]
    BY <1>1 DEF vars, StopRefused, Deadman, ReadVerdict, ReadVerdictFails, DeliverChannel,
                DeliverEvent, RunnerStarts, RunnerEnds, RunnerFails, boundary
  <2>3. cancel'["force-send"] = cancel["force-send"]
    BY <2>2 DEF Typed, BoundaryTyped, Cancels, Boundaries
  <2> QED
    BY <2>1, <2>3, CancelSame, InvKept
<1>2. ASSUME NEW kind \in Boundaries, Cancel(kind) \/ CancelFails(kind) \/ CancelAnswered(kind)
      PROVE  Inv'
  <2>1. UNCHANGED <<rows, step, lock, verdict, sent>>
    BY <1>2 DEF Cancel, CancelFails, CancelAnswered, sending, backend
  <2>2. \/ cancel' = [cancel EXCEPT ![kind] = NoCancel]
        \/ cancel[kind].at = "asked" /\ cancel' = [cancel EXCEPT ![kind].at = "done"]
        \/ cancel[kind].at = "asked" /\ cancel' = [cancel EXCEPT ![kind].at = "refused"]
    BY <1>2 DEF Cancel, CancelFails, CancelAnswered
  <2>3. Asking' => Asking /\ AskedFor' = AskedFor
    BY <2>2 DEF Asking, AskedFor, NoCancel, Typed, BoundaryTyped, Cancels, Boundaries
  <2> QED
    BY <2>1, <2>3, InvKept
<1> QED
  BY <1>1, <1>2

LEMMA StepInv ==
  ASSUME "cancel_overtaken" \notin Circumstances, Typed, Inv, [Next]_vars
  PROVE  Inv'
<1>1. CASE UNCHANGED vars
  BY <1>1, InvElsewhere
<1>2. CASE Next
  BY <1>2, InvSending, InvChanging, InvDispatching, InvParking, InvForceSendRefused, InvVerdict,
     InvElsewhere DEF Next
<1> QED
  BY <1>1, <1>2

LEMMA InitInv == Init => Inv
<1> SUFFICES ASSUME Init PROVE Inv
  OBVIOUS
<1>1. \A m \in Messages : step[m] = "new" /\ sent[m] = 0
  BY DEF Init
<1>2. \A m \in Messages : ~Queued(m)
  BY DEF Init, Queued, Contains
<1>3. OneRow
  BY DEF Init, OneRow
<1>4. SentByStep /\ RowsWait /\ LockWaits /\ FailedWait /\ LockStarted
  BY <1>1, <1>2 DEF Init, SentByStep, RowsWait, LockWaits, FailedWait, LockStarted
<1>5. CancelWaits
  BY DEF Init, CancelWaits, Boundaries, NoCancel
<1> QED
  BY <1>3, <1>4, <1>5 DEF Inv

LEMMA QueueInvariant ==
  ASSUME "cancel_overtaken" \notin Circumstances
  PROVE  Spec => [](Typed /\ Inv)
<1>1. Typed /\ Inv /\ [Next]_vars => Typed' /\ Inv'
  BY StepTyped, StepInv
<1> QED
  BY <1>1, InitTyped, InitInv, PTL DEF Spec

\* However a message comes back to the queue - by a failed append, a refused or a
\* superseded send, or a refused Send Now - the backend accepts it at most once,
\* unless a cancel is overtaken by what is dispatched after it.
THEOREM QueueSentOnce ==
  ASSUME "cancel_overtaken" \notin Circumstances
  PROVE  Spec => []SentOnce
<1>1. Inv => SentOnce
  BY DEF Inv, SentByStep, SentOnce
<1> QED
  BY <1>1, QueueInvariant, PTL

\* Under the same condition a row that is shown as failed was not sent, so that
\* sending it again is never a second send.
THEOREM QueueFailedWasNotSent ==
  ASSUME "cancel_overtaken" \notin Circumstances
  PROVE  Spec => []FailedWasNotSent
<1>1. Typed /\ Inv => FailedWasNotSent
  BY DEF Typed, RowsTyped, Inv, SentByStep, FailedWait, FailedWasNotSent
<1> QED
  BY <1>1, QueueInvariant, PTL

-----------------------------------------------------------------------------
(* What a Stop parks while the dispatcher is at work. *)

\* What a turn may become, but for one that is restored.
TurnMoves ==
  \/ turn' = turn \/ turn' = BeginTurnDispatch(turn) \/ turn' = ConfirmTurnRunning(turn)
  \/ turn' = BeginTurnStopping(turn) \/ turn' = ForceTurnIdle(turn)
  \/ \E g \in Nat : turn' = MarkTurnRunning(turn, g) \/ turn' = MarkTurnTerminal(turn, g)

\* What is sent naturally was not parked when it was taken up, and a Stop that
\* parks it afterwards supersedes it.
ParkedInv ==
  lock # NoMessage /\ natural =>
    /\ verdict # "none" => lock \notin held
    /\ step[lock] = "appending" =>
         /\ ~Asking /\ dispatchOf[lock] <= turn.generation
         /\ lock \in held => Superseded(lock)

\* A superseded send stays so, for whatever opens a turn numbers it anew.
LEMMA StaysSuperseded ==
  ASSUME Typed, TurnMoves, NEW m \in Messages, dispatchOf'[m] = dispatchOf[m],
         dispatchOf[m] <= turn.generation
  PROVE  dispatchOf'[m] <= turn'.generation /\ (Superseded(m) => Superseded(m)')
<1>1. /\ turn = [phase |-> turn.phase, generation |-> turn.generation]
      /\ turn.phase \in Phases /\ turn.generation \in Nat /\ dispatchOf[m] \in Nat
  BY DEF Typed, Turns, SendingTyped
<1>2. turn.generation <= turn'.generation
  BY <1>1 DEF TurnMoves, BeginTurnDispatch, ConfirmTurnRunning, BeginTurnStopping, ForceTurnIdle,
              MarkTurnRunning, MarkTurnTerminal
<1>3. turn'.generation \in Nat
  BY LifecycleTyped DEF Typed, TurnMoves, Turns
<1>4. CASE turn'.generation # turn.generation
  BY <1>1, <1>2, <1>3, <1>4 DEF Superseded
<1>5. CASE turn'.generation = turn.generation
  <2>1. turn.phase \notin {"dispatching", "working"} => turn'.phase \notin {"dispatching", "working"}
    BY <1>1, <1>5 DEF TurnMoves, BeginTurnDispatch, ConfirmTurnRunning, BeginTurnStopping,
                      ForceTurnIdle, MarkTurnRunning, RunningAccepted, Concerns, MarkTurnTerminal
  <2> QED BY <1>5, <2>1 DEF Superseded
<1> QED BY <1>4, <1>5

\* A step that does not park the message, nor take up another.
LEMMA ParkedKept ==
  ASSUME Typed, ParkedInv, TurnMoves,
         \/ lock' = NoMessage \/ natural' = FALSE
         \/ /\ lock' = lock /\ natural' = natural /\ dispatchOf'[lock] = dispatchOf[lock]
            /\ verdict' # "none" => verdict # "none"
            /\ step'[lock] = "appending" => step[lock] = "appending"
            /\ lock \in held' => lock \in held
            /\ Asking' => Asking
  PROVE  ParkedInv'
<1> SUFFICES ASSUME lock' # NoMessage, natural'
             PROVE  /\ verdict' # "none" => lock' \notin held'
                    /\ step'[lock'] = "appending" =>
                         /\ ~Asking' /\ dispatchOf'[lock'] <= turn'.generation
                         /\ lock' \in held' => Superseded(lock)'
  BY DEF ParkedInv, Superseded
<1>1. /\ lock \in Messages /\ lock' = lock /\ natural
      /\ dispatchOf'[lock] = dispatchOf[lock]
  BY DEF Typed, SendingTyped
<1>2. /\ verdict # "none" => lock \notin held
      /\ step[lock] = "appending" =>
           ~Asking /\ dispatchOf[lock] <= turn.generation /\ (lock \in held => Superseded(lock))
  BY <1>1, NoMessageIsNone DEF ParkedInv
<1>3. PICK m \in Messages : m = lock
  BY <1>1
<1>4. step[m] = "appending" =>
        dispatchOf'[m] <= turn'.generation /\ (Superseded(m) => Superseded(m)')
  BY <1>1, <1>2, <1>3, StaysSuperseded
<1>5. Superseded(m)' <=> Superseded(lock)'
  BY <1>1, <1>3 DEF Superseded
<1> QED BY <1>1, <1>2, <1>3, <1>4, <1>5

\* The sends of a message: that of the lock goes on or ends.
LEMMA ParkedSending ==
  ASSUME Typed, Inv, ParkedInv, NEW n \in Messages, Sending(n)
  PROVE  ParkedInv'
<1>0. /\ step \in [Messages -> Steps] /\ dispatchOf \in [Messages -> Nat]
      /\ lock # NoMessage => lock \in Messages /\ step[lock] # "new"
  BY DEF Typed, SendingTyped, Inv, LockStarted
<1>1. CASE SubmitDirect(n) \/ Enqueue(n)
  <2>1. TurnMoves
    BY <1>1 DEF SubmitDirect, Reserve, Enqueue, TurnMoves
  <2>2. /\ UNCHANGED <<lock, natural, verdict, held, cancel>> /\ step[n] = "new"
        /\ \A m \in Messages : m # n => step'[m] = step[m] /\ dispatchOf'[m] = dispatchOf[m]
    BY <1>0, <1>1 DEF SubmitDirect, Submitted, Reserve, Enqueue, boundary, rows
  <2>3. lock # NoMessage => step'[lock] = step[lock] /\ dispatchOf'[lock] = dispatchOf[lock]
    BY <1>0, <2>2
  <2> QED BY <2>1, <2>2, <2>3, ParkedKept DEF Asking
<1>2. CASE AppendFails(n) \/ SendSuperseded(n) \/ SendRefused(n)
  <2>1. TurnMoves
    BY <1>0, <1>2 DEF AppendFails, SendSuperseded, SendRefused, SendFails, TurnMoves
  <2>2. UNCHANGED <<dispatchOf, cancel>>
    BY <1>2 DEF AppendFails, SendSuperseded, SendRefused, SendFails
  <2>3. CASE lock = n
    BY <1>2, <2>1, <2>3, ParkedKept DEF AppendFails, SendSuperseded, SendRefused, SendFails, Release
  <2>4. CASE lock # n
    <3>1. /\ step' = [step EXCEPT ![n] = "failed"]
          /\ UNCHANGED <<held, lock, verdict, natural>>
      BY <1>2, <2>4 DEF AppendFails, SendSuperseded, SendRefused, SendFails, rows
    <3>2. lock # NoMessage => step'[lock] = step[lock]
      BY <1>0, <2>4, <3>1
    <3> QED BY <2>1, <2>2, <3>1, <3>2, ParkedKept DEF Asking
  <2> QED BY <2>3, <2>4
<1>3. CASE SendMessage(n) \/ AcceptMessage(n) \/ RefuseMessage(n)
  <2>1. /\ UNCHANGED <<turn, lock, natural, verdict, held, cancel, dispatchOf>>
        /\ \E s \in {"sending", "answered", "refused"} : step' = [step EXCEPT ![n] = s]
    BY <1>3 DEF SendMessage, AcceptMessage, RefuseMessage, boundary, rows
  <2>2. lock # NoMessage => (step'[lock] = "appending" => step[lock] = "appending")
    BY <1>0, <2>1
  <2> QED BY <2>1, <2>2, ParkedKept DEF Asking, TurnMoves
<1>4. CASE ConfirmSent(n)
  <2>1. TurnMoves /\ UNCHANGED <<dispatchOf, cancel>>
    BY <1>4 DEF ConfirmSent, TurnMoves
  <2>2. CASE lock = n
    BY <1>4, <2>1, <2>2, ParkedKept DEF ConfirmSent, Release
  <2>3. CASE lock # n
    <3>1. step' = [step EXCEPT ![n] = "accepted"] /\ UNCHANGED <<held, lock, verdict, natural>>
      BY <1>4, <2>3 DEF ConfirmSent, rows
    <3>2. lock # NoMessage => step'[lock] = step[lock]
      BY <1>0, <2>3, <3>1
    <3> QED BY <2>1, <3>1, <3>2, ParkedKept DEF Asking
  <2> QED BY <2>2, <2>3
<1> QED BY <1>1, <1>2, <1>3, <1>4 DEF Sending

\* The user parks nothing but with a Stop, which is not pressed while the backend
\* is asked, and which stops what is being prepared.
LEMMA ParkedByUser ==
  ASSUME "verdict_overtaken" \notin Circumstances, Typed, ParkedInv,
         (\E n \in Messages : Changing(n)) \/ EndEdit \/ Stop
  PROVE  ParkedInv'
<1>1. CASE (\E n \in Messages : Changing(n)) \/ EndEdit
  <2>1. UNCHANGED <<turn, lock, natural, verdict, cancel, step, dispatchOf>> /\ held' \subseteq held
    BY <1>1 DEF Changing, ForceSend, StartEdit, ClearRow, DropRow, Reorder, EndEdit, sending,
                boundary, rows
  <2> QED BY <2>1, ParkedKept DEF Asking, TurnMoves
<1>2. CASE Stop
  <2>1. /\ UNCHANGED <<lock, natural, verdict, step, dispatchOf>> /\ verdict = "none"
        /\ turn' = BeginTurnStopping(turn) /\ turn.phase # "idle"
    BY <1>2 DEF Stop, BeginBoundary, Untouched, Allowed, sending
  <2>2. Asking' <=> Asking
    BY <1>2 DEF Stop, BeginBoundary, Asking, Typed, BoundaryTyped, Cancels, Boundaries
  <2>3. turn'.phase = "stopping" /\ turn'.generation = turn.generation
    BY <2>1 DEF BeginTurnStopping, Typed, Turns
  <2> QED BY <2>1, <2>2, <2>3 DEF ParkedInv, Superseded
<1> QED BY <1>1, <1>2

LEMMA ParkedDispatching ==
  ASSUME "cancel_overtaken" \notin Circumstances, Typed, Inv, ParkedInv,
         (\E n \in Messages : Dispatching(n)) \/ BackOff \/ ParkDead \/ Rebusied \/ DispatchNatural
  PROVE  ParkedInv'
<1>1. CASE (\E n \in Messages : DispatchNow(n)) \/ BackOff \/ ParkDead \/ Rebusied
  BY <1>1 DEF DispatchNow, BackOff, ParkDead, Rebusied, Release, ParkedInv
<1>2. CASE \E n \in Messages : InterruptFor(n)
  BY <1>2 DEF InterruptFor, MayDispatch, sending, ParkedInv
<1>3. ASSUME NEW n \in Messages, AskVerdict(n) PROVE ParkedInv'
  <2>1. lock = NoMessage /\ Queued(n)
    BY <1>3, FirstTyped DEF AskVerdict, MayDispatch, Typed
  <2>2. step[n] = "waiting"
    BY <2>1, NoMessageIsNone DEF Inv, RowsWait
  <2>3. lock' = n /\ n \notin held' /\ step'[n] = "waiting"
    BY <1>3, <2>2 DEF AskVerdict, rows
  <2> QED BY <2>3 DEF ParkedInv
<1>4. CASE DispatchNatural
  <2>1. lock \in Messages
    BY <1>4 DEF DispatchNatural, Inv, LockWaits
  <2>2. /\ UNCHANGED <<lock, natural, held, cancel>> /\ verdict' = "none" /\ verdict # "none"
        /\ Reserve(lock) /\ turn' = BeginTurnDispatch(turn)
        /\ dispatchOf' = [dispatchOf EXCEPT ![lock] = turn'.generation]
    BY <1>4 DEF DispatchNatural, Reserve, boundary, rows
  <2>3. turn'.generation \in Nat
    BY <2>2, LifecycleTyped DEF Typed, Turns
  <2>4. dispatchOf'[lock] <= turn'.generation /\ ~Asking'
    BY <2>1, <2>2, <2>3, NotAsking DEF Typed, SendingTyped, Asking
  <2>5. natural => lock \notin held
    BY <2>1, <2>2, NoMessageIsNone DEF ParkedInv
  <2> QED BY <2>2, <2>4, <2>5 DEF ParkedInv
<1> QED BY <1>1, <1>2, <1>3, <1>4 DEF Dispatching

\* A refused Send Now parks the row it was for, which is not being sent.
LEMMA ParkedElsewhere ==
  ASSUME Typed, Inv, ParkedInv,
         \/ UNCHANGED vars
         \/ \E kind \in Boundaries : Cancel(kind) \/ CancelFails(kind) \/ CancelAnswered(kind)
         \/ StopRefused \/ ForceSendRefused \/ Deadman \/ ReadVerdict \/ ReadVerdictFails
         \/ DeliverChannel \/ DeliverEvent \/ RunnerStarts \/ RunnerEnds \/ RunnerFails
  PROVE  ParkedInv'
<1>1. CASE \/ UNCHANGED vars
           \/ \E kind \in Boundaries : Cancel(kind) \/ CancelFails(kind) \/ CancelAnswered(kind)
           \/ StopRefused \/ Deadman
  <2>1. UNCHANGED <<lock, natural, held, verdict, step, dispatchOf>>
    BY <1>1 DEF vars, Cancel, CancelFails, CancelAnswered, StopRefused, Deadman, sending, rows
  <2>2. TurnMoves
    BY <1>1 DEF vars, Cancel, CancelFails, CancelAnswered, StopRefused, Deadman, TurnMoves
  <2>3. Asking' => Asking
    BY <1>1 DEF vars, Cancel, CancelFails, CancelAnswered, StopRefused, Deadman, boundary, Asking,
                NoCancel, Typed, BoundaryTyped, Cancels, Boundaries
  <2> QED BY <2>1, <2>2, <2>3, ParkedKept
<1>2. CASE \/ ReadVerdict \/ ReadVerdictFails \/ DeliverChannel \/ DeliverEvent
           \/ RunnerStarts \/ RunnerEnds \/ RunnerFails
  <2>1. /\ UNCHANGED <<lock, natural, held, step, dispatchOf, cancel>>
        /\ verdict' # "none" => verdict # "none"
    BY <1>2 DEF ReadVerdict, ReadVerdictFails, DeliverChannel, DeliverEvent, RunnerStarts,
                RunnerEnds, RunnerFails, sending, rows, boundary
  <2>2. TurnMoves
    <3>1. CASE DeliverChannel
      <4>1. channel # <<>> /\ channel \in Seq(Statuses)
        BY <3>1 DEF DeliverChannel, Typed, ToldTyped
      <4>2. Head(channel) \in Statuses
        BY <4>1
      <4>3. Head(channel).intent \in Messages
        BY <4>2 DEF Statuses
      <4> QED BY <3>1, <4>3 DEF DeliverChannel, TurnMoves, Typed, SendingTyped
    <3>2. CASE ~DeliverChannel
      BY <1>2, <3>2 DEF ReadVerdict, ReadVerdictFails, DeliverEvent, RunnerStarts, RunnerEnds,
                        RunnerFails, TurnMoves
    <3> QED BY <3>1, <3>2
  <2> QED BY <2>1, <2>2, ParkedKept DEF Asking
<1>3. CASE ForceSendRefused
  <2>1. /\ UNCHANGED <<lock, natural, verdict, step, dispatchOf>> /\ Asking
        /\ held' = held \cup {AskedFor}
    BY <1>3 DEF ForceSendRefused, FailRow, Asking, AskedFor, sending
  <2>2. lock # AskedFor
    BY <2>1, CancelWaitsDef DEF Inv
  <2> QED BY <2>1, <2>2 DEF ParkedInv
<1> QED BY <1>1, <1>2, <1>3

\* A row that a Stop parks is not sent naturally, unless the user acts on the queue
\* while the backend is asked, or a cancel is overtaken.
THEOREM QueueHeldNeverDrained ==
  ASSUME Circumstances \cap {"verdict_overtaken", "cancel_overtaken"} = {}
  PROVE  Spec => HeldNeverDrained
<1>0. Spec => [](Typed /\ Inv)
  BY QueueInvariant
<1>1. Init => ParkedInv
  BY DEF Init, ParkedInv
<1>2. Typed /\ Inv /\ ParkedInv /\ [Next]_vars => ParkedInv'
  BY ParkedSending, ParkedByUser, ParkedDispatching, ParkedElsewhere DEF Next
<1>3. Typed /\ ParkedInv /\ [Next]_vars
      => [\A m \in Messages : (SendMessage(m) /\ lock = m /\ natural) => m \notin held]_vars
  BY NoMessageIsNone DEF ParkedInv, SendMessage
<1> QED
  BY <1>0, <1>1, <1>2, <1>3, PTL DEF Spec, HeldNeverDrained

-----------------------------------------------------------------------------
(* What the backend has accepted when a message follows naturally. *)

Going(m) == step[m] \in {"appending", "sending"}

\* From the answer that it is ready until the message is accepted, the backend has
\* nothing else to do: who would send directly waits behind the row, or is told to
\* queue since a Stop parked it.
ReadyInv ==
  lock # NoMessage /\ natural /\ Queued(lock) =>
    /\ verdict = "ready" \/ Going(lock) =>
         jobs = <<>> /\ \A n \in Messages : Going(n) => n = lock
    /\ (verdict # "none" \/ Going(lock)) /\ lock \in held => postStop

\* ReadyInv of the message m that has the lock.
ReadyFor(m) ==
  /\ verdict = "ready" \/ Going(m) => jobs = <<>> /\ \A n \in Messages : Going(n) => n = m
  /\ (verdict # "none" \/ Going(m)) /\ m \in held => postStop

LEMMA ReadyNext ==
  ASSUME SendingTyped',
         \A m \in Messages : lock' = m /\ natural' /\ Queued(m)' => ReadyFor(m)'
  PROVE  ReadyInv'
<1> SUFFICES ASSUME lock' # NoMessage, natural', Queued(lock)' PROVE ReadyFor(lock)'
  BY DEF ReadyInv, ReadyFor, Going
<1>1. PICK m \in Messages : m = lock'
  BY DEF SendingTyped
<1>2. Queued(m)' /\ (ReadyFor(m)' => ReadyFor(lock)')
  BY <1>1 DEF Queued, Contains, ReadyFor, Going
<1> QED BY <1>1, <1>2

LEMMA ReadyNow ==
  ASSUME ReadyInv, NEW m \in Messages, lock = m, natural, Queued(m)
  PROVE  ReadyFor(m)
  BY NoMessageIsNone DEF ReadyInv, ReadyFor

\* A step that neither sends anything nor takes up a message.
LEMMA ReadyKept ==
  ASSUME SendingTyped', ReadyInv,
         \/ lock' = NoMessage \/ natural' = FALSE
         \/ /\ lock' = lock /\ natural' = natural
            /\ \A m \in Messages : Queued(m)' => Queued(m) \/ m # lock
            /\ verdict' = "ready" => verdict = "ready"
            /\ verdict' # "none" => verdict # "none"
            /\ jobs = <<>> => jobs' = <<>>
            /\ \A n \in Messages : Going(n)' => Going(n)
            /\ lock \in held' => lock \in held \/ postStop'
            /\ postStop => postStop'
  PROVE  ReadyInv'
<1> SUFFICES ASSUME NEW m \in Messages, lock' = m, natural', Queued(m)' PROVE ReadyFor(m)'
  BY ReadyNext
<1>1. lock = m /\ natural /\ Queued(m)
  BY NoMessageIsNone
<1>2. ReadyFor(m)
  BY <1>1, ReadyNow
<1> QED BY <1>1, <1>2, NoMessageIsNone DEF ReadyFor

\* The sends of a message: what others send waits for the row.
LEMMA ReadySending ==
  ASSUME Typed, SendingTyped', Inv, ReadyInv, NEW n \in Messages, Sending(n)
  PROVE  ReadyInv'
<1>0. step \in [Messages -> Steps] /\ (lock # NoMessage => step[lock] # "new")
  BY DEF Typed, SendingTyped, Inv, LockStarted
<1>1. CASE SubmitDirect(n)
  <2> SUFFICES ASSUME NEW m \in Messages, lock' = m, natural', Queued(m)' PROVE ReadyFor(m)'
    BY ReadyNext
  <2>1. /\ lock = m /\ natural /\ Queued(m)
        /\ UNCHANGED <<verdict, jobs, held, postStop>>
        /\ step' = [step EXCEPT ![n] = "appending"] /\ step[n] = "new"
        /\ ~postStop /\ ~NaturalSibling
    BY <1>1 DEF SubmitDirect, Submitted, Reserve, rows, boundary, backend, Queued, Contains
  <2>2. ReadyFor(m) /\ m \in held
    BY <2>1, ReadyNow DEF NaturalSibling
  <2>3. verdict = "none" /\ ~Going(m)
    BY <2>1, <2>2 DEF ReadyFor
  <2>4. m # n /\ step'[m] = step[m]
    BY <1>0, <2>1, NoMessageIsNone
  <2> QED BY <2>1, <2>3, <2>4 DEF ReadyFor, Going
<1>2. CASE Enqueue(n)
  <2>1. /\ queue' = Append(queue, n) /\ step' = [step EXCEPT ![n] = "waiting"] /\ step[n] = "new"
        /\ UNCHANGED <<lock, natural, verdict, jobs, held, postStop>>
    BY <1>2 DEF Enqueue, Submitted, boundary, backend
  <2>2. ~Queued(n) /\ n # lock
    BY <1>0, <2>1, NoMessageIsNone DEF Inv, RowsWait
  <2>3. \A m \in Messages : Queued(m)' <=> (Queued(m) \/ m = n)
    BY <2>1, <2>2, AppendDef, RowTypesNow
  <2>4. \A m \in Messages : Going(m)' => Going(m)
    BY <1>0, <2>1 DEF Going
  <2> QED BY <2>1, <2>2, <2>3, <2>4, ReadyKept
<1>3. CASE AppendFails(n) \/ SendSuperseded(n) \/ SendRefused(n)
  <2>1. UNCHANGED <<jobs, postStop>> /\ SendFails(n)
    BY <1>3 DEF AppendFails, SendSuperseded, SendRefused, SendFails, backend
  <2>2. CASE lock = n
    BY <2>1, <2>2, ReadyKept DEF SendFails, Release
  <2>3. CASE lock # n
    <3>1. step' = [step EXCEPT ![n] = "failed"] /\ UNCHANGED <<queue, held, lock, verdict, natural>>
      BY <2>1, <2>3 DEF SendFails, rows
    <3>2. \A m \in Messages : (Going(m)' => Going(m)) /\ (Queued(m)' => Queued(m))
      BY <1>0, <3>1 DEF Going, Queued, Contains
    <3> QED BY <2>1, <3>1, <3>2, ReadyKept
  <2> QED BY <2>2, <2>3
<1>4. CASE SendMessage(n) \/ RefuseMessage(n)
  <2>1. /\ UNCHANGED <<queue, held, lock, verdict, natural, jobs, postStop>>
        /\ \E s \in {"sending", "refused"} : step' = [step EXCEPT ![n] = s]
        /\ Going(n)
    BY <1>4 DEF SendMessage, RefuseMessage, rows, boundary, backend, Going
  <2>2. \A m \in Messages : (Going(m)' => Going(m)) /\ (Queued(m)' => Queued(m))
    BY <1>0, <2>1 DEF Going, Queued, Contains
  <2> QED BY <2>1, <2>2, ReadyKept
<1>5. CASE AcceptMessage(n)
  <2> SUFFICES ASSUME NEW m \in Messages, lock' = m, natural', Queued(m)' PROVE ReadyFor(m)'
    BY ReadyNext
  <2>1. /\ lock = m /\ natural /\ Queued(m)
        /\ UNCHANGED <<verdict, held, postStop>>
        /\ step' = [step EXCEPT ![n] = "answered"] /\ step[n] = "sending"
    BY <1>5 DEF AcceptMessage, rows, boundary, Queued, Contains
  <2>2. ReadyFor(m)
    BY <2>1, ReadyNow
  <2>3. CASE n = m
    BY <1>0, <2>1, <2>3 DEF ReadyFor, Going, Inv, LockWaits
  <2>4. CASE n # m
    <3>1. verdict # "ready" /\ ~Going(m)
      BY <2>1, <2>2, <2>4 DEF ReadyFor, Going
    <3> QED BY <1>0, <2>1, <2>2, <2>4, <3>1 DEF ReadyFor, Going
  <2> QED BY <2>3, <2>4
<1>6. CASE ConfirmSent(n)
  <2>1. UNCHANGED <<jobs, postStop>>
    BY <1>6 DEF ConfirmSent, backend
  <2>2. CASE lock = n
    BY <1>6, <2>2, ReadyKept DEF ConfirmSent, Release
  <2>3. CASE lock # n
    <3>1. /\ step' = [step EXCEPT ![n] = "accepted"]
          /\ UNCHANGED <<queue, held, lock, verdict, natural>>
      BY <1>6, <2>3 DEF ConfirmSent, rows
    <3>2. \A m \in Messages : (Going(m)' => Going(m)) /\ (Queued(m)' => Queued(m))
      BY <1>0, <3>1 DEF Going, Queued, Contains
    <3> QED BY <2>1, <3>1, <3>2, ReadyKept
  <2> QED BY <2>2, <2>3
<1> QED BY <1>1, <1>2, <1>3, <1>4, <1>5, <1>6 DEF Sending

\* What the user does: a row is removed, never put back, and a Stop that parks one
\* has what is submitted next wait for a Send Now.
LEMMA ReadyByUser ==
  ASSUME Typed, SendingTyped', Inv, ReadyInv, (\E n \in Messages : Changing(n)) \/ EndEdit \/ Stop
  PROVE  ReadyInv'
<1>1. /\ UNCHANGED <<lock, natural, verdict, jobs, step>>
      /\ held' \subseteq held \/ postStop' = TRUE
      /\ postStop => postStop'
  <2>1. CASE \E n \in Messages : Changing(n)
    BY <2>1 DEF Changing, ForceSend, StartEdit, ClearRow, DropRow, Reorder, sending, boundary,
                backend, rows
  <2>2. CASE EndEdit
    BY <2>2 DEF EndEdit, sending, boundary, backend
  <2>3. CASE Stop
    BY <2>3 DEF Stop, sending, backend
  <2> QED BY <2>1, <2>2, <2>3
<1>2. \A m \in Messages : Queued(m)' => Queued(m)
  <2>1. CASE \E n \in Messages : ClearRow(n)
    BY <2>1, DropRowDef, RowTypesNow DEF ClearRow
  <2>2. CASE \E n \in Messages : Reorder(n)
    BY <2>2, ReorderDef, RowTypesNow
  <2>3. CASE queue' = queue
    BY <2>3 DEF Queued, Contains
  <2> QED BY <2>1, <2>2, <2>3 DEF Changing, ForceSend, StartEdit, EndEdit, Stop, rows
<1>3. \A m \in Messages : Going(m)' => Going(m)
  BY <1>1 DEF Going
<1> QED BY <1>1, <1>2, <1>3, ReadyKept

\* The answer that the backend is ready means that it has nothing, and that nothing
\* is on its way to it.
LEMMA ReadyDispatching ==
  ASSUME "slow_start" \notin Circumstances, Typed, SendingTyped', Inv, ReadyInv,
         \/ \E n \in Messages : Dispatching(n)
         \/ ReadVerdict \/ ReadVerdictFails
         \/ BackOff \/ ParkDead \/ Rebusied \/ DispatchNatural
  PROVE  ReadyInv'
<1>0. step \in [Messages -> Steps]
  BY DEF Typed, SendingTyped
<1>1. CASE (\E n \in Messages : DispatchNow(n)) \/ BackOff \/ ParkDead \/ Rebusied
  BY <1>1, ReadyKept DEF DispatchNow, BackOff, ParkDead, Rebusied, Release
<1>2. CASE \E n \in Messages : InterruptFor(n)
  BY <1>2, ReadyKept DEF InterruptFor, MayDispatch, sending
<1>3. ASSUME NEW n \in Messages, AskVerdict(n) PROVE ReadyInv'
  <2>1. lock = NoMessage /\ Queued(n) /\ lock' = n /\ verdict' = "asked" /\ step' = step
    BY <1>3, FirstTyped DEF AskVerdict, MayDispatch, Typed
  <2>2. ~Going(n)' /\ n \notin held'
    BY <1>3, <2>1, NoMessageIsNone DEF AskVerdict, Inv, RowsWait, Going, rows
  <2> QED BY <2>1, <2>2, ReadyNext DEF ReadyFor
<1>4. CASE ReadVerdict \/ ReadVerdictFails
  <2> SUFFICES ASSUME NEW m \in Messages, lock' = m, natural', Queued(m)' PROVE ReadyFor(m)'
    BY ReadyNext
  <2>1. /\ UNCHANGED <<lock, step, jobs, running, queue, held, postStop>> /\ natural' = natural
        /\ verdict = "asked"
        /\ verdict' = "ready" => ~running /\ ~Starting
    BY <1>4 DEF ReadVerdict, ReadVerdictFails, Allowed, backend, rows, boundary
  <2>2. ~Going(m)'
    BY <2>1 DEF Inv, LockWaits, Going
  <2>3. verdict' = "ready" => jobs' = <<>> /\ \A n \in Messages : ~Going(n)'
    BY <2>1 DEF Starting, Going
  <2>4. m \in held => postStop
    <3>1. lock = m /\ natural /\ Queued(m)
      BY <2>1 DEF Queued, Contains
    <3> QED BY <2>1, <3>1, ReadyNow DEF ReadyFor
  <2> QED BY <2>1, <2>2, <2>3, <2>4 DEF ReadyFor
<1>5. CASE DispatchNatural
  <2> SUFFICES ASSUME NEW m \in Messages, lock' = m, natural', Queued(m)' PROVE ReadyFor(m)'
    BY ReadyNext
  <2>1. /\ lock = m /\ natural /\ Queued(m) /\ verdict = "ready" /\ verdict' = "none"
        /\ UNCHANGED <<jobs, held, postStop>> /\ step' = [step EXCEPT ![m] = "appending"]
    BY <1>5 DEF DispatchNatural, Reserve, backend, rows, boundary, Queued, Contains
  <2>2. ReadyFor(m)
    BY <2>1, ReadyNow
  <2> QED BY <1>0, <2>1, <2>2 DEF ReadyFor, Going
<1> QED BY <1>1, <1>2, <1>3, <1>4, <1>5 DEF Dispatching

\* A refused Send Now brings back the row it was for, which is not being sent.
LEMMA ReadyElsewhere ==
  ASSUME Typed, SendingTyped', Inv, ReadyInv,
         \/ UNCHANGED vars
         \/ \E kind \in Boundaries : Cancel(kind) \/ CancelFails(kind) \/ CancelAnswered(kind)
         \/ StopRefused \/ ForceSendRefused \/ Deadman
         \/ DeliverChannel \/ DeliverEvent \/ RunnerStarts \/ RunnerEnds \/ RunnerFails
  PROVE  ReadyInv'
<1>1. UNCHANGED <<lock, natural, verdict, step, postStop>>
  BY DEF vars, Cancel, CancelFails, CancelAnswered, StopRefused, ForceSendRefused, Deadman,
         DeliverChannel, DeliverEvent, RunnerStarts, RunnerEnds, RunnerFails, sending, boundary
<1>2. jobs = <<>> => jobs' = <<>>
  BY DEF vars, Cancel, CancelFails, CancelAnswered, StopRefused, ForceSendRefused, Deadman,
         DeliverChannel, DeliverEvent, RunnerStarts, RunnerEnds, RunnerFails, backend,
         Typed, BackendTyped
<1>3. \A m \in Messages : Going(m)' => Going(m)
  BY <1>1 DEF Going
<1>4. CASE ForceSendRefused
  <2>1. Asking /\ FailRow(AskedFor)
    BY <1>4 DEF ForceSendRefused, Asking, AskedFor
  <2>2. AskedFor \in Messages /\ lock # AskedFor
    BY <2>1, CancelWaitsDef DEF Inv
  <2>3. PICK a \in Messages : a = AskedFor
    BY <2>2
  <2>4. \A m \in Messages : Queued(m)' <=> (Queued(m) \/ m = a)
    BY <2>1, <2>3, FailRowDef, RowTypesNow
  <2>5. held' = held \cup {a}
    BY <2>1, <2>3 DEF FailRow
  <2> QED BY <1>1, <1>2, <1>3, <2>2, <2>3, <2>4, <2>5, ReadyKept
<1>5. CASE ~ForceSendRefused
  <2>1. queue' = queue /\ held' = held
    BY <1>5 DEF vars, Cancel, CancelFails, CancelAnswered, StopRefused, Deadman,
                DeliverChannel, DeliverEvent, RunnerStarts, RunnerEnds, RunnerFails, rows
  <2>2. \A m \in Messages : Queued(m)' => Queued(m)
    BY <2>1 DEF Queued, Contains
  <2> QED BY <1>1, <1>2, <1>3, <2>1, <2>2, ReadyKept
<1> QED BY <1>4, <1>5

\* A message that follows naturally, and whose row is still there, is accepted by a
\* backend that has nothing else to do, unless a cancel is overtaken, or the backend
\* is asked before what it accepted shows.
THEOREM QueueNaturalWaits ==
  ASSUME Circumstances \cap {"cancel_overtaken", "slow_start"} = {}
  PROVE  Spec => NaturalWaitsForBackend
<1>0. Spec => [](Typed /\ Inv)
  BY QueueInvariant
<1>1. Init => ReadyInv
  BY DEF Init, ReadyInv
<1>2. Typed /\ Inv /\ ReadyInv /\ [Next]_vars => ReadyInv'
  <2> SUFFICES ASSUME Typed, Inv, ReadyInv, [Next]_vars PROVE ReadyInv'
    OBVIOUS
  <2>1. SendingTyped'
    BY StepTyped DEF Typed
  <2> QED BY <2>1, ReadySending, ReadyByUser, ReadyDispatching, ReadyElsewhere DEF Next
<1>3. Typed /\ ReadyInv /\ [Next]_vars
      => [\A m \in Messages :
            (AcceptMessage(m) /\ lock = m /\ natural /\ Queued(m)) => jobs = <<>>]_vars
  BY NoMessageIsNone DEF ReadyInv, AcceptMessage, Going
<1> QED
  BY <1>0, <1>1, <1>2, <1>3, PTL DEF Spec, NaturalWaitsForBackend

-----------------------------------------------------------------------------
(* A Session that works has the end of a turn to come. *)

StopAsked == cancel["stop"].at = "asked"

Announced(m) == \E i \in 1 .. Len(channel) : channel[i] = Status("running", m)
InEvents(m) == \E i \in 1 .. Len(events) : events[i] = m
InJobs(m) == \E i \in 1 .. Len(jobs) : jobs[i] = m

\* The send of the current turn can still fail, and would end it.
Undecided(m) ==
  dispatchOf[m] = turn.generation /\ step[m] \in {"appending", "sending", "refused"}

\* The message of the current turn was accepted, and the window is not told that
\* it runs.
Answering(m) ==
  /\ dispatchOf[m] = turn.generation /\ step[m] = "answered"
  /\ Announced(m) \/ (InJobs(m) /\ ~(running /\ Head(jobs) = m))

\* Something will end whatever turn the Session works for: a turn that runs, an
\* event, or what the backend has and no Stop will discard.
Pending ==
  \/ running \/ events # <<>>
  \/ ~StopAsked /\ (jobs # <<>> \/ \E m \in Messages : Undecided(m))

\* What the backend has was accepted.
JobsSent == \A m \in Messages : InJobs(m) => sent[m] > 0

\* A start is told before the end of its turn.
EndsFollow == \A m \in Messages : Announced(m) => (running /\ Head(jobs) = m) \/ InEvents(m)

\* A dispatch has its message, and no Stop.
DispatchLive ==
  turn.phase = "dispatching" =>
    ~StopAsked /\ \E m \in Messages : Undecided(m) \/ Answering(m)

\* The Session works, or will again if the Send Now that stopped it is refused.
Works ==
  \/ turn.phase = "working"
  \/ turn.phase = "stopping" /\ Asking /\ cancel["force-send"].generation = turn.generation

WorkLive == Works => Pending

\* The generation 0 is no turn.
Numbered ==
  /\ turn.phase # "idle" => turn.generation > 0
  /\ Asking => cancel["force-send"].generation > 0

Attended == EndsFollow /\ DispatchLive /\ WorkLive /\ Numbered

-----------------------------------------------------------------------------
(* The sequences between the backend and the window. *)

LEMMA ChannelMoves ==
  ASSUME Typed, NEW m \in Messages
  PROVE  /\ \A n \in Messages : channel' = Append(channel, Status("running", n)) =>
              (Announced(m)' <=> Announced(m) \/ m = n)
         /\ \A n \in Messages : channel' = Append(channel, Status("terminal", n)) =>
              (Announced(m)' <=> Announced(m))
         /\ channel # <<>> /\ channel' = Tail(channel) =>
              (Announced(m) <=> Announced(m)' \/ Head(channel) = Status("running", m))
<1>1. channel \in Seq(Statuses) /\ Len(channel) \in Nat
  BY DEF Typed, ToldTyped
<1>2. ASSUME NEW s \in {"running", "terminal"}, NEW n \in Messages,
             channel' = Append(channel, Status(s, n))
      PROVE  Announced(m)' <=> Announced(m) \/ (s = "running" /\ m = n)
  <2>1. Status(s, n) \in Statuses
    BY StatusTyped
  <2>2. /\ Len(channel') = Len(channel) + 1 /\ channel'[Len(channel) + 1] = Status(s, n)
        /\ \A i \in 1 .. Len(channel) : channel'[i] = channel[i]
    BY <1>1, <1>2, <2>1
  <2>3. Status(s, n) = Status("running", m) <=> s = "running" /\ m = n
    BY DEF Status
  <2> QED BY <1>1, <2>2, <2>3 DEF Announced
<1>3. ASSUME channel # <<>>, channel' = Tail(channel)
      PROVE  Announced(m) <=> Announced(m)' \/ Head(channel) = Status("running", m)
  <2>1. /\ Len(channel) >= 1 /\ Len(channel') = Len(channel) - 1 /\ Head(channel) = channel[1]
        /\ \A i \in 1 .. Len(channel) - 1 : channel'[i] = channel[i + 1]
    BY <1>1, <1>3
  <2>2. ASSUME NEW i \in 1 .. Len(channel), channel[i] = Status("running", m), i # 1
        PROVE  Announced(m)'
    <3>1. i - 1 \in 1 .. Len(channel) - 1 /\ (i - 1) + 1 = i
      BY <1>1, <2>2
    <3> QED BY <1>1, <2>1, <2>2, <3>1 DEF Announced
  <2>3. ASSUME NEW i \in 1 .. Len(channel'), channel'[i] = Status("running", m)
        PROVE  Announced(m)
    <3>1. i \in 1 .. Len(channel) - 1 /\ i + 1 \in 1 .. Len(channel)
      BY <1>1, <2>1
    <3> QED BY <2>1, <2>3, <3>1 DEF Announced
  <2>4. Announced(m)' => Announced(m)
    BY <2>3 DEF Announced
  <2>5. Head(channel) = Status("running", m) => Announced(m)
    BY <1>1, <2>1 DEF Announced
  <2>6. Announced(m) => Announced(m)' \/ Head(channel) = Status("running", m)
    BY <2>1, <2>2 DEF Announced
  <2> QED BY <2>4, <2>5, <2>6
<1> QED BY <1>2, <1>3

LEMMA EventsMove ==
  ASSUME Typed, NEW m \in Messages
  PROVE  /\ \A n \in Messages : events' = Append(events, n) =>
              events' # <<>> /\ (InEvents(m)' <=> InEvents(m) \/ m = n)
         /\ events # <<>> /\ events' = Tail(events) =>
              (InEvents(m) => InEvents(m)' \/ Head(events) = m)
<1>1. events \in Seq(Messages) /\ Len(events) \in Nat
  BY DEF Typed, ToldTyped
<1>2. ASSUME NEW n \in Messages, events' = Append(events, n)
      PROVE  events' # <<>> /\ (InEvents(m)' <=> InEvents(m) \/ m = n)
  <2>1. /\ Len(events') = Len(events) + 1 /\ events'[Len(events) + 1] = n
        /\ \A i \in 1 .. Len(events) : events'[i] = events[i]
        /\ events' # <<>>
    BY <1>1, <1>2
  <2> QED BY <1>1, <2>1 DEF InEvents
<1>3. ASSUME events # <<>>, events' = Tail(events), InEvents(m)
      PROVE  InEvents(m)' \/ Head(events) = m
  <2>1. /\ Len(events) >= 1 /\ Len(events') = Len(events) - 1 /\ Head(events) = events[1]
        /\ \A i \in 1 .. Len(events) - 1 : events'[i] = events[i + 1]
    BY <1>1, <1>3
  <2>2. PICK i \in 1 .. Len(events) : events[i] = m
    BY <1>3 DEF InEvents
  <2>3. i # 1 => i - 1 \in 1 .. Len(events) - 1 /\ (i - 1) + 1 = i
    BY <1>1
  <2> QED BY <1>1, <2>1, <2>2, <2>3 DEF InEvents
<1> QED BY <1>2, <1>3

LEMMA JobsMove ==
  ASSUME Typed, NEW m \in Messages
  PROVE  /\ \A n \in Messages : jobs' = Append(jobs, n) =>
              /\ jobs' # <<>> /\ (InJobs(m)' <=> InJobs(m) \/ m = n)
              /\ jobs # <<>> => Head(jobs') = Head(jobs)
         /\ jobs # <<>> /\ jobs' = Tail(jobs) => (InJobs(m) <=> InJobs(m)' \/ Head(jobs) = m)
         /\ InJobs(m) => jobs # <<>>
<1>1. jobs \in Seq(Messages) /\ Len(jobs) \in Nat
  BY DEF Typed, BackendTyped
<1>2. ASSUME NEW n \in Messages, jobs' = Append(jobs, n)
      PROVE  /\ jobs' # <<>> /\ (InJobs(m)' <=> InJobs(m) \/ m = n)
             /\ jobs # <<>> => Head(jobs') = Head(jobs)
  <2>1. /\ Len(jobs') = Len(jobs) + 1 /\ jobs'[Len(jobs) + 1] = n
        /\ \A i \in 1 .. Len(jobs) : jobs'[i] = jobs[i]
        /\ jobs' # <<>> /\ jobs' \in Seq(Messages)
    BY <1>1, <1>2
  <2>2. jobs # <<>> => Head(jobs') = Head(jobs)
    BY <1>1, <2>1
  <2> QED BY <1>1, <2>1, <2>2 DEF InJobs
<1>3. ASSUME jobs # <<>>, jobs' = Tail(jobs)
      PROVE  InJobs(m) <=> InJobs(m)' \/ Head(jobs) = m
  <2>1. /\ Len(jobs) >= 1 /\ Len(jobs') = Len(jobs) - 1 /\ Head(jobs) = jobs[1]
        /\ \A i \in 1 .. Len(jobs) - 1 : jobs'[i] = jobs[i + 1]
    BY <1>1, <1>3
  <2>2. ASSUME NEW i \in 1 .. Len(jobs), jobs[i] = m, i # 1 PROVE InJobs(m)'
    <3>1. i - 1 \in 1 .. Len(jobs) - 1 /\ (i - 1) + 1 = i
      BY <1>1, <2>2
    <3> QED BY <1>1, <2>1, <2>2, <3>1 DEF InJobs
  <2>3. ASSUME NEW i \in 1 .. Len(jobs'), jobs'[i] = m PROVE InJobs(m)
    <3>1. i \in 1 .. Len(jobs) - 1 /\ i + 1 \in 1 .. Len(jobs)
      BY <1>1, <2>1
    <3> QED BY <2>1, <2>3, <3>1 DEF InJobs
  <2>4. InJobs(m)' => InJobs(m)
    BY <2>3 DEF InJobs
  <2>5. Head(jobs) = m => InJobs(m)
    BY <1>1, <2>1 DEF InJobs
  <2>6. InJobs(m) => InJobs(m)' \/ Head(jobs) = m
    BY <2>1, <2>2 DEF InJobs
  <2> QED BY <2>4, <2>5, <2>6
<1>4. InJobs(m) => jobs # <<>>
  BY DEF InJobs
<1> QED BY <1>2, <1>3, <1>4

\* The steps of the backend and of what it tells; all others leave both alone.
BackendStep ==
  \/ \E m \in Messages : AcceptMessage(m)
  \/ \E kind \in Boundaries : Cancel(kind)
  \/ RunnerStarts \/ RunnerEnds \/ RunnerFails \/ DeliverChannel \/ DeliverEvent

LEMMA OthersLeaveBackend ==
  ASSUME [Next]_vars, ~BackendStep
  PROVE  UNCHANGED <<jobs, running, channel, events, sent>>
<1>1. ASSUME NEW m \in Messages, Sending(m), ~AcceptMessage(m)
      PROVE  UNCHANGED <<jobs, running, channel, events, sent>>
  BY <1>1 DEF Sending, SubmitDirect, Enqueue, AppendFails, SendSuperseded, SendMessage,
              SendRefused, SendFails, ConfirmSent, RefuseMessage, backend, told
<1>2. ASSUME NEW m \in Messages, Changing(m) \/ Dispatching(m)
      PROVE  UNCHANGED <<jobs, running, channel, events, sent>>
  BY <1>2 DEF Changing, ForceSend, StartEdit, ClearRow, Reorder, Dispatching, DispatchNow,
              InterruptFor, AskVerdict, backend, told
<1>3. ASSUME NEW kind \in Boundaries, CancelFails(kind) \/ CancelAnswered(kind)
      PROVE  UNCHANGED <<jobs, running, channel, events, sent>>
  BY <1>3 DEF CancelFails, CancelAnswered, backend, told
<1>4. CASE \/ EndEdit \/ Stop \/ StopRefused \/ ForceSendRefused \/ Deadman \/ UNCHANGED vars
           \/ ReadVerdict \/ ReadVerdictFails \/ BackOff \/ ParkDead \/ Rebusied \/ DispatchNatural
  BY <1>4 DEF EndEdit, Stop, StopRefused, ForceSendRefused, Deadman, vars, ReadVerdict,
              ReadVerdictFails, BackOff, ParkDead, Rebusied, DispatchNatural, backend, told
<1> QED BY <1>1, <1>2, <1>3, <1>4 DEF Next, BackendStep

LEMMA JobsSentStep ==
  ASSUME Typed, JobsSent, [Next]_vars
  PROVE  JobsSent'
<1> SUFFICES ASSUME NEW m \in Messages, InJobs(m)' PROVE sent'[m] > 0
  BY DEF JobsSent
<1>0. (InJobs(m) => sent[m] > 0) /\ sent \in [Messages -> Nat] /\ (running => jobs # <<>>)
      /\ jobs \in Seq(Messages)
  BY DEF JobsSent, Typed, BackendTyped
<1>1. CASE ~BackendStep
  BY <1>0, <1>1, OthersLeaveBackend DEF InJobs
<1>2. ASSUME NEW n \in Messages, AcceptMessage(n) PROVE sent'[m] > 0
  <2>1. jobs' = Append(jobs, n) /\ sent' = [sent EXCEPT ![n] = @ + 1]
    BY <1>2 DEF AcceptMessage
  <2>2. InJobs(m) \/ m = n
    BY <2>1, JobsMove
  <2> QED BY <1>0, <2>1, <2>2
<1>3. ASSUME NEW kind \in Boundaries, Cancel(kind) PROVE sent'[m] > 0
  <2>1. sent' = sent /\ (jobs' = jobs \/ jobs' = <<>> \/ (jobs # <<>> /\ jobs' = <<Head(jobs)>>))
    BY <1>0, <1>3 DEF Cancel
  <2>2. InJobs(m)
    BY <1>0, <2>1 DEF InJobs
  <2> QED BY <1>0, <2>1, <2>2
<1>4. CASE RunnerStarts \/ DeliverChannel \/ DeliverEvent
  BY <1>0, <1>4 DEF RunnerStarts, DeliverChannel, DeliverEvent, backend, InJobs
<1>5. CASE RunnerEnds \/ RunnerFails
  <2>1. jobs # <<>> /\ jobs' = Tail(jobs) /\ sent' = sent
    BY <1>0, <1>5 DEF RunnerEnds, RunnerFails
  <2> QED BY <1>0, <2>1, JobsMove
<1> QED BY <1>1, <1>2, <1>3, <1>4, <1>5 DEF BackendStep

\* A start stays ahead of the end of its turn.
LEMMA EndsFollowStep ==
  ASSUME "channel_behind" \notin Circumstances, Typed, EndsFollow, [Next]_vars
  PROVE  EndsFollow'
<1> SUFFICES ASSUME NEW m \in Messages, Announced(m)'
             PROVE  (running' /\ Head(jobs') = m) \/ InEvents(m)'
  BY DEF EndsFollow
<1>0. /\ Announced(m) => (running /\ Head(jobs) = m) \/ InEvents(m)
      /\ running => jobs # <<>>
      /\ jobs \in Seq(Messages) /\ channel \in Seq(Statuses)
  BY DEF EndsFollow, Typed, BackendTyped, ToldTyped
<1>1. CASE ~BackendStep
  BY <1>0, <1>1, OthersLeaveBackend DEF Announced, InEvents
<1>2. ASSUME NEW n \in Messages, AcceptMessage(n)
      PROVE  (running' /\ Head(jobs') = m) \/ InEvents(m)'
  <2>1. jobs' = Append(jobs, n) /\ UNCHANGED <<running, channel, events>>
    BY <1>2 DEF AcceptMessage, told
  <2> QED BY <1>0, <2>1, JobsMove DEF Announced, InEvents
<1>3. ASSUME NEW kind \in Boundaries, Cancel(kind)
      PROVE  (running' /\ Head(jobs') = m) \/ InEvents(m)'
  <2>1. /\ UNCHANGED <<running, channel, events>>
        /\ running => jobs' = jobs \/ jobs' = <<Head(jobs)>>
    BY <1>3 DEF Cancel, told
  <2> QED BY <1>0, <2>1 DEF Announced, InEvents
<1>4. CASE RunnerStarts
  <2>1. /\ jobs # <<>> /\ ~running /\ running' /\ UNCHANGED <<jobs, events>>
        /\ channel' = Append(channel, Status("running", Head(jobs)))
    BY <1>4 DEF RunnerStarts
  <2>2. Head(jobs) \in Messages
    BY <1>0, <2>1
  <2>3. Announced(m) \/ m = Head(jobs)
    BY <2>1, <2>2, ChannelMoves
  <2> QED BY <1>0, <2>1, <2>3 DEF InEvents
<1>5. CASE RunnerEnds \/ RunnerFails
  <2>1. /\ running /\ jobs # <<>> /\ events' = Append(events, Head(jobs))
        /\ channel' = Append(channel, Status("terminal", Head(jobs)))
    BY <1>0, <1>5 DEF RunnerEnds, RunnerFails, EndTurn
  <2>2. Head(jobs) \in Messages
    BY <1>0, <2>1
  <2>3. Announced(m)
    BY <2>1, <2>2, ChannelMoves
  <2> QED BY <1>0, <2>1, <2>2, <2>3, EventsMove
<1>6. CASE DeliverChannel
  <2>1. channel # <<>> /\ channel' = Tail(channel) /\ UNCHANGED <<jobs, running, events>>
    BY <1>6 DEF DeliverChannel, backend
  <2>2. Announced(m)
    BY <2>1, ChannelMoves
  <2> QED BY <1>0, <2>1, <2>2 DEF InEvents
<1>7. CASE DeliverEvent
  <2>1. /\ events # <<>> /\ events' = Tail(events) /\ UNCHANGED <<jobs, running, channel>>
        /\ ~Contains(channel, Status("running", Head(events)))
    BY <1>7 DEF DeliverEvent, backend, Allowed
  <2>2. Announced(m) /\ Head(events) # m
    BY <2>1, <1>0 DEF Announced, Contains
  <2> QED BY <1>0, <2>1, <2>2, EventsMove
<1> QED BY <1>1, <1>2, <1>3, <1>4, <1>5, <1>6, <1>7 DEF BackendStep

-----------------------------------------------------------------------------
(* What each step leaves to come. *)

LEMMA DispatchIsPending ==
  ASSUME Typed, EndsFollow, DispatchLive, turn.phase = "dispatching"
  PROVE  Pending
<1>1. PICK m \in Messages : Undecided(m) \/ Answering(m)
  BY DEF DispatchLive
<1>2. ~StopAsked
  BY DEF DispatchLive
<1>3. Announced(m) => running \/ events # <<>>
  BY DEF EndsFollow, InEvents
<1> QED BY <1>1, <1>2, <1>3, JobsMove DEF Answering, Pending

\* Whatever the Session works for, or is sending, will be told.
LEMMA BusyIsPending ==
  ASSUME Typed, Attended, Works \/ turn.phase = "dispatching"
  PROVE  Pending
  BY DispatchIsPending DEF Attended, WorkLive

\* A step that ends no turn and changes no send of the current one.
LEMMA StillPending ==
  ASSUME Pending, StopAsked' => StopAsked,
         running' = running, events' = events, jobs' = jobs,
         \A m \in Messages : Undecided(m) => Undecided(m)'
  PROVE  Pending'
  BY DEF Pending

LEMMA StillDispatching ==
  ASSUME DispatchLive, turn' = turn, StopAsked' => StopAsked,
         \A m \in Messages : Undecided(m) \/ Answering(m) => Undecided(m)' \/ Answering(m)'
  PROVE  DispatchLive'
  BY DEF DispatchLive

\* A step that moves neither the turn nor the cancels.
LEMMA AttendedSame ==
  ASSUME Typed, Attended, EndsFollow', UNCHANGED <<turn, cancel>>,
         Pending => Pending',
         \A m \in Messages : Undecided(m) \/ Answering(m) => Undecided(m)' \/ Answering(m)'
  PROVE  Attended'
<1>1. DispatchLive'
  BY StillDispatching DEF Attended, StopAsked
<1>2. WorkLive' /\ Numbered'
  BY DEF Attended, WorkLive, Works, Numbered, Asking
<1> QED BY <1>1, <1>2 DEF Attended

\* A step to idle.
LEMMA AttendedIdle ==
  ASSUME Attended, EndsFollow', turn'.phase = "idle", cancel'["force-send"] = cancel["force-send"]
  PROVE  Attended'
  BY DEF Attended, DispatchLive, WorkLive, Works, Numbered, Asking

\* A dispatch has its message, and no cancel is on its way.
LEMMA AttendedReserve ==
  ASSUME "cancel_overtaken" \notin Circumstances, Typed, EndsFollow', NEW m \in Messages,
         Reserve(m), cancel' = cancel
  PROVE  Attended'
<1>1. /\ turn' = BeginTurnDispatch(turn) /\ dispatchOf' = [dispatchOf EXCEPT ![m] = turn'.generation]
      /\ step' = [step EXCEPT ![m] = "appending"]
      /\ ~StopAsked /\ ~Asking
  BY DEF Reserve, Allowed, Cancelling, Boundaries, StopAsked, Asking
<1>2. turn'.phase = "dispatching" /\ turn'.generation > 0
  BY <1>1 DEF BeginTurnDispatch, Typed, Turns
<1>3. Undecided(m)'
  BY <1>1 DEF Undecided, Typed, SendingTyped
<1> QED BY <1>1, <1>2, <1>3 DEF Attended, DispatchLive, WorkLive, Works, Numbered, Asking, StopAsked

\* Nothing of this concerns the turn: rows, the question to the backend, and a
\* send that goes on.
LEMMA AttendedQuietly ==
  ASSUME Typed, Attended, EndsFollow', UNCHANGED <<turn, cancel, dispatchOf, step, jobs, running,
                                                   channel, events>>
  PROVE  Attended'
<1>1. \A m \in Messages : (Undecided(m)' <=> Undecided(m)) /\ (Answering(m)' <=> Answering(m))
  BY DEF Undecided, Answering, Announced, InJobs
<1>2. Pending => Pending'
  BY <1>1, StillPending DEF StopAsked
<1> QED BY <1>1, <1>2, AttendedSame

LEMMA AttendedSending ==
  ASSUME "cancel_overtaken" \notin Circumstances, Typed, Inv, JobsSent, Attended, EndsFollow',
         NEW n \in Messages, Sending(n)
  PROVE  Attended'
<1>0. /\ step \in [Messages -> Steps] /\ dispatchOf \in [Messages -> Nat]
      /\ turn \in Turns /\ (running => jobs # <<>>)
      /\ turn = [phase |-> turn.phase, generation |-> turn.generation]
  BY DEF Typed, SendingTyped, BackendTyped, Turns
<1>1. CASE SubmitDirect(n)
  BY <1>1, AttendedReserve DEF SubmitDirect, boundary
<1>2. CASE Enqueue(n) \/ SendMessage(n) \/ RefuseMessage(n)
  <2>1. /\ UNCHANGED <<turn, cancel, dispatchOf, jobs, running, channel, events>>
        /\ \/ step[n] = "new" /\ step' = [step EXCEPT ![n] = "waiting"]
           \/ step[n] \in {"appending", "sending"}
              /\ \E s \in {"sending", "refused"} : step' = [step EXCEPT ![n] = s]
    BY <1>2 DEF Enqueue, Submitted, SendMessage, RefuseMessage, boundary, backend, told
  <2>2. \A m \in Messages : (Undecided(m) => Undecided(m)') /\ (Answering(m) => Answering(m)')
    BY <1>0, <2>1 DEF Undecided, Answering, Announced, InJobs
  <2>3. Pending => Pending'
    BY <2>1, <2>2, StillPending DEF StopAsked
  <2> QED BY <2>1, <2>2, <2>3, AttendedSame
<1>3. CASE AcceptMessage(n)
  <2>1. /\ UNCHANGED <<turn, cancel, dispatchOf, running, channel, events>>
        /\ step[n] = "sending" /\ step' = [step EXCEPT ![n] = "answered"]
        /\ jobs' = Append(jobs, n)
    BY <1>3 DEF AcceptMessage, boundary, told
  <2>2. Pending => Pending'
    BY <2>1, JobsMove DEF Pending, StopAsked
  <2>3. \A m \in Messages : Undecided(m) \/ Answering(m) => Undecided(m)' \/ Answering(m)'
    <3> SUFFICES ASSUME NEW m \in Messages, Undecided(m) \/ Answering(m)
                 PROVE  Undecided(m)' \/ Answering(m)'
      OBVIOUS
    <3>1. (InJobs(m)' <=> InJobs(m) \/ m = n) /\ (running => Head(jobs') = Head(jobs))
      BY <1>0, <2>1, JobsMove
    <3>2. CASE m # n
      BY <1>0, <2>1, <3>1, <3>2 DEF Undecided, Answering, Announced
    <3>3. CASE m = n
      <4>1. dispatchOf'[m] = turn'.generation /\ step'[m] = "answered" /\ InJobs(m)'
        BY <1>0, <2>1, <3>1, <3>3 DEF Undecided, Answering
      <4>2. sent[m] = 0
        BY <2>1, <3>3 DEF Inv, SentByStep
      <4>3. running /\ jobs # <<>> => Head(jobs) # m
        <5>1. jobs # <<>> => InJobs(Head(jobs)) /\ Head(jobs) \in Messages
          BY DEF Typed, BackendTyped, InJobs
        <5> QED BY <4>2, <5>1 DEF JobsSent
      <4> QED BY <1>0, <2>1, <3>1, <4>1, <4>3 DEF Answering
    <3> QED BY <3>2, <3>3
  <2> QED BY <2>1, <2>2, <2>3, AttendedSame
<1>4. CASE AppendFails(n) \/ SendSuperseded(n) \/ SendRefused(n)
  <2>1. /\ turn' = MarkTurnTerminal(turn, dispatchOf[n])
        /\ UNCHANGED <<cancel, dispatchOf, jobs, running, channel, events>>
        /\ \E s \in {"waiting", "failed"} : step' = [step EXCEPT ![n] = s]
    BY <1>4 DEF AppendFails, SendSuperseded, SendRefused, SendFails, backend, told
  <2>2. CASE turn'.phase = "idle"
    BY <2>1, <2>2, AttendedIdle
  <2>3. CASE turn'.phase # "idle"
    <3>1. turn' = turn /\ dispatchOf[n] # turn.generation
      BY <1>0, <2>1, <2>3 DEF MarkTurnTerminal, TerminalAccepted, Concerns, Attended, Numbered
    <3>2. \A m \in Messages : (Undecided(m) => Undecided(m)') /\ (Answering(m) => Answering(m)')
      BY <1>0, <2>1, <3>1 DEF Undecided, Answering, Announced, InJobs
    <3>3. Pending => Pending'
      BY <2>1, <3>2, StillPending DEF StopAsked
    <3> QED BY <2>1, <3>1, <3>2, <3>3, AttendedSame
  <2> QED BY <2>2, <2>3
<1>5. CASE ConfirmSent(n)
  <2>1. /\ turn' = ConfirmTurnRunning(turn) /\ step[n] = "answered"
        /\ step' = [step EXCEPT ![n] = "accepted"]
        /\ UNCHANGED <<cancel, dispatchOf, jobs, running, channel, events>>
    BY <1>5 DEF ConfirmSent, backend, told
  <2>2. /\ turn'.generation = turn.generation /\ turn'.phase # "dispatching"
        /\ turn.phase # "dispatching" => turn' = turn
        /\ turn'.phase = "idle" => turn.phase = "idle"
        /\ turn.phase = "idle" => turn'.phase = "idle"
    BY <1>0, <2>1 DEF ConfirmTurnRunning
  <2>3. \A m \in Messages : Undecided(m) => Undecided(m)'
    BY <1>0, <2>1, <2>2 DEF Undecided
  <2>4. Pending => Pending'
    BY <2>1, <2>3, StillPending DEF StopAsked
  <2>5. Works' => Works \/ turn.phase = "dispatching"
    BY <2>1, <2>2 DEF Works, Asking
  <2>6. WorkLive' /\ DispatchLive'
    BY <2>2, <2>4, <2>5, BusyIsPending DEF WorkLive, DispatchLive
  <2> QED BY <2>1, <2>2, <2>6 DEF Attended, Numbered, Asking
<1> QED BY <1>1, <1>2, <1>3, <1>4, <1>5 DEF Sending

\* Rows, edits, and questions to the backend.
LEMMA AttendedByQueue ==
  ASSUME "cancel_overtaken" \notin Circumstances, Typed, Inv, Attended, EndsFollow',
         \/ \E n \in Messages : Changing(n) \/ Dispatching(n)
         \/ EndEdit \/ ReadVerdict \/ ReadVerdictFails \/ UNCHANGED vars
         \/ BackOff \/ ParkDead \/ Rebusied \/ DispatchNatural
  PROVE  Attended'
<1>1. ASSUME NEW n \in Messages, Changing(n) \/ AskVerdict(n)
      PROVE  Attended'
  BY <1>1, AttendedQuietly
     DEF Changing, ForceSend, StartEdit, ClearRow, Reorder, AskVerdict, sending, boundary, backend, told
<1>2. CASE \/ EndEdit \/ ReadVerdict \/ ReadVerdictFails \/ UNCHANGED vars
           \/ BackOff \/ ParkDead \/ Rebusied
  BY <1>2, AttendedQuietly
     DEF EndEdit, ReadVerdict, ReadVerdictFails, vars, BackOff, ParkDead, Rebusied, sending, boundary,
         backend, told
<1>3. ASSUME NEW n \in Messages, DispatchNow(n)
      PROVE  Attended'
  BY <1>3, AttendedReserve DEF DispatchNow
<1>4. CASE DispatchNatural
  <2>1. lock \in Messages
    BY <1>4 DEF DispatchNatural, Inv, LockWaits
  <2> QED BY <1>4, <2>1, AttendedReserve DEF DispatchNatural, boundary
<1>5. ASSUME NEW n \in Messages, InterruptFor(n)
      PROVE  Attended'
  <2>1. /\ turn' = BeginTurnStopping(turn) /\ turn.phase \in {"working", "dispatching"}
        /\ UNCHANGED <<step, dispatchOf, jobs, running, channel, events>>
        /\ \/ cancel' = cancel
           \/ cancel' = [cancel EXCEPT !["force-send"] = [at |-> "asked", message |-> n,
                                                           generation |-> turn.generation]]
    BY <1>5 DEF InterruptFor, BeginBoundary, sending, backend, told
  <2>2. turn'.phase = "stopping" /\ turn'.generation = turn.generation
    BY <2>1 DEF BeginTurnStopping, Typed, Turns
  <2>3. /\ StopAsked' <=> StopAsked
        /\ Asking' => \/ Asking /\ cancel'["force-send"] = cancel["force-send"]
                      \/ cancel'["force-send"].generation = turn.generation
    BY <2>1 DEF StopAsked, Asking, Typed, BoundaryTyped, Cancels, Boundaries
  <2>4. Pending'
    <3>1. Pending
      BY <2>1, BusyIsPending DEF Works
    <3>2. \A m \in Messages : Undecided(m) => Undecided(m)'
      BY <2>1, <2>2 DEF Undecided
    <3> QED BY <2>1, <2>3, <3>1, <3>2, StillPending
  <2>5. Numbered'
    BY <2>1, <2>2, <2>3 DEF Attended, Numbered
  <2> QED BY <2>2, <2>4, <2>5 DEF Attended, DispatchLive, WorkLive
<1> QED BY <1>1, <1>2, <1>3, <1>4, <1>5 DEF Dispatching

\* Stop, timers, and the answers to cancels.  A Stop discards what waits behind a
\* turn that runs, whose end is still to come.
LEMMA AttendedBoundary ==
  ASSUME "cancel_overtaken" \notin Circumstances, Typed, Attended, EndsFollow',
         \/ Stop \/ StopRefused \/ ForceSendRefused \/ Deadman
         \/ \E kind \in Boundaries : Cancel(kind) \/ CancelFails(kind) \/ CancelAnswered(kind)
  PROVE  Attended'
<1>0. /\ turn \in Turns /\ cancel \in Cancels /\ (running => jobs # <<>>)
      /\ turn = [phase |-> turn.phase, generation |-> turn.generation]
  BY DEF Typed, BoundaryTyped, BackendTyped, Turns
<1>1. CASE Stop
  <2>1. /\ turn' = BeginTurnStopping(turn) /\ turn.phase # "idle" /\ ~Asking
        /\ cancel'["force-send"] = cancel["force-send"]
    BY <1>0, <1>1 DEF Stop, BeginBoundary, Cancelling, Allowed, Asking, Cancels, Boundaries
  <2>2. turn'.phase = "stopping" /\ turn'.generation = turn.generation
    BY <1>0, <2>1 DEF BeginTurnStopping
  <2> QED BY <2>1, <2>2 DEF Attended, DispatchLive, WorkLive, Works, Numbered, Asking
<1>2. CASE StopRefused \/ Deadman
  <2>1. turn'.phase = "idle" /\ cancel'["force-send"] = cancel["force-send"]
    BY <1>0, <1>2 DEF StopRefused, Deadman, ForceTurnIdle, boundary, Cancels, Boundaries
  <2> QED BY <2>1, AttendedIdle
<1>3. CASE ForceSendRefused
  <2>1. /\ Asking /\ turn' = RestoreTurnWorking(turn, cancel["force-send"].generation)
        /\ cancel' = [cancel EXCEPT !["force-send"] = NoCancel]
        /\ UNCHANGED <<step, dispatchOf, jobs, running, channel, events>>
    BY <1>3 DEF ForceSendRefused, Asking, sending, backend, told
  <2>2. ~Asking' /\ (StopAsked' <=> StopAsked)
    BY <1>0, <2>1 DEF Asking, StopAsked, Cancels, Boundaries, NoCancel
  <2>3. /\ turn'.generation = turn.generation
        /\ turn' # turn => Works /\ turn'.phase = "working" /\ turn.phase # "idle"
    BY <1>0, <2>1 DEF RestoreTurnWorking, Concerns, Works, Attended, Numbered
  <2>4. \A m \in Messages : (Undecided(m)' <=> Undecided(m)) /\ (Answering(m)' <=> Answering(m))
    BY <2>1, <2>3 DEF Undecided, Answering, Announced, InJobs
  <2>5. Pending => Pending'
    BY <2>1, <2>2, <2>4, StillPending
  <2>6. Works' => Works
    BY <2>2, <2>3 DEF Works
  <2>7. DispatchLive'
    BY <2>2, <2>3, <2>4 DEF Attended, DispatchLive
  <2> QED BY <2>2, <2>3, <2>5, <2>6, <2>7 DEF Attended, WorkLive, Numbered
<1>4. ASSUME NEW kind \in Boundaries, Cancel(kind) \/ CancelFails(kind) \/ CancelAnswered(kind)
      PROVE  Attended'
  <2>1. /\ UNCHANGED <<turn, step, dispatchOf, running, channel, events>>
        /\ \/ cancel' = [cancel EXCEPT ![kind] = NoCancel]
           \/ cancel[kind].at = "asked" /\ \E a \in {"done", "refused"} :
                                             cancel' = [cancel EXCEPT ![kind].at = a]
        /\ jobs' = jobs \/ (Cancel(kind) /\ kind = "stop" /\ StopAsked)
    BY <1>4 DEF Cancel, CancelFails, CancelAnswered, sending, backend, told, StopAsked
  <2>2. /\ StopAsked' => StopAsked
        /\ Asking' => Asking /\ cancel'["force-send"].generation = cancel["force-send"].generation
    BY <1>0, <2>1 DEF Asking, StopAsked, Cancels, Boundaries, NoCancel
  <2>3. \A m \in Messages : Undecided(m)' <=> Undecided(m)
    BY <2>1 DEF Undecided
  <2>4. Pending => Pending'
    BY <2>1, <2>2, <2>3 DEF Pending
  <2>5. DispatchLive'
    <3>1. CASE StopAsked
      BY <2>1, <3>1 DEF Attended, DispatchLive
    <3>2. CASE ~StopAsked
      <4>1. \A m \in Messages : Answering(m)' <=> Answering(m)
        BY <2>1, <3>2 DEF Answering, Announced, InJobs
      <4> QED BY <2>1, <2>2, <2>3, <4>1, StillDispatching DEF Attended
    <3> QED BY <3>1, <3>2
  <2>6. (Works' => Works) /\ Numbered'
    BY <2>1, <2>2 DEF Works, Attended, Numbered
  <2> QED BY <2>4, <2>5, <2>6 DEF Attended, WorkLive
<1> QED BY <1>1, <1>2, <1>3, <1>4

\* What the backend does, and what the window is told of it.
LEMMA AttendedTold ==
  ASSUME Typed, Attended, EndsFollow',
         RunnerStarts \/ RunnerEnds \/ RunnerFails \/ DeliverChannel \/ DeliverEvent
  PROVE  Attended'
<1>0. /\ turn \in Turns /\ jobs \in Seq(Messages) /\ channel \in Seq(Statuses)
      /\ (running => jobs # <<>>) /\ dispatchOf \in [Messages -> Nat]
      /\ turn = [phase |-> turn.phase, generation |-> turn.generation]
      /\ turn.phase \in Phases /\ turn.generation \in Nat
  BY DEF Typed, BackendTyped, ToldTyped, SendingTyped, Turns
<1>1. CASE RunnerStarts
  <2>1. /\ UNCHANGED <<turn, cancel, step, dispatchOf, jobs>> /\ jobs # <<>> /\ ~running /\ running'
        /\ channel' = Append(channel, Status("running", Head(jobs)))
    BY <1>1 DEF RunnerStarts, sending, boundary
  <2>2. Head(jobs) \in Messages
    BY <1>0, <2>1
  <2>3. \A m \in Messages : (Undecided(m) => Undecided(m)') /\ (Answering(m) => Answering(m)')
    <3> SUFFICES ASSUME NEW m \in Messages
                 PROVE  (Undecided(m) => Undecided(m)') /\ (Answering(m) => Answering(m)')
      OBVIOUS
    <3>1. (Announced(m)' <=> Announced(m) \/ m = Head(jobs)) /\ (InJobs(m)' <=> InJobs(m))
      BY <2>1, <2>2, ChannelMoves DEF InJobs
    <3> QED BY <2>1, <3>1 DEF Undecided, Answering
  <2> QED BY <2>1, <2>3, AttendedSame DEF Pending
<1>2. CASE RunnerEnds \/ RunnerFails
  <2>1. /\ UNCHANGED <<turn, cancel, step, dispatchOf>> /\ jobs # <<>> /\ running /\ ~running'
        /\ channel' = Append(channel, Status("terminal", Head(jobs)))
        /\ events' = Append(events, Head(jobs)) /\ jobs' = Tail(jobs)
    BY <1>0, <1>2 DEF RunnerEnds, RunnerFails, EndTurn, sending, boundary
  <2>2. Head(jobs) \in Messages
    BY <1>0, <2>1
  <2>3. \A m \in Messages : (Undecided(m) => Undecided(m)') /\ (Answering(m) => Answering(m)')
    <3> SUFFICES ASSUME NEW m \in Messages
                 PROVE  (Undecided(m) => Undecided(m)') /\ (Answering(m) => Answering(m)')
      OBVIOUS
    <3>1. Announced(m)' <=> Announced(m)
      BY <2>1, <2>2, ChannelMoves
    <3>2. InJobs(m) => InJobs(m)' \/ Head(jobs) = m
      BY <2>1, JobsMove
    <3> QED BY <2>1, <3>1, <3>2 DEF Undecided, Answering
  <2>4. events' # <<>>
    BY <2>1, <2>2, EventsMove
  <2> QED BY <2>1, <2>3, <2>4, AttendedSame DEF Pending
<1>3. CASE DeliverChannel
  <2>1. /\ UNCHANGED <<cancel, step, dispatchOf, jobs, running, events>>
        /\ channel # <<>> /\ channel' = Tail(channel)
    BY <1>3 DEF DeliverChannel, sending, boundary, backend
  <2>2. PICK message \in Statuses : message = Head(channel)
    BY <1>0, <2>1
  <2>3. CASE message.status = "running"
    <3>1. turn' = MarkTurnRunning(turn, NoGeneration)
      BY <1>3, <2>2, <2>3 DEF DeliverChannel
    <3>2. CASE turn.phase = "stopping"
      <4>1. turn' = turn
        BY <3>1, <3>2 DEF MarkTurnRunning, RunningAccepted
      <4>2. Pending => Pending'
        BY <2>1, <4>1 DEF Pending, StopAsked, Undecided
      <4> QED BY <2>1, <3>2, <4>1, <4>2
              DEF Attended, DispatchLive, WorkLive, Works, Numbered, Asking
    <3>3. CASE turn.phase # "stopping"
      <4>1. turn'.phase = "working" /\ turn'.generation > 0
        BY <1>0, <3>1, <3>3 DEF MarkTurnRunning, RunningAccepted, Concerns, Attended, Numbered
      <4>2. message.intent \in Messages /\ Head(channel) = Status("running", message.intent)
        BY <2>2, <2>3 DEF Statuses, Status
      <4>3. running \/ events # <<>>
        <5>1. Announced(message.intent)
          BY <2>1, <4>2, ChannelMoves
        <5> QED BY <4>2, <5>1 DEF Attended, EndsFollow, InEvents
      <4> QED BY <2>1, <4>1, <4>3
              DEF Attended, DispatchLive, WorkLive, Pending, Numbered, Asking
    <3> QED BY <3>2, <3>3
  <2>4. CASE message.status # "running"
    <3>1. turn' = turn \/ turn'.phase = "idle"
      BY <1>0, <1>3, <2>2, <2>4 DEF DeliverChannel, MarkTurnTerminal
    <3>2. CASE turn'.phase = "idle"
      BY <2>1, <3>2, AttendedIdle
    <3>3. CASE turn' = turn
      <4>1. \A m \in Messages : Announced(m)' <=> Announced(m)
        BY <2>1, <2>2, <2>4, ChannelMoves DEF Status
      <4>2. \A m \in Messages : (Undecided(m) => Undecided(m)') /\ (Answering(m) => Answering(m)')
        BY <2>1, <3>3, <4>1 DEF Undecided, Answering, InJobs
      <4>3. Pending => Pending'
        BY <2>1, <4>2, StillPending DEF StopAsked
      <4> QED BY <2>1, <3>3, <4>2, <4>3, AttendedSame
    <3> QED BY <3>1, <3>2, <3>3
  <2> QED BY <2>3, <2>4
<1>4. CASE DeliverEvent
  <2>1. /\ UNCHANGED <<cancel, step, dispatchOf, jobs, running, channel>>
        /\ turn' = MarkTurnTerminal(turn, NoGeneration)
    BY <1>4 DEF DeliverEvent, sending, boundary, backend
  <2>2. CASE turn.phase # "dispatching"
    <3>1. turn'.phase = "idle"
      BY <1>0, <2>1, <2>2 DEF MarkTurnTerminal, TerminalAccepted, Concerns
    <3> QED BY <2>1, <3>1, AttendedIdle
  <2>3. CASE turn.phase = "dispatching"
    <3>1. turn' = turn
      BY <2>1, <2>3 DEF MarkTurnTerminal, TerminalAccepted
    <3>2. \A m \in Messages : (Undecided(m) => Undecided(m)') /\ (Answering(m) => Answering(m)')
      BY <2>1, <3>1 DEF Undecided, Answering, Announced, InJobs
    <3>3. DispatchLive'
      BY <2>1, <3>1, <3>2, StillDispatching DEF Attended, StopAsked
    <3> QED BY <2>1, <2>3, <3>1, <3>3 DEF Attended, WorkLive, Works, Numbered, Asking
  <2> QED BY <2>2, <2>3
<1> QED BY <1>1, <1>2, <1>3, <1>4

LEMMA InitAttended == Init => JobsSent /\ Attended
  BY DEF Init, JobsSent, InJobs, Attended, EndsFollow, Announced, DispatchLive, WorkLive, Works,
         Numbered, Asking, NoCancel, Boundaries

\* A Session never waits for a turn that is over, unless a cancel is overtaken or the
\* end of a turn overtakes its start: while it is `working`, something on its way
\* will release it.
THEOREM QueueNoStrandedTurn ==
  ASSUME Circumstances \cap {"cancel_overtaken", "channel_behind"} = {}
  PROVE  Spec => []NoStrandedTurn
<1>0. Spec => [](Typed /\ Inv)
  BY QueueInvariant
<1>1. Typed /\ Inv /\ JobsSent /\ Attended /\ [Next]_vars => JobsSent' /\ Attended'
  <2> SUFFICES ASSUME Typed, Inv, JobsSent, Attended, [Next]_vars PROVE JobsSent' /\ Attended'
    OBVIOUS
  <2>1. JobsSent' /\ EndsFollow'
    BY JobsSentStep, EndsFollowStep DEF Attended
  <2> QED BY <2>1, AttendedSending, AttendedByQueue, AttendedBoundary, AttendedTold DEF Next
<1>2. Typed /\ Attended => NoStrandedTurn
  <2> SUFFICES ASSUME Typed, Attended, Quiet, turn.phase = "working" PROVE FALSE
    BY DEF NoStrandedTurn
  <2>1. Pending
    BY BusyIsPending DEF Works
  <2> QED BY <2>1 DEF Quiet, Pending, Undecided, Typed, BackendTyped
<1> QED
  BY <1>0, <1>1, <1>2, InitAttended, PTL DEF Spec
=============================================================================
