--------------------------- MODULE DialogScheduler ---------------------------
(***************************************************************************)
(* The message queue of one Session (scheduler.rs) with the code on either *)
(* side of it: agent_send_message, which steers a message into the running *)
(* turn or enqueues it (message/send.rs), the executor that the worker     *)
(* runs (same file), and the two ways to stop: cancel_active_turn          *)
(* (session_runtime.rs) and the exact stop of a Group turn                 *)
(* (org_tasks/group_actions.rs).                                           *)
(*                                                                         *)
(* WorkRunDispatch takes enqueueing, stopping and starting as one step     *)
(* each.  Here every access to shared memory is a step: callers run on     *)
(* several threads and the worker is a task of its own.  Accesses that     *)
(* follow each other are joined when no other process can tell.            *)
(***************************************************************************)
EXTENDS Naturals, Sequences, FiniteSets

CONSTANTS
  Msgs,          \* messages, each with a turn intent of its own
  Clients,       \* client message ids
  ClientOf,      \* Msgs -> Clients \cup {NoClient}
  Steerable,     \* messages that may join a running turn: plain user text
  Exact,         \* mentions in a Group chat, which can be stopped one by one
  Stops,         \* presses of Stop, and other reasons that discard the queue
  Capacity,      \* of the channel
  MaxTargeted,   \* MAX_TARGETED_CANCELLATIONS
  Wrap,          \* the pending counter is an AtomicUsize: modulo Wrap
  NoClient, NoMsg

ASSUME IdAssumption == NoMsg \notin Msgs /\ NoClient \notin Clients

ASSUME MessageAssumption ==
  /\ ClientOf \in [Msgs -> Clients \cup {NoClient}]
  /\ Steerable \subseteq Msgs
  /\ Exact \subseteq Msgs \ Steerable
  /\ {Capacity, MaxTargeted, Wrap} \subseteq Nat \ {0}

VARIABLES
  sender,      \* where the call that submits each message is
  stamp,       \* the generation each message was given
  channel,     \* mpsc channel
  pending,     \* what status, eviction and shutdown take for its length
  generation,  \* bumped to make everything queued stale
  ids,         \* client_message_ids
  current,     \* SchedulerTurnControl
  cancelled,
  processing,  \* processing_turn
  steering,    \* steering_queue of the Session
  intent,      \* session_turn_intents
  delivery,    \* agent_org_execution_user_directed_deliveries, of Exact
  flag,        \* cancel_flag of the Session
  active,      \* active_turn of the Session
  worker,      \* the worker task and the executor it runs
  stopper,     \* where each Stop is
  exactStop,   \* where the exact Stop of each message is
  begun,       \* history: messages that passed the checks of the worker
  dropped,     \* history: messages that did not
  doomed       \* history: messages that a Stop found waiting

queue == <<channel, pending, generation, ids>>
control == <<current, cancelled>>
session == <<processing, steering, flag, active>>
rows == <<intent, delivery>>
stops == <<stopper, exactStop>>
past == <<begun, dropped, doomed>>
vars == <<sender, stamp, queue, control, session, rows, worker, stops, past>>

Outcomes == {"completed", "failed", "cancelled"}

IntentStatus ==
  {"absent", "queued", "running", "stale", "coalesced", "rejected"} \cup Outcomes

NoWork == [msg |-> NoMsg, phase |-> "idle", seen |-> "absent", outcome |-> "none"]

Init ==
  /\ sender = [m \in Msgs |-> "new"]
  /\ stamp = [m \in Msgs |-> 0]
  /\ channel = <<>> /\ pending = 0 /\ generation = 0
  /\ ids = [c \in Clients |-> NoMsg]
  /\ current = NoMsg /\ cancelled = {}
  /\ processing = FALSE /\ steering = {} /\ flag = FALSE /\ active = NoMsg
  /\ intent = [m \in Msgs |-> "absent"]
  /\ delivery = [m \in Msgs |-> "none"]
  /\ worker = NoWork
  /\ stopper = [u \in Stops |-> "idle"]
  /\ exactStop = [m \in Exact |-> "idle"]
  /\ begun = {} /\ dropped = {} /\ doomed = {}

\* The state machine of a turn intent; an illegal transition is refused.
TransitionAllowed(from, to) ==
  \/ from = to
  \/ from = "queued" /\ to \in {"running", "cancelled", "stale", "coalesced", "rejected"}
  \/ from = "running" /\ to \in Outcomes

UpdateIntent(m, to) ==
  intent' = [intent EXCEPT ![m] = IF TransitionAllowed(@, to) THEN to ELSE @]

-----------------------------------------------------------------------------
(* agent_send_message. *)

Pass(m, from, to) == sender[m] = from /\ sender' = [sender EXCEPT ![m] = to]

\* Is there a running turn that the message can join?
LookAround(m) ==
  /\ Pass(m, "new", IF m \in Steerable /\ processing THEN "steering" ELSE "admitting")
  /\ UNCHANGED <<stamp, queue, control, session, rows, worker, stops, past>>

\* INSERT OR IGNORE.  A mention was accepted with its delivery.
UpsertIntent(m) ==
  /\ Pass(m, "admitting", "admitted") \/ Pass(m, "steering", "pushing")
  /\ intent' = [intent EXCEPT ![m] = IF @ = "absent" THEN "queued" ELSE @]
  /\ delivery' = [delivery EXCEPT ![m] = IF m \in Exact THEN "pending" ELSE @]
  /\ UNCHANGED <<stamp, queue, control, session, worker, stops, past>>

PushSteering(m) ==
  /\ Pass(m, "pushing", "rechecking")
  /\ steering' = steering \cup {m}
  /\ UNCHANGED <<stamp, queue, control, processing, flag, active, rows, worker, stops, past>>

\* The turn may have ended meanwhile: then the message is taken back.
Recheck(m) ==
  /\ Pass(m, "rechecking", IF processing THEN "steered" ELSE "reclaiming")
  /\ UNCHANGED <<stamp, queue, control, session, rows, worker, stops, past>>

Reclaim(m) ==
  /\ Pass(m, "reclaiming", IF m \in steering THEN "admitting" ELSE "steered")
  /\ steering' = steering \ {m}
  /\ UNCHANGED <<stamp, queue, control, processing, flag, active, rows, worker, stops, past>>

-----------------------------------------------------------------------------
(* DialogScheduler::enqueue. *)

\* Mutant: a turn that executes is forgotten too early.
Known_Unless_Executing(m) ==
  ClientOf[m] # NoClient /\ ids[ClientOf[m]] \notin {NoMsg, worker.msg}

Known(m) == ClientOf[m] # NoClient /\ ids[ClientOf[m]] # NoMsg

\* The check and the insertion are under one lock.
Deduplicate(m) ==
  /\ IF Known(m)
     THEN /\ Pass(m, "admitted", "duplicate")
          /\ UpdateIntent(m, "coalesced")
          /\ UNCHANGED ids
     ELSE /\ Pass(m, "admitted", "unique")
          /\ ids' = [c \in Clients |-> IF c = ClientOf[m] THEN m ELSE ids[c]]
          /\ UNCHANGED intent
  /\ UNCHANGED <<stamp, channel, pending, generation, control, session, delivery,
                 worker, stops, past>>

\* Mutant: the generation with which a message is made is kept.
StampGeneration_Kept(m) ==
  /\ Pass(m, "unique", "stamped")
  /\ UNCHANGED <<stamp, queue, control, session, rows, worker, stops, past>>

StampGeneration(m) ==
  /\ Pass(m, "unique", "stamped")
  /\ stamp' = [stamp EXCEPT ![m] = generation]
  /\ UNCHANGED <<queue, control, session, rows, worker, stops, past>>

CountPending(m) ==
  /\ Pass(m, "stamped", "counted")
  /\ pending' = (pending + 1) % Wrap
  /\ UNCHANGED <<stamp, channel, generation, ids, control, session, rows, worker,
                 stops, past>>

TrySend(m) ==
  /\ IF Len(channel) < Capacity
     THEN Pass(m, "counted", "sent") /\ channel' = Append(channel, m)
     ELSE Pass(m, "counted", "full") /\ UNCHANGED channel
  /\ UNCHANGED <<stamp, pending, generation, ids, control, session, rows, worker,
                 stops, past>>

\* Mutant: a refused message stays counted.
UncountPending_Not(m) ==
  /\ Pass(m, "full", "uncounted")
  /\ UNCHANGED <<stamp, queue, control, session, rows, worker, stops, past>>

\* fetch_sub does not stop at zero.
UncountPending(m) ==
  /\ Pass(m, "full", "uncounted")
  /\ pending' = (pending + Wrap - 1) % Wrap
  /\ UNCHANGED <<stamp, channel, generation, ids, control, session, rows, worker,
                 stops, past>>

\* Whoever removes a client id removes it for every message that has it.
Forget(m) == ids' = [c \in Clients |-> IF c = ClientOf[m] THEN NoMsg ELSE ids[c]]

\* Mutant: a refused message keeps its client id.
RejectMessage_Remembers(m) ==
  /\ Pass(m, "uncounted", "rejected")
  /\ UpdateIntent(m, "rejected")
  /\ UNCHANGED <<stamp, queue, control, session, delivery, worker, stops, past>>

RejectMessage(m) ==
  /\ Pass(m, "uncounted", "rejected")
  /\ Forget(m)
  /\ UpdateIntent(m, "rejected")
  /\ UNCHANGED <<stamp, channel, pending, generation, control, session, delivery,
                 worker, stops, past>>

-----------------------------------------------------------------------------
(* WorkerTask::run. *)

At(phase) == worker.phase = phase
Go(phase) == worker' = [worker EXCEPT !.phase = phase]

\* The worker never takes the counter below zero.
Discount == pending' = IF pending = 0 THEN 0 ELSE pending - 1

Receive ==
  /\ At("idle")
  /\ channel # <<>>
  /\ channel' = Tail(channel)
  /\ worker' = [NoWork EXCEPT !.msg = Head(channel), !.phase = "received"]
  /\ UNCHANGED <<sender, stamp, pending, generation, ids, control, session, rows,
                 stops, past>>

\* One lock decides between this turn and a Stop that names it.
ClaimTurn ==
  LET m == worker.msg IN
  /\ At("received")
  /\ IF m \in cancelled
     THEN /\ Go("named")
          /\ cancelled' = cancelled \ {m}
          /\ dropped' = dropped \cup {m}
          /\ UNCHANGED current
     ELSE /\ Go("claimed")
          /\ current' = m
          /\ UNCHANGED <<cancelled, dropped>>
  /\ UNCHANGED <<sender, stamp, queue, session, rows, stops, begun, doomed>>

\* Mutant: a turn stopped by its name keeps its client id.
DropNamed_Remembers ==
  /\ At("named")
  /\ Discount
  /\ UpdateIntent(worker.msg, "cancelled")
  /\ worker' = NoWork
  /\ UNCHANGED <<sender, stamp, channel, generation, ids, control, session, delivery,
                 stops, past>>

DropNamed ==
  /\ At("named")
  /\ Discount
  /\ UpdateIntent(worker.msg, "cancelled")
  /\ Forget(worker.msg)
  /\ worker' = NoWork
  /\ UNCHANGED <<sender, stamp, channel, generation, control, session, delivery, stops,
                 past>>

\* Mutant: off by one.
CheckGeneration_Off_By_One ==
  LET m == worker.msg IN
  /\ At("claimed")
  /\ IF stamp[m] + 1 >= generation
     THEN Go("fresh") /\ begun' = begun \cup {m} /\ UNCHANGED dropped
     ELSE Go("stale") /\ dropped' = dropped \cup {m} /\ UNCHANGED begun
  /\ UNCHANGED <<sender, stamp, queue, control, session, rows, stops, doomed>>

CheckGeneration ==
  LET m == worker.msg IN
  /\ At("claimed")
  /\ IF stamp[m] = generation
     THEN Go("fresh") /\ begun' = begun \cup {m} /\ UNCHANGED dropped
     ELSE Go("stale") /\ dropped' = dropped \cup {m} /\ UNCHANGED begun
  /\ UNCHANGED <<sender, stamp, queue, control, session, rows, stops, doomed>>

\* The counter is left to invalidate_pending, which has set it to zero.
DropStale ==
  /\ At("stale")
  /\ UpdateIntent(worker.msg, "stale")
  /\ Forget(worker.msg)
  /\ current' = NoMsg
  /\ worker' = NoWork
  /\ UNCHANGED <<sender, stamp, channel, pending, generation, cancelled, session,
                 delivery, stops, past>>

\* update_status reads the row, and writes it in a second statement.
BeginProcessing ==
  /\ At("fresh")
  /\ Discount
  /\ processing' = TRUE
  /\ worker' = [worker EXCEPT !.phase = "promoting", !.seen = intent[worker.msg]]
  /\ UNCHANGED <<sender, stamp, channel, generation, ids, control, steering, flag,
                 active, rows, stops, past>>

WriteIntent ==
  /\ At("promoting")
  /\ intent' = [intent EXCEPT ![worker.msg] =
                  IF TransitionAllowed(worker.seen, "running") THEN "running" ELSE @]
  /\ Go("begun")
  /\ UNCHANGED <<sender, stamp, queue, control, session, delivery, stops, past>>

-----------------------------------------------------------------------------
(* The executor. *)

StoppedByName(m) == m \in Exact \cap cancelled

\* mark_turn_terminal: a delivery that is settled stays as it is.
SettleDelivery(m, to) ==
  IF delivery[m] \in {"pending", "started"}
  THEN /\ delivery' = [delivery EXCEPT ![m] = to]
       /\ intent' = [intent EXCEPT ![m] = IF @ \in {"queued", "running"} THEN to ELSE @]
  ELSE UNCHANGED rows

\* An excused error says that the turn waits or was stopped by its name.
GiveUp(error, outcome) ==
  /\ worker' = [worker EXCEPT !.phase = "closing", !.outcome = error]
  /\ SettleDelivery(worker.msg, outcome)

\* A cancel signal from before the turn is taken for a stale one.
ClearFlag ==
  /\ At("begun")
  /\ IF StoppedByName(worker.msg)
     THEN GiveUp("excused", "cancelled") /\ UNCHANGED flag
     ELSE Go("cleared") /\ flag' = FALSE /\ UNCHANGED rows
  /\ UNCHANGED <<sender, stamp, queue, control, processing, steering, active, stops, past>>

\* One transaction, which a mention passes only while its delivery is pending.
\* The row of the Session may be gone, the runtime replaced or the database busy.
PromoteTurn ==
  LET m == worker.msg IN
  /\ At("cleared")
  /\ \/ GiveUp("error", "failed")
     \/ m \in Exact /\ GiveUp("excused", "failed")
     \/ /\ m \in Exact => delivery[m] = "pending"
        /\ delivery' = [delivery EXCEPT ![m] = IF m \in Exact THEN "started" ELSE @]
        /\ Go("promoted")
        /\ UNCHANGED intent
  /\ UNCHANGED <<sender, stamp, queue, control, session, stops, past>>

\* Mutant: a turn that is stopped after its promotion leaves its delivery started.
AskAgain_Leaves_Delivery ==
  /\ At("promoted")
  /\ worker' = IF StoppedByName(worker.msg)
               THEN [worker EXCEPT !.phase = "closing", !.outcome = "excused"]
               ELSE [worker EXCEPT !.phase = "installing"]
  /\ UNCHANGED <<sender, stamp, queue, control, session, rows, stops, past>>

AskAgain ==
  /\ At("promoted")
  /\ IF StoppedByName(worker.msg)
     THEN GiveUp("excused", "cancelled")
     ELSE Go("installing") /\ UNCHANGED rows
  /\ UNCHANGED <<sender, stamp, queue, control, session, stops, past>>

\* The third question, after the turn can be signalled, closes the gap.
BeginTurn ==
  /\ At("installing")
  /\ active' = worker.msg
  /\ flag' = (flag \/ StoppedByName(worker.msg))
  /\ Go("running")
  /\ UNCHANGED <<sender, stamp, queue, control, processing, steering, rows, stops, past>>

\* Before each call of the provider, and once more before the last answer.
DrainSteering ==
  /\ At("running")
  /\ ~flag
  /\ steering # {}
  /\ steering' = {}
  /\ intent' = [m \in Msgs |-> IF m \in steering /\ intent[m] = "queued"
                               THEN "completed" ELSE intent[m]]
  /\ UNCHANGED <<sender, stamp, queue, control, processing, flag, active, delivery,
                 worker, stops, past>>

FinishLoop(outcome) ==
  /\ At("running")
  /\ outcome = "completed" => steering = {} \/ flag
  /\ outcome = "cancelled" => flag
  /\ worker' = [worker EXCEPT !.phase = "ended", !.outcome = outcome]
  /\ UNCHANGED <<sender, stamp, queue, control, session, rows, stops, past>>

EndTurn ==
  /\ At("ended")
  /\ active' = NoMsg
  /\ Go("finalizing")
  /\ UNCHANGED <<sender, stamp, queue, control, processing, steering, flag, rows,
                 stops, past>>

\* The delivery, the Run of the turn and the Session are settled before the flag
\* is cleared, and that takes its time.
FinalizeSession ==
  /\ At("finalizing")
  /\ SettleDelivery(worker.msg, worker.outcome)
  /\ flag' = FALSE
  /\ Go("closing")
  /\ UNCHANGED <<sender, stamp, queue, control, processing, steering, active, stops, past>>

\* The intent of a mention was settled with its delivery.  The error of an executor
\* whose generation has passed is ignored, and so is an excused one.
CloseIntent ==
  LET m == worker.msg  result == worker.outcome IN
  /\ At("closing")
  /\ IF \/ result = "excused"
        \/ result = "error" /\ stamp[m] # generation
        \/ result # "error" /\ m \in Exact
     THEN UNCHANGED intent
     ELSE UpdateIntent(m, IF result = "error" THEN "failed" ELSE result)
  /\ Go("releasing")
  /\ UNCHANGED <<sender, stamp, queue, control, session, delivery, stops, past>>

Release ==
  LET m == worker.msg IN
  /\ At("releasing")
  /\ current' = IF current = m THEN NoMsg ELSE current
  /\ cancelled' = cancelled \ {m}
  /\ Forget(m)
  /\ processing' = FALSE
  /\ worker' = NoWork
  /\ UNCHANGED <<sender, stamp, channel, pending, generation, steering, flag, active,
                 rows, stops, past>>

-----------------------------------------------------------------------------
(* invalidate_pending, then the rest of cancel_active_turn. *)

Press(u, from, to) == stopper[u] = from /\ stopper' = [stopper EXCEPT ![u] = to]

Waiting(m) ==
  /\ sender[m] \in {"stamped", "counted", "full", "uncounted", "sent"}
  /\ m \notin begun \cup dropped

BumpGeneration(u) ==
  /\ Press(u, "idle", "bumped")
  /\ generation' = generation + 1
  /\ doomed' = doomed \cup {m \in Msgs : Waiting(m)}
  /\ UNCHANGED <<sender, stamp, channel, pending, ids, control, session, rows, worker,
                 exactStop, begun, dropped>>

ZeroPending(u) ==
  /\ Press(u, "bumped", "zeroed")
  /\ pending' = 0
  /\ UNCHANGED <<sender, stamp, channel, generation, ids, control, session, rows,
                 worker, exactStop, past>>

\* Somebody is about to use the ids and may hold their lock.
IdsInUse ==
  \/ \E m \in Msgs : sender[m] \in {"admitted", "uncounted"} /\ ClientOf[m] # NoClient
  \/ worker.phase \in {"named", "stale", "releasing"}

ClearIds(u) ==
  /\ Press(u, "zeroed", "cleared")
  /\ \/ ids' = [c \in Clients |-> NoMsg]
     \/ IdsInUse /\ UNCHANGED ids
  /\ UNCHANGED <<sender, stamp, channel, pending, generation, control, session, rows,
                 worker, exactStop, past>>

MarkPendingStale(u) ==
  /\ Press(u, "cleared", "marked")
  /\ intent' = [m \in Msgs |-> IF intent[m] = "queued" THEN "stale" ELSE intent[m]]
  /\ UNCHANGED <<sender, stamp, queue, control, session, delivery, worker, exactStop,
                 past>>

SteeringInUse ==
  \/ \E m \in Msgs : sender[m] \in {"pushing", "reclaiming"}
  \/ At("running")

ClearSteering(u) ==
  /\ Press(u, "marked", "unsteered")
  /\ steering' = {} \/ (SteeringInUse /\ UNCHANGED steering)
  /\ UNCHANGED <<sender, stamp, queue, control, processing, flag, active, rows, worker,
                 exactStop, past>>

\* A user's Stop sets the flag whether there is an active turn or not.
SignalTurn(u) ==
  /\ Press(u, "unsteered", "done")
  /\ flag' = TRUE
  /\ UNCHANGED <<sender, stamp, queue, control, processing, steering, active, rows,
                 worker, exactStop, past>>

-----------------------------------------------------------------------------
(* agent_org_stop_group_delivery. *)

Name(m, from, to) ==
  exactStop[m] = from /\ exactStop' = [exactStop EXCEPT ![m] = to]

\* prepare_exact_group_cancellation.
PersistStop(m) ==
  /\ delivery[m] # "none"
  /\ Name(m, "idle", IF delivery[m] \in {"pending", "started"} THEN "persisted" ELSE "late")
  /\ IF delivery[m] = "pending"
     THEN SettleDelivery(m, "cancelled")
     ELSE UNCHANGED rows
  /\ UNCHANGED <<sender, stamp, queue, control, session, worker, stopper, past>>

Excess(names) == IF Cardinality(names) > MaxTargeted THEN Cardinality(names) - MaxTargeted ELSE 0

\* Mutant: the turn that executes makes room as well.
InvalidateTurn_Evicts_Current(m) ==
  /\ Name(m, "persisted", IF current = m THEN "signalling" ELSE "done")
  /\ \E gone \in SUBSET cancelled :
       /\ Cardinality(gone) = Excess(cancelled \cup {m})
       /\ cancelled' = (cancelled \ gone) \cup {m}
  /\ UNCHANGED <<sender, stamp, queue, current, session, rows, worker, stopper, past>>

\* invalidate_turn makes room in the registry, but for the turn that executes.
InvalidateTurn(m) ==
  LET names == cancelled \cup {m}
      evictable == names \ {m, current}
  IN
  /\ Name(m, "persisted", IF current = m THEN "signalling" ELSE "done")
  /\ \E gone \in SUBSET evictable :
       /\ Cardinality(gone) <= Excess(names)
       /\ gone = evictable \/ Cardinality(gone) = Excess(names)
       /\ cancelled' = names \ gone
  /\ UNCHANGED <<sender, stamp, queue, current, session, rows, worker, stopper, past>>

\* cancel_active_turn_if_intent.
SignalExactTurn(m) ==
  /\ Name(m, "signalling", "done")
  /\ flag' = (flag \/ active = m)
  /\ UNCHANGED <<sender, stamp, queue, control, processing, steering, active, rows,
                 worker, stopper, past>>

-----------------------------------------------------------------------------
CallerStep(m) ==
  \/ LookAround(m) \/ UpsertIntent(m) \/ PushSteering(m) \/ Recheck(m) \/ Reclaim(m)
  \/ Deduplicate(m) \/ StampGeneration(m) \/ CountPending(m) \/ TrySend(m)
  \/ UncountPending(m) \/ RejectMessage(m)

WorkerStep ==
  \/ Receive \/ ClaimTurn \/ DropNamed \/ CheckGeneration \/ DropStale
  \/ BeginProcessing \/ WriteIntent
  \/ ClearFlag \/ PromoteTurn \/ AskAgain \/ BeginTurn \/ DrainSteering
  \/ \E outcome \in Outcomes : FinishLoop(outcome)
  \/ EndTurn \/ FinalizeSession \/ CloseIntent \/ Release

StopStep(u) ==
  \/ BumpGeneration(u) \/ ZeroPending(u) \/ ClearIds(u) \/ MarkPendingStale(u)
  \/ ClearSteering(u) \/ SignalTurn(u)

ExactStopStep(m) == PersistStop(m) \/ InvalidateTurn(m) \/ SignalExactTurn(m)

Next ==
  \/ \E m \in Msgs : CallerStep(m)
  \/ WorkerStep
  \/ \E u \in Stops : StopStep(u)
  \/ \E m \in Exact : ExactStopStep(m)

Spec == Init /\ [][Next]_vars

\* A call that was made goes on and the worker is a task that Tokio polls; a turn
\* ends, for its provider has timeouts.  Nobody has to send or to press Stop.
Fairness ==
  /\ \A m \in Msgs : WF_vars(sender[m] # "new" /\ CallerStep(m))
  /\ WF_vars(WorkerStep)
  /\ \A u \in Stops : WF_vars(stopper[u] # "idle" /\ StopStep(u))
  /\ \A m \in Exact : WF_vars(exactStop[m] # "idle" /\ ExactStopStep(m))

FairSpec == Spec /\ Fairness

-----------------------------------------------------------------------------
(* Properties. *)

Phases ==
  {"idle", "received", "named", "claimed", "fresh", "stale", "promoting", "begun",
   "cleared", "promoted", "installing", "running", "ended", "finalizing", "closing",
   "releasing"}

CallPoints ==
  {"new", "steering", "pushing", "rechecking", "reclaiming", "steered", "admitting",
   "admitted", "duplicate", "unique", "stamped", "counted", "full", "uncounted",
   "rejected", "sent"}

StopPoints == {"idle", "bumped", "zeroed", "cleared", "marked", "unsteered", "done"}

\* The state has the types of the code.
TypeOK ==
  /\ sender \in [Msgs -> CallPoints]
  /\ stamp \in [Msgs -> Nat]
  /\ channel \in Seq(Msgs) /\ Len(channel) <= Capacity
  /\ pending \in 0 .. (Wrap - 1)
  /\ generation \in Nat
  /\ ids \in [Clients -> Msgs \cup {NoMsg}]
  /\ current \in Msgs \cup {NoMsg}
  /\ cancelled \subseteq Exact
  /\ processing \in BOOLEAN /\ flag \in BOOLEAN
  /\ steering \subseteq Msgs
  /\ active \in Msgs \cup {NoMsg}
  /\ intent \in [Msgs -> IntentStatus]
  /\ delivery \in [Msgs -> {"none", "pending", "started"} \cup Outcomes]
  /\ worker \in [msg : Msgs \cup {NoMsg}, phase : Phases, seen : IntentStatus,
                 outcome : Outcomes \cup {"none", "error", "excused"}]
  /\ stopper \in [Stops -> StopPoints]
  /\ exactStop \in [Exact -> {"idle", "persisted", "signalling", "late", "done"}]
  /\ begun \subseteq Msgs /\ dropped \subseteq Msgs /\ doomed \subseteq Msgs

\* A message between its admission and the moment the worker lets it go.
InFlight(m) ==
  \/ sender[m] \in {"unique", "stamped", "counted", "full", "uncounted"}
  \/ \E i \in 1 .. Len(channel) : channel[i] = m
  \/ worker.msg = m

\* A client id is remembered only for a message in flight: whatever way a message
\* leaves, whoever sends the same thing again is not turned away as a duplicate.
NoLeakedClientId ==
  \A c \in Clients : ids[c] # NoMsg => InFlight(ids[c]) /\ ClientOf[ids[c]] = c

\* While nobody presses Stop, the messages of one client id do not execute twice:
\* at most one of them is in flight.
OneLivePerClient ==
  generation = 0 =>
    \A m, n \in Msgs :
      InFlight(m) /\ InFlight(n) /\ ClientOf[m] = ClientOf[n] /\ ClientOf[m] # NoClient
        => m = n

\* What a Stop found waiting never starts, wherever it was: between the generation
\* it was given and the counter, in the channel, or already taken by the worker.
StoppedNeverStarts == begun \cap doomed = {}

\* A message is discarded only because of a Stop that found it waiting or named it:
\* one that is sent after a Stop goes through.
FreshNeverDropped ==
  dropped \subseteq doomed \cup {m \in Exact : exactStop[m] \notin {"idle", "persisted"}}

\* A message the counter has and the worker has not taken off it.
Counted(m) ==
  \/ sender[m] \in {"counted", "full"}
  \/ \E i \in 1 .. Len(channel) : channel[i] = m
  \/ worker.msg = m /\ worker.phase \in {"received", "named", "claimed", "fresh"}

\* While nobody presses Stop, the counter by which eviction and shutdown decide that
\* nothing is waiting is exact.
PendingCounts == generation = 0 => pending = Cardinality({m \in Msgs : Counted(m)}) % Wrap

\* An exact Stop is not lost: once it is done, its turn does not execute unless it
\* has been told to end.  The registry may forget the Stop, the delivery does not.
NamedStopHolds ==
  At("running") /\ worker.msg \in Exact =>
    (exactStop[worker.msg] = "done" => flag)

\* A started delivery belongs to the turn that executes, so the next one of the
\* Member is not held back by a turn that is gone.
StartedIsExecuted ==
  \A m \in Exact : delivery[m] = "started" =>
    /\ worker.msg = m
    /\ worker.phase \in {"promoted", "installing", "running", "ended", "finalizing"}

\* Every client id becomes free again.
EveryIdReturns == \A m \in Msgs : (\E c \in Clients : ids[c] = m) ~> (\A c \in Clients : ids[c] # m)

-----------------------------------------------------------------------------
(* What the code says and does not do. *)

\* session_runtime.rs:893: Stop reaches the turn, and nothing that was queued starts.
StopReachesTheTurn ==
  At("running") /\ stamp[worker.msg] # generation =>
    flag \/ \E u \in Stops : stopper[u] \notin {"idle", "done"}

\* completion.rs:53: a message that is steered into a turn that completes is read.
SteeringIsRead ==
  /\ At("idle") /\ channel = <<>> /\ generation = 0
  /\ \A m \in Msgs : intent[m] # "failed"
  /\ \A m \in Msgs : sender[m] \in {"new", "steered", "duplicate", "rejected", "sent"}
  => steering = {}

\* turn_intents.rs:235: "a terminal can never walk backwards into a non-terminal".
TerminalIntentsFinal ==
  [][\A m \in Msgs :
       intent[m] \in IntentStatus \ {"absent", "queued", "running"} =>
         intent'[m] \notin {"queued", "running"}]_intent
=============================================================================
