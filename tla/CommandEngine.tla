--------------------------- MODULE CommandEngine ---------------------------
(***************************************************************************)
(* OrchestrationEngine.ts and orchestrationAdmission.ts: callers hand      *)
(* commands to three lanes, one worker commits each as an event with its   *)
(* receipt, projects it, publishes it and answers; deadlines, failures and *)
(* stop cut across.  Beside the worker runs the catch-up of the deferred   *)
(* projection (the thread summaries), under the same maintenance lock.     *)
(*                                                                         *)
(* Abstracted: a command is its id, its lane and its thread and produces   *)
(* one event; a receipt's fingerprint always matches; the read model is    *)
(* its snapshotSequence; the summary of a thread is the length of the log  *)
(* it was computed from, because it is computed anew from the projected    *)
(* tables each time.  repairState and refreshCommandReadModel    *)
(* are left out.                                                           *)
(***************************************************************************)
EXTENDS Naturals, Sequences, Functions

CONSTANTS
    Calls,            \* calls of dispatch, each made at most once
    IdOf,             \* the command id of a call
    LaneOf,           \* the lane of a command
    ThreadOf,         \* the thread whose summary a command's event changes
    Capacity, Reserve,
    Workloads,        \* bound: sets of calls that are made in one behaviour
    MaxMishaps        \* bound: deadlines, failures and crashes

Lanes == {"control", "user", "normal"}
Ids == Range(IdOf)
Threads == Range(ThreadOf)

ASSUME EngineAssumption ==
    /\ DOMAIN IdOf = Calls /\ "none" \notin Calls
    /\ LaneOf \in [Ids -> Lanes] /\ DOMAIN ThreadOf = Ids
    /\ Capacity \in Nat /\ Reserve \in 1 .. Capacity - 1
    /\ Workloads \subseteq SUBSET Calls /\ MaxMishaps \in Nat

VARIABLES
    log,          \* the calls whose event was appended, in sequence order
    receipts,     \* per command id
    cursor,       \* last_applied_sequence of the deferred projector
    summary,      \* per thread, how much of the log its summary reflects
    base,         \* commandReadModel.snapshotSequence
    queues,       \* the lanes
    wake,         \* tokens in the wake queue
    phase, outstanding,
    worker,       \* what the worker is doing
    lock,         \* who holds the maintenance lock
    caller,       \* per call: its dispatch, as the caller sees it
    execution,    \* per call: executionState
    result,       \* per call: its result deferred
    dirty,        \* deferredProjectionDirty
    catchUp,      \* the catch-up fiber; "off": not in flight
    heard,        \* history: events published or replayed to subscribers
    torn,         \* history: events a failed reconciliation left unpublished
    slipped,      \* history: events whose deferred projection was passed over
    unread,       \* history: calls whose receipt could not be read
    mishaps

durable == <<log, receipts, cursor, summary>>
engine  == <<base, queues, wake, phase, outstanding, lock>>
calls   == <<caller, execution, result>>
repair  == <<dirty, catchUp>>
ghosts  == <<torn, slipped, unread>>
vars    == <<durable, engine, worker, calls, repair, heard, ghosts, mishaps>>

Resting == [step |-> "take", call |-> "none", start |-> 0, error |-> "none"]
NoReceipt == [status |-> "none", sequence |-> 0]
Nothing   == [kind |-> "none", sequence |-> 0]
Answer(kind, n) == [kind |-> kind, sequence |-> n]

Me  == worker.call
Id  == IdOf[Me]
To(step)  == worker' = [worker EXCEPT !.step = step]
Err(kind) == worker' = [worker EXCEPT !.step = "reconcile", !.error = kind]
Mishap == mishaps < MaxMishaps /\ mishaps' = mishaps + 1

Thread(n) == ThreadOf[IdOf[log[n]]]
Queued == Len(queues["control"]) + Len(queues["user"]) + Len(queues["normal"])
Unanswered(c) == result[c] = Nothing

Init ==
    /\ log = <<>> /\ receipts = [i \in Ids |-> NoReceipt]
    /\ cursor = 0 /\ summary = [t \in Threads |-> 0] /\ base = 0
    /\ queues = [l \in Lanes |-> <<>>] /\ wake = 0
    /\ phase = "running" /\ outstanding = 0
    /\ worker = Resting /\ lock = "free"
    /\ caller = [c \in Calls |-> "idle"] /\ execution = [c \in Calls |-> "queued"]
    /\ result = [c \in Calls |-> Nothing]
    /\ dirty = FALSE /\ catchUp = "off"
    /\ heard = {} /\ torn = {} /\ slipped = {} /\ unread = {} /\ mishaps = 0

-----------------------------------------------------------------------------
(* Callers.                                                                *)

AdmissionLimit(lane) == IF lane = "control" THEN Capacity ELSE Capacity - Reserve
Accepting(id) == phase = "running" \/ (phase = "quiescing" /\ LaneOf[id] = "control")

AdmitsPerLane(id) == Accepting(id) /\ Len(queues[LaneOf[id]]) < AdmissionLimit(LaneOf[id])

(* The reserve is measured against everything queued, in whatever lane.    *)
Admits(id) == Accepting(id) /\ Queued < AdmissionLimit(LaneOf[id])

Made == {c \in Calls : caller[c] # "idle"}

Dispatch(c) ==
    /\ caller[c] = "idle" /\ \E w \in Workloads : Made \cup {c} \subseteq w
    /\ IF Admits(IdOf[c])
       THEN /\ queues' = [queues EXCEPT ![LaneOf[IdOf[c]]] = Append(@, c)]
            /\ wake' = wake + 1 /\ outstanding' = outstanding + 1
            /\ caller' = [caller EXCEPT ![c] = "waiting"]
       ELSE /\ caller' = [caller EXCEPT ![c] = "refused"]
            /\ UNCHANGED <<queues, wake, outstanding>>
    /\ UNCHANGED <<durable, base, phase, lock, worker, execution, result, repair, heard, ghosts, mishaps>>

GiveUpRegardless(c) ==
    /\ caller[c] = "waiting" /\ Unanswered(c) /\ Mishap
    /\ caller' = [caller EXCEPT ![c] = "abandoned"]
    /\ UNCHANGED <<durable, engine, worker, execution, result, repair, heard, ghosts>>

(* The caller's deadline passes: a command that has not started is         *)
(* abandoned, one that has is waited for.                                  *)
GiveUp(c) ==
    /\ caller[c] = "waiting" /\ Unanswered(c) /\ Mishap
    /\ IF execution[c] = "queued"
       THEN /\ execution' = [execution EXCEPT ![c] = "abandoned"]
            /\ caller' = [caller EXCEPT ![c] = "abandoned"]
       ELSE /\ caller' = [caller EXCEPT ![c] = "late"]
            /\ UNCHANGED execution
    /\ UNCHANGED <<durable, engine, worker, result, repair, heard, ghosts>>

Quiesce ==
    /\ phase = "running" /\ phase' = "quiescing"
    /\ UNCHANGED <<durable, base, queues, wake, outstanding, lock, worker, calls, repair, heard, ghosts, mishaps>>

(* stop: the lanes take nothing more, and are emptied. *)
Stop ==
    /\ phase \in {"running", "quiescing"} /\ phase' = "draining"
    /\ UNCHANGED <<durable, base, queues, wake, outstanding, lock, worker, calls, repair, heard, ghosts, mishaps>>

StopReturns ==
    /\ phase = "draining" /\ worker.step = "exited" /\ outstanding = 0
    /\ phase' = "stopped"
    /\ UNCHANGED <<durable, base, queues, wake, outstanding, lock, worker, calls, repair, heard, ghosts, mishaps>>

-----------------------------------------------------------------------------
(* The worker takes a token, and with it the first command of the first    *)
(* lane that has one; a command may arrive between two looks.              *)

TakeToken ==
    /\ worker.step = "take" /\ wake > 0
    /\ wake' = wake - 1
    /\ To("control")
    /\ UNCHANGED <<durable, base, queues, phase, outstanding, lock, calls, repair, heard, ghosts, mishaps>>

TakeFrom(lane) ==
    /\ worker' = [step |-> "built", call |-> Head(queues[lane]), start |-> base, error |-> "none"]
    /\ queues' = [queues EXCEPT ![lane] = Tail(@)]

Look(lane, below) ==
    /\ worker.step = lane
    /\ IF queues[lane] # <<>> THEN TakeFrom(lane) ELSE To(below) /\ UNCHANGED queues
    /\ UNCHANGED <<durable, base, wake, phase, outstanding, lock, calls, repair, heard, ghosts, mishaps>>

TakeNormal ==
    /\ worker.step = "normal" /\ queues["normal"] # <<>>
    /\ TakeFrom("normal")
    /\ UNCHANGED <<durable, base, wake, phase, outstanding, lock, calls, repair, heard, ghosts, mishaps>>

ExitAtOnce ==
    /\ worker.step = "take" /\ phase = "draining"
    /\ To("exited")
    /\ UNCHANGED <<durable, engine, calls, repair, heard, ghosts, mishaps>>

Exit ==
    /\ worker.step = "take" /\ wake = 0 /\ phase = "draining"
    /\ To("exited")
    /\ UNCHANGED <<durable, engine, calls, repair, heard, ghosts, mishaps>>

-----------------------------------------------------------------------------
(* processEnvelope, from the lock to the answer.                           *)

Begin ==
    /\ worker.step = "built" /\ lock = "free"
    /\ lock' = "worker"
    /\ IF execution[Me] = "abandoned"
       THEN To("finish") /\ UNCHANGED execution
       ELSE To("receipt") /\ execution' = [execution EXCEPT ![Me] = "in-flight"]
    /\ UNCHANGED <<durable, base, queues, wake, phase, outstanding, caller, result, repair, heard, ghosts, mishaps>>

Reply(answer) ==
    /\ result' = [result EXCEPT ![Me] = answer]
    /\ To("finish")

(* What a stored receipt answers. *)
Stored(r) == IF r.status = "accepted" THEN Answer("ok", r.sequence) ELSE Answer("rejected", 0)

CheckReceipt ==
    /\ worker.step = "receipt"
    /\ IF receipts[Id] = NoReceipt THEN To("decide") /\ UNCHANGED result
                                   ELSE Reply(Stored(receipts[Id]))
    /\ UNCHANGED <<durable, engine, caller, execution, repair, heard, ghosts, mishaps>>

(* The decider refuses, or the transaction commits event and receipt, ...  *)
Refuse ==
    /\ worker.step = "decide"
    /\ Err("invariant")
    /\ UNCHANGED <<durable, engine, calls, repair, heard, ghosts, mishaps>>

Commit ==
    /\ worker.step = "decide"
    /\ log' = Append(log, Me)
    /\ receipts' = [receipts EXCEPT ![Id] = [status |-> "accepted", sequence |-> Len(log) + 1]]
    /\ To("committed")
    /\ UNCHANGED <<cursor, summary, engine, calls, repair, heard, ghosts, mishaps>>

(* ... or it fails or throws, and nothing is stored. *)
Fail ==
    /\ worker.step \in {"receipt", "decide"} /\ Mishap
    /\ \E kind \in {"internal", "defect"} : Err(kind)
    /\ UNCHANGED <<durable, engine, calls, repair, heard, ghosts>>

Advance ==
    /\ worker.step = "committed"
    /\ base' = Len(log)
    /\ To("project")
    /\ UNCHANGED <<durable, queues, wake, phase, outstanding, lock, calls, repair, heard, ghosts, mishaps>>

-----------------------------------------------------------------------------
(* The deferred projection, in line or by the catch-up fiber.              *)

Recomputed(events) ==
    [t \in Threads |-> IF \E n \in events : Thread(n) = t THEN Len(log) ELSE summary[t]]

(* scheduleDeferredProjectionCatchUp *)
Scheduled == IF catchUp = "off" THEN "check" ELSE catchUp

(* The catch-up will not look at the log again before it clears the mark.  *)
PassedOver == ~dirty \/ catchUp = "clear"
Slip == slipped' = IF PassedOver THEN slipped \cup {Len(log)} ELSE slipped

ProjectDeferredEvenIfDirty ==
    /\ cursor' = Len(log) /\ summary' = Recomputed({Len(log)})
    /\ UNCHANGED <<repair, slipped>>

ProjectDeferred ==
    IF dirty
    THEN catchUp' = Scheduled /\ Slip /\ UNCHANGED <<cursor, summary, dirty>>
    ELSE /\ cursor' = Len(log) /\ summary' = Recomputed({Len(log)})
         /\ UNCHANGED <<repair, slipped>>

Project ==
    /\ worker.step = "project"
    /\ ProjectDeferred
    /\ To("publish")
    /\ UNCHANGED <<log, receipts, engine, calls, heard, torn, unread, mishaps>>

ProjectionFails ==
    /\ worker.step = "project" /\ ~dirty /\ Mishap
    /\ dirty' = TRUE /\ catchUp' = Scheduled
    /\ To("publish")
    /\ UNCHANGED <<durable, engine, calls, heard, ghosts>>

LockForCatchUp ==
    /\ catchUp = "check"
    /\ IF dirty THEN lock = "free" /\ lock' = "catchUp" /\ catchUp' = "bootstrap"
                ELSE catchUp' = "off" /\ UNCHANGED lock
    /\ UNCHANGED <<durable, base, queues, wake, phase, outstanding, worker, calls, dirty, heard, ghosts, mishaps>>

Bootstrap ==
    /\ catchUp = "bootstrap"
    /\ cursor' = Len(log) /\ summary' = Recomputed(cursor + 1 .. Len(log))
    /\ lock' = "free" /\ catchUp' = "clear"
    /\ UNCHANGED <<log, receipts, base, queues, wake, phase, outstanding, worker, calls, dirty, heard, ghosts, mishaps>>

BootstrapFails ==
    /\ catchUp = "bootstrap" /\ Mishap
    /\ lock' = "free" /\ catchUp' = "check"
    /\ UNCHANGED <<durable, base, queues, wake, phase, outstanding, worker, calls, dirty, heard, ghosts>>

ClearDirty ==
    /\ catchUp = "clear"
    /\ dirty' = FALSE /\ catchUp' = "leave"
    /\ UNCHANGED <<durable, engine, worker, calls, heard, ghosts, mishaps>>

CatchUpEnds ==
    /\ catchUp = "leave" /\ catchUp' = "off"
    /\ UNCHANGED <<durable, engine, worker, calls, dirty, heard, ghosts, mishaps>>

CatchUp == LockForCatchUp \/ Bootstrap \/ ClearDirty \/ CatchUpEnds

-----------------------------------------------------------------------------
(* Publication, the answer, and the ways a command ends badly.             *)

Publish ==
    /\ worker.step = "publish"
    /\ heard' = heard \cup {Len(log)}
    /\ To("reply")
    /\ UNCHANGED <<durable, engine, calls, repair, ghosts, mishaps>>

ReplyOk ==
    /\ worker.step = "reply"
    /\ Reply(Answer("ok", Len(log)))
    /\ UNCHANGED <<durable, engine, caller, execution, repair, heard, ghosts, mishaps>>

(* The deadline interrupts the command wherever it is. *)
Timeout ==
    /\ worker.step \in {"receipt", "decide", "committed", "project", "publish", "reply"} /\ Mishap
    /\ Err("timeout")
    /\ IF worker.step \in {"committed", "project"} THEN Slip ELSE UNCHANGED slipped
    /\ UNCHANGED <<durable, engine, calls, repair, heard, torn, unread>>

ReconcileSilently ==
    /\ worker.step = "reconcile"
    /\ base' = IF worker.start < Len(log) THEN Len(log) ELSE base
    /\ To("resolve")
    /\ UNCHANGED <<durable, queues, wake, phase, outstanding, lock, calls, repair, heard, ghosts, mishaps>>

(* reconcileCommandReadModelAfterDispatchFailure: what was stored since    *)
(* the dispatch began enters the read model and is published again.        *)
Reconcile ==
    /\ worker.step = "reconcile"
    /\ base' = IF worker.start < Len(log) THEN Len(log) ELSE base
    /\ heard' = heard \cup worker.start + 1 .. Len(log)
    /\ To("resolve")
    /\ UNCHANGED <<durable, queues, wake, phase, outstanding, lock, calls, repair, ghosts, mishaps>>

ReconcileFails ==
    /\ worker.step = "reconcile" /\ Mishap
    /\ torn' = torn \cup ((1 .. Len(log)) \ heard)
    /\ To("resolve")
    /\ UNCHANGED <<durable, engine, calls, repair, heard, slipped, unread>>

(* A timeout or a defect is answered by the stored receipt, ... *)
ResolveStored ==
    /\ worker.step = "resolve" /\ worker.error \in {"timeout", "defect"}
    /\ Reply(IF receipts[Id] # NoReceipt THEN Stored(receipts[Id])
             ELSE Answer(IF worker.error = "timeout" THEN "timeout" ELSE "internal", 0))
    /\ UNCHANGED <<durable, engine, caller, execution, repair, heard, ghosts, mishaps>>

(* ... as if there were none when it cannot be read. *)
ReceiptUnreadable ==
    /\ worker.step = "resolve" /\ worker.error \in {"timeout", "defect"} /\ Mishap
    /\ Reply(Answer(IF worker.error = "timeout" THEN "timeout" ELSE "internal", 0))
    /\ unread' = unread \cup {Me}
    /\ UNCHANGED <<durable, engine, caller, execution, repair, heard, torn, slipped>>

(* A refusal is stored, if that succeeds, and answered. *)
StoreRejection ==
    /\ worker.step = "resolve" /\ worker.error = "invariant"
    /\ \/ receipts' = [receipts EXCEPT ![Id] = [status |-> "rejected", sequence |-> base]]
          /\ UNCHANGED mishaps
       \/ Mishap /\ UNCHANGED receipts
    /\ Reply(Answer("rejected", 0))
    /\ UNCHANGED <<log, cursor, summary, engine, caller, execution, repair, heard, ghosts>>

ReplyInternal ==
    /\ worker.step = "resolve" /\ worker.error = "internal"
    /\ Reply(Answer("internal", 0))
    /\ UNCHANGED <<durable, engine, caller, execution, repair, heard, ghosts, mishaps>>

(* finishEnvelope, with the lock released. *)
Finish ==
    /\ worker.step = "finish"
    /\ lock' = "free" /\ outstanding' = outstanding - 1
    /\ worker' = Resting
    /\ UNCHANGED <<durable, base, queues, wake, phase, calls, repair, heard, ghosts, mishaps>>

Work == \/ TakeToken \/ Look("control", "user") \/ Look("user", "normal") \/ TakeNormal \/ Exit
        \/ Begin \/ CheckReceipt \/ Refuse \/ Commit \/ Advance \/ Project \/ Publish \/ ReplyOk
        \/ Reconcile \/ ResolveStored \/ StoreRejection \/ ReplyInternal \/ Finish

(* The process dies and starts again: pipeline.bootstrap and the read      *)
(* model before the worker, and subscribers that replay from the store.    *)
Restart ==
    /\ Mishap
    /\ cursor' = Len(log) /\ summary' = Recomputed(cursor + 1 .. Len(log))
    /\ base' = Len(log) /\ heard' = 1 .. Len(log)
    /\ queues' = [l \in Lanes |-> <<>>] /\ wake' = 0
    /\ phase' = "running" /\ outstanding' = 0
    /\ worker' = Resting /\ lock' = "free" /\ dirty' = FALSE /\ catchUp' = "off"
    /\ caller' = [c \in Calls |-> IF caller[c] \in {"waiting", "late"} /\ Unanswered(c)
                                  THEN "lost" ELSE caller[c]]
    /\ UNCHANGED <<log, receipts, execution, result, ghosts>>

Next == \/ \E c \in Calls : Dispatch(c) \/ GiveUp(c)
        \/ Quiesce \/ Stop \/ StopReturns
        \/ Work \/ CatchUp
        \/ Fail \/ ProjectionFails \/ BootstrapFails \/ Timeout \/ ReconcileFails
        \/ ReceiptUnreadable \/ Restart

Spec == Init /\ [][Next]_vars
FairSpec == Spec /\ WF_vars(Work) /\ WF_vars(CatchUp) /\ WF_vars(StopReturns)

-----------------------------------------------------------------------------
(* Properties.                                                             *)

Polling == worker.step \in {"control", "user", "normal"}
InHand  == worker.step \notin {"take", "control", "user", "normal", "exited"}
Steps   == {"take", "control", "user", "normal", "exited", "built", "receipt", "decide", "committed",
            "project", "publish", "reply", "reconcile", "resolve", "finish"}

PositionsOK ==
    /\ log \in Seq(Calls)
    /\ cursor \in 0 .. Len(log) /\ base \in 0 .. Len(log) /\ summary \in [Threads -> 0 .. Len(log)]
    /\ heard \subseteq 1 .. Len(log) /\ torn \subseteq 1 .. Len(log) /\ slipped \subseteq 1 .. Len(log)

AnswersOK ==
    /\ receipts \in [Ids -> [status : {"none", "accepted", "rejected"}, sequence : Nat]]
    /\ caller \in [Calls -> {"idle", "waiting", "late", "refused", "abandoned", "lost"}]
    /\ execution \in [Calls -> {"queued", "in-flight", "abandoned"}]
    /\ result \in [Calls -> [kind : {"none", "ok", "rejected", "timeout", "internal"}, sequence : Nat]]
    /\ unread \subseteq Calls /\ mishaps \in 0 .. MaxMishaps

WorkerOK ==
    /\ worker \in [step : Steps, call : Calls \cup {"none"}, start : Nat,
                   error : {"none", "invariant", "internal", "defect", "timeout"}]
    /\ worker.start <= Len(log)
    /\ InHand <=> worker.call # "none"
    /\ lock \in {"free", "worker", "catchUp"}
    /\ lock = "worker" <=> InHand /\ worker.step # "built"
    /\ lock = "catchUp" <=> catchUp = "bootstrap"
    /\ catchUp \in {"off", "check", "bootstrap", "clear", "leave"} /\ dirty \in BOOLEAN

CountsOK ==
    /\ phase \in {"running", "quiescing", "draining", "stopped"}
    /\ queues \in [Lanes -> Seq(Calls)] /\ Queued <= Capacity
    /\ wake \in Nat /\ wake + (IF Polling THEN 1 ELSE 0) = Queued
    /\ worker.step = "user" => queues["user"] # <<>> \/ queues["normal"] # <<>>
    /\ worker.step = "normal" => queues["normal"] # <<>>
    /\ outstanding = Queued + (IF InHand THEN 1 ELSE 0)

(* Types, and the two counts that admission, drain and stop rely on: one   *)
(* token for each queued command, so that a token taken always finds one,  *)
(* and outstanding, the commands queued or in the worker's hand.           *)
TypeOK == PositionsOK /\ AnswersOK /\ WorkerOK /\ CountsOK

(* Every answer is the truth about the log: a command id commits once, a   *)
(* success names the event of that id, and whoever was told that the       *)
(* command timed out, failed, was refused or was given up while queued has *)
(* no event in the log, then or later; only an unreadable receipt lies.    *)
AnswersTrue ==
    /\ \A m, n \in 1 .. Len(log) : IdOf[log[m]] = IdOf[log[n]] => m = n
    /\ \A c \in Calls :
         /\ result[c].kind = "ok" =>
              /\ result[c].sequence \in 1 .. Len(log) /\ IdOf[log[result[c].sequence]] = IdOf[c]
         /\ \/ result[c].kind \in {"timeout", "internal", "rejected"} /\ c \notin unread
            \/ caller[c] \in {"abandoned", "refused"}
            => \A n \in 1 .. Len(log) : log[n] # c

(* The engine decides ids and tells calls as the ledger promises: what a   *)
(* deadline, a failure or a restart cuts off leaves no decision that is    *)
(* taken back or taken twice, and no answer that a later step belies.      *)
Told(c) ==
    CASE caller[c] \in {"refused", "abandoned"} -> Answer("failed", 0)
      [] caller[c] \notin {"refused", "abandoned"} /\ c \in unread -> Answer("unknown", 0)
      [] OTHER -> IF result[c].kind \in {"timeout", "internal"} THEN Answer("failed", 0) ELSE result[c]

Promised == INSTANCE CommandLedger
    WITH verdict <- [i \in Ids |-> receipts[i].status],
         answer <- [c \in Calls |-> Told(c)]
LedgerSpec == Promised!Spec

(* Live subscribers hear each committed event, the first time in log order *)
(* and before any later one, and the worker turns to no other command      *)
(* while one is unheard, whatever deadlines and failures it met; only a    *)
(* reconciliation that fails itself leaves a gap.                          *)
BusInOrder ==
    [][/\ \A n \in heard' \ heard : \A m \in 1 .. n : m \in heard' \cup torn
       /\ (Polling \/ worker = Resting)' => 1 .. Len(log') \subseteq heard' \cup torn']_vars

(* No summary is left behind an event that the deferred cursor has passed, *)
(* so that a bootstrap could not repair it either: the projection slips    *)
(* only when a deadline cuts it off after the commit, or when the catch-up *)
(* is about to clear the mark it was scheduled under.                      *)
SummariesKept == \A n \in 1 .. cursor : summary[Thread(n)] >= n \/ n \in slipped

(* Again and again no admitted caller waits for an answer, no catch-up is  *)
(* in flight and no stop is pending, whatever has failed: answers, the     *)
(* catch-up and stop all come to an end.                                   *)
EngineSettles ==
    []<>(/\ \A c \in Calls : caller[c] \in {"waiting", "late"} => ~Unanswered(c)
         /\ catchUp = "off" /\ phase # "draining")

=============================================================================
