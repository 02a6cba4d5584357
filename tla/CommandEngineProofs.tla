------------------------ MODULE CommandEngineProofs ------------------------
(***************************************************************************)
(* Theorems about CommandEngine, for any calls, ids, lanes, capacities and *)
(* bounds that satisfy EngineAssumption.                                   *)
(*                                                                         *)
(* The inductive invariant IInv adds to the properties what they rest on:  *)
(* while the worker is between the commit and the answer its command is    *)
(* the last of the log (Landed); receipts and log name each other          *)
(* (Ledger); a command is decided only without a receipt, and is not in    *)
(* the log before it is (Undecided, NotYet); what execution, result and    *)
(* caller say of a call fits the place the call is in (Tracked, QueuesOK); *)
(* and every event is heard, or its summary computed, or somebody is still *)
(* to do it (BusFilled, MarkOK, Behind).                                   *)
(*                                                                         *)
(* The engine implements CommandLedger: the call in hand has no answer yet *)
(* (AnswerIsFirst), so that what it is told is told once and is what was   *)
(* decided (TellsStored, TellsFailure).                                    *)
(***************************************************************************)
EXTENDS CommandEngine, TLAPS

(* The worker is past the commit: its command is the last of the log.      *)
Landed ==
    worker.step \in {"committed", "project", "publish", "reply"} =>
        worker.start < Len(log) /\ log[Len(log)] = Me

(* Accepted receipts and events correspond, one to one.                    *)
Ledger ==
    /\ \A i \in Ids : receipts[i].status = "accepted" =>
         receipts[i].sequence \in 1 .. Len(log) /\ IdOf[log[receipts[i].sequence]] = i
    /\ \A n \in 1 .. Len(log) : receipts[IdOf[log[n]]].status = "accepted" /\ receipts[IdOf[log[n]]].sequence = n

(* A command about to be decided, or just refused, has no receipt.         *)
Undecided ==
    worker.step = "decide" \/ (worker.step \in {"reconcile", "resolve"} /\ worker.error = "invariant") =>
        receipts[Id] = NoReceipt

(* A call that is queued, or just taken: nothing has happened to it.       *)
Fresh(c) == /\ execution[c] \in {"queued", "abandoned"} /\ result[c] = Nothing
            /\ caller[c] \notin {"idle", "refused"}

(* What is recorded of a call fits what has become of it.                  *)
Tracked ==
    /\ \A n \in 1 .. Len(log) : execution[log[n]] = "in-flight"
    /\ \A c \in Calls : caller[c] \in {"idle", "refused"} => execution[c] = "queued" /\ result[c] = Nothing
    /\ \A c \in Calls : caller[c] = "abandoned" => execution[c] = "abandoned"
    /\ worker.step = "built" => Fresh(Me)
    /\ InHand /\ worker.step \notin {"built", "finish"} =>
         execution[Me] = "in-flight" /\ result[Me] = Nothing
    /\ InHand => caller[Me] \notin {"idle", "refused"}

(* The calls in a lane are fresh, differ, and are not in hand.             *)
LaneOK(l) ==
    /\ \A i \in 1 .. Len(queues[l]) : LaneOf[IdOf[queues[l][i]]] = l
    /\ \A i \in 1 .. Len(queues[l]) : Fresh(queues[l][i]) /\ queues[l][i] # Me
    /\ \A i, j \in 1 .. Len(queues[l]) : queues[l][i] = queues[l][j] => i = j
QueuesOK == \A l \in Lanes : LaneOK(l)

(* Before the commit, and after an error before it, the call has no event. *)
NotYet ==
    \/ worker.step \in {"receipt", "decide"}
    \/ worker.step \in {"reconcile", "resolve"} /\ worker.error = "internal"
    => \A n \in 1 .. Len(log) : log[n] # Me

(* The worker still has to publish the last event.                         *)
Unpublished == worker.step \in {"committed", "project", "publish", "reconcile"} /\ worker.start < Len(log)

(* Every event is heard or torn, or the last one is about to be.           *)
BusFilled == \A n \in 1 .. Len(log) : n \in heard \cup torn \/ (n = Len(log) /\ Unpublished)

(* The catch-up runs only while the projection is marked as lagging.       *)
MarkOK == catchUp \in {"bootstrap", "clear"} => dirty

(* A summary behind an event is being repaired, or was passed over.        *)
Behind ==
    \A n \in 1 .. Len(log) :
        \/ summary[Thread(n)] >= n \/ n \in slipped \/ ~PassedOver
        \/ n = Len(log) /\ worker.step \in {"committed", "project"}

IInv == /\ TypeOK /\ Landed /\ Ledger /\ Undecided /\ Tracked /\ QueuesOK /\ NotYet /\ AnswersTrue
        /\ BusFilled /\ MarkOK /\ Behind /\ SummariesKept

-----------------------------------------------------------------------------
(* The types and the counts.                                               *)

LEMMA Names ==
    /\ \A c \in Calls : IdOf[c] \in Ids
    /\ \A i \in Ids : LaneOf[i] \in Lanes /\ ThreadOf[i] \in Threads
  BY EngineAssumption DEF Ids, Threads, Range

LEMMA ThreadsTyped == ASSUME log \in Seq(Calls) PROVE \A n \in 1 .. Len(log) : Thread(n) \in Threads
  BY Names DEF Thread

LEMMA PositionsStep == ASSUME TypeOK, Landed, [Next]_vars PROVE PositionsOK'
<1> USE DEF TypeOK, PositionsOK, durable, engine, ghosts
<1>0. Len(log) \in Nat
  OBVIOUS
<1>1. CASE UNCHANGED <<log, cursor, base, summary, heard, torn, slipped>>
  BY <1>1
<1>2. CASE Commit
  BY <1>2 DEF Commit, WorkerOK, To, Me, InHand
<1>3. CASE Advance
  BY <1>0, <1>3 DEF Advance
<1>4. CASE Publish
  <2>1. Len(log) \in 1 .. Len(log)
    BY <1>0, <1>4 DEF Publish, Landed, WorkerOK
  <2> QED
    BY <1>4, <2>1 DEF Publish
<1>5. CASE Reconcile
  <2>1. worker.start + 1 .. Len(log) \subseteq 1 .. Len(log) /\ Len(log) \in 0 .. Len(log)
    BY <1>0 DEF WorkerOK
  <2> QED
    BY <1>5, <2>1 DEF Reconcile
<1>6. CASE ReconcileFails
  BY <1>0, <1>6 DEF ReconcileFails
<1>7. ASSUME worker.step \in {"committed", "project"}, Slip, UNCHANGED log PROVE slipped' \subseteq 1 .. Len(log')
  <2>1. Len(log) \in 1 .. Len(log)
    BY <1>0, <1>7 DEF Landed, WorkerOK
  <2> QED
    BY <1>7, <2>1 DEF Slip
<1>8. CASE Timeout
  BY <1>7, <1>8 DEF Timeout
<1>9. \A events : Recomputed(events) \in [Threads -> 0 .. Len(log)]
  BY <1>0 DEF Recomputed
<1>10. CASE Project
  <2>1. CASE dirty
    <3>1. slipped' \subseteq 1 .. Len(log')
      BY <1>7, <1>10, <2>1 DEF Project, ProjectDeferred
    <3> QED
      BY <1>10, <2>1, <3>1 DEF Project, ProjectDeferred
  <2>2. CASE ~dirty
    <3>1. Recomputed({Len(log)}) \in [Threads -> 0 .. Len(log)]
      BY <1>9
    <3>2. cursor' = Len(log) /\ summary' = Recomputed({Len(log)}) /\ slipped' = slipped
      BY <1>10, <2>2 DEF Project, ProjectDeferred, repair
    <3>3. summary' \in [Threads -> 0 .. Len(log)] /\ cursor' \in 0 .. Len(log)
      <4>1. summary' \in [Threads -> 0 .. Len(log)]
        BY <3>1, <3>2
      <4>2. cursor' \in 0 .. Len(log)
        BY <1>0, <3>2
      <4> QED
        BY <4>1, <4>2
    <3>4. UNCHANGED <<log, base, heard, torn, slipped>>
      BY <1>10, <3>2 DEF Project
    <3> QED
      BY <3>3, <3>4
  <2> QED
    BY <2>1, <2>2
<1>11. CASE Bootstrap
  BY <1>0, <1>9, <1>11 DEF Bootstrap
<1>12. CASE Restart
  BY <1>0, <1>9, <1>12 DEF Restart
<1> QED
  BY <1>1, <1>2, <1>3, <1>4, <1>5, <1>6, <1>8, <1>10, <1>11, <1>12 DEF Next, vars, Work, CatchUp, Dispatch, GiveUp, Quiesce, Stop, StopReturns,
     TakeToken, Look, TakeNormal, Exit, Begin, CheckReceipt, Refuse, ReplyOk, ResolveStored, StoreRejection, ReplyInternal, Finish,
     LockForCatchUp, ClearDirty, CatchUpEnds, Fail, ProjectionFails, BootstrapFails, ReceiptUnreadable

LEMMA AnswersStep == ASSUME TypeOK, Landed, [Next]_vars PROVE AnswersOK'
<1> USE DEF TypeOK, AnswersOK, durable, engine, calls, ghosts
<1>0. Len(log) \in Nat /\ base \in Nat /\ mishaps \in Nat /\ MaxMishaps \in Nat
  BY EngineAssumption DEF PositionsOK
<1>1. CASE UNCHANGED <<receipts, caller, execution, result, unread, mishaps>>
  BY <1>1
<1>2. ASSUME Mishap PROVE mishaps' \in 0 .. MaxMishaps
  BY <1>0, <1>2 DEF Mishap
<1>3. ASSUME InHand, NEW kind \in {"none", "ok", "rejected", "timeout", "internal"}, NEW n \in Nat,
             Reply(Answer(kind, n))
      PROVE  result' \in [Calls -> [kind : {"none", "ok", "rejected", "timeout", "internal"}, sequence : Nat]]
  BY <1>3 DEF Reply, Answer
<1>4. InHand => Me \in Calls /\ Id \in Ids
  BY Names DEF WorkerOK, Me, Id
<1>5. \A i \in Ids : \E kind \in {"none", "ok", "rejected", "timeout", "internal"}, n \in Nat :
        Stored(receipts[i]) = Answer(kind, n)
  <2> TAKE i \in Ids
  <2>1. receipts[i].sequence \in Nat
    OBVIOUS
  <2> QED
    BY <2>1 DEF Stored
<1>6. ASSUME NEW c \in Calls, Dispatch(c) \/ GiveUp(c) PROVE AnswersOK'
  BY <1>2, <1>6 DEF Dispatch, GiveUp
<1>7. CASE Begin
  BY <1>4, <1>7 DEF Begin, InHand
<1>8. CASE CheckReceipt
  <2>1. InHand
    BY <1>8 DEF CheckReceipt, InHand
  <2>2. CASE receipts[Id] = NoReceipt
    BY <1>8, <2>2 DEF CheckReceipt
  <2>3. CASE receipts[Id] # NoReceipt
    <3>1. Reply(Stored(receipts[Id])) /\ UNCHANGED <<durable, engine, caller, execution, repair, heard, ghosts, mishaps>>
      BY <1>8, <2>3 DEF CheckReceipt
    <3>2. result' \in [Calls -> [kind : {"none", "ok", "rejected", "timeout", "internal"}, sequence : Nat]]
      BY <1>3, <1>4, <1>5, <2>1, <3>1
    <3> QED
      BY <3>1, <3>2
  <2> QED
    BY <2>2, <2>3
<1>9. CASE Commit
  BY <1>0, <1>4, <1>9 DEF Commit, InHand
<1>10. CASE ReplyOk
  BY <1>0, <1>3, <1>10 DEF ReplyOk, InHand
<1>11. CASE ResolveStored
  <2>1. InHand
    BY <1>11 DEF ResolveStored, InHand
  <2>2. \E kind \in {"none", "ok", "rejected", "timeout", "internal"}, n \in Nat : Reply(Answer(kind, n))
    BY <1>4, <1>5, <1>11, <2>1 DEF ResolveStored
  <2>3. result' \in [Calls -> [kind : {"none", "ok", "rejected", "timeout", "internal"}, sequence : Nat]]
    BY <1>3, <2>1, <2>2
  <2> QED
    BY <1>11, <2>3 DEF ResolveStored
<1>12. CASE ReceiptUnreadable
  BY <1>2, <1>3, <1>4, <1>12 DEF ReceiptUnreadable, InHand
<1>13. CASE StoreRejection
  <2>1. result' \in [Calls -> [kind : {"none", "ok", "rejected", "timeout", "internal"}, sequence : Nat]]
    BY <1>3, <1>13 DEF StoreRejection, InHand
  <2>2. receipts' \in [Ids -> [status : {"none", "accepted", "rejected"}, sequence : Nat]]
    <3>1. receipts' = [receipts EXCEPT ![Id] = [status |-> "rejected", sequence |-> base]] \/ receipts' = receipts
      BY <1>13 DEF StoreRejection
    <3>2. [status |-> "rejected", sequence |-> base] \in [status : {"none", "accepted", "rejected"}, sequence : Nat]
      BY <1>0
    <3> QED
      BY <3>1, <3>2
  <2> QED
    BY <1>2, <1>13, <2>1, <2>2 DEF StoreRejection
<1>14. CASE ReplyInternal
  BY <1>3, <1>14 DEF ReplyInternal, InHand
<1>15. CASE Fail \/ ProjectionFails \/ BootstrapFails \/ Timeout \/ ReconcileFails
  BY <1>2, <1>15 DEF Fail, ProjectionFails, BootstrapFails, Timeout, ReconcileFails
<1>16. CASE Restart
  BY <1>2, <1>16 DEF Restart
<1> QED
  BY <1>1, <1>6, <1>7, <1>8, <1>9, <1>10, <1>11, <1>12, <1>13, <1>14, <1>15, <1>16
  DEF Next, vars, Work, CatchUp, Quiesce, Stop, StopReturns, TakeToken, Look, TakeNormal, Exit, Refuse, Advance,
      Project, Publish, Reconcile, Finish, LockForCatchUp, Bootstrap, ClearDirty, CatchUpEnds

LEMMA HeadIsCall ==
    ASSUME CountsOK, NEW lane \in Lanes, queues[lane] # <<>>
    PROVE  Head(queues[lane]) \in Calls /\ Head(queues[lane]) # "none"
  BY EngineAssumption DEF CountsOK, Lanes

LEMMA WorkerStep == ASSUME TypeOK, Landed, [Next]_vars PROVE WorkerOK'
<1> USE DEF TypeOK, WorkerOK, durable, engine, repair, InHand, Steps
<1>0. Len(log) \in Nat /\ base \in Nat /\ base <= Len(log)
  BY DEF PositionsOK
<1>1. CASE UNCHANGED <<log, worker, lock, catchUp, dirty>>
  BY <1>1
<1>2. CASE TakeToken
  BY <1>2 DEF TakeToken, To
<1>3. ASSUME NEW lane \in {"control", "user", "normal"}, worker.step = lane, queues[lane] # <<>>, TakeFrom(lane),
             UNCHANGED <<log, lock, catchUp, dirty>>
      PROVE  WorkerOK'
  BY <1>0, <1>3, HeadIsCall DEF TakeFrom, Lanes
<1>4. ASSUME NEW lane \in {"control", "user"}, NEW below \in {"user", "normal"}, Look(lane, below)
      PROVE  WorkerOK'
  <2>1. CASE queues[lane] # <<>>
    BY <1>3, <1>4, <2>1 DEF Look
  <2>2. CASE queues[lane] = <<>>
    BY <1>4, <2>2 DEF Look, To
  <2> QED
    BY <2>1, <2>2
<1>5. CASE TakeNormal
  BY <1>3, <1>5 DEF TakeNormal
<1>6. CASE Exit
  BY <1>6 DEF Exit, To
<1>7. CASE Begin
  BY <1>7 DEF Begin, To
<1>8. CASE CheckReceipt
  BY <1>8 DEF CheckReceipt, To, Reply
<1>9. CASE Refuse \/ Fail \/ Timeout
  BY <1>9 DEF Refuse, Fail, Timeout, Err
<1>10. CASE Commit
  <2>1. Len(log') = Len(log) + 1
    BY <1>10 DEF Commit, PositionsOK, Me
  <2> QED
    BY <1>0, <1>10, <2>1 DEF Commit, To
<1>11. CASE Advance
  BY <1>11 DEF Advance, To
<1>13. CASE Project
  BY <1>13 DEF Project, ProjectDeferred, To, Scheduled
<1>14. CASE ProjectionFails
  BY <1>14 DEF ProjectionFails, To, Scheduled
<1>15. CASE LockForCatchUp
  BY <1>15 DEF LockForCatchUp
<1>16. CASE Bootstrap \/ BootstrapFails
  BY <1>16 DEF Bootstrap, BootstrapFails
<1>17. CASE ClearDirty \/ CatchUpEnds
  BY <1>17 DEF ClearDirty, CatchUpEnds
<1>18. CASE Publish \/ Reconcile \/ ReconcileFails
  BY <1>18 DEF Publish, Reconcile, ReconcileFails, To
<1>19. CASE ReplyOk \/ ResolveStored \/ ReceiptUnreadable \/ StoreRejection \/ ReplyInternal
  <2>1. worker' = [worker EXCEPT !.step = "finish"] /\ InHand /\ worker.step # "built"
    BY <1>19 DEF ReplyOk, ResolveStored, ReceiptUnreadable, StoreRejection, ReplyInternal, Reply, To
  <2>2. UNCHANGED <<log, lock, catchUp, dirty>>
    BY <1>19 DEF ReplyOk, ResolveStored, ReceiptUnreadable, StoreRejection, ReplyInternal
  <2> QED
    BY <2>1, <2>2
<1>20. CASE Finish \/ Restart
  <2>1. worker' = Resting /\ lock' = "free" /\ catchUp' # "bootstrap" /\ UNCHANGED log
    BY <1>20 DEF Finish, Restart
  <2>2. catchUp' \in {"off", "check", "bootstrap", "clear", "leave"} /\ dirty' \in BOOLEAN
    BY <1>20 DEF Finish, Restart
  <2>3. Resting \in [step : Steps, call : Calls \cup {"none"}, start : Nat,
                     error : {"none", "invariant", "internal", "defect", "timeout"}]
    BY DEF Resting
  <2> QED
    BY <1>0, <2>1, <2>2, <2>3 DEF Resting
<1> QED
  BY <1>1, <1>2, <1>4, <1>5, <1>6, <1>7, <1>8, <1>9, <1>10, <1>11, <1>13, <1>14, <1>15, <1>16, <1>17, <1>18, <1>19, <1>20
  DEF Next, vars, Work, CatchUp, Dispatch, GiveUp, Quiesce, Stop, StopReturns

LEMMA QueuedTyped == ASSUME CountsOK PROVE Queued \in Nat
  BY DEF CountsOK, Queued, Lanes

LEMMA QueuePut ==
    ASSUME CountsOK, NEW lane \in Lanes, NEW c \in Calls, queues' = [queues EXCEPT ![lane] = Append(@, c)]
    PROVE  /\ queues' \in [Lanes -> Seq(Calls)] /\ Queued' = Queued + 1
           /\ \A l \in Lanes : queues[l] # <<>> => queues'[l] # <<>>
<1>1. queues \in [Lanes -> Seq(Calls)]
  BY DEF CountsOK
<1>2. Append(queues[lane], c) \in Seq(Calls) /\ Len(Append(queues[lane], c)) = Len(queues[lane]) + 1
  BY <1>1
<1>3. Append(queues[lane], c) # <<>>
  BY <1>1, <1>2
<1>4. \A l \in Lanes : Len(queues[l]) \in Nat
  BY <1>1
<1>5. queues' \in [Lanes -> Seq(Calls)]
  BY <1>1, <1>2
<1>6. \A l \in Lanes : queues'[l] = IF l = lane THEN Append(queues[lane], c) ELSE queues[l]
  BY <1>1
<1>7. Len(queues'[lane]) = Len(queues[lane]) + 1
  BY <1>2, <1>6
<1>8. \A l \in Lanes : l # lane => Len(queues'[l]) = Len(queues[l])
  BY <1>6
<1>9. Queued' = Queued + 1
  <2> DEFINE n(l) == Len(queues[l])
             m(l) == Len(queues'[l])
  <2>1. n("control") \in Nat /\ n("user") \in Nat /\ n("normal") \in Nat
    BY <1>4 DEF Lanes
  <2>2. m(lane) = n(lane) + 1 /\ \A l \in {"control", "user", "normal"} : l # lane => m(l) = n(l)
    BY <1>7, <1>8 DEF Lanes
  <2>3. Queued = n("control") + n("user") + n("normal") /\ Queued' = m("control") + m("user") + m("normal")
    BY DEF Queued
  <2>4. lane \in {"control", "user", "normal"}
    BY DEF Lanes
  <2> HIDE DEF n, m
  <2> QED
    BY <2>1, <2>2, <2>3, <2>4
<1>10. \A l \in Lanes : queues[l] # <<>> => queues'[l] # <<>>
  BY <1>3, <1>6
<1> QED
  BY <1>5, <1>9, <1>10

LEMMA QueueTook ==
    ASSUME CountsOK, NEW lane \in Lanes, queues[lane] # <<>>, queues' = [queues EXCEPT ![lane] = Tail(@)]
    PROVE  queues' \in [Lanes -> Seq(Calls)] /\ Queued' = Queued - 1
<1>1. queues \in [Lanes -> Seq(Calls)]
  BY DEF CountsOK
<1>2. Tail(queues[lane]) \in Seq(Calls) /\ Len(Tail(queues[lane])) = Len(queues[lane]) - 1
  BY <1>1
<1>4. \A l \in Lanes : Len(queues[l]) \in Nat
  BY <1>1
<1>5. queues' \in [Lanes -> Seq(Calls)]
  BY <1>1, <1>2
<1>6. \A l \in Lanes : queues'[l] = IF l = lane THEN Tail(queues[lane]) ELSE queues[l]
  BY <1>1
<1>7. Len(queues'[lane]) = Len(queues[lane]) - 1
  BY <1>2, <1>6
<1>8. \A l \in Lanes : l # lane => Len(queues'[l]) = Len(queues[l])
  BY <1>6
<1>9. Queued' = Queued - 1
  <2> DEFINE n(l) == Len(queues[l])
             m(l) == Len(queues'[l])
  <2>1. n("control") \in Nat /\ n("user") \in Nat /\ n("normal") \in Nat
    BY <1>4 DEF Lanes
  <2>2. m(lane) = n(lane) - 1 /\ \A l \in {"control", "user", "normal"} : l # lane => m(l) = n(l)
    BY <1>7, <1>8 DEF Lanes
  <2>3. Queued = n("control") + n("user") + n("normal") /\ Queued' = m("control") + m("user") + m("normal")
    BY DEF Queued
  <2>4. lane \in {"control", "user", "normal"}
    BY DEF Lanes
  <2> HIDE DEF n, m
  <2> QED
    BY <2>1, <2>2, <2>3, <2>4
<1> QED
  BY <1>5, <1>9

LEMMA SomethingQueued ==
    ASSUME CountsOK, Queued > 0
    PROVE  \E l \in Lanes : queues[l] # <<>>
<1> DEFINE n(l) == Len(queues[l])
<1>1. SUFFICES ASSUME \A l \in {"control", "user", "normal"} : n(l) = 0 PROVE FALSE
  BY DEF CountsOK, Lanes
<1>2. Queued = n("control") + n("user") + n("normal")
  BY DEF Queued
<1> HIDE DEF n
<1> QED
  BY <1>1, <1>2

LEMMA CountsStep == ASSUME TypeOK, Landed, [Next]_vars PROVE CountsOK'
<1> USE DEF TypeOK, engine
<1>0. Queued \in Nat /\ wake \in Nat /\ outstanding = Queued + (IF InHand THEN 1 ELSE 0)
      /\ wake + (IF Polling THEN 1 ELSE 0) = Queued /\ Queued <= Capacity /\ Capacity \in Nat
  BY QueuedTyped, EngineAssumption DEF CountsOK
<1>1. ASSUME UNCHANGED <<queues, wake, outstanding, phase>>, UNCHANGED InHand, ~Polling, ~Polling'
      PROVE  CountsOK'
  BY <1>1 DEF CountsOK, Queued, Polling
<1>2. ASSUME UNCHANGED <<queues, wake, outstanding, worker>>, phase' \in {"running", "quiescing", "draining", "stopped"}
      PROVE  CountsOK'
  BY <1>2 DEF CountsOK, Queued, Polling, InHand
<1>3. ASSUME NEW c \in Calls, Dispatch(c) PROVE CountsOK'
  <2>1. CASE Admits(IdOf[c])
    <3>1. LaneOf[IdOf[c]] \in Lanes /\ Queued < Capacity
      BY <1>0, <2>1, Names, EngineAssumption DEF Admits, AdmissionLimit
    <3>2. /\ queues' = [queues EXCEPT ![LaneOf[IdOf[c]]] = Append(@, c)]
          /\ wake' = wake + 1 /\ outstanding' = outstanding + 1 /\ UNCHANGED <<phase, worker>>
      BY <1>3, <2>1 DEF Dispatch
    <3>3. /\ queues' \in [Lanes -> Seq(Calls)] /\ Queued' = Queued + 1
          /\ \A l \in Lanes : queues[l] # <<>> => queues'[l] # <<>>
      BY <3>1, <3>2, QueuePut
    <3> QED
      BY <1>0, <3>1, <3>2, <3>3 DEF CountsOK, Polling, InHand, Lanes
  <2>2. CASE ~Admits(IdOf[c])
    BY <1>2, <1>3, <2>2 DEF Dispatch, CountsOK
  <2> QED
    BY <2>1, <2>2
<1>4. CASE TakeToken
  <2>1. worker.step = "take" /\ worker'.step = "control" /\ UNCHANGED <<queues, outstanding, phase>> /\ wake' = wake - 1 /\ wake > 0
    BY <1>4 DEF TakeToken, To, WorkerOK
  <2>2. Queued' = Queued /\ Polling' /\ ~Polling /\ ~InHand /\ ~InHand' /\ worker'.step \notin {"user", "normal"}
    BY <2>1 DEF Queued, Polling, InHand
  <2> QED
    BY <1>0, <2>1, <2>2 DEF CountsOK
<1>5. ASSUME NEW lane \in {"control", "user", "normal"}, worker.step = lane, queues[lane] # <<>>, TakeFrom(lane),
             UNCHANGED <<wake, outstanding, phase>>
      PROVE  CountsOK'
  <2>1. queues' \in [Lanes -> Seq(Calls)] /\ Queued' = Queued - 1
    BY <1>5, QueueTook DEF TakeFrom, Lanes
  <2>2. Polling /\ ~InHand /\ worker'.step = "built"
    BY <1>5 DEF TakeFrom, Polling, InHand
  <2>3. ~Polling' /\ InHand'
    BY <2>2 DEF Polling, InHand
  <2> QED
    BY <1>0, <1>5, <2>1, <2>2, <2>3 DEF CountsOK
<1>6. ASSUME NEW lane \in {"control", "user"}, NEW below \in {"user", "normal"}, Look(lane, below),
             lane = "control" <=> below = "user"
      PROVE  CountsOK'
  <2>1. CASE queues[lane] # <<>>
    BY <1>5, <1>6, <2>1 DEF Look
  <2>2. CASE queues[lane] = <<>>
    <3>1. worker.step = lane /\ worker'.step = below /\ UNCHANGED <<queues, wake, outstanding, phase>>
      BY <1>6, <2>2 DEF Look, To, WorkerOK
    <3>2. Polling /\ ~InHand /\ Polling' /\ ~InHand'
      BY <3>1 DEF Polling, InHand
    <3>3. Queued > 0
      BY <1>0, <3>2
    <3>4. lane = "control" => queues["user"] # <<>> \/ queues["normal"] # <<>>
      BY <2>2, <3>3, SomethingQueued DEF Lanes
    <3>5. lane = "user" => queues["normal"] # <<>>
      BY <2>2, <3>1 DEF CountsOK
    <3> QED
      BY <1>6, <3>1, <3>2, <3>4, <3>5 DEF CountsOK, Queued
  <2> QED
    BY <2>1, <2>2
<1>7. CASE TakeNormal
  BY <1>5, <1>7 DEF TakeNormal
<1>8. CASE Finish
  <2>1. InHand /\ ~InHand' /\ ~Polling /\ ~Polling' /\ outstanding' = outstanding - 1 /\ UNCHANGED <<queues, wake, phase>>
    BY <1>8 DEF Finish, Resting, Polling, InHand
  <2>2. Queued' = Queued /\ worker'.step \notin {"user", "normal"}
    BY <2>1 DEF Queued, Polling
  <2> QED
    BY <1>0, <2>1, <2>2 DEF CountsOK
<1>9. CASE Restart
  <2>1. ~InHand' /\ ~Polling' /\ outstanding' = 0 /\ wake' = 0 /\ phase' = "running" /\ queues' = [l \in Lanes |-> <<>>]
    BY <1>9 DEF Restart, Resting, Polling, InHand
  <2>2. queues' \in [Lanes -> Seq(Calls)] /\ Queued' = 0
    BY <2>1 DEF Queued, Lanes
  <2> QED
    BY <1>0, <2>1, <2>2 DEF CountsOK, Polling
<1>10. ASSUME UNCHANGED <<queues, wake, outstanding, phase>>, worker.step \in Steps, worker'.step \in Steps,
              InHand, InHand' PROVE CountsOK'
  BY <1>1, <1>10 DEF InHand, Polling
<1>11. CASE Exit
  BY <1>1, <1>11 DEF Exit, To, Polling, InHand, WorkerOK
<1>12. CASE Begin \/ CheckReceipt \/ Refuse \/ Commit \/ Fail \/ Advance \/ Timeout
  <2>1. UNCHANGED <<queues, wake, outstanding, phase>>
    BY <1>12 DEF Begin, CheckReceipt, Refuse, Commit, Fail, Advance, Timeout
  <2>2. InHand /\ InHand' /\ ~Polling /\ ~Polling'
    BY <1>12 DEF Begin, CheckReceipt, Refuse, Commit, Fail, Advance, Timeout, Reply, To, Err, InHand, Polling, WorkerOK
  <2> QED
    BY <1>1, <2>1, <2>2
<1>13. CASE Project \/ ProjectionFails \/ Publish \/ Reconcile \/ ReconcileFails
  <2>1. UNCHANGED <<queues, wake, outstanding, phase>>
    BY <1>13 DEF Project, ProjectionFails, Publish, Reconcile, ReconcileFails
  <2>2. InHand /\ InHand' /\ ~Polling /\ ~Polling'
    BY <1>13 DEF Project, ProjectionFails, Publish, Reconcile, ReconcileFails, To, InHand, Polling, WorkerOK
  <2> QED
    BY <1>1, <2>1, <2>2
<1>14. CASE ReplyOk \/ ResolveStored \/ ReceiptUnreadable \/ StoreRejection \/ ReplyInternal
  <2>1. UNCHANGED <<queues, wake, outstanding, phase>>
    BY <1>14 DEF ReplyOk, ResolveStored, ReceiptUnreadable, StoreRejection, ReplyInternal
  <2>2. InHand /\ InHand' /\ ~Polling /\ ~Polling'
    BY <1>14 DEF ReplyOk, ResolveStored, ReceiptUnreadable, StoreRejection, ReplyInternal, Reply, To, InHand, Polling, WorkerOK
  <2> QED
    BY <1>1, <2>1, <2>2
<1>15. ASSUME UNCHANGED <<queues, wake, outstanding, worker, phase>> PROVE CountsOK'
  BY <1>2, <1>15 DEF CountsOK
<1>16. CASE LockForCatchUp \/ Bootstrap \/ BootstrapFails \/ ClearDirty \/ CatchUpEnds \/ UNCHANGED vars
  BY <1>15, <1>16 DEF LockForCatchUp, Bootstrap, BootstrapFails, ClearDirty, CatchUpEnds, vars
<1>17. CASE Quiesce \/ Stop \/ StopReturns
  BY <1>2, <1>17 DEF Quiesce, Stop, StopReturns
<1>18. ASSUME NEW c \in Calls, GiveUp(c) PROVE CountsOK'
  BY <1>15, <1>18 DEF GiveUp
<1> QED
  BY <1>3, <1>4, <1>6, <1>7, <1>8, <1>9, <1>11, <1>12, <1>13, <1>14, <1>16, <1>17, <1>18
  DEF Next, Work, CatchUp

-----------------------------------------------------------------------------
(* The log, the receipts and the calls.                                    *)

LEMMA CommitFacts ==
    ASSUME TypeOK, Commit
    PROVE  /\ log' \in Seq(Calls) /\ Len(log') = Len(log) + 1 /\ Len(log) \in Nat
           /\ log'[Len(log')] = Me /\ \A n \in 1 .. Len(log) : log'[n] = log[n]
           /\ Me \in Calls /\ Id \in Ids /\ Me' = Me
<1>1. Me \in Calls
  BY DEF TypeOK, WorkerOK, Commit, InHand, Me
<1>2. Id \in Ids
  BY <1>1, Names DEF Id
<1>3. Me' = Me
  BY DEF Commit, To, Me, TypeOK, WorkerOK
<1> QED
  BY <1>1, <1>2, <1>3 DEF TypeOK, PositionsOK, Commit

LEMMA LogFrame == ASSUME [Next]_vars, ~Commit PROVE log' = log
  BY DEF Next, vars, durable, Work, CatchUp, Dispatch, GiveUp, Quiesce, Stop, StopReturns, TakeToken, Look, TakeNormal,
     Exit, Begin, CheckReceipt, Refuse, Advance, Project, Publish, ReplyOk, Reconcile, ResolveStored, StoreRejection,
     ReplyInternal, Finish, LockForCatchUp, Bootstrap, ClearDirty, CatchUpEnds, Fail, ProjectionFails, BootstrapFails,
     Timeout, ReconcileFails, ReceiptUnreadable, Restart

LEMMA LandedStep == ASSUME TypeOK, Landed, [Next]_vars PROVE Landed'
<1>1. CASE Commit
  BY <1>1, CommitFacts DEF Commit, To, Landed, TypeOK, WorkerOK
<1>2. CASE ~Commit
  <2>1. log' = log
    BY <1>2, LogFrame
  <2>2. CASE UNCHANGED worker
    BY <2>1, <2>2 DEF Landed, Me
  <2>3. CASE Advance \/ Project \/ ProjectionFails \/ Publish
    <3>1. /\ worker.step \in {"committed", "project", "publish", "reply"}
          /\ worker'.start = worker.start /\ worker'.call = worker.call
      BY <2>3 DEF Advance, Project, ProjectionFails, Publish, To, TypeOK, WorkerOK
    <3> QED
      BY <2>1, <3>1 DEF Landed, Me
  <2>4. CASE worker'.step \notin {"committed", "project", "publish", "reply"}
    BY <2>4 DEF Landed
  <2>5. ASSUME TakeToken \/ Exit \/ Begin
        PROVE  worker'.step \notin {"committed", "project", "publish", "reply"}
    BY <2>5 DEF TakeToken, Exit, Begin, To, TypeOK, WorkerOK
  <2>6. ASSUME Look("control", "user") \/ Look("user", "normal") \/ TakeNormal
        PROVE  worker'.step \notin {"committed", "project", "publish", "reply"}
    BY <2>6 DEF Look, TakeNormal, TakeFrom, To, TypeOK, WorkerOK
  <2>7. ASSUME Refuse \/ Fail \/ Timeout
        PROVE  worker'.step \notin {"committed", "project", "publish", "reply"}
    BY <2>7 DEF Refuse, Fail, Timeout, Err, TypeOK, WorkerOK
  <2>8. ASSUME Reconcile \/ ReconcileFails
        PROVE  worker'.step \notin {"committed", "project", "publish", "reply"}
    BY <2>8 DEF Reconcile, ReconcileFails, To, TypeOK, WorkerOK
  <2>9. ASSUME CheckReceipt \/ ReplyOk \/ ResolveStored \/ ReceiptUnreadable \/ StoreRejection \/ ReplyInternal
        PROVE  worker'.step \notin {"committed", "project", "publish", "reply"}
    BY <2>9 DEF CheckReceipt, ReplyOk, ResolveStored, ReceiptUnreadable, StoreRejection,
       ReplyInternal, Reply, To, TypeOK, WorkerOK
  <2>10. ASSUME Finish \/ Restart
        PROVE  worker'.step \notin {"committed", "project", "publish", "reply"}
    BY <2>10 DEF Finish, Restart, Resting, TypeOK, WorkerOK
  <2> QED
    BY <1>2, <2>2, <2>3, <2>4, <2>5, <2>6, <2>7, <2>8, <2>9, <2>10
    DEF Next, vars, Work, CatchUp, Dispatch, GiveUp, Quiesce, Stop, StopReturns, LockForCatchUp, Bootstrap,
        ClearDirty, CatchUpEnds, BootstrapFails
<1> QED
  BY <1>1, <1>2

LEMMA LedgerStep == ASSUME TypeOK, Ledger, Undecided, [Next]_vars PROVE Ledger'
<1>1. CASE Commit
  <2>1. receipts' = [receipts EXCEPT ![Id] = [status |-> "accepted", sequence |-> Len(log) + 1]]
    BY <1>1 DEF Commit
  <2>2. receipts[Id].status # "accepted"
    BY <1>1 DEF Commit, Undecided, NoReceipt
  <2>3. receipts'[Id] = [status |-> "accepted", sequence |-> Len(log) + 1] /\ \A i \in Ids : i # Id => receipts'[i] = receipts[i]
    BY <1>1, <2>1, CommitFacts DEF TypeOK, AnswersOK
  <2>4. \A n \in 1 .. Len(log) : log[n] \in Calls /\ IdOf[log[n]] \in Ids /\ IdOf[log[n]] # Id
    BY <2>2, Names DEF Ledger, TypeOK, PositionsOK
  <2>5. ASSUME NEW i \in Ids, receipts'[i].status = "accepted"
        PROVE  receipts'[i].sequence \in 1 .. Len(log') /\ IdOf[log'[receipts'[i].sequence]] = i
    <3>1. CASE i = Id
      BY <1>1, <2>3, <3>1, CommitFacts DEF Id
    <3>2. CASE i # Id
      <4>1. receipts[i].sequence \in 1 .. Len(log) /\ IdOf[log[receipts[i].sequence]] = i
        BY <2>3, <2>5, <3>2 DEF Ledger
      <4> QED
        BY <1>1, <2>3, <3>2, <4>1, CommitFacts
    <3> QED
      BY <3>1, <3>2
  <2>6. ASSUME NEW n \in 1 .. Len(log') 
        PROVE  receipts'[IdOf[log'[n]]].status = "accepted" /\ receipts'[IdOf[log'[n]]].sequence = n
    <3>1. CASE n = Len(log')
      BY <1>1, <2>3, <3>1, CommitFacts DEF Id
    <3>2. CASE n # Len(log')
      <4>1. n \in 1 .. Len(log) /\ log'[n] = log[n]
        BY <1>1, <3>2, CommitFacts
      <4> QED
        BY <2>3, <2>4, <4>1 DEF Ledger
    <3> QED
      BY <3>1, <3>2
  <2> QED
    BY <2>5, <2>6 DEF Ledger
<1>2. CASE StoreRejection
  <2>1. receipts[Id].status # "accepted" /\ UNCHANGED log
    BY <1>2 DEF StoreRejection, Undecided, NoReceipt
  <2>2. \A n \in 1 .. Len(log) : IdOf[log[n]] # Id
    BY <2>1 DEF Ledger
  <2>3. \A i \in Ids : receipts'[i] = receipts[i] \/ (i = Id /\ receipts'[i].status = "rejected")
    BY <1>2 DEF StoreRejection, TypeOK, AnswersOK
  <2>4. \A n \in 1 .. Len(log) : IdOf[log[n]] \in Ids
    BY Names DEF TypeOK, PositionsOK
  <2> QED
    BY <2>1, <2>2, <2>3, <2>4 DEF Ledger
<1>3. CASE ~Commit /\ ~StoreRejection
  <2>1. UNCHANGED <<log, receipts>>
    BY <1>3 DEF Next, vars, durable, Work, CatchUp, Dispatch, GiveUp, Quiesce, Stop, StopReturns, TakeToken, Look,
       TakeNormal, Exit, Begin, CheckReceipt, Refuse, Advance, Project, Publish, ReplyOk, Reconcile, ResolveStored,
       ReplyInternal, Finish, LockForCatchUp, Bootstrap, ClearDirty, CatchUpEnds, Fail, ProjectionFails,
       BootstrapFails, Timeout, ReconcileFails, ReceiptUnreadable, Restart
  <2> QED
    BY <2>1 DEF Ledger
<1> QED
  BY <1>1, <1>2, <1>3

(* Steps that leave the worker, the log and the receipts alone.            *)
Aside == \/ \E c \in Calls : Dispatch(c) \/ GiveUp(c)
         \/ Quiesce \/ Stop \/ StopReturns \/ CatchUp \/ BootstrapFails \/ UNCHANGED vars

LEMMA AsideFrame == ASSUME Aside PROVE UNCHANGED <<log, receipts, worker>>
  BY DEF Aside, vars, durable, CatchUp, Dispatch, GiveUp, Quiesce, Stop, StopReturns, LockForCatchUp, Bootstrap,
     ClearDirty, CatchUpEnds, BootstrapFails

(* Steps after which the worker is at none of four places.                 *)
Elsewhere == \/ TakeToken \/ Exit \/ Look("control", "user") \/ Look("user", "normal") \/ TakeNormal
             \/ Commit \/ Advance \/ Project \/ ProjectionFails \/ Publish \/ ReplyOk \/ ResolveStored
             \/ ReceiptUnreadable \/ StoreRejection \/ ReplyInternal \/ Finish \/ Restart

LEMMA GoesElsewhere ==
    ASSUME TypeOK, Elsewhere
    PROVE  worker'.step \notin {"receipt", "decide", "reconcile", "resolve"}
<1> USE DEF TypeOK, WorkerOK
<1>1. CASE TakeToken \/ Exit
  BY <1>1 DEF TakeToken, Exit, To
<1>2. CASE Look("control", "user") \/ Look("user", "normal") \/ TakeNormal
  BY <1>2 DEF Look, TakeNormal, TakeFrom, To
<1>3. CASE Commit \/ Advance \/ Project \/ ProjectionFails \/ Publish
  BY <1>3 DEF Commit, Advance, Project, ProjectionFails, Publish, To
<1>4. CASE ReplyOk \/ ResolveStored \/ ReceiptUnreadable \/ StoreRejection \/ ReplyInternal
  BY <1>4 DEF ReplyOk, ResolveStored, ReceiptUnreadable, StoreRejection, ReplyInternal, Reply, To
<1>5. CASE Finish \/ Restart
  BY <1>5 DEF Finish, Restart, Resting
<1> QED
  BY <1>1, <1>2, <1>3, <1>4, <1>5 DEF Elsewhere

LEMMA NextCases ==
    ASSUME [Next]_vars
    PROVE  \/ Aside \/ Elsewhere
           \/ Begin \/ CheckReceipt \/ Refuse \/ Fail \/ Timeout \/ Reconcile \/ ReconcileFails
  BY DEF Next, Work, Aside, Elsewhere

LEMMA UndecidedStep == ASSUME TypeOK, Undecided, [Next]_vars PROVE Undecided'
<1> USE DEF TypeOK, WorkerOK, Undecided, durable, Me, Id
<1>1. CASE Aside
  BY <1>1, AsideFrame
<1>2. CASE Elsewhere
  BY <1>2, GoesElsewhere
<1>3. CASE Begin
  BY <1>3 DEF Begin, To
<1>4. CASE CheckReceipt
  BY <1>4 DEF CheckReceipt, Reply, To
<1>5. CASE Refuse \/ Fail \/ Timeout
  BY <1>5 DEF Refuse, Fail, Timeout, Err
<1>6. CASE Reconcile \/ ReconcileFails
  BY <1>6 DEF Reconcile, ReconcileFails, To
<1> QED
  BY <1>1, <1>2, <1>3, <1>4, <1>5, <1>6, NextCases

LEMMA NotYetStep == ASSUME TypeOK, Tracked, NotYet, [Next]_vars PROVE NotYet'
<1> USE DEF TypeOK, WorkerOK, NotYet, durable, Me
<1>1. CASE Aside
  BY <1>1, AsideFrame
<1>2. CASE Elsewhere
  BY <1>2, GoesElsewhere
<1>3. CASE Begin
  BY <1>3 DEF Begin, To, Tracked, Fresh
<1>4. CASE CheckReceipt
  BY <1>4 DEF CheckReceipt, Reply, To
<1>5. CASE Refuse \/ Fail \/ Timeout
  BY <1>5 DEF Refuse, Fail, Timeout, Err
<1>6. CASE Reconcile \/ ReconcileFails
  BY <1>6 DEF Reconcile, ReconcileFails, To
<1> QED
  BY <1>1, <1>2, <1>3, <1>4, <1>5, <1>6, NextCases

LEMMA QueueElements ==
    ASSUME TypeOK
    PROVE  \A l \in Lanes : queues[l] \in Seq(Calls) /\ \A i \in 1 .. Len(queues[l]) : queues[l][i] \in Calls
  BY DEF TypeOK, CountsOK

LEMMA MeIsCall == ASSUME TypeOK, InHand PROVE Me \in Calls /\ Id \in Ids
  BY Names DEF TypeOK, WorkerOK, Me, Id

LEMMA DispatchTracked ==
    ASSUME TypeOK, Tracked, QueuesOK, NEW c \in Calls, Dispatch(c)
    PROVE  Tracked' /\ QueuesOK'
<1> USE DEF Dispatch, durable, engine
<1>1. execution[c] = "queued" /\ result[c] = Nothing /\ (InHand => c # Me)
  BY DEF Tracked
<1>2. UNCHANGED <<log, execution, result, worker>> /\ caller' \in {[caller EXCEPT ![c] = "waiting"], [caller EXCEPT ![c] = "refused"]}
  OBVIOUS
<1>3. Tracked'
  BY <1>1, <1>2 DEF Tracked, Fresh, TypeOK, AnswersOK, PositionsOK, WorkerOK, InHand, Me
<1>4. \A l \in Lanes : \A i \in 1 .. Len(queues[l]) : queues[l][i] # c /\ caller'[queues[l][i]] = caller[queues[l][i]]
  BY <1>2, QueueElements DEF QueuesOK, LaneOK, Fresh, TypeOK, AnswersOK
<1>5. CASE UNCHANGED queues
  BY <1>2, <1>3, <1>4, <1>5 DEF QueuesOK, LaneOK, Fresh, Me
<1>6. CASE queues' = [queues EXCEPT ![LaneOf[IdOf[c]]] = Append(@, c)] /\ caller' = [caller EXCEPT ![c] = "waiting"]
  <2>1. SUFFICES ASSUME NEW l \in Lanes PROVE LaneOK(l)'
    BY <1>3 DEF QueuesOK
  <2>2. Me' = Me /\ c # Me
    BY <1>1, <1>2, EngineAssumption DEF TypeOK, WorkerOK, InHand, Me
  <2>3. \A i \in 1 .. Len(queues[l]) : queues[l][i] # c /\ caller'[queues[l][i]] = caller[queues[l][i]]
    BY <1>4
  <2>4. LaneOK(l) /\ queues[l] \in Seq(Calls)
    BY QueueElements DEF QueuesOK
  <2>5. CASE l # LaneOf[IdOf[c]]
    <3>1. queues'[l] = queues[l]
      BY <1>6, <2>5 DEF TypeOK, CountsOK
    <3> QED
      BY <1>2, <2>2, <2>3, <2>4, <3>1 DEF LaneOK, Fresh
  <2>6. CASE l = LaneOf[IdOf[c]]
    <3>1. queues'[l] = Append(queues[l], c)
      BY <1>6, <2>6 DEF TypeOK, CountsOK
    <3>2. Len(queues'[l]) = Len(queues[l]) + 1 /\ Len(queues[l]) \in Nat
      BY <2>4, <3>1
    <3>3. queues'[l][Len(queues[l]) + 1] = c /\ \A k \in 1 .. Len(queues[l]) : queues'[l][k] = queues[l][k]
      BY <2>4, <3>1
    <3>4. \A i \in 1 .. Len(queues'[l]) :
            \/ queues'[l][i] = c /\ i = Len(queues[l]) + 1
            \/ i \in 1 .. Len(queues[l]) /\ queues'[l][i] = queues[l][i]
      <4> TAKE i \in 1 .. Len(queues'[l])
      <4>1. CASE i = Len(queues[l]) + 1
        BY <3>3, <4>1
      <4>2. CASE i # Len(queues[l]) + 1
        <5>1. i \in 1 .. Len(queues[l])
          BY <3>2, <4>2
        <5> QED
          BY <3>3, <5>1
      <4> QED
        BY <4>1, <4>2
    <3>5. caller'[c] = "waiting"
      BY <1>6 DEF TypeOK, AnswersOK
    <3>6. \A i \in 1 .. Len(queues'[l]) : LaneOf[IdOf[queues'[l][i]]] = l
      BY <2>4, <2>6, <3>4 DEF LaneOK
    <3>7. \A i \in 1 .. Len(queues'[l]) :
            /\ execution'[queues'[l][i]] \in {"queued", "abandoned"} /\ result'[queues'[l][i]] = Nothing
            /\ caller'[queues'[l][i]] \notin {"idle", "refused"} /\ queues'[l][i] # Me'
      BY <1>1, <1>2, <2>2, <2>3, <2>4, <3>4, <3>5 DEF LaneOK, Fresh
    <3>8. \A i, j \in 1 .. Len(queues'[l]) : queues'[l][i] = queues'[l][j] => i = j
      BY <2>3, <2>4, <3>4 DEF LaneOK
    <3> QED
      BY <3>6, <3>7, <3>8 DEF LaneOK, Fresh
  <2> QED
    BY <2>5, <2>6
<1> QED
  BY <1>3, <1>5, <1>6

LEMMA GiveUpTracked ==
    ASSUME TypeOK, Tracked, QueuesOK, NEW c \in Calls, GiveUp(c)
    PROVE  Tracked' /\ QueuesOK'
<1>1. UNCHANGED <<log, queues, worker, result>> /\ caller[c] = "waiting"
  BY DEF GiveUp, durable, engine
<1>2. \A d \in Calls : caller'[d] = caller[d] \/ (d = c /\ caller'[d] \in {"late", "abandoned"})
  BY DEF GiveUp, TypeOK, AnswersOK
<1>3. \A d \in Calls : execution'[d] = execution[d] \/ (d = c /\ execution[d] = "queued" /\ execution'[d] = "abandoned")
  BY DEF GiveUp, TypeOK, AnswersOK
<1>4. caller'[c] = "abandoned" => execution'[c] = "abandoned"
  BY DEF GiveUp, TypeOK, AnswersOK
<1>5. \A n \in 1 .. Len(log) : log[n] \in Calls
  BY DEF TypeOK, PositionsOK
<1>6. InHand => Me \in Calls
  BY MeIsCall
<1>7. Tracked'
  BY <1>1, <1>2, <1>3, <1>4, <1>5, <1>6 DEF Tracked, Fresh, Me, InHand
<1>8. QueuesOK'
  BY <1>1, <1>2, <1>3, QueueElements DEF QueuesOK, LaneOK, Fresh, Me
<1> QED
  BY <1>7, <1>8

LEMMA TakeTracked ==
    ASSUME TypeOK, Tracked, QueuesOK, NEW lane \in {"control", "user", "normal"}, queues[lane] # <<>>, TakeFrom(lane),
           UNCHANGED <<log, caller, execution, result>>, worker.step = lane
    PROVE  Tracked' /\ QueuesOK'
<1>1. queues[lane] \in Seq(Calls) /\ Len(queues[lane]) \in Nat /\ Len(queues[lane]) > 0 /\ LaneOK(lane) /\ lane \in Lanes
  BY QueueElements DEF QueuesOK, Lanes
<1>2. Me' = Head(queues[lane]) /\ worker'.step = "built" /\ InHand' /\ Me' = queues[lane][1] /\ 1 \in 1 .. Len(queues[lane])
  BY <1>1 DEF TakeFrom, InHand, Me
<1>3. Fresh(Me)'
  <2>1. Fresh(queues[lane][1])
    BY <1>1, <1>2 DEF LaneOK
  <2> QED
    BY <1>2, <2>1 DEF Fresh
<1>4. Tracked'
  BY <1>2, <1>3 DEF Tracked, Fresh
<1>5. SUFFICES ASSUME NEW l \in Lanes PROVE LaneOK(l)'
  BY <1>4 DEF QueuesOK
<1>6. LaneOK(l) /\ queues[l] \in Seq(Calls)
  BY QueueElements DEF QueuesOK
<1>7. CASE l # lane
  <2>1. queues'[l] = queues[l]
    BY <1>7 DEF TakeFrom, TypeOK, CountsOK
  <2>2. \A i \in 1 .. Len(queues[l]) : queues[l][i] # Me'
    BY <1>1, <1>2, <1>6, <1>7 DEF LaneOK
  <2> QED
    BY <1>6, <2>1, <2>2 DEF LaneOK, Fresh
<1>8. CASE l = lane
  <2>1. queues'[l] = Tail(queues[l])
    BY <1>8 DEF TakeFrom, TypeOK, CountsOK, Lanes
  <2>2. Len(queues'[l]) = Len(queues[l]) - 1 /\ \A i \in 1 .. Len(queues'[l]) : queues'[l][i] = queues[l][i + 1]
    BY <1>1, <1>8, <2>1
  <2>3. \A i \in 1 .. Len(queues'[l]) : i + 1 \in 1 .. Len(queues[l]) /\ i + 1 # 1
    BY <1>1, <1>8, <2>2
  <2>4. \A i \in 1 .. Len(queues'[l]) : LaneOf[IdOf[queues'[l][i]]] = l
    BY <1>6, <2>2, <2>3 DEF LaneOK
  <2>5. \A i \in 1 .. Len(queues'[l]) : Fresh(queues[l][i + 1]) /\ queues[l][i + 1] # queues[l][1]
    BY <1>2, <1>6, <1>8, <2>3 DEF LaneOK
  <2>6. \A i, j \in 1 .. Len(queues'[l]) : queues'[l][i] = queues'[l][j] => i = j
    <3> TAKE i, j \in 1 .. Len(queues'[l])
    <3>1. queues[l][i + 1] = queues[l][j + 1] => i + 1 = j + 1
      BY <1>6, <2>3 DEF LaneOK
    <3>2. i + 1 = j + 1 => i = j
      OBVIOUS
    <3> QED
      BY <2>2, <3>1, <3>2
  <2>7. \A i \in 1 .. Len(queues'[l]) :
          /\ execution'[queues'[l][i]] \in {"queued", "abandoned"} /\ result'[queues'[l][i]] = Nothing
          /\ caller'[queues'[l][i]] \notin {"idle", "refused"} /\ queues'[l][i] # Me'
    BY <1>2, <1>8, <2>2, <2>5 DEF Fresh
  <2> QED
    BY <2>4, <2>6, <2>7 DEF LaneOK, Fresh
<1> QED
  BY <1>7, <1>8

LEMMA BeginTracked == ASSUME TypeOK, Tracked, QueuesOK, Begin PROVE Tracked' /\ QueuesOK'
<1>1. Me' = Me /\ Me \in Calls /\ Fresh(Me) /\ InHand /\ UNCHANGED <<log, queues, caller, result>>
  BY MeIsCall DEF Begin, To, Me, InHand, Tracked, TypeOK, WorkerOK, durable
<1>2. \A l \in Lanes : \A i \in 1 .. Len(queues[l]) : queues[l][i] \in Calls /\ queues[l][i] # Me
  BY QueueElements DEF QueuesOK, LaneOK
<1>3. \A d \in Calls : d # Me => execution'[d] = execution[d]
  BY DEF Begin, TypeOK, AnswersOK
<1>4. QueuesOK'
  BY <1>1, <1>2, <1>3 DEF QueuesOK, LaneOK, Fresh
<1>5. \A n \in 1 .. Len(log) : log[n] \in Calls /\ log[n] # Me
  BY <1>1 DEF Tracked, Fresh, TypeOK, PositionsOK
<1>6. CASE execution[Me] = "abandoned"
  <2>1. UNCHANGED execution /\ worker'.step = "finish"
    BY <1>6 DEF Begin, To, TypeOK, WorkerOK
  <2> QED
    BY <1>1, <1>4, <2>1 DEF Tracked, Fresh, InHand
<1>7. CASE execution[Me] = "queued"
  <2>1. execution'[Me] = "in-flight" /\ worker'.step = "receipt"
    BY <1>1, <1>7 DEF Begin, To, TypeOK, WorkerOK, AnswersOK
  <2> QED
    BY <1>1, <1>3, <1>4, <1>5, <1>7, <2>1 DEF Tracked, Fresh, InHand
<1> QED
  BY <1>1, <1>6, <1>7 DEF Fresh

(* A step of the command in hand that changes no call but by its answer. *)
LEMMA StepTracked ==
    ASSUME TypeOK, Tracked, QueuesOK, InHand, worker.step \notin {"built", "finish"},
           UNCHANGED <<log, queues, caller, execution>>, Me' = Me, worker'.step # "built",
           \A d \in Calls \ {Me} : result'[d] = result[d], worker'.step = "finish" \/ UNCHANGED result
    PROVE  Tracked' /\ QueuesOK'
<1>1. Me \in Calls /\ execution[Me] = "in-flight" /\ caller[Me] \notin {"idle", "refused"}
  BY MeIsCall DEF Tracked
<1>2. \A l \in Lanes : \A i \in 1 .. Len(queues[l]) : queues[l][i] \in Calls /\ queues[l][i] # Me
  BY QueueElements DEF QueuesOK, LaneOK
<1>3. QueuesOK'
  BY <1>1, <1>2 DEF QueuesOK, LaneOK, Fresh
<1> QED
  BY <1>1, <1>3 DEF Tracked, Fresh, InHand

LEMMA CommitTracked == ASSUME TypeOK, Tracked, QueuesOK, Commit PROVE Tracked' /\ QueuesOK'
<1>1. UNCHANGED <<queues, caller, execution, result>> /\ Me' = Me /\ worker'.step = "committed" /\ InHand
  BY DEF Commit, engine, calls, To, Me, TypeOK, WorkerOK, InHand
<1>2. execution[Me] = "in-flight" /\ result[Me] = Nothing /\ caller[Me] \notin {"idle", "refused"}
  BY <1>1 DEF Tracked, Commit
<1>3. \A n \in 1 .. Len(log') : execution[log'[n]] = "in-flight"
  <2> TAKE n \in 1 .. Len(log')
  <2>1. CASE n = Len(log')
    BY <1>2, <2>1, CommitFacts
  <2>2. CASE n # Len(log')
    BY <2>2, CommitFacts DEF Tracked
  <2> QED
    BY <2>1, <2>2
<1>4. QueuesOK'
  BY <1>1 DEF QueuesOK, LaneOK, Fresh
<1> QED
  BY <1>1, <1>2, <1>3, <1>4 DEF Tracked, InHand

LEMMA CallsStep == ASSUME TypeOK, Tracked, QueuesOK, [Next]_vars PROVE Tracked' /\ QueuesOK'
<1> USE DEF durable, engine, calls
<1>1. ASSUME UNCHANGED <<log, queues, worker, caller, execution, result>> PROVE Tracked' /\ QueuesOK'
  BY <1>1 DEF Tracked, QueuesOK, LaneOK, Fresh, Me, InHand
<1>2. ASSUME UNCHANGED <<log, queues, caller, execution, result>>, Me' = Me, worker'.step # "built",
             InHand <=> InHand', InHand' => worker.step \notin {"built", "finish"}
      PROVE  Tracked' /\ QueuesOK'
  BY <1>2 DEF Tracked, QueuesOK, LaneOK, Fresh
<1>3. ASSUME UNCHANGED <<log, queues, caller, execution>>, InHand, worker.step \notin {"built", "finish"},
             \E answer : Reply(answer)
      PROVE  Tracked' /\ QueuesOK'
  <2>1. Me' = Me /\ worker'.step = "finish" /\ \A d \in Calls \ {Me} : result'[d] = result[d]
    BY <1>3 DEF Reply, To, Me, TypeOK, WorkerOK, AnswersOK
  <2> QED
    BY <1>3, <2>1, StepTracked
<1>4. ASSUME NEW c \in Calls, Dispatch(c) \/ GiveUp(c) PROVE Tracked' /\ QueuesOK'
  BY <1>4, DispatchTracked, GiveUpTracked
<1>5. CASE Quiesce \/ Stop \/ StopReturns \/ CatchUp \/ BootstrapFails \/ UNCHANGED vars
  BY <1>1, <1>5 DEF Quiesce, Stop, StopReturns, CatchUp, BootstrapFails, LockForCatchUp, Bootstrap, ClearDirty,
     CatchUpEnds, vars
<1>6. CASE TakeToken \/ Exit
  BY <1>2, <1>6 DEF TakeToken, Exit, To, Me, InHand, TypeOK, WorkerOK
<1>7. ASSUME NEW lane \in {"control", "user"}, NEW below \in {"user", "normal"}, Look(lane, below)
      PROVE  Tracked' /\ QueuesOK'
  <2>1. CASE queues[lane] # <<>>
    BY <1>7, <2>1, TakeTracked DEF Look
  <2>2. CASE queues[lane] = <<>>
    BY <1>2, <1>7, <2>2 DEF Look, To, Me, InHand, TypeOK, WorkerOK
  <2> QED
    BY <2>1, <2>2
<1>8. CASE TakeNormal
  BY <1>8, TakeTracked DEF TakeNormal
<1>9. CASE CheckReceipt
  <2>1. CASE receipts[Id] = NoReceipt
    BY <1>2, <1>9, <2>1 DEF CheckReceipt, To, Me, InHand, TypeOK, WorkerOK
  <2>2. CASE receipts[Id] # NoReceipt
    BY <1>3, <1>9, <2>2 DEF CheckReceipt, InHand
  <2> QED
    BY <2>1, <2>2
<1>10. CASE Refuse \/ Fail \/ Timeout
  BY <1>2, <1>10 DEF Refuse, Fail, Timeout, Err, Me, InHand, TypeOK, WorkerOK
<1>11. CASE Advance \/ Project \/ ProjectionFails \/ Publish
  BY <1>2, <1>11 DEF Advance, Project, ProjectionFails, Publish, To, Me, InHand, TypeOK, WorkerOK
<1>12. CASE Reconcile \/ ReconcileFails
  BY <1>2, <1>12 DEF Reconcile, ReconcileFails, To, Me, InHand, TypeOK, WorkerOK
<1>13. CASE ReplyOk \/ ResolveStored \/ ReceiptUnreadable \/ StoreRejection \/ ReplyInternal
  BY <1>3, <1>13 DEF ReplyOk, ResolveStored, ReceiptUnreadable, StoreRejection, ReplyInternal, InHand
<1>14. CASE Finish
  <2>1. UNCHANGED <<log, queues, caller, execution, result>> /\ Me' = "none" /\ ~InHand' /\ worker'.step = "take"
    BY <1>14 DEF Finish, Resting, InHand, Me
  <2>2. \A l \in Lanes : \A i \in 1 .. Len(queues[l]) : queues[l][i] # "none"
    BY QueueElements, EngineAssumption
  <2> QED
    BY <2>1, <2>2 DEF Tracked, QueuesOK, LaneOK, Fresh
<1>15. CASE Restart
  <2>1. UNCHANGED <<log, execution, result>> /\ ~InHand' /\ worker'.step = "take" /\ queues' = [l \in Lanes |-> <<>>]
    BY <1>15 DEF Restart, Resting, InHand
  <2>2. \A c \in Calls : caller'[c] = caller[c] \/ caller'[c] = "lost"
    BY <1>15 DEF Restart
  <2>3. Tracked'
    BY <2>1, <2>2 DEF Tracked
  <2>4. \A l \in Lanes : Len(queues'[l]) = 0
    BY <2>1
  <2> QED
    BY <2>3, <2>4 DEF QueuesOK, LaneOK
<1> QED
  BY <1>4, <1>5, <1>6, <1>7, <1>8, <1>9, <1>10, <1>11, <1>12, <1>13, <1>14, <1>15, BeginTracked, CommitTracked
  DEF Next, Work

-----------------------------------------------------------------------------
(* Answers, publication, summaries.                                        *)

(* An answer is added to what was true. *)
LEMMA ReplyTrue ==
    ASSUME TypeOK, AnswersTrue, Ledger', InHand, NEW answer, Reply(answer), UNCHANGED <<log, caller>>, unread \subseteq unread',
           answer.kind = "ok" =>
             answer.sequence \in 1 .. Len(log) /\ IdOf[log[answer.sequence]] = Id,
           answer.kind \in {"timeout", "internal", "rejected"} =>
             Me \in unread' \/ \A n \in 1 .. Len(log) : log[n] # Me
    PROVE  AnswersTrue'
<1>1. Me \in Calls
  BY MeIsCall
<1>2. \A c \in Calls : result'[c] = IF c = Me THEN answer ELSE result[c]
  BY DEF Reply, TypeOK, AnswersOK
<1>3. (\A m, n \in 1 .. Len(log) : IdOf[log[m]] = IdOf[log[n]] => m = n)'
  BY DEF Ledger
<1>4. ASSUME NEW c \in Calls
      PROVE  /\ result'[c].kind = "ok" =>
                  result'[c].sequence \in 1 .. Len(log) /\ IdOf[log[result'[c].sequence]] = IdOf[c]
             /\ result'[c].kind \in {"timeout", "internal", "rejected"} /\ c \notin unread' =>
                  \A n \in 1 .. Len(log) : log[n] # c
             /\ caller[c] \in {"abandoned", "refused"} => \A n \in 1 .. Len(log) : log[n] # c
  <2>1. CASE c = Me
    BY <1>1, <1>2, <2>1 DEF AnswersTrue, Id
  <2>2. CASE c # Me
    BY <1>2, <2>2 DEF AnswersTrue
  <2> QED
    BY <2>1, <2>2
<1> QED
  BY <1>3, <1>4 DEF AnswersTrue

LEMMA StoredTrue ==
    ASSUME TypeOK, Ledger, InHand, receipts[Id] # NoReceipt
    PROVE  /\ Stored(receipts[Id]).kind = "ok" =>
                /\ Stored(receipts[Id]).sequence \in 1 .. Len(log)
                /\ IdOf[log[Stored(receipts[Id]).sequence]] = Id
           /\ Stored(receipts[Id]).kind # "ok" => \A n \in 1 .. Len(log) : log[n] # Me
<1>1. Id \in Ids
  BY MeIsCall
<1>2. CASE receipts[Id].status = "accepted"
  BY <1>1, <1>2 DEF Ledger, Stored, Answer
<1>3. CASE receipts[Id].status # "accepted"
  BY <1>1, <1>3 DEF Ledger, Stored, Answer, Id
<1> QED
  BY <1>2, <1>3

LEMMA NoReceiptNoEvent ==
    ASSUME TypeOK, Ledger, InHand, receipts[Id] = NoReceipt
    PROVE  \A n \in 1 .. Len(log) : log[n] # Me
  BY DEF Ledger, NoReceipt, Id

LEMMA TruthStep ==
    ASSUME TypeOK, Landed, Ledger, Undecided, Tracked, NotYet, AnswersTrue, Ledger', [Next]_vars
    PROVE  AnswersTrue'
<1> USE DEF durable, engine, calls, ghosts
<1>0. (\A m, n \in 1 .. Len(log) : IdOf[log[m]] = IdOf[log[n]] => m = n)'
  BY DEF Ledger
<1>1. ASSUME UNCHANGED <<log, result, caller>>, unread \subseteq unread' PROVE AnswersTrue'
  BY <1>0, <1>1 DEF AnswersTrue
<1>2. ASSUME NEW c \in Calls, Dispatch(c) \/ GiveUp(c) PROVE AnswersTrue'
  <2>1. UNCHANGED <<log, result, unread>> /\ \A d \in Calls : d # c => caller'[d] = caller[d]
    BY <1>2 DEF Dispatch, GiveUp, TypeOK, AnswersOK
  <2>2. caller'[c] \in {"abandoned", "refused"} => \A n \in 1 .. Len(log) : log[n] # c
    <3>1. caller'[c] \in {"abandoned", "refused"} => execution[c] = "queued"
      BY <1>2 DEF Dispatch, GiveUp, TypeOK, AnswersOK, Tracked
    <3> QED
      BY <3>1 DEF Tracked
  <2> QED
    BY <1>0, <2>1, <2>2 DEF AnswersTrue
<1>3. CASE Commit
  <2>1. UNCHANGED <<result, caller, unread>>
    BY <1>3 DEF Commit
  <2>2. result[Me] = Nothing /\ caller[Me] \notin {"abandoned", "refused"}
    BY <1>3, CommitFacts DEF Commit, Tracked, InHand
  <2>3. ASSUME NEW c \in Calls, NEW n \in 1 .. Len(log'), log'[n] = c
        PROVE  c = Me \/ (n \in 1 .. Len(log) /\ log[n] = c)
    BY <1>3, <2>3, CommitFacts
  <2>4. ASSUME NEW c \in Calls, result[c].kind = "ok"
        PROVE  result[c].sequence \in 1 .. Len(log') /\ IdOf[log'[result[c].sequence]] = IdOf[c]
    BY <1>3, <2>4, CommitFacts DEF AnswersTrue
  <2>5. ASSUME NEW c \in Calls, \/ result[c].kind \in {"timeout", "internal", "rejected"} /\ c \notin unread
                                \/ caller[c] \in {"abandoned", "refused"}
        PROVE  \A n \in 1 .. Len(log') : log'[n] # c
    BY <2>2, <2>3, <2>5 DEF AnswersTrue, Nothing
  <2> QED
    BY <1>0, <2>1, <2>4, <2>5 DEF AnswersTrue
<1>4. CASE CheckReceipt
  <2>1. CASE receipts[Id] = NoReceipt
    BY <1>1, <1>4, <2>1 DEF CheckReceipt
  <2>2. CASE receipts[Id] # NoReceipt
    <3>1. InHand /\ Reply(Stored(receipts[Id])) /\ UNCHANGED <<log, caller, unread>>
      BY <1>4, <2>2 DEF CheckReceipt, InHand
    <3> QED
      BY <2>2, <3>1, StoredTrue, ReplyTrue
  <2> QED
    BY <2>1, <2>2
<1>5. CASE ReplyOk
  <2>1. InHand /\ Reply(Answer("ok", Len(log))) /\ UNCHANGED <<log, caller, unread>>
    BY <1>5 DEF ReplyOk, InHand
  <2>2. Len(log) \in 1 .. Len(log) /\ log[Len(log)] = Me
    BY <1>5 DEF ReplyOk, Landed, TypeOK, PositionsOK, WorkerOK
  <2>3. Answer("ok", Len(log)).kind = "ok" /\ Answer("ok", Len(log)).sequence = Len(log)
    BY DEF Answer
  <2> QED
    BY <2>1, <2>2, <2>3, ReplyTrue DEF Id
<1>6. CASE ResolveStored
  <2>1. InHand /\ UNCHANGED <<log, caller, unread>>
    BY <1>6 DEF ResolveStored, InHand
  <2>2. CASE receipts[Id] # NoReceipt
    <3>1. Reply(Stored(receipts[Id]))
      BY <1>6, <2>2 DEF ResolveStored
    <3> QED
      BY <2>1, <2>2, <3>1, StoredTrue, ReplyTrue
  <2>3. CASE receipts[Id] = NoReceipt
    <3>1. PICK kind \in {"timeout", "internal"} : Reply(Answer(kind, 0))
      BY <1>6, <2>3 DEF ResolveStored
    <3>2. Answer(kind, 0).kind # "ok"
      BY DEF Answer
    <3> QED
      BY <2>1, <2>3, <3>1, <3>2, NoReceiptNoEvent, ReplyTrue
  <2> QED
    BY <2>2, <2>3
<1>7. CASE ReceiptUnreadable
  <2>1. InHand /\ UNCHANGED <<log, caller>> /\ Me \in unread' /\ unread \subseteq unread'
    BY <1>7 DEF ReceiptUnreadable, InHand
  <2>2. PICK kind \in {"timeout", "internal"} : Reply(Answer(kind, 0))
    BY <1>7 DEF ReceiptUnreadable
  <2>3. Answer(kind, 0).kind # "ok"
    BY DEF Answer
  <2> QED
    BY <2>1, <2>2, <2>3, ReplyTrue
<1>8. CASE StoreRejection
  <2>1. InHand /\ Reply(Answer("rejected", 0)) /\ UNCHANGED <<log, caller, unread>> /\ receipts[Id] = NoReceipt
    BY <1>8 DEF StoreRejection, InHand, Undecided
  <2>2. Answer("rejected", 0).kind # "ok"
    BY DEF Answer
  <2> QED
    BY <2>1, <2>2, NoReceiptNoEvent, ReplyTrue
<1>9. CASE ReplyInternal
  <2>1. InHand /\ Reply(Answer("internal", 0)) /\ UNCHANGED <<log, caller, unread>>
    BY <1>9 DEF ReplyInternal, InHand
  <2>2. \A n \in 1 .. Len(log) : log[n] # Me
    BY <1>9 DEF ReplyInternal, NotYet
  <2>3. Answer("internal", 0).kind # "ok"
    BY DEF Answer
  <2> QED
    BY <2>1, <2>2, <2>3, ReplyTrue
<1>10. CASE Restart
  <2>1. UNCHANGED <<log, result, unread>> /\ \A c \in Calls : caller'[c] = caller[c] \/ caller'[c] = "lost"
    BY <1>10 DEF Restart
  <2> QED
    BY <1>0, <2>1 DEF AnswersTrue
<1>11. CASE UNCHANGED <<log, result, caller, unread>>
  BY <1>1, <1>11
<1> QED
  BY <1>2, <1>3, <1>4, <1>5, <1>6, <1>7, <1>8, <1>9, <1>10, <1>11
  DEF Next, vars, Work, CatchUp, Quiesce, Stop, StopReturns, TakeToken, Look, TakeNormal, Exit, Begin, Refuse, Advance,
      Project, Publish, Reconcile, Finish, LockForCatchUp, Bootstrap, ClearDirty, CatchUpEnds, Fail, ProjectionFails,
      BootstrapFails, Timeout, ReconcileFails

LEMMA BusStep ==
    ASSUME TypeOK, Landed, BusFilled, [Next]_vars
    PROVE  /\ BusFilled'
           /\ \A n \in heard' \ heard : \A m \in 1 .. n : m \in heard' \cup torn
           /\ (Polling \/ worker = Resting)' => 1 .. Len(log') \subseteq heard' \cup torn'
<1> USE DEF durable, engine, ghosts
<1> DEFINE Ordered == \A n \in heard' \ heard : \A m \in 1 .. n : m \in heard' \cup torn
<1> SUFFICES BusFilled' /\ Ordered
  BY DEF BusFilled, Unpublished, Polling, Resting
<1>0. Len(log) \in Nat /\ heard \subseteq 1 .. Len(log) /\ torn \subseteq 1 .. Len(log)
  BY DEF TypeOK, PositionsOK
<1>1. ASSUME UNCHANGED <<log, heard, torn>>, ~Unpublished \/ (Unpublished' /\ UNCHANGED log) PROVE BusFilled' /\ Ordered
  BY <1>1 DEF BusFilled
<1>2. CASE UNCHANGED <<log, heard, torn, worker>>
  BY <1>2 DEF BusFilled, Unpublished
<1>3. CASE TakeToken \/ Exit \/ Begin
  <2>1. ~Unpublished /\ UNCHANGED <<log, heard, torn>>
    BY <1>3 DEF TakeToken, Exit, Begin, Unpublished
  <2> QED
    BY <1>1, <2>1
<1>4. CASE Look("control", "user") \/ Look("user", "normal") \/ TakeNormal
  <2>1. ~Unpublished /\ UNCHANGED <<log, heard, torn>>
    BY <1>4 DEF Look, TakeNormal, Unpublished
  <2> QED
    BY <1>1, <2>1
<1>5. CASE CheckReceipt \/ ReplyOk \/ ResolveStored \/ ReceiptUnreadable \/ StoreRejection \/ ReplyInternal \/ Finish
  <2>1. ~Unpublished /\ UNCHANGED <<log, heard, torn>>
    BY <1>5 DEF CheckReceipt, ReplyOk, ResolveStored, ReceiptUnreadable, StoreRejection, ReplyInternal, Finish,
       Unpublished
  <2> QED
    BY <1>1, <2>1
<1>6. CASE Refuse \/ Fail
  <2>1. ~Unpublished /\ UNCHANGED <<log, heard, torn>>
    BY <1>6 DEF Refuse, Fail, Unpublished
  <2> QED
    BY <1>1, <2>1
<1>7. CASE Advance \/ Project \/ ProjectionFails
  <2>1. UNCHANGED <<log, heard, torn>> /\ worker'.step \in {"project", "publish"} /\ worker'.start = worker.start
    BY <1>7 DEF Advance, Project, ProjectionFails, To, TypeOK, WorkerOK
  <2> QED
    BY <1>1, <2>1 DEF Unpublished
<1>8. CASE Timeout
  <2>1. UNCHANGED <<log, heard, torn>> /\ worker'.step = "reconcile" /\ worker'.start = worker.start
    BY <1>8 DEF Timeout, Err, TypeOK, WorkerOK
  <2> QED
    BY <1>1, <2>1 DEF Unpublished
<1>9. CASE Commit
  <2>1. ~Unpublished /\ UNCHANGED <<heard, torn>> /\ worker'.step = "committed" /\ worker'.start = worker.start
    BY <1>9 DEF Commit, Unpublished, To, TypeOK, WorkerOK
  <2>2. \A n \in 1 .. Len(log') : n \in 1 .. Len(log) \/ n = Len(log')
    BY <1>9, CommitFacts
  <2>3. Unpublished'
    BY <1>9, <2>1, CommitFacts DEF Unpublished, TypeOK, WorkerOK
  <2> QED
    BY <2>1, <2>2, <2>3 DEF BusFilled
<1>10. CASE Publish
  <2>1. heard' = heard \cup {Len(log)} /\ UNCHANGED <<log, torn>>
    BY <1>10 DEF Publish
  <2> QED
    BY <1>0, <2>1 DEF BusFilled
<1>11. CASE Reconcile
  <2>1. heard' = heard \cup worker.start + 1 .. Len(log) /\ UNCHANGED <<log, torn>>
    BY <1>11 DEF Reconcile
  <2>2. Unpublished => Len(log) \in heard'
    BY <1>0, <2>1 DEF Unpublished, TypeOK, WorkerOK
  <2>3. \A n \in 1 .. Len(log) : n \in heard' \cup torn
    BY <2>1, <2>2 DEF BusFilled
  <2>4. heard' \subseteq 1 .. Len(log)
    <3>1. worker.start + 1 .. Len(log) \subseteq 1 .. Len(log)
      BY <1>0 DEF TypeOK, WorkerOK
    <3> QED
      BY <1>0, <2>1, <3>1
  <2> QED
    BY <1>0, <2>1, <2>3, <2>4 DEF BusFilled
<1>12. CASE ReconcileFails
  <2>1. torn' = torn \cup ((1 .. Len(log)) \ heard) /\ UNCHANGED <<log, heard>>
    BY <1>12 DEF ReconcileFails
  <2> QED
    BY <2>1 DEF BusFilled
<1>13. CASE Restart
  <2>1. heard' = 1 .. Len(log) /\ UNCHANGED <<log, torn>>
    BY <1>13 DEF Restart
  <2> QED
    BY <1>0, <2>1 DEF BusFilled
<1> QED
  BY <1>2, <1>3, <1>4, <1>5, <1>6, <1>7, <1>8, <1>9, <1>10, <1>11, <1>12, <1>13
  DEF Next, vars, Work, CatchUp, Dispatch, GiveUp, Quiesce, Stop, StopReturns, LockForCatchUp, Bootstrap,
      ClearDirty, CatchUpEnds, BootstrapFails

LEMMA SummariesTyped ==
    ASSUME TypeOK
    PROVE  /\ Len(log) \in Nat /\ cursor \in Nat /\ cursor <= Len(log)
           /\ \A n \in 1 .. Len(log) : Thread(n) \in Threads
           /\ \A t \in Threads : summary[t] \in Nat /\ summary[t] <= Len(log)
  BY ThreadsTyped DEF TypeOK, PositionsOK

(* Recomputing the summaries after the cursor's events loses nothing.      *)
LEMMA CaughtUp ==
    ASSUME TypeOK, SummariesKept, UNCHANGED <<log, slipped>>, cursor' = Len(log),
           summary' = Recomputed(cursor + 1 .. Len(log))
    PROVE  \A n \in 1 .. Len(log) : summary'[Thread(n)] >= n \/ n \in slipped
<1> TAKE n \in 1 .. Len(log)
<1>1. n \in Nat /\ n <= Len(log)
  BY SummariesTyped
<1>2. CASE \E m \in cursor + 1 .. Len(log) : Thread(m) = Thread(n)
  BY <1>1, <1>2, SummariesTyped DEF Recomputed
<1>3. CASE ~\E m \in cursor + 1 .. Len(log) : Thread(m) = Thread(n)
  <2>1. summary'[Thread(n)] = summary[Thread(n)]
    BY <1>3, SummariesTyped DEF Recomputed
  <2>2. n \in 1 .. cursor
    BY <1>1, <1>3, SummariesTyped
  <2> QED
    BY <2>1, <2>2 DEF SummariesKept
<1> QED
  BY <1>2, <1>3

LEMMA ProjectStep ==
    ASSUME TypeOK, Landed, MarkOK, Behind, SummariesKept, Project
    PROVE  MarkOK' /\ Behind' /\ SummariesKept'
<1>1. UNCHANGED log /\ worker.step = "project" /\ Len(log) \in 1 .. Len(log)
  BY DEF Project, Landed, TypeOK, WorkerOK, PositionsOK
<1>2. \A n : Thread(n)' = Thread(n)
  BY <1>1 DEF Thread
<1>3. CASE dirty
  <2>1. UNCHANGED <<cursor, summary, dirty>> /\ catchUp' = Scheduled /\ Slip
    BY <1>3 DEF Project, ProjectDeferred
  <2>2. PassedOver' => PassedOver
    BY <1>3, <2>1 DEF PassedOver, Scheduled
  <2>3. slipped \subseteq slipped' /\ (PassedOver => Len(log) \in slipped')
    BY <2>1 DEF Slip
  <2> QED
    BY <1>1, <1>2, <1>3, <2>1, <2>2, <2>3 DEF MarkOK, Behind, SummariesKept
<1>4. CASE ~dirty
  <2>1. cursor' = Len(log) /\ summary' = Recomputed({Len(log)}) /\ UNCHANGED <<dirty, catchUp, slipped>>
    BY <1>4 DEF Project, ProjectDeferred, repair
  <2>2. \A n \in 1 .. Len(log) : summary'[Thread(n)] >= n \/ n \in slipped
    <3> TAKE n \in 1 .. Len(log)
    <3>1. CASE Thread(n) = Thread(Len(log))
      BY <2>1, <3>1, SummariesTyped DEF Recomputed
    <3>2. CASE Thread(n) # Thread(Len(log))
      <4>1. summary'[Thread(n)] = summary[Thread(n)] /\ n # Len(log)
        BY <2>1, <3>2, SummariesTyped DEF Recomputed
      <4> QED
        BY <1>4, <4>1 DEF Behind, PassedOver
    <3> QED
      BY <3>1, <3>2
  <2> QED
    BY <1>1, <1>2, <1>4, <2>1, <2>2 DEF MarkOK, Behind, SummariesKept
<1> QED
  BY <1>3, <1>4

LEMMA SummariesStep ==
    ASSUME TypeOK, Landed, MarkOK, Behind, SummariesKept, [Next]_vars
    PROVE  MarkOK' /\ Behind' /\ SummariesKept'
<1> USE DEF durable, engine, ghosts, repair
<1>0. Len(log) \in Nat
  BY SummariesTyped
<1>1. ASSUME UNCHANGED <<log, cursor, summary>>, slipped \subseteq slipped', MarkOK', PassedOver' => PassedOver,
             \/ worker.step \notin {"committed", "project"} \/ worker'.step \in {"committed", "project"}
             \/ PassedOver => Len(log) \in slipped'
      PROVE  MarkOK' /\ Behind' /\ SummariesKept'
  <2>1. \A n : Thread(n)' = Thread(n)
    BY <1>1 DEF Thread
  <2> QED
    BY <1>1, <2>1 DEF Behind, SummariesKept
<1>2. ASSUME UNCHANGED <<log, cursor, summary, slipped, dirty, catchUp>>,
             worker.step \notin {"committed", "project"} \/ worker'.step \in {"committed", "project"}
      PROVE  MarkOK' /\ Behind' /\ SummariesKept'
  BY <1>1, <1>2 DEF MarkOK, PassedOver
<1>3. CASE UNCHANGED <<log, cursor, summary, slipped, dirty, catchUp, worker>>
  BY <1>2, <1>3
<1>4. CASE TakeToken \/ Exit \/ Begin \/ CheckReceipt \/ Refuse \/ Fail
  BY <1>2, <1>4 DEF TakeToken, Exit, Begin, CheckReceipt, Refuse, Fail
<1>5. CASE Look("control", "user") \/ Look("user", "normal") \/ TakeNormal
  BY <1>2, <1>5 DEF Look, TakeNormal
<1>6. CASE ReplyOk \/ ResolveStored \/ ReceiptUnreadable \/ StoreRejection \/ ReplyInternal \/ Finish
  BY <1>2, <1>6 DEF ReplyOk, ResolveStored, ReceiptUnreadable, StoreRejection, ReplyInternal, Finish
<1>7. CASE Publish \/ Reconcile \/ ReconcileFails
  BY <1>2, <1>7 DEF Publish, Reconcile, ReconcileFails
<1>8. CASE Advance
  BY <1>2, <1>8 DEF Advance, To, TypeOK, WorkerOK
<1>9. CASE Commit
  <2>1. UNCHANGED <<cursor, summary, slipped, dirty, catchUp>> /\ worker'.step = "committed" /\ worker.step = "decide"
    BY <1>9 DEF Commit, To, TypeOK, WorkerOK
  <2>2. \A n \in 1 .. Len(log) : Thread(n)' = Thread(n)
    BY <1>9, CommitFacts DEF Thread
  <2>3. \A n \in 1 .. Len(log') : n \in 1 .. Len(log) \/ n = Len(log')
    BY <1>9, CommitFacts
  <2>4. \A n \in 1 .. cursor : n \in 1 .. Len(log)
    BY SummariesTyped
  <2> QED
    BY <2>1, <2>2, <2>3, <2>4 DEF MarkOK, Behind, SummariesKept, PassedOver
<1>10. CASE ProjectionFails
  <2>1. UNCHANGED <<log, cursor, summary, slipped>> /\ ~dirty /\ dirty' /\ catchUp' = Scheduled
    BY <1>10 DEF ProjectionFails
  <2>2. catchUp # "clear" /\ MarkOK' /\ ~PassedOver'
    BY <2>1 DEF MarkOK, PassedOver, Scheduled
  <2>3. \A n : Thread(n)' = Thread(n)
    BY <2>1 DEF Thread
  <2> QED
    BY <2>1, <2>2, <2>3 DEF Behind, SummariesKept
<1>11. CASE Timeout
  <2>1. UNCHANGED <<log, cursor, summary, dirty, catchUp>> /\ (worker.step \in {"committed", "project"} => Slip)
        /\ (worker.step \notin {"committed", "project"} => UNCHANGED slipped)
    BY <1>11 DEF Timeout
  <2>2. slipped \subseteq slipped' /\ (worker.step \in {"committed", "project"} /\ PassedOver => Len(log) \in slipped')
    BY <2>1 DEF Slip
  <2> QED
    BY <1>1, <2>1, <2>2 DEF MarkOK, PassedOver
<1>12. CASE LockForCatchUp \/ BootstrapFails \/ ClearDirty \/ CatchUpEnds
  <2>1. UNCHANGED <<log, cursor, summary, slipped, worker>>
    BY <1>12 DEF LockForCatchUp, BootstrapFails, ClearDirty, CatchUpEnds
  <2>2. MarkOK' /\ (PassedOver' => PassedOver)
    BY <1>12 DEF LockForCatchUp, BootstrapFails, ClearDirty, CatchUpEnds, MarkOK, PassedOver
  <2> QED
    BY <1>1, <2>1, <2>2
<1>13. ASSUME UNCHANGED <<log, slipped>>, cursor' = Len(log), summary' = Recomputed(cursor + 1 .. Len(log)), MarkOK'
       PROVE  MarkOK' /\ Behind' /\ SummariesKept'
  <2>1. \A n : Thread(n)' = Thread(n)
    BY <1>13 DEF Thread
  <2> QED
    BY <1>13, <2>1, CaughtUp DEF Behind, SummariesKept
<1>14. CASE Bootstrap
  BY <1>13, <1>14 DEF Bootstrap, MarkOK
<1>15. CASE Restart
  BY <1>13, <1>15 DEF Restart, MarkOK
<1> QED
  BY <1>3, <1>4, <1>5, <1>6, <1>7, <1>8, <1>9, <1>10, <1>11, <1>12, <1>14, <1>15, ProjectStep
  DEF Next, vars, Work, CatchUp, Dispatch, GiveUp, Quiesce, Stop, StopReturns

-----------------------------------------------------------------------------
(* The promised ledger.                                                    *)

(* Only a call that has an answer was answered without its receipt.        *)
UnreadAnswered == \A c \in unread : result[c] # Nothing

(* What the promised ledger does not see.                                  *)
Unseen == UNCHANGED <<log, receipts, result, caller, unread>>

(* The worker has an answer for its call. *)
Answering == \/ CheckReceipt /\ receipts[Id] # NoReceipt
             \/ ReplyOk \/ ResolveStored \/ ReceiptUnreadable \/ StoreRejection \/ ReplyInternal

LEMMA LedgerCases ==
    ASSUME [Next]_vars
    PROVE  \/ Unseen
           \/ \E c \in Calls : Dispatch(c) \/ GiveUp(c)
           \/ Commit \/ Answering \/ Restart
  BY DEF Next, Unseen, Answering, vars, durable, engine, calls, ghosts, Work, CatchUp, Quiesce, Stop, StopReturns,
     TakeToken, Look, TakeNormal, Exit, Begin, CheckReceipt, Refuse, Advance, Project, Publish, Reconcile, Finish,
     LockForCatchUp, Bootstrap, ClearDirty, CatchUpEnds, Fail, ProjectionFails, BootstrapFails, Timeout, ReconcileFails

(* An answer goes to the call in hand, which had none.                     *)
LEMMA AnswerIsFirst ==
    ASSUME TypeOK, Tracked, Answering
    PROVE  /\ Me \in Calls /\ Id \in Ids /\ Id = IdOf[Me] /\ InHand
           /\ result[Me] = Nothing /\ caller[Me] \notin {"refused", "abandoned"}
           /\ caller' = caller /\ log' = log
           /\ unread' = IF ReceiptUnreadable THEN unread \cup {Me} ELSE unread
           /\ \E a : Reply(a) /\ a.kind \in {"ok", "rejected", "timeout", "internal"}
           /\ \A c \in Calls : c # Me => result'[c] = result[c]
<1>1. InHand /\ worker.step \notin {"built", "finish"}
  BY DEF Answering, CheckReceipt, ReplyOk, ResolveStored, ReceiptUnreadable, StoreRejection, ReplyInternal, InHand
<1>2. Me \in Calls /\ Id \in Ids
  BY <1>1, MeIsCall
<1>3. result[Me] = Nothing /\ caller[Me] \notin {"refused", "abandoned"}
  BY <1>1, <1>2 DEF Tracked
<1>4. caller' = caller /\ log' = log
  BY DEF Answering, CheckReceipt, ReplyOk, ResolveStored, ReceiptUnreadable, StoreRejection, ReplyInternal, durable, calls
<1>5. unread' = IF ReceiptUnreadable THEN unread \cup {Me} ELSE unread
  BY DEF Answering, CheckReceipt, ReplyOk, ResolveStored, ReceiptUnreadable, StoreRejection, ReplyInternal, ghosts
<1>6. \E a : Reply(a) /\ a.kind \in {"ok", "rejected", "timeout", "internal"}
  <2>1. CASE CheckReceipt /\ receipts[Id] # NoReceipt
    BY <2>1 DEF CheckReceipt, Stored, Answer
  <2>2. CASE ReplyOk \/ StoreRejection \/ ReplyInternal
    BY <2>2 DEF ReplyOk, StoreRejection, ReplyInternal, Answer
  <2>3. CASE ResolveStored \/ ReceiptUnreadable
    BY <2>3 DEF ResolveStored, ReceiptUnreadable, Stored, Answer
  <2> QED
    BY <2>1, <2>2, <2>3 DEF Answering
<1>7. \A c \in Calls : c # Me => result'[c] = result[c]
  BY <1>6 DEF Reply, TypeOK, AnswersOK
<1> QED
  BY <1>1, <1>2, <1>3, <1>4, <1>5, <1>6, <1>7 DEF Id

(* Answers stay, so what was answered without its receipt stays answered.  *)
LEMMA UnreadStep ==
    ASSUME TypeOK, Tracked, UnreadAnswered, [Next]_vars
    PROVE  UnreadAnswered'
<1>1. CASE Unseen
  BY <1>1 DEF Unseen, UnreadAnswered, Nothing
<1>2. CASE (\E c \in Calls : Dispatch(c) \/ GiveUp(c)) \/ Commit \/ Restart
  BY <1>2 DEF UnreadAnswered, Nothing, Dispatch, GiveUp, Commit, Restart, calls, ghosts
<1>3. CASE Answering
  <2>1. result'[Me] # Nothing
    BY <1>3, AnswerIsFirst DEF Reply, Nothing, TypeOK, AnswersOK
  <2>2. unread \subseteq Calls
    BY DEF TypeOK, AnswersOK
  <2> QED
    BY <1>3, <2>1, <2>2, AnswerIsFirst DEF UnreadAnswered, Nothing
<1> QED
  BY <1>1, <1>2, <1>3, LedgerCases

(* The answer of the call in hand is told, and to its caller only.         *)
LEMMA TellsMe ==
    ASSUME TypeOK, Tracked, UnreadAnswered, Answering, NEW me, me = Me, NEW kind, NEW n,
           Told(me)' = [kind |-> kind, sequence |-> n]
    PROVE  Promised!Tell(me, kind, n)
<1> DEFINE answers == [c \in Calls |-> Told(c)]
<1>1. me \in Calls /\ Told(me) = Nothing
  BY AnswerIsFirst DEF Told, UnreadAnswered, Nothing
<1>2. \A c \in Calls : c # me => Told(c)' = Told(c)
  BY AnswerIsFirst DEF Told
<1>3. answers[me] = Nothing
  BY <1>1
<1>4. answers' = [answers EXCEPT ![me] = [kind |-> kind, sequence |-> n]]
  <2>1. \A c \in Calls : Told(c)' = IF c = me THEN [kind |-> kind, sequence |-> n] ELSE Told(c)
    BY <1>2
  <2>2. answers' = [c \in Calls |-> Told(c)']
    OBVIOUS
  <2> QED
    BY <1>1, <2>1, <2>2
<1> HIDE DEF answers
<1> QED
  BY <1>3, <1>4 DEF Promised!Tell, Promised!Nothing, Nothing, answers

(* What the caller of the call in hand is told. *)
LEMMA ToldNow ==
    ASSUME TypeOK, Tracked, UnreadAnswered, Answering, NEW me, me = Me, NEW a, Reply(a)
    PROVE  Told(me)' = IF ReceiptUnreadable THEN Answer("unknown", 0)
                       ELSE IF a.kind \in {"timeout", "internal"} THEN Answer("failed", 0) ELSE a
<1>1. me \in Calls /\ me \notin unread
  BY AnswerIsFirst DEF UnreadAnswered
<1>2. caller'[me] \notin {"refused", "abandoned"} /\ result'[me] = a
  BY AnswerIsFirst DEF Reply, TypeOK, AnswersOK
<1>3. me \in unread' <=> ReceiptUnreadable
  BY <1>1, AnswerIsFirst
<1> QED
  BY <1>2, <1>3 DEF Told

(* A stored receipt tells what was decided.                                *)
LEMMA TellsStored ==
    ASSUME TypeOK, Tracked, Ledger, UnreadAnswered, Answering, ~ReceiptUnreadable, receipts[Id] # NoReceipt,
           Reply(Stored(receipts[Id])), UNCHANGED <<log, receipts>>
    PROVE  Promised!Next
<1> DEFINE me == Me
<1>0. me \in Calls /\ Id = IdOf[me] /\ Id \in Ids
  BY AnswerIsFirst
<1>1. CASE receipts[Id].status = "accepted"
  <2>1. receipts[Id].sequence \in 1 .. Len(log) /\ IdOf[log[receipts[Id].sequence]] = IdOf[me]
    BY <1>0, <1>1 DEF Ledger
  <2>2. Stored(receipts[Id]) = [kind |-> "ok", sequence |-> receipts[Id].sequence]
    BY <1>1 DEF Stored, Answer
  <2>3. Promised!Tell(me, "ok", receipts[Id].sequence)
    BY <2>2, ToldNow, TellsMe
  <2> QED
    BY <1>0, <2>1, <2>3 DEF Promised!Next, Promised!Confirm
<1>2. CASE receipts[Id].status # "accepted"
  <2>1. Stored(receipts[Id]) = [kind |-> "rejected", sequence |-> 0]
    BY <1>2 DEF Stored, Answer
  <2>2. Promised!Tell(me, "rejected", 0)
    BY <2>1, ToldNow, TellsMe
  <2> QED
    BY <1>0, <1>2, <2>2 DEF Promised!Next, Promised!Reject
<1> QED
  BY <1>1, <1>2

(* A failure is told only of a call that is not in the log.                *)
LEMMA TellsFailure ==
    ASSUME TypeOK, Tracked, UnreadAnswered, Answering, ~ReceiptUnreadable, \A n \in 1 .. Len(log) : log[n] # Me,
           NEW kind \in {"timeout", "internal"}, Reply(Answer(kind, 0)), UNCHANGED <<log, receipts>>
    PROVE  Promised!Next
<1> DEFINE me == Me
<1>1. Promised!Tell(me, "failed", 0)
  BY ToldNow, TellsMe DEF Answer
<1>2. me \in Calls
  BY AnswerIsFirst
<1> QED
  BY <1>1, <1>2 DEF Promised!Next, Promised!Deny

(* Every step decides, tells or leaves the ledger alone.                   *)
LEMMA LedgerPromised ==
    ASSUME TypeOK, Landed, Ledger, Undecided, Tracked, NotYet, UnreadAnswered, [Next]_vars
    PROVE  [Promised!Next]_(Promised!vars)
<1>1. ASSUME UNCHANGED <<log, receipts>>, \A c \in Calls : Told(c)' = Told(c)
      PROVE  UNCHANGED Promised!vars
  BY <1>1 DEF Promised!vars
<1>2. CASE Unseen
  <2>1. \A c \in Calls : Told(c)' = Told(c)
    BY <1>2 DEF Unseen, Told
  <2> QED
    BY <1>1, <1>2, <2>1 DEF Unseen
<1>3. ASSUME NEW c \in Calls, Dispatch(c) \/ GiveUp(c)
      PROVE  [Promised!Next]_(Promised!vars)
  <2>1. UNCHANGED <<log, receipts, result, unread>> /\ \A d \in Calls : d # c => caller'[d] = caller[d]
    BY <1>3 DEF Dispatch, GiveUp, TypeOK, AnswersOK, durable, ghosts
  <2>2. \A d \in Calls : d # c => Told(d)' = Told(d)
    BY <2>1 DEF Told
  <2>3. result[c] = Nothing /\ caller[c] \notin {"refused", "abandoned"}
    BY <1>3 DEF Dispatch, GiveUp, Tracked, Unanswered
  <2>4. c \notin unread
    BY <2>3 DEF UnreadAnswered
  <2>5. Told(c) = Nothing
    BY <2>3, <2>4 DEF Told, Nothing
  <2>6. CASE caller'[c] \notin {"refused", "abandoned"}
    <3>1. Told(c)' = Told(c)
      BY <2>1, <2>3, <2>4, <2>6 DEF Told
    <3> QED
      BY <1>1, <2>1, <2>2, <3>1
  <2>7. CASE caller'[c] \in {"refused", "abandoned"}
    <3> DEFINE answers == [d \in Calls |-> Told(d)]
    <3>1. execution[c] = "queued"
      BY <1>3, <2>7 DEF Dispatch, GiveUp, TypeOK, AnswersOK, Tracked
    <3>2. \A n \in 1 .. Len(log) : log[n] # c
      BY <3>1 DEF Tracked
    <3>3. Told(c)' = [kind |-> "failed", sequence |-> 0]
      BY <2>7 DEF Told, Answer
    <3>4. answers[c] = Nothing
      BY <2>5
    <3>5. answers' = [answers EXCEPT ![c] = [kind |-> "failed", sequence |-> 0]]
      <4>1. answers' = [d \in Calls |-> Told(d)']
        OBVIOUS
      <4> QED
        BY <2>2, <3>3, <4>1
    <3> HIDE DEF answers
    <3>6. Promised!Tell(c, "failed", 0)
      BY <3>4, <3>5 DEF Promised!Tell, Promised!Nothing, Nothing, answers
    <3> QED
      BY <2>1, <3>2, <3>6 DEF Promised!Next, Promised!Deny
  <2> QED
    BY <2>6, <2>7
<1>4. CASE Commit
  <2>0. PICK me \in Calls : me = Me
    BY <1>4, CommitFacts
  <2>1. /\ me \in Calls /\ Id = IdOf[me] /\ Id \in Ids /\ log' = Append(log, me)
        /\ receipts' = [receipts EXCEPT ![Id] = [status |-> "accepted", sequence |-> Len(log) + 1]]
        /\ UNCHANGED <<result, caller, unread>>
    BY <1>4, <2>0, CommitFacts DEF Commit, calls, ghosts, Id
  <2>2. receipts[Id].status = "none"
    BY <1>4 DEF Commit, Undecided, NoReceipt
  <2>3. result[me] = Nothing /\ caller[me] \notin {"refused", "abandoned"}
    BY <1>4, <2>0 DEF Commit, Tracked, InHand
  <2>4. Told(me) = Nothing
    BY <2>3 DEF Told, UnreadAnswered, Nothing
  <2>5. \A c \in Calls : Told(c)' = Told(c)
    BY <2>1 DEF Told
  <2> DEFINE verdict == [i \in Ids |-> receipts[i].status]
  <2>6. verdict' = [verdict EXCEPT ![IdOf[me]] = "accepted"]
    <3>1. \A i \in Ids : receipts'[i].status = IF i = Id THEN "accepted" ELSE receipts[i].status
      BY <2>1 DEF TypeOK, AnswersOK
    <3>2. verdict' = [i \in Ids |-> receipts'[i].status]
      OBVIOUS
    <3> QED
      BY <2>1, <3>1, <3>2
  <2>7. verdict[IdOf[me]] = "none"
    BY <2>1, <2>2
  <2>8. [c \in Calls |-> Told(c)]' = [c \in Calls |-> Told(c)]
    BY <2>5
  <2>9. [c \in Calls |-> Told(c)][me] = Nothing
    BY <2>1, <2>4
  <2>10. Promised!Accept(me)
    BY <2>1, <2>6, <2>7, <2>8, <2>9 DEF Promised!Accept, Promised!Nothing, Nothing, verdict
  <2> QED
    BY <2>1, <2>10 DEF Promised!Next
<1>5. CASE Restart
  <2>1. UNCHANGED <<log, receipts, result, unread>>
        /\ \A c \in Calls : caller'[c] = caller[c] \/ (caller[c] \in {"waiting", "late"} /\ caller'[c] = "lost")
    BY <1>5 DEF Restart, ghosts
  <2>2. \A c \in Calls : caller'[c] \in {"refused", "abandoned"} <=> caller[c] \in {"refused", "abandoned"}
    BY <2>1
  <2>3. \A c \in Calls : Told(c)' = Told(c)
    BY <2>1, <2>2 DEF Told
  <2> QED
    BY <1>1, <2>1, <2>3
<1>6. CASE ReceiptUnreadable
  <2> DEFINE me == Me
  <2>1. Answering /\ UNCHANGED <<log, receipts>>
    BY <1>6 DEF Answering, ReceiptUnreadable, durable
  <2>2. \E a : Reply(a)
    BY <2>1, AnswerIsFirst
  <2>3. Promised!Tell(me, "unknown", 0)
    BY <1>6, <2>1, <2>2, ToldNow, TellsMe DEF Answer
  <2>4. me \in Calls
    BY <2>1, AnswerIsFirst
  <2> QED
    BY <2>1, <2>3, <2>4 DEF Promised!Next, Promised!Misreport
<1>7. CASE CheckReceipt /\ receipts[Id] # NoReceipt /\ ~ReceiptUnreadable
  BY <1>7, TellsStored DEF Answering, CheckReceipt, durable
<1>8. CASE ResolveStored /\ ~ReceiptUnreadable
  <2>1. Answering /\ InHand /\ UNCHANGED <<log, receipts>>
    BY <1>8 DEF Answering, ResolveStored, InHand, durable
  <2>2. CASE receipts[Id] # NoReceipt
    BY <1>8, <2>1, <2>2, TellsStored DEF ResolveStored
  <2>3. CASE receipts[Id] = NoReceipt
    <3>1. PICK kind \in {"timeout", "internal"} : Reply(Answer(kind, 0))
      BY <1>8, <2>3 DEF ResolveStored
    <3> QED
      BY <1>8, <2>1, <2>3, <3>1, NoReceiptNoEvent, TellsFailure
  <2> QED
    BY <2>2, <2>3
<1>9. CASE ReplyInternal /\ ~ReceiptUnreadable
  <2>1. Answering /\ Reply(Answer("internal", 0)) /\ UNCHANGED <<log, receipts>>
    BY <1>9 DEF Answering, ReplyInternal, durable
  <2>2. \A n \in 1 .. Len(log) : log[n] # Me
    BY <1>9 DEF ReplyInternal, NotYet
  <2> QED
    BY <1>9, <2>1, <2>2, TellsFailure
<1>10. CASE ReplyOk /\ ~ReceiptUnreadable
  <2> DEFINE me == Me
  <2>1. Answering /\ Reply(Answer("ok", Len(log))) /\ UNCHANGED <<log, receipts>>
    BY <1>10 DEF Answering, ReplyOk, durable
  <2>2. Len(log) \in 1 .. Len(log) /\ log[Len(log)] = me
    BY <1>10 DEF ReplyOk, Landed, TypeOK, PositionsOK, WorkerOK
  <2>3. Promised!Tell(me, "ok", Len(log))
    BY <1>10, <2>1, ToldNow, TellsMe DEF Answer
  <2>4. me \in Calls
    BY <2>1, AnswerIsFirst
  <2> QED
    BY <2>1, <2>2, <2>3, <2>4 DEF Promised!Next, Promised!Confirm
<1>11. CASE StoreRejection /\ ~ReceiptUnreadable
  <2> DEFINE verdict == [i \in Ids |-> receipts[i].status]
  <2>1. Answering /\ Reply(Answer("rejected", 0)) /\ log' = log /\ receipts[Id] = NoReceipt
    BY <1>11 DEF Answering, StoreRejection, Undecided
  <2>a. PICK me \in Calls : me = Me
    BY <2>1, AnswerIsFirst
  <2>2. me \in Calls /\ Id = IdOf[me] /\ Id \in Ids
    BY <2>a, <2>1, AnswerIsFirst
  <2>3. Promised!Tell(me, "rejected", 0)
    BY <1>11, <2>a, <2>1, ToldNow, TellsMe DEF Answer
  <2>4. verdict[IdOf[me]] # "accepted"
    BY <2>1, <2>2 DEF NoReceipt
  <2>5. verdict' = verdict \/ verdict' = [verdict EXCEPT ![IdOf[me]] = "rejected"]
    <3>1. CASE receipts' = receipts
      BY <3>1
    <3>2. CASE receipts' = [receipts EXCEPT ![Id] = [status |-> "rejected", sequence |-> base]]
      <4>1. \A i \in Ids : receipts'[i].status = IF i = Id THEN "rejected" ELSE receipts[i].status
        BY <3>2 DEF TypeOK, AnswersOK
      <4>2. verdict' = [i \in Ids |-> receipts'[i].status]
        OBVIOUS
      <4> QED
        BY <2>2, <4>1, <4>2
    <3> QED
      BY <1>11, <3>1, <3>2 DEF StoreRejection
  <2>6. Promised!Reject(me)
    BY <2>1, <2>3, <2>4, <2>5 DEF Promised!Reject, verdict
  <2> QED
    BY <2>2, <2>6 DEF Promised!Next
<1> QED
  BY <1>2, <1>3, <1>4, <1>5, <1>6, <1>7, <1>8, <1>9, <1>10, <1>11, LedgerCases DEF Answering

-----------------------------------------------------------------------------
(* The inductive invariant, and what follows.                              *)

LEMMA InitIInv == Init => IInv
<1> SUFFICES ASSUME Init PROVE IInv
  OBVIOUS
<1> USE DEF Init
<1>1. worker.step = "take" /\ worker.call = "none" /\ worker.start = 0 /\ worker.error = "none" /\ ~InHand /\ ~Polling
  BY DEF Resting, InHand, Polling
<1>2. Len(log) = 0 /\ \A l \in Lanes : Len(queues[l]) = 0 /\ queues[l] = <<>>
  OBVIOUS
<1>3. PositionsOK
  BY DEF PositionsOK
<1>4. AnswersOK
  BY EngineAssumption DEF AnswersOK, NoReceipt, Nothing
<1>5. WorkerOK
  <2>1. Resting \in [step : Steps, call : Calls \cup {"none"}, start : Nat,
                     error : {"none", "invariant", "internal", "defect", "timeout"}]
    BY DEF Resting, Steps
  <2>2. worker = Resting /\ lock = "free" /\ catchUp = "off" /\ dirty = FALSE
    OBVIOUS
  <2>3. worker.start <= Len(log) /\ lock # "worker" /\ lock # "catchUp" /\ catchUp # "bootstrap"
    BY <1>1, <1>2, <2>2
  <2> QED
    BY <1>1, <2>1, <2>2, <2>3 DEF WorkerOK
<1>6. CountsOK
  <2>1. Queued = 0
    BY <1>2 DEF Queued, Lanes
  <2> QED
    BY <1>1, <2>1, EngineAssumption DEF CountsOK
<1>7. Landed /\ Undecided /\ NotYet /\ MarkOK
  BY <1>1 DEF Landed, Undecided, NotYet, MarkOK
<1>8. Ledger
  BY <1>2 DEF Ledger, NoReceipt
<1>9. Tracked /\ QueuesOK
  BY <1>1, <1>2 DEF Tracked, QueuesOK, LaneOK
<1>10. AnswersTrue
  BY <1>2 DEF AnswersTrue, Nothing
<1>11. BusFilled /\ Behind /\ SummariesKept
  BY <1>2 DEF BusFilled, Behind, SummariesKept
<1> QED
  BY <1>3, <1>4, <1>5, <1>6, <1>7, <1>8, <1>9, <1>10, <1>11 DEF IInv, TypeOK

LEMMA StepIInv == IInv /\ [Next]_vars => IInv'
<1> SUFFICES ASSUME IInv, [Next]_vars PROVE IInv'
  OBVIOUS
<1> USE DEF IInv
<1>1. TypeOK'
  BY PositionsStep, AnswersStep, WorkerStep, CountsStep DEF TypeOK
<1>2. Landed' /\ Ledger' /\ Undecided' /\ NotYet'
  BY LandedStep, LedgerStep, UndecidedStep, NotYetStep
<1>3. Tracked' /\ QueuesOK'
  BY CallsStep
<1>4. AnswersTrue'
  BY <1>2, TruthStep
<1>5. BusFilled'
  BY BusStep
<1>6. MarkOK' /\ Behind' /\ SummariesKept'
  BY SummariesStep
<1> QED
  BY <1>1, <1>2, <1>3, <1>4, <1>5, <1>6

LEMMA Invariance == Spec => []IInv
  BY InitIInv, StepIInv, PTL DEF Spec

(* Every reachable state of the engine is well typed, and its two counts   *)
(* are right: one wake token per queued command, and outstanding.          *)
THEOREM CountsCorrect == Spec => []TypeOK
  BY Invariance, PTL DEF IInv

(* Whatever deadlines, failures, restarts and repeated ids: what a caller  *)
(* is told agrees with the log.                                            *)
THEOREM AnswersAgreeWithLog == Spec => []AnswersTrue
  BY Invariance, PTL DEF IInv

(* No thread's summary is left behind the deferred cursor, but for the     *)
(* events whose projection was passed over.                                *)
THEOREM SummariesCatchUp == Spec => []SummariesKept
  BY Invariance, PTL DEF IInv

(* Live subscribers hear every event in order and before the worker turns  *)
(* to the next command.                                                    *)
THEOREM LiveBusInOrder == Spec => BusInOrder
<1>1. IInv /\ [Next]_vars =>
        [/\ \A n \in heard' \ heard : \A m \in 1 .. n : m \in heard' \cup torn
         /\ (Polling \/ worker = Resting)' => 1 .. Len(log') \subseteq heard' \cup torn']_vars
  BY BusStep DEF IInv
<1> QED
  BY <1>1, Invariance, PTL DEF Spec, BusInOrder

(* The engine implements the ledger it promises: every step of it decides  *)
(* an id, tells one call what fits the decisions made and to come, or      *)
(* leaves both alone.                                                      *)
THEOREM ImplementsCommandLedger == Spec => LedgerSpec
<1>1. Init => Promised!Init
  <2> SUFFICES ASSUME Init PROVE Promised!Init
    OBVIOUS
  <2>1. \A i \in Ids : receipts[i].status = "none"
    BY DEF Init, NoReceipt
  <2>2. \A c \in Calls : Told(c) = Nothing
    BY DEF Init, Told, Nothing
  <2> QED
    BY <2>1, <2>2 DEF Init, Promised!Init, Promised!Nothing, Nothing
<1>2. Init => UnreadAnswered
  BY DEF Init, UnreadAnswered
<1>3. IInv /\ UnreadAnswered /\ [Next]_vars => UnreadAnswered'
  BY UnreadStep DEF IInv
<1>4. IInv /\ UnreadAnswered /\ [Next]_vars => [Promised!Next]_(Promised!vars)
  BY LedgerPromised DEF IInv
<1> QED
  BY <1>1, <1>2, <1>3, <1>4, Invariance, PTL DEF Spec, LedgerSpec, Promised!Spec

=============================================================================
