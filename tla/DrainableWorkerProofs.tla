------------------------ MODULE DrainableWorkerProofs ------------------------
(***************************************************************************)
(* Theorems about DrainableWorker for every number of fibers and calls and *)
(* every capacity: what is accepted is in one place until it settles, an   *)
(* offer finds room, a drain covers what preceded it, and the worker       *)
(* implements BoundedWork.                                                 *)
(***************************************************************************)
EXTENDS DrainableWorker, FiniteSetTheorems, TLAPS

(* The items reserved and not yet offered, and those in the queue.         *)
Reserved == {<<p, call[p]>> : p \in {x \in Producers : pc[x] = "offer"}}
Queued   == {queue[k] : k \in 1 .. Len(queue)}

(* A producer in the middle of a call has a call to make.                  *)
InCall == \A p \in Producers : pc[p] \in {"retry", "wait", "offer"} => call[p] <= CallsEach

(* The consumer holds an item just while it processes one.                 *)
Holding ==
    /\ consumer = "process" => \E i \in Items : active = {i}
    /\ consumer # "process" => active = {}

(* Where a closing fiber stands, admission has ended; it waits for the     *)
(* current idle generation, and once the queue is shut nothing is left.    *)
Closed ==
    /\ \A f \in Fibers :
         /\ pc[f] \in {"wakeWaiters", "wakeAndStop", "markDraining", "drain", "awaitDrained",
                       "markStopped", "stopped"} => phase # "running"
         /\ pc[f] \in {"wakeWaiters", "wakeAndStop"} => signal[f][1] = "slotAvailable"
         /\ pc[f] = "awaitDrained" => signal[f] = Idle(idle)
         /\ pc[f] \in {"markStopped", "stopped"} => ~open
    /\ ~open => phase # "running" /\ outstanding = 0

(* The current idle generation is completed, or about to be, only while    *)
(* nothing is outstanding; no later one exists.                            *)
Fits(d) == \A g \in Nat : d = Idle(g) => g <= idle /\ (g = idle => outstanding = 0)
IdleMeans == /\ \A d \in fired : Fits(d)
             /\ \A k \in 1 .. Len(owed) : Fits(owed[k])

(* An accepted item is its producer's current call only while reserved; a  *)
(* queued or held one is an earlier call, and is there once.               *)
Past(i) == i[2] < call[i[1]]
Once ==
    /\ \A i \in accepted : Past(i) \/ i \in Reserved
    /\ \A k \in 1 .. Len(queue) : Past(queue[k]) /\ queue[k] \notin active
    /\ \A i \in active : Past(i)
    /\ \A j, k \in 1 .. Len(queue) : queue[j] = queue[k] => j = k

Placed  == accepted \ settled = Reserved \cup Queued \cup active
Counted == /\ IsFiniteSet(Reserved)
           /\ Cardinality(Reserved) + Len(queue) + Cardinality(active) = outstanding
Owing   == /\ settled \subseteq accepted /\ IsFiniteSet(accepted \ settled)
           /\ Cardinality(accepted \ settled) = outstanding

(* A fiber that waits for an older idle generation has all its items       *)
(* settled already.                                                        *)
Covered ==
    /\ \A f \in Drainers \cup Closers : covers[f] \subseteq accepted
    /\ \A f \in Drainers \cup Closers : pc[f] \in {"awaitIdle", "awaitDrained"} =>
         \E g \in 0 .. idle : signal[f] = Idle(g) /\ (g < idle => covers[f] \subseteq settled)

IInv == /\ TypeOK /\ InCall /\ Holding /\ Closed /\ IdleMeans /\ Once /\ Placed /\ Counted /\ Owing
        /\ Covered /\ DrainCovers

-----------------------------------------------------------------------------
(* The types.                                                              *)

LEMMA SignalsTyped == ASSUME TypeOK PROVE FinishSignals \in Seq(Deferreds)
<1>1. Idle(idle) \in Deferreds /\ Slot(slotAvailable) \in Deferreds
  BY DEF TypeOK, Idle, Slot, Deferreds
<1> QED
  BY <1>1 DEF FinishSignals

LEMMA TypeInit == Init => TypeOK
<1> SUFFICES ASSUME Init PROVE TypeOK
  OBVIOUS
<1>1. Idle(0) \in Deferreds /\ Slot(0) \in Deferreds
  BY DEF Idle, Slot, Deferreds
<1>2. /\ fired \subseteq Deferreds
      /\ signal \in [Fibers -> Deferreds]
  BY <1>1 DEF Init
<1>3. /\ call \in [Producers -> 1 .. (CallsEach + 1)]
      /\ outstanding \in 0 .. Capacity
  BY WorkerAssumption DEF Init
<1> QED
  BY <1>2, <1>3 DEF Init, TypeOK

LEMMA ItemTyped == ASSUME TypeOK, NEW p \in Producers, call[p] <= CallsEach PROVE <<p, call[p]>> \in Items
  BY WorkerAssumption DEF TypeOK, Items

LEMMA CallStep == ASSUME TypeOK, InCall, [Next]_vars PROVE InCall'
<1> USE DEF TypeOK, InCall, Fibers, stateVars, queueVars, fiberVars, history, Goto, Forget, Returned
<1>1. CASE UNCHANGED <<pc, call>>
  BY <1>1
<1>2. ASSUME NEW p \in Producers, Caller(p) \/ Interrupt(p) PROVE InCall'
  BY <1>2, WorkerAssumption
     DEF Caller, Interrupt, Accept, Reject, Overloaded, Wait, Wake, Offer, Reserving
<1>4. ASSUME NEW d \in Drainers, Drain(d) \/ Drained(d) PROVE InCall'
  BY <1>4 DEF Drain, Drained, ReadIdle
<1>5. ASSUME NEW c \in Closers, \/ Quiesce(c, TRUE) \/ Quiesce(c, FALSE)
                                \/ Closing(c) \/ QuiesceInterrupted(c) PROVE InCall'
  BY <1>5 DEF Quiesce, Closing, QuiesceInterrupted, WakeWaiters, MarkDraining, StopDrains, Shutdown,
              MarkStopped, ReadIdle
<1>6. CASE Consumer
  BY <1>6 DEF Consumer, Take, Process, Signal, FinishOne
<1> QED
  BY <1>1, <1>2, <1>4, <1>5, <1>6 DEF Next, vars

LEMMA TypeStep == ASSUME TypeOK, InCall, [Next]_vars PROVE TypeOK'
<1> USE DEF TypeOK, Fibers, stateVars, queueVars, fiberVars, history, Goto, Forget, Returned
<1>0. Idle(0) \in Deferreds /\ Idle(idle) \in Deferreds /\ Slot(slotAvailable) \in Deferreds
  BY DEF Idle, Slot, Deferreds
<1>1. ASSUME NEW p \in Producers, Accept(p) PROVE TypeOK'
  <2>1. call[p] <= CallsEach
    BY <1>1 DEF Accept, Reserving, InCall
  <2>2. <<p, call[p]>> \in Items
    BY <2>1, ItemTyped
  <2>3. outstanding' \in 0 .. Capacity /\ idle' \in Nat /\ slotAvailable' \in Nat
    BY WorkerAssumption, <1>1 DEF Accept, Reserve, Full, NextIdle
  <2>4. accepted' \subseteq Items
    BY <1>1, <2>2 DEF Accept
  <2> QED
    BY <1>1, <2>3, <2>4 DEF Accept, Reserve
<1>2. ASSUME NEW p \in Producers, Returned(p), call[p] <= CallsEach
      PROVE call' \in [Producers -> 1 .. (CallsEach + 1)] /\ pc' \in [Fibers -> {"ready", "retry", "offer", "wait", "awaitIdle", "drained",
                          "wakeWaiters", "wakeAndStop", "quiesced", "markDraining", "drain",
                          "awaitDrained", "markStopped", "stopped"}]
  BY <1>2, WorkerAssumption
<1>3. ASSUME NEW p \in Producers, Reject(p) \/ Overloaded(p) PROVE TypeOK'
  <2>1. Returned(p) /\ call[p] <= CallsEach
    BY <1>3 DEF Reject, Overloaded, Reserving, InCall
  <2> HIDE DEF Returned
  <2> QED
    BY <1>2, <1>3, <2>1 DEF Reject, Overloaded
<1>4. ASSUME NEW p \in Producers, Wait(p) \/ Wake(p) PROVE TypeOK'
  BY <1>0, <1>4 DEF Wait, Wake
<1>5. ASSUME NEW p \in Producers, Interrupt(p) PROVE TypeOK'
  <2>1. Returned(p) /\ call[p] <= CallsEach
    BY <1>5 DEF Interrupt, InCall
  <2> HIDE DEF Returned
  <2> QED
    BY <1>0, <1>2, <1>5, <2>1 DEF Interrupt
<1>6. ASSUME NEW p \in Producers, Offer(p) PROVE TypeOK'
  <2>1. Returned(p) /\ call[p] <= CallsEach
    BY <1>6 DEF Offer, InCall
  <2>2. <<p, call[p]>> \in Items
    BY <2>1, ItemTyped
  <2>3. queue' \in Seq(Items)
    BY <1>6, <2>2 DEF Offer
  <2> HIDE DEF Returned
  <2> QED
    BY <1>2, <1>6, <2>1, <2>3 DEF Offer
<1>7. CASE Take
  <2>1. Head(queue) \in Items /\ Tail(queue) \in Seq(Items)
    BY <1>7 DEF Take
  <2> QED
    BY <1>7, <2>1 DEF Take
<1>8. CASE Process
  <2>1. FinishSignals \in Seq(Deferreds)
    BY SignalsTyped
  <2>2. PICK i \in active : FinishOne(i)
    BY <1>8 DEF Process
  <2>3. outstanding' \in 0 .. Capacity
    BY <2>2, WorkerAssumption DEF FinishOne
  <2> QED
    BY <1>8, <2>1, <2>2, <2>3 DEF Process, FinishOne
<1>9. CASE Signal
  <2>1. CASE owed # <<>>
    <3>1. Head(owed) \in Deferreds /\ Tail(owed) \in Seq(Deferreds)
      BY <2>1
    <3> QED
      BY <1>9, <2>1, <3>1 DEF Signal
  <2>2. CASE owed = <<>>
    BY <1>9, <2>2 DEF Signal
  <2> QED
    BY <2>1, <2>2
<1>10. ASSUME NEW d \in Drainers, Drain(d) \/ Drained(d) PROVE TypeOK'
  BY <1>0, <1>10 DEF Drain, Drained, ReadIdle
<1>11. ASSUME NEW c \in Closers, Quiesce(c, TRUE) \/ Quiesce(c, FALSE) \/ QuiesceInterrupted(c) PROVE TypeOK'
  BY <1>0, <1>11 DEF Quiesce, QuiesceInterrupted
<1>12. ASSUME NEW c \in Closers, Closing(c) PROVE TypeOK'
  <2>1. CASE WakeWaiters(c)
    BY <1>0, <2>1 DEF WakeWaiters
  <2>2. CASE MarkDraining(c) \/ MarkStopped(c)
    BY <2>2 DEF MarkDraining, MarkStopped
  <2>3. CASE StopDrains(c)
    BY <1>0, <2>3 DEF StopDrains, ReadIdle
  <2>4. CASE Shutdown(c)
    <3>1. queue' \in Seq(Items)
      BY <2>4 DEF Shutdown
    <3>2. signal' \in [Fibers -> Deferreds] /\ pc' \in [Fibers -> {"ready", "retry", "offer", "wait", "awaitIdle",
                          "drained", "wakeWaiters", "wakeAndStop", "quiesced", "markDraining", "drain",
                          "awaitDrained", "markStopped", "stopped"}]
      BY <1>0, <2>4 DEF Shutdown
    <3> QED
      BY <2>4, <3>1, <3>2 DEF Shutdown
  <2> QED
    BY <1>12, <2>1, <2>2, <2>3, <2>4 DEF Closing
<1>13. CASE UNCHANGED vars
  BY <1>13 DEF vars
<1> QED
  BY <1>1, <1>3, <1>4, <1>5, <1>6, <1>7, <1>8, <1>9, <1>10, <1>11, <1>12, <1>13 DEF Next, Caller, Consumer

LEMMA HoldingStep == ASSUME TypeOK, Holding, [Next]_vars PROVE Holding'
<1> USE DEF Holding, stateVars, queueVars, fiberVars, history
<1>1. CASE UNCHANGED <<consumer, active>>
  BY <1>1
<1>2. CASE Take
  <2>1. Head(queue) \in Items
    BY <1>2 DEF Take, TypeOK
  <2> QED
    BY <1>2, <2>1 DEF Take
<1>3. CASE Process
  BY <1>3 DEF Process
<1>4. CASE Signal
  BY <1>4 DEF Signal
<1>5. ASSUME NEW p \in Producers, Caller(p) \/ Interrupt(p) PROVE UNCHANGED <<consumer, active>>
  BY <1>5 DEF Caller, Interrupt, Accept, Reject, Overloaded, Wait, Wake, Offer
<1>6. ASSUME NEW d \in Drainers, Drain(d) \/ Drained(d) PROVE UNCHANGED <<consumer, active>>
  BY <1>6 DEF Drain, Drained, ReadIdle
<1>7. ASSUME NEW c \in Closers, \/ Quiesce(c, TRUE) \/ Quiesce(c, FALSE)
                                \/ Closing(c) \/ QuiesceInterrupted(c) PROVE UNCHANGED <<consumer, active>>
  BY <1>7 DEF Quiesce, Closing, QuiesceInterrupted, WakeWaiters, MarkDraining, StopDrains, Shutdown,
              MarkStopped, ReadIdle
<1> QED
  BY <1>1, <1>2, <1>3, <1>4, <1>5, <1>6, <1>7 DEF Next, Consumer, vars

-----------------------------------------------------------------------------
(* Closing, and what a completed idle generation means.                    *)

LEMMA ClosedStep == ASSUME TypeOK, IdleMeans, Counted, Closed, [Next]_vars PROVE Closed'
<1> USE DEF TypeOK, Closed, Fibers, Idle, stateVars, queueVars, fiberVars, history, Goto, Forget, Returned
<1>1. CASE UNCHANGED <<pc, phase, signal, idle, open, outstanding>>
  BY <1>1
<1>2. ASSUME NEW p \in Producers, Accept(p) PROVE Closed'
  BY <1>2 DEF Accept, Reserve, Admitting, NextIdle
<1>3. ASSUME NEW p \in Producers, \/ Reject(p) \/ Overloaded(p) \/ Wait(p) \/ Wake(p)
                                  \/ Offer(p) \/ Interrupt(p) PROVE Closed'
  <2>1. CASE Reject(p) \/ Overloaded(p)
    BY <2>1 DEF Reject, Overloaded
  <2>2. CASE Wait(p)
    BY <2>2 DEF Wait
  <2>3. CASE Wake(p)
    BY <2>3 DEF Wake
  <2>4. CASE Offer(p)
    BY <2>4 DEF Offer
  <2>5. CASE Interrupt(p)
    BY <2>5 DEF Interrupt
  <2> QED
    BY <1>3, <2>1, <2>2, <2>3, <2>4, <2>5
<1>4. CASE Take
  BY <1>4 DEF Take
<1>5. CASE Process
  BY <1>5 DEF Process, FinishOne
<1>6. CASE Signal
  BY <1>6 DEF Signal
<1>7. ASSUME NEW d \in Drainers, Drain(d) \/ Drained(d) PROVE Closed'
  BY <1>7 DEF Drain, Drained, ReadIdle
<1>8. ASSUME NEW c \in Closers, Quiesce(c, TRUE) \/ Quiesce(c, FALSE) PROVE Closed'
  BY <1>8 DEF Quiesce, Slot
<1>9. ASSUME NEW c \in Closers, WakeWaiters(c) \/ QuiesceInterrupted(c) \/ MarkDraining(c) PROVE Closed'
  <2>1. CASE WakeWaiters(c)
    BY <2>1 DEF WakeWaiters
  <2>2. CASE QuiesceInterrupted(c)
    BY <2>2 DEF QuiesceInterrupted
  <2>3. CASE MarkDraining(c)
    BY <2>3 DEF MarkDraining
  <2> QED
    BY <1>9, <2>1, <2>2, <2>3
<1>10. ASSUME NEW c \in Closers, StopDrains(c) \/ MarkStopped(c) PROVE Closed'
  <2>1. CASE StopDrains(c)
    BY <2>1 DEF StopDrains, ReadIdle
  <2>2. CASE MarkStopped(c)
    BY <2>2 DEF MarkStopped
  <2> QED
    BY <1>10, <2>1, <2>2
<1>11. ASSUME NEW c \in Closers, Shutdown(c) PROVE Closed'
  <2>1. signal[c] = Idle(idle) /\ signal[c] \in fired /\ phase # "running"
    BY <1>11 DEF Shutdown
  <2>2. outstanding = 0
    BY <2>1 DEF IdleMeans, Fits
  <2> QED
    BY <1>11, <2>1, <2>2 DEF Shutdown
<1> QED
  BY <1>1, <1>2, <1>3, <1>4, <1>5, <1>6, <1>7, <1>8, <1>9, <1>10, <1>11
     DEF Next, Caller, Consumer, Closing, vars

(* Completing the slot signal says nothing about idleness.                 *)
LEMMA SlotFits == ASSUME NEW d, d[1] = "slotAvailable" PROVE Fits(d) /\ Fits(d)'
  BY DEF Fits, Idle

LEMMA FinishFits == ASSUME TypeOK, NEW i, FinishOne(i) PROVE (\A k \in 1 .. Len(owed) : Fits(owed[k]))'
<1>1. ASSUME outstanding <= 1 PROVE Fits(Idle(idle))'
  BY <1>1 DEF TypeOK, FinishOne, Fits, Idle
<1>2. Fits(Slot(slotAvailable))'
  BY SlotFits DEF Slot, FinishOne
<1>3. \A k \in 1 .. Len(FinishSignals) :
        \/ outstanding <= 1 /\ FinishSignals[k] = Idle(idle)
        \/ FinishSignals[k] = Slot(slotAvailable)
  BY DEF FinishSignals
<1>4. idle' = idle /\ slotAvailable' = slotAvailable /\ owed' = FinishSignals
  BY DEF FinishOne
<1>5. Idle(idle') = Idle(idle) /\ Slot(slotAvailable') = Slot(slotAvailable)
  BY <1>4
<1> QED
  BY <1>1, <1>2, <1>3, <1>4, <1>5

LEMMA IdleStep == ASSUME TypeOK, Holding, Counted, Closed, IdleMeans, [Next]_vars PROVE IdleMeans'
<1> USE DEF TypeOK, IdleMeans, stateVars, queueVars, fiberVars, history
<1>1. CASE UNCHANGED <<idle, outstanding, fired, owed>>
  BY <1>1 DEF Fits, Idle
<1>2. ASSUME NEW p \in Producers, Accept(p) PROVE IdleMeans'
  <2>1. ASSUME NEW d, Fits(d) PROVE Fits(d)'
    BY <1>2, <2>1 DEF Accept, Reserve, NextIdle, Fits, Idle
  <2> QED
    BY <1>2, <2>1 DEF Accept
<1>3. CASE Process
  <2>1. PICK i \in active : FinishOne(i)
    BY <1>3 DEF Process
  <2>2. ASSUME NEW d, Fits(d) PROVE Fits(d)'
    BY <2>1, <2>2 DEF FinishOne, Fits, Idle
  <2>3. (\A k \in 1 .. Len(owed) : Fits(owed[k]))'
    BY <2>1, FinishFits
  <2> QED
    BY <1>3, <2>2, <2>3 DEF Process
<1>4. CASE Signal
  <2>1. ASSUME NEW d PROVE Fits(d)' <=> Fits(d)
    BY <1>4 DEF Signal, Fits, Idle
  <2>2. CASE owed # <<>>
    <3>1. Fits(Head(owed)) /\ \A k \in 1 .. Len(Tail(owed)) : Fits(Tail(owed)[k])
      BY <2>2
    <3> QED
      BY <1>4, <2>1, <2>2, <3>1 DEF Signal
  <2>3. CASE owed = <<>>
    BY <1>4, <2>1, <2>3 DEF Signal
  <2> QED
    BY <2>2, <2>3
<1>5. ASSUME NEW c \in Closers, WakeWaiters(c) PROVE IdleMeans'
  <2>1. ASSUME NEW d PROVE Fits(d)' <=> Fits(d)
    BY <1>5 DEF WakeWaiters, Fits, Idle
  <2>2. signal[c][1] = "slotAvailable"
    BY <1>5 DEF WakeWaiters, Closed, Fibers
  <2>3. Fits(signal[c])
    BY <2>2, SlotFits
  <2> QED
    BY <1>5, <2>1, <2>3 DEF WakeWaiters
<1>6. ASSUME NEW p \in Producers, \/ Reject(p) \/ Overloaded(p) \/ Wait(p) \/ Wake(p)
                                  \/ Offer(p) \/ Interrupt(p)
      PROVE UNCHANGED <<idle, outstanding, fired, owed>>
  BY <1>6 DEF Reject, Overloaded, Wait, Wake, Offer, Interrupt
<1>7. ASSUME NEW d \in Drainers, Drain(d) \/ Drained(d) PROVE UNCHANGED <<idle, outstanding, fired, owed>>
  BY <1>7 DEF Drain, Drained, ReadIdle
<1>8. ASSUME NEW c \in Closers, \/ Quiesce(c, TRUE) \/ Quiesce(c, FALSE) \/ QuiesceInterrupted(c)
                                \/ MarkDraining(c) \/ StopDrains(c) \/ Shutdown(c) \/ MarkStopped(c)
      PROVE UNCHANGED <<idle, outstanding, fired, owed>>
  BY <1>8 DEF Quiesce, QuiesceInterrupted, MarkDraining, StopDrains, Shutdown, MarkStopped, ReadIdle
<1>9. CASE Take
  BY <1>9 DEF Take, Fits, Idle
<1> QED
  BY <1>1, <1>2, <1>3, <1>4, <1>5, <1>6, <1>7, <1>8, <1>9 DEF Next, Caller, Consumer, Closing, vars

-----------------------------------------------------------------------------
(* Where the accepted items are.  Only five kinds of step move one.        *)

LEMMA ReservedAccept ==
  ASSUME TypeOK, NEW p \in Producers, Accept(p)
  PROVE  Reserved' = Reserved \cup {<<p, call[p]>>} /\ pc[p] # "offer"
<1>1. call' = call /\ pc' = [pc EXCEPT ![p] = "offer"]
  BY DEF Accept, Goto
<1>2. \A x \in Producers : pc'[x] = "offer" <=> x = p \/ pc[x] = "offer"
  BY <1>1 DEF TypeOK, Fibers
<1> QED
  BY <1>1, <1>2 DEF Reserved, Accept, Reserving

LEMMA ReservedOffer ==
  ASSUME TypeOK, NEW p \in Producers, Offer(p)
  PROVE  Reserved' = Reserved \ {<<p, call[p]>>} /\ <<p, call[p]>> \in Reserved
<1>1. call' = [call EXCEPT ![p] = @ + 1] /\ pc' = [pc EXCEPT ![p] = "ready"] /\ pc[p] = "offer"
  BY DEF Offer, Returned, Goto
<1>2. \A x \in Producers : pc'[x] = "offer" <=> x # p /\ pc[x] = "offer"
  BY <1>1 DEF TypeOK, Fibers
<1>3. \A x \in Producers : x # p => call'[x] = call[x]
  BY <1>1 DEF TypeOK
<1> QED
  BY <1>1, <1>2, <1>3 DEF Reserved

LEMMA ReservedKept ==
  ASSUME \A x \in Producers : /\ pc'[x] = "offer" <=> pc[x] = "offer"
                              /\ pc[x] = "offer" => call'[x] = call[x]
  PROVE  Reserved' = Reserved
  BY DEF Reserved

(* A call comes to an end without an item.                                 *)
LEMMA Given ==
  ASSUME TypeOK, NEW p \in Producers, pc[p] # "offer", Returned(p)
  PROVE  /\ \A x \in Producers : pc'[x] = "offer" <=> pc[x] = "offer"
         /\ \A x \in Producers : pc[x] = "offer" => call'[x] = call[x]
         /\ \A x \in Producers : call'[x] >= call[x]
  BY DEF TypeOK, Fibers, Returned, Goto

LEMMA EmptyWhenIdle == ASSUME TypeOK, Counted, Holding, outstanding = 0 PROVE queue = <<>>
<1>1. IsFiniteSet(active)
  BY FS_EmptySet, FS_Singleton DEF Holding
<1>2. Cardinality(Reserved) \in Nat /\ Cardinality(active) \in Nat
  BY <1>1, FS_CardinalityType DEF Counted
<1>3. Len(queue) = 0
  BY <1>2 DEF Counted, TypeOK
<1> QED
  BY <1>3 DEF TypeOK

Quiet == /\ UNCHANGED <<accepted, settled, queue, active, outstanding>>
         /\ Reserved' = Reserved
         /\ \A x \in Producers : call'[x] >= call[x]

LEMMA Moves ==
  ASSUME TypeOK, Holding, Closed, IdleMeans, Counted, [Next]_vars
  PROVE  \/ \E p \in Producers : Accept(p) \/ Offer(p)
         \/ Take \/ Process
         \/ Quiet
<1> USE DEF TypeOK, Fibers, stateVars, queueVars, fiberVars, history, Goto
<1>0. ASSUME UNCHANGED call PROVE \A x \in Producers : call'[x] >= call[x]
  BY <1>0
<1>1. CASE UNCHANGED vars
  BY <1>1, <1>0, ReservedKept DEF vars, Quiet
<1>2. ASSUME NEW p \in Producers, Reject(p) \/ Overloaded(p) \/ Interrupt(p) PROVE Quiet
  <2>1. Returned(p) /\ pc[p] # "offer"
    BY <1>2 DEF Reject, Overloaded, Interrupt, Reserving
  <2>2. UNCHANGED <<accepted, settled, queue, active, outstanding>>
    BY <1>2 DEF Reject, Overloaded, Interrupt
  <2> QED
    BY <2>1, <2>2, Given, ReservedKept DEF Quiet
<1>3. ASSUME NEW f \in Fibers, pc[f] # "offer", NEW x, x # "offer", Goto(f, x), UNCHANGED call
      PROVE Reserved' = Reserved
  <2>1. \A y \in Producers : pc'[y] = "offer" <=> pc[y] = "offer"
    BY <1>3
  <2> QED
    BY <1>3, <2>1, ReservedKept
<1>4. ASSUME NEW p \in Producers, Wait(p) \/ Wake(p) PROVE Quiet
  <2>1. UNCHANGED <<accepted, settled, queue, active, outstanding, call>>
    BY <1>4 DEF Wait, Wake
  <2>2. pc[p] # "offer" /\ (Goto(p, "wait") \/ Goto(p, "retry"))
    BY <1>4 DEF Wait, Wake, Reserving
  <2> HIDE DEF Goto
  <2> QED
    BY <1>0, <1>3, <2>1, <2>2 DEF Quiet
<1>5. CASE Signal
  BY <1>0, <1>5, ReservedKept DEF Signal, Quiet
<1>6. ASSUME NEW d \in Drainers, Drain(d) \/ Drained(d) PROVE Quiet
  <2>1. UNCHANGED <<accepted, settled, queue, active, outstanding, call>>
    BY <1>6 DEF Drain, Drained, ReadIdle
  <2>2. pc[d] # "offer" /\ (Goto(d, "awaitIdle") \/ Goto(d, "drained"))
    BY <1>6 DEF Drain, Drained
  <2> HIDE DEF Goto
  <2> QED
    BY <1>0, <1>3, <2>1, <2>2 DEF Quiet
<1>7. ASSUME NEW c \in Closers, \/ Quiesce(c, TRUE) \/ Quiesce(c, FALSE) \/ QuiesceInterrupted(c)
                                \/ WakeWaiters(c) \/ MarkDraining(c) \/ StopDrains(c) \/ MarkStopped(c)
      PROVE Quiet
  <2>1. UNCHANGED <<accepted, settled, queue, active, outstanding, call>>
    BY <1>7 DEF Quiesce, QuiesceInterrupted, WakeWaiters, MarkDraining, StopDrains, MarkStopped, ReadIdle
  <2>2. pc[c] # "offer" /\ \E x \in {"wakeAndStop", "wakeWaiters", "markDraining", "quiesced", "drain",
                                     "awaitDrained", "stopped"} : Goto(c, x)
    BY <1>7 DEF Quiesce, QuiesceInterrupted, WakeWaiters, MarkDraining, StopDrains, MarkStopped
  <2> HIDE DEF Goto
  <2> QED
    BY <1>0, <1>3, <2>1, <2>2 DEF Quiet
<1>8. ASSUME NEW c \in Closers, Shutdown(c) PROVE Quiet
  <2>1. outstanding = 0
    BY <1>8 DEF Shutdown, Closed, IdleMeans, Fits
  <2>2. UNCHANGED <<accepted, settled, queue, active, outstanding, call>>
    BY <1>8, <2>1, EmptyWhenIdle DEF Shutdown
  <2>3. pc[c] # "offer" /\ Goto(c, "markStopped")
    BY <1>8 DEF Shutdown
  <2> HIDE DEF Goto
  <2> QED
    BY <1>0, <1>3, <2>2, <2>3 DEF Quiet
<1> QED
  BY <1>1, <1>2, <1>4, <1>5, <1>6, <1>7, <1>8 DEF Next, Caller, Consumer, Closing

(* The item of a call that is about to be admitted is new.                 *)
LEMMA NewItem ==
  ASSUME TypeOK, InCall, Once, Owing, NEW p \in Producers, Accept(p)
  PROVE  <<p, call[p]>> \notin accepted \cup settled \cup Reserved
<1>1. <<p, call[p]>> \notin Reserved
  BY ReservedAccept DEF Reserved
<1>2. ~Past(<<p, call[p]>>)
  BY DEF Past, TypeOK
<1> QED
  BY <1>1, <1>2 DEF Once, Owing

LEMMA PastKept ==
  ASSUME TypeOK, NEW i \in Items, Past(i), \A x \in Producers : call'[x] >= call[x], TypeOK'
  PROVE  Past(i)'
  BY DEF Past, TypeOK, Items

(* An offer moves the reserved item to the end of the queue.               *)
LEMMA Queueing ==
  ASSUME TypeOK, NEW p \in Producers, Offer(p)
  PROVE  /\ Queued' = Queued \cup {<<p, call[p]>>}
         /\ Len(queue') = Len(queue) + 1
         /\ \A k \in 1 .. Len(queue) : queue'[k] = queue[k]
         /\ queue'[Len(queue) + 1] = <<p, call[p]>>
<1>1. queue' = Append(queue, <<p, call[p]>>)
  BY DEF Offer
<1>2. /\ Len(queue') = Len(queue) + 1
      /\ \A k \in 1 .. Len(queue) : queue'[k] = queue[k]
      /\ queue'[Len(queue) + 1] = <<p, call[p]>>
      /\ Len(queue) \in Nat
  BY <1>1 DEF TypeOK
<1>3. 1 .. Len(queue') = 1 .. Len(queue) \cup {Len(queue) + 1}
  BY <1>2
<1>4. Queued' = {queue'[k] : k \in 1 .. Len(queue) \cup {Len(queue) + 1}}
  BY <1>3 DEF Queued
<1>5. Queued' = {queue'[k] : k \in 1 .. Len(queue)} \cup {queue'[Len(queue) + 1]}
  BY <1>4
<1>6. {queue'[k] : k \in 1 .. Len(queue)} = Queued
  BY <1>2 DEF Queued
<1> QED
  BY <1>2, <1>5, <1>6

LEMMA Taking ==
  ASSUME TypeOK, Take
  PROVE  /\ active' = {queue[1]} /\ Queued = Queued' \cup {queue[1]}
         /\ Len(queue) = Len(queue') + 1 /\ Len(queue') \in Nat
         /\ \A k \in 1 .. Len(queue') : queue'[k] = queue[k + 1]
<1>1. /\ Len(queue) = Len(queue') + 1 /\ Len(queue') \in Nat
      /\ \A k \in 1 .. Len(queue') : queue'[k] = queue[k + 1]
      /\ active' = {queue[1]}
  BY DEF Take, TypeOK
<1>2. \A k \in 1 .. Len(queue) : k = 1 \/ (k - 1 \in 1 .. Len(queue') /\ queue[k] = queue'[k - 1])
  BY <1>1
<1> QED
  BY <1>1, <1>2 DEF Queued

LEMMA OnceStep ==
  ASSUME TypeOK, TypeOK', InCall, Holding, Closed, IdleMeans, Placed, Counted, Owing, Once, [Next]_vars
  PROVE  Once'
<1> USE DEF Once
<1>0. \A k \in 1 .. Len(queue) : queue[k] \in Items
  BY DEF TypeOK
<1>1. ASSUME NEW p \in Producers, Accept(p) PROVE Once'
  <2> DEFINE a == <<p, call[p]>>
  <2>1. accepted' = accepted \cup {a} /\ Reserved' = Reserved \cup {a}
    BY <1>1, ReservedAccept DEF Accept
  <2>2. UNCHANGED <<call, queue, active>>
    BY <1>1 DEF Accept, queueVars
  <2> QED
    BY <2>1, <2>2 DEF Past
<1>2. ASSUME NEW p \in Producers, Offer(p) PROVE Once'
  <2>0. PICK a : a = <<p, call[p]>>
    OBVIOUS
  <2>1. call' = [call EXCEPT ![p] = @ + 1] /\ UNCHANGED <<accepted, active>>
    BY <1>2 DEF Offer, Returned, history
  <2>2. \A x \in Producers : call'[x] >= call[x]
    BY <2>1 DEF TypeOK
  <2>3. Past(a)' /\ ~Past(a)
    BY <2>0, <2>1 DEF Past, TypeOK
  <2>4. Reserved' = Reserved \ {a}
    BY <1>2, <2>0, ReservedOffer
  <2>5. \A i \in Items : Past(i) => Past(i)'
    BY <2>2, PastKept
  <2>6. \A i \in accepted' : Past(i)' \/ i \in Reserved'
    BY <2>1, <2>3, <2>4, <2>5 DEF TypeOK
  <2>7. \A i \in active' : Past(i)'
    BY <2>1, <2>5 DEF TypeOK
  <2>8. /\ Len(queue') = Len(queue) + 1 /\ Len(queue) \in Nat
        /\ \A k \in 1 .. Len(queue) : queue'[k] = queue[k]
        /\ queue'[Len(queue) + 1] = a
    BY <1>2, <2>0, Queueing DEF TypeOK
  <2>9. \A k \in 1 .. Len(queue) : queue[k] # a
    BY <2>3
  <2>10. a \notin active
    BY <2>3
  <2>11. \A k \in 1 .. Len(queue') : k \in 1 .. Len(queue) \/ k = Len(queue) + 1
    BY <2>8
  <2>12. (\A k \in 1 .. Len(queue) : Past(queue[k]) /\ queue[k] \notin active)'
    <3> SUFFICES ASSUME NEW k \in 1 .. Len(queue') PROVE queue'[k][2] < call'[queue'[k][1]] /\ queue'[k] \notin active'
      BY DEF Past
    <3>1. CASE k \in 1 .. Len(queue)
      <4>1. Past(queue[k]) /\ queue[k] \notin active /\ queue[k] \in Items /\ queue'[k] = queue[k]
        BY <1>0, <2>8, <3>1
      <4>2. queue[k][2] < call'[queue[k][1]]
        BY <2>5, <4>1 DEF Past
      <4> QED
        BY <2>1, <4>1, <4>2 DEF Past
    <3>2. CASE k = Len(queue) + 1
      BY <2>1, <2>3, <2>8, <2>10, <3>2 DEF Past
    <3> QED
      BY <2>11, <3>1, <3>2
  <2>13. \A j, k \in 1 .. Len(queue') : queue'[j] = queue'[k] => j = k
    BY <2>8, <2>9, <2>11
  <2> QED
    BY <2>6, <2>7, <2>12, <2>13
<1>3. CASE Take
  <2>1. UNCHANGED <<call, accepted>> /\ Reserved' = Reserved
    BY <1>3 DEF Take, fiberVars, history, Reserved
  <2>2. /\ active' = {queue[1]} /\ Len(queue) = Len(queue') + 1 /\ Len(queue') \in Nat
        /\ \A k \in 1 .. Len(queue') : queue'[k] = queue[k + 1]
    BY <1>3, Taking
  <2>3. 1 \in 1 .. Len(queue) /\ \A k \in 1 .. Len(queue') : k + 1 \in 1 .. Len(queue) /\ k + 1 # 1
    BY <2>2
  <2>4. \A k \in 1 .. Len(queue') : queue'[k] # queue[1]
    BY <2>2, <2>3
  <2>5. \A j, k \in 1 .. Len(queue') : queue'[j] = queue'[k] => j = k
    <3> SUFFICES ASSUME NEW j \in 1 .. Len(queue'), NEW k \in 1 .. Len(queue'), queue'[j] = queue'[k] PROVE j = k
      OBVIOUS
    <3>1. j + 1 = k + 1
      BY <2>2, <2>3
    <3> QED
      BY <2>2, <3>1
  <2>6. Past(queue[1]) /\ \A k \in 1 .. Len(queue') : Past(queue[k + 1])
    BY <2>3
  <2> QED
    BY <2>1, <2>2, <2>4, <2>5, <2>6 DEF Past
<1>4. CASE Process
  <2>1. UNCHANGED <<call, queue, accepted>> /\ active' = {} /\ Reserved' = Reserved
    BY <1>4 DEF Process, FinishOne, fiberVars, Reserved
  <2> QED
    BY <2>1 DEF Past
<1>5. CASE Quiet
  <2>1. \A i \in Items : Past(i) => Past(i)'
    BY <1>5, PastKept DEF Quiet
  <2>2. \A i \in Items : Past(i)' <=> i[2] < call'[i[1]]
    BY DEF Past
  <2> QED
    BY <1>0, <1>5, <2>1, <2>2 DEF Quiet, TypeOK, Past
<1> QED
  BY <1>1, <1>2, <1>3, <1>4, <1>5, Moves

LEMMA PlacedStep ==
  ASSUME TypeOK, InCall, Holding, Closed, IdleMeans, Placed, Counted, Owing, Once, [Next]_vars
  PROVE  Placed'
<1> USE DEF Placed
<1>1. ASSUME NEW p \in Producers, Accept(p) PROVE Placed'
  <2>1. accepted' = accepted \cup {<<p, call[p]>>} /\ UNCHANGED <<settled, queue, active>>
    BY <1>1 DEF Accept, queueVars
  <2>2. Reserved' = Reserved \cup {<<p, call[p]>>} /\ <<p, call[p]>> \notin settled
    BY <1>1, ReservedAccept, NewItem
  <2>3. Queued' = Queued
    BY <2>1 DEF Queued
  <2> HIDE DEF Queued
  <2> QED
    BY <2>1, <2>2, <2>3
<1>2. ASSUME NEW p \in Producers, Offer(p) PROVE Placed'
  <2>1. UNCHANGED <<accepted, settled, active>>
    BY <1>2 DEF Offer, history
  <2>2. Reserved' = Reserved \ {<<p, call[p]>>} /\ <<p, call[p]>> \in Reserved
    BY <1>2, ReservedOffer
  <2>3. Queued' = Queued \cup {<<p, call[p]>>}
    BY <1>2, Queueing
  <2> QED
    BY <2>1, <2>2, <2>3
<1>3. CASE Take
  <2>1. UNCHANGED <<accepted, settled>> /\ Reserved' = Reserved /\ active = {}
    BY <1>3 DEF Take, fiberVars, history, Reserved, Holding
  <2>2. active' = {queue[1]} /\ Queued = Queued' \cup {queue[1]}
    BY <1>3, Taking
  <2> QED
    BY <2>1, <2>2
<1>4. CASE Process
  <2>1. PICK i \in active : FinishOne(i)
    BY <1>4 DEF Process
  <2>2. active = {i} /\ active' = {} /\ settled' = settled \cup {i} /\ UNCHANGED <<accepted, queue, pc, call>>
    BY <1>4, <2>1 DEF Process, FinishOne, Holding, fiberVars
  <2>3. i \notin Queued
    BY <2>2 DEF Queued, Once
  <2>4. i \notin Reserved
    BY <2>2 DEF Once, Reserved, Past, TypeOK
  <2>5. Queued' = Queued /\ Reserved' = Reserved
    BY <2>2 DEF Queued, Reserved
  <2> QED
    BY <2>2, <2>3, <2>4, <2>5
<1>5. CASE Quiet
  <2>1. Queued' = Queued
    BY <1>5 DEF Quiet, Queued
  <2> QED
    BY <1>5, <2>1 DEF Quiet
<1> QED
  BY <1>1, <1>2, <1>3, <1>4, <1>5, Moves

LEMMA CountedStep ==
  ASSUME TypeOK, InCall, Holding, Closed, IdleMeans, Placed, Counted, Owing, Once, [Next]_vars
  PROVE  Counted'
<1> USE DEF Counted
<1>0. Cardinality(Reserved) \in Nat /\ Len(queue) \in Nat /\ outstanding \in Nat
  BY FS_CardinalityType, WorkerAssumption DEF TypeOK
<1>00. IsFiniteSet(active)
  BY FS_EmptySet, FS_Singleton DEF Holding
<1>1. ASSUME NEW p \in Producers, Accept(p) PROVE Counted'
  <2>1. outstanding' = outstanding + 1 /\ UNCHANGED <<queue, active>>
    BY <1>1 DEF Accept, Reserve, queueVars
  <2>2. Reserved' = Reserved \cup {<<p, call[p]>>} /\ <<p, call[p]>> \notin Reserved
    BY <1>1, ReservedAccept, NewItem
  <2>3. IsFiniteSet(Reserved') /\ Cardinality(Reserved') = Cardinality(Reserved) + 1
    BY <2>2, FS_AddElement
  <2>4. Cardinality(active) \in Nat
    BY <1>00, FS_CardinalityType
  <2> QED
    BY <1>0, <2>1, <2>3, <2>4
<1>2. ASSUME NEW p \in Producers, Offer(p) PROVE Counted'
  <2>1. UNCHANGED <<outstanding, active>>
    BY <1>2 DEF Offer, stateVars
  <2>2. Reserved' = Reserved \ {<<p, call[p]>>} /\ <<p, call[p]>> \in Reserved
    BY <1>2, ReservedOffer
  <2>3. IsFiniteSet(Reserved') /\ Cardinality(Reserved') = Cardinality(Reserved) - 1
    BY <2>2, FS_RemoveElement
  <2>4. Len(queue') = Len(queue) + 1
    BY <1>2, Queueing
  <2>5. Cardinality(active) \in Nat
    BY <1>00, FS_CardinalityType
  <2> QED
    BY <1>0, <2>1, <2>3, <2>4, <2>5
<1>3. CASE Take
  <2>1. UNCHANGED outstanding /\ Reserved' = Reserved /\ active = {}
    BY <1>3 DEF Take, fiberVars, stateVars, Reserved, Holding
  <2>2. active' = {queue[1]} /\ Len(queue) = Len(queue') + 1 /\ Len(queue') \in Nat
    BY <1>3, Taking
  <2>3. Cardinality(active) = 0 /\ Cardinality(active') = 1
    BY <2>1, <2>2, FS_EmptySet, FS_Singleton
  <2> QED
    BY <1>0, <2>1, <2>2, <2>3
<1>4. CASE Process
  <2>1. PICK i \in active : FinishOne(i)
    BY <1>4 DEF Process
  <2>2. active = {i} /\ active' = {} /\ UNCHANGED queue /\ Reserved' = Reserved
    BY <1>4, <2>1 DEF Process, Holding, fiberVars, Reserved
  <2>3. Cardinality(active) = 1 /\ Cardinality(active') = 0
    BY <2>2, FS_EmptySet, FS_Singleton
  <2>4. outstanding' = outstanding - 1
    BY <1>0, <2>1, <2>3 DEF FinishOne
  <2> QED
    BY <1>0, <2>2, <2>3, <2>4
<1>5. CASE Quiet
  BY <1>5 DEF Quiet
<1> QED
  BY <1>1, <1>2, <1>3, <1>4, <1>5, Moves

LEMMA OwingStep ==
  ASSUME TypeOK, InCall, Holding, Closed, IdleMeans, Placed, Counted, Owing, Once, [Next]_vars
  PROVE  Owing'
<1> USE DEF Owing
<1>0. outstanding \in Nat
  BY WorkerAssumption DEF TypeOK
<1>1. ASSUME NEW p \in Producers, Accept(p) PROVE Owing'
  <2>1. /\ outstanding' = outstanding + 1 /\ UNCHANGED settled
        /\ accepted' = accepted \cup {<<p, call[p]>>}
    BY <1>1 DEF Accept, Reserve
  <2>2. <<p, call[p]>> \notin accepted \cup settled
    BY <1>1, NewItem
  <2>3. accepted' \ settled' = (accepted \ settled) \cup {<<p, call[p]>>} /\ settled' \subseteq accepted'
    BY <2>1, <2>2
  <2>4. <<p, call[p]>> \notin accepted \ settled
    BY <2>2
  <2> QED
    BY <1>0, <2>1, <2>3, <2>4, FS_AddElement
<1>2. CASE Process
  <2>1. PICK i \in active : FinishOne(i)
    BY <1>2 DEF Process
  <2>2. i \in accepted \ settled
    BY <2>1 DEF Placed
  <2>3. settled' = settled \cup {i} /\ UNCHANGED accepted
    BY <2>1 DEF FinishOne
  <2>4. accepted' \ settled' = (accepted \ settled) \ {i} /\ settled' \subseteq accepted'
    BY <2>2, <2>3
  <2>5. IsFiniteSet(accepted' \ settled') /\ Cardinality(accepted' \ settled') = outstanding - 1
    BY <2>2, <2>4, FS_RemoveElement
  <2>6. outstanding # 0
    BY <2>2, FS_EmptySet
  <2> QED
    BY <2>1, <2>4, <2>5, <2>6 DEF FinishOne
<1>3. ASSUME NEW p \in Producers, Offer(p) PROVE Owing'
  BY <1>3 DEF Offer, stateVars, history
<1>4. CASE Take
  BY <1>4 DEF Take, stateVars, history
<1>5. CASE Quiet
  BY <1>5 DEF Quiet
<1> QED
  BY <1>1, <1>2, <1>3, <1>4, <1>5, Moves

-----------------------------------------------------------------------------
(* What a drain covers.                                                    *)

LEMMA NothingOwed == ASSUME Owing, outstanding = 0 PROVE accepted \subseteq settled
<1>1. accepted \ settled = {}
  BY FS_EmptySet DEF Owing
<1> QED
  BY <1>1

(* A wait for idleness that is over has found its items settled.           *)
LEMMA WaitOver ==
  ASSUME TypeOK, IdleMeans, Owing, Covered, NEW f \in Drainers \cup Closers,
         pc[f] \in {"awaitIdle", "awaitDrained"}, signal[f] \in fired
  PROVE  covers[f] \subseteq settled
<1>1. PICK g \in 0 .. idle : signal[f] = Idle(g) /\ (g < idle => covers[f] \subseteq settled)
  BY DEF Covered
<1>2. CASE g = idle
  <2>1. outstanding = 0
    BY <1>1, <1>2 DEF IdleMeans, Fits, TypeOK
  <2> QED
    BY <2>1, NothingOwed DEF Covered
<1> QED
  BY <1>1, <1>2 DEF TypeOK

Waiting == {"awaitIdle", "awaitDrained"}
Back    == {"drained", "markStopped", "stopped"}

(* The waits and what they cover, when no idle generation is read.         *)
LEMMA StillCovered ==
  ASSUME TypeOK, Covered, UNCHANGED <<covers, idle>>,
         accepted \subseteq accepted', settled \subseteq settled',
         \A f \in Drainers \cup Closers :
           /\ pc'[f] \in Waiting => pc'[f] = pc[f] /\ signal'[f] = signal[f]
           /\ pc'[f] \in Back => covers[f] \subseteq settled
  PROVE  (Covered /\ DrainCovers)'
<1>1. (\A f \in Drainers \cup Closers : covers[f] \subseteq accepted)'
  BY DEF Covered
<1>2. (\A f \in Drainers \cup Closers : pc[f] \in {"awaitIdle", "awaitDrained"} =>
         \E g \in 0 .. idle : signal[f] = Idle(g) /\ (g < idle => covers[f] \subseteq settled))'
  <2> SUFFICES ASSUME NEW f \in Drainers \cup Closers, pc'[f] \in {"awaitIdle", "awaitDrained"}
               PROVE \E g \in 0 .. idle' : signal'[f] = Idle(g) /\ (g < idle' => covers'[f] \subseteq settled')
    BY DEF Idle
  <2>0. pc[f] \in {"awaitIdle", "awaitDrained"} /\ signal'[f] = signal[f]
    BY DEF Waiting
  <2>1. PICK g \in 0 .. idle : signal[f] = Idle(g) /\ (g < idle => covers[f] \subseteq settled)
    BY <2>0 DEF Covered
  <2> QED
    BY <2>0, <2>1
<1>3. DrainCovers'
  BY DEF DrainCovers, Back
<1> QED
  BY <1>1, <1>2, <1>3 DEF Covered

(* A fiber reads the current idle generation and waits for it.             *)
LEMMA ReadCovered ==
  ASSUME TypeOK, Covered, DrainCovers, NEW f \in Drainers \cup Closers, ReadIdle(f),
         Goto(f, "awaitIdle") \/ Goto(f, "awaitDrained")
  PROVE  (Covered /\ DrainCovers)'
<1> USE DEF TypeOK, Fibers, ReadIdle, Goto, stateVars
<1>1. /\ covers'[f] = accepted /\ signal'[f] = Idle(idle) /\ pc'[f] \notin Back
      /\ UNCHANGED <<idle, accepted, settled>>
  BY DEF Back
<1>2. \A h \in Drainers \cup Closers : h # f =>
        covers'[h] = covers[h] /\ signal'[h] = signal[h] /\ pc'[h] = pc[h]
  OBVIOUS
<1>3. (\A h \in Drainers \cup Closers : covers[h] \subseteq accepted)'
  BY <1>1, <1>2 DEF Covered
<1>4. (\A h \in Drainers \cup Closers : pc[h] \in {"awaitIdle", "awaitDrained"} =>
         \E g \in 0 .. idle : signal[h] = Idle(g) /\ (g < idle => covers[h] \subseteq settled))'
  <2> SUFFICES ASSUME NEW h \in Drainers \cup Closers, pc'[h] \in {"awaitIdle", "awaitDrained"}
               PROVE \E g \in 0 .. idle' : signal'[h] = Idle(g) /\ (g < idle' => covers'[h] \subseteq settled')
    BY DEF Idle
  <2>1. CASE h = f
    <3>1. idle \in 0 .. idle /\ ~(idle < idle)
      OBVIOUS
    <3> QED
      BY <1>1, <2>1, <3>1
  <2>2. CASE h # f
    <3>1. PICK g \in 0 .. idle : signal[h] = Idle(g) /\ (g < idle => covers[h] \subseteq settled)
      BY <1>2, <2>2 DEF Covered
    <3> QED
      BY <1>1, <1>2, <2>2, <3>1
  <2> QED
    BY <2>1, <2>2
<1>5. DrainCovers'
  BY <1>1, <1>2 DEF DrainCovers, Back
<1> QED
  BY <1>3, <1>4, <1>5 DEF Covered

LEMMA AcceptCovered ==
  ASSUME TypeOK, Owing, Covered, DrainCovers, NEW p \in Producers, Accept(p)
  PROVE  (Covered /\ DrainCovers)'
<1>1. /\ accepted \subseteq accepted' /\ UNCHANGED <<settled, covers, signal>>
      /\ \A f \in Fibers : pc'[f] \in Waiting \cup Back => pc'[f] = pc[f]
  BY DEF Accept, Goto, Waiting, Back, TypeOK, Fibers
<1>2. \A f \in Drainers \cup Closers : pc'[f] \in Back => covers[f] \subseteq settled
  BY <1>1 DEF DrainCovers, Back, Fibers
<1>3. CASE outstanding # 0
  <2>1. idle' = idle
    BY <1>3 DEF Accept, Reserve, NextIdle
  <2> QED
    BY <1>1, <1>2, <2>1, StillCovered DEF Fibers
<1>4. CASE outstanding = 0
  <2>1. idle' = idle + 1
    BY <1>4 DEF Accept, Reserve, NextIdle
  <2>2. \A f \in Drainers \cup Closers : covers[f] \subseteq settled
    BY <1>4, NothingOwed DEF Covered
  <2>3. (\A f \in Drainers \cup Closers : covers[f] \subseteq accepted)'
    BY <1>1 DEF Covered
  <2>4. (\A f \in Drainers \cup Closers : pc[f] \in {"awaitIdle", "awaitDrained"} =>
           \E g \in 0 .. idle : signal[f] = Idle(g) /\ (g < idle => covers[f] \subseteq settled))'
    <3> SUFFICES ASSUME NEW f \in Drainers \cup Closers, pc'[f] \in {"awaitIdle", "awaitDrained"}
                 PROVE \E g \in 0 .. idle' : signal'[f] = Idle(g) /\ (g < idle' => covers'[f] \subseteq settled')
      BY DEF Idle
    <3>1. pc[f] \in {"awaitIdle", "awaitDrained"}
      BY <1>1 DEF Waiting, Fibers
    <3>2. PICK g \in 0 .. idle : signal[f] = Idle(g)
      BY <3>1 DEF Covered
    <3>3. g \in 0 .. idle'
      BY <2>1 DEF TypeOK
    <3> QED
      BY <1>1, <2>2, <3>2, <3>3
  <2>5. DrainCovers'
    BY <1>1, <2>2 DEF DrainCovers
  <2> QED
    BY <2>3, <2>4, <2>5 DEF Covered
<1> QED
  BY <1>3, <1>4

LEMMA CoveredStep ==
  ASSUME TypeOK, IdleMeans, Owing, Covered, DrainCovers, [Next]_vars
  PROVE  (Covered /\ DrainCovers)'
<1> USE DEF TypeOK, Fibers, stateVars, queueVars, fiberVars, history, Goto, Forget
<1>0. \A f \in Drainers \cup Closers : pc[f] \in Back => covers[f] \subseteq settled
  BY DEF DrainCovers, Back
<1>1. ASSUME UNCHANGED <<covers, idle, accepted>>, settled \subseteq settled', NEW f \in Fibers,
             \A g \in Fibers : g # f => pc'[g] = pc[g] /\ signal'[g] = signal[g],
             pc'[f] \notin Waiting \cup Back \/ (pc'[f] = pc[f] /\ signal'[f] = signal[f])
      PROVE  (Covered /\ DrainCovers)'
  BY <1>0, <1>1, StillCovered
<1>2. CASE UNCHANGED <<pc, signal, covers, idle, accepted>> /\ settled \subseteq settled'
  BY <1>0, <1>2, StillCovered
<1>3. ASSUME NEW p \in Producers, \/ Reject(p) \/ Overloaded(p) \/ Interrupt(p) \/ Wait(p) \/ Wake(p)
                                  \/ Offer(p)
      PROVE  (Covered /\ DrainCovers)'
  <2>1. UNCHANGED <<covers, idle, accepted, settled>>
    BY <1>3 DEF Reject, Overloaded, Interrupt, Wait, Wake, Offer
  <2>2. \E x \in {"ready", "wait", "retry"} : Goto(p, x)
    BY <1>3 DEF Reject, Overloaded, Interrupt, Wait, Wake, Offer, Returned
  <2>3. UNCHANGED signal \/ \E x : signal' = [signal EXCEPT ![p] = x]
    BY <1>3 DEF Reject, Overloaded, Interrupt, Wait, Wake, Offer
  <2>4. \A g \in Fibers : g # p => pc'[g] = pc[g] /\ signal'[g] = signal[g]
    BY <2>2, <2>3
  <2>5. pc'[p] \notin Waiting \cup Back
    BY <2>2 DEF Waiting, Back
  <2> QED
    BY <1>1, <2>1, <2>4, <2>5
<1>4. ASSUME NEW c \in Closers, \/ Quiesce(c, TRUE) \/ Quiesce(c, FALSE) \/ QuiesceInterrupted(c)
                                \/ WakeWaiters(c) \/ MarkDraining(c)
      PROVE  (Covered /\ DrainCovers)'
  <2>1. UNCHANGED <<covers, idle, accepted, settled>>
    BY <1>4 DEF Quiesce, QuiesceInterrupted, WakeWaiters, MarkDraining
  <2>2. \E x \in {"wakeAndStop", "wakeWaiters", "markDraining", "quiesced", "drain"} : Goto(c, x)
    BY <1>4 DEF Quiesce, QuiesceInterrupted, WakeWaiters, MarkDraining
  <2>3. UNCHANGED signal \/ \E x : signal' = [signal EXCEPT ![c] = x]
    BY <1>4 DEF Quiesce, QuiesceInterrupted, WakeWaiters, MarkDraining
  <2>4. \A g \in Fibers : g # c => pc'[g] = pc[g] /\ signal'[g] = signal[g]
    BY <2>2, <2>3
  <2>5. pc'[c] \notin Waiting \cup Back
    BY <2>2 DEF Waiting, Back
  <2> QED
    BY <1>1, <2>1, <2>4, <2>5
<1>5. ASSUME NEW f \in Drainers \cup Closers, covers[f] \subseteq settled, NEW x \in Back, Goto(f, x),
             UNCHANGED signal \/ Forget(f), UNCHANGED <<covers, idle, accepted, settled>>
      PROVE  (Covered /\ DrainCovers)'
  <2>1. \A g \in Fibers : g # f => pc'[g] = pc[g] /\ signal'[g] = signal[g]
    BY <1>5
  <2>2. pc'[f] \in Back /\ pc'[f] \notin Waiting
    BY <1>5 DEF Waiting, Back
  <2> QED
    BY <1>0, <1>5, <2>1, <2>2, StillCovered
<1>6. ASSUME NEW d \in Drainers, Drained(d) PROVE (Covered /\ DrainCovers)'
  <2>1. covers[d] \subseteq settled
    BY <1>6, WaitOver DEF Drained
  <2>2. Goto(d, "drained") /\ Forget(d) /\ UNCHANGED <<covers, idle, accepted, settled>>
    BY <1>6 DEF Drained
  <2> HIDE DEF Goto, Forget
  <2> QED
    BY <1>5, <2>1, <2>2 DEF Back
<1>7. ASSUME NEW c \in Closers, Shutdown(c) PROVE (Covered /\ DrainCovers)'
  <2>1. covers[c] \subseteq settled
    BY <1>7, WaitOver DEF Shutdown
  <2>2. Goto(c, "markStopped") /\ Forget(c) /\ UNCHANGED <<covers, idle, accepted, settled>>
    BY <1>7 DEF Shutdown
  <2> HIDE DEF Goto, Forget
  <2> QED
    BY <1>5, <2>1, <2>2 DEF Back
<1>8. ASSUME NEW c \in Closers, MarkStopped(c) PROVE (Covered /\ DrainCovers)'
  <2>1. covers[c] \subseteq settled
    BY <1>0, <1>8 DEF MarkStopped, Back
  <2>2. Goto(c, "stopped") /\ UNCHANGED <<covers, idle, accepted, settled, signal>>
    BY <1>8 DEF MarkStopped
  <2> HIDE DEF Goto, Forget
  <2> QED
    BY <1>5, <2>1, <2>2 DEF Back
<1>9. ASSUME NEW p \in Producers, Accept(p) PROVE (Covered /\ DrainCovers)'
  BY <1>9, AcceptCovered
<1>10. ASSUME NEW f \in Drainers \cup Closers, Drain(f) \/ StopDrains(f) PROVE (Covered /\ DrainCovers)'
  BY <1>10, ReadCovered DEF Drain, StopDrains
<1>11. CASE Consumer
  BY <1>2, <1>11 DEF Consumer, Take, Process, Signal, FinishOne
<1>12. CASE UNCHANGED vars
  BY <1>2, <1>12 DEF vars
<1> QED
  BY <1>3, <1>4, <1>6, <1>7, <1>8, <1>9, <1>10, <1>11, <1>12 DEF Next, Caller, Closing

-----------------------------------------------------------------------------
(* The theorems.                                                           *)

LEMMA Initially == Init => IInv
<1> SUFFICES ASSUME Init PROVE IInv
  OBVIOUS
<1>1. TypeOK
  BY TypeInit
<1>2. Reserved = {} /\ Queued = {} /\ accepted \ settled = {} /\ active = {}
  BY DEF Init, Reserved, Queued, Fibers
<1>3. InCall /\ Holding /\ Closed /\ Once
  BY <1>2 DEF Init, InCall, Holding, Closed, Once, Fibers
<1>4. IdleMeans
  BY DEF Init, IdleMeans, Fits, Idle, Slot
<1>5. Placed /\ Counted /\ Owing
  BY <1>2, FS_EmptySet DEF Init, Placed, Counted, Owing
<1>6. Covered /\ DrainCovers
  BY DEF Init, Covered, DrainCovers, Fibers
<1> QED
  BY <1>1, <1>3, <1>4, <1>5, <1>6 DEF IInv

LEMMA Inductive == IInv /\ [Next]_vars => IInv'
<1> SUFFICES ASSUME IInv, [Next]_vars PROVE IInv'
  OBVIOUS
<1> USE DEF IInv
<1>1. TypeOK'
  BY TypeStep
<1>2. InCall' /\ Holding'
  BY CallStep, HoldingStep
<1>3. Closed' /\ IdleMeans'
  BY ClosedStep, IdleStep
<1>4. Once'
  BY <1>1, OnceStep
<1>5. Placed' /\ Counted' /\ Owing'
  BY PlacedStep, CountedStep, OwingStep
<1>6. (Covered /\ DrainCovers)'
  BY CoveredStep
<1> QED
  BY <1>1, <1>2, <1>3, <1>4, <1>5, <1>6

LEMMA Invariance == Spec => []IInv
  BY Initially, Inductive, PTL DEF Spec

(* The worker's fields keep their types, and the count its bounds.         *)
THEOREM WorkerTyped == Spec => []TypeOK
  BY Invariance, PTL DEF IInv

(* Whatever fails, is interrupted or stops: an accepted item that has not  *)
(* settled is reserved, queued or held, and the count is their number.     *)
THEOREM AcceptedIsSomewhere == Spec => []NothingDropped
<1>1. IInv => NothingDropped
  <2> SUFFICES ASSUME IInv PROVE NothingDropped
    OBVIOUS
  <2> QED
    BY DEF IInv, NothingDropped, Placed, Counted, Reserved, Queued
<1> QED
  BY Invariance, <1>1, PTL

(* A reservation is a place in an open queue: no offer suspends.           *)
THEOREM OffersFindRoom == Spec => []OfferNeverSuspends
<1>1. IInv => OfferNeverSuspends
  <2> SUFFICES ASSUME IInv, NEW p \in Producers, pc[p] = "offer" PROVE open /\ Len(queue) < Capacity
    BY DEF OfferNeverSuspends
  <2>1. Reserved # {} /\ IsFiniteSet(Reserved)
    BY DEF Reserved, IInv, Counted
  <2>2. Cardinality(Reserved) \in Nat /\ Cardinality(Reserved) # 0
    BY <2>1, FS_EmptySet, FS_CardinalityType
  <2>3. IsFiniteSet(active)
    BY FS_EmptySet, FS_Singleton DEF IInv, Holding
  <2>4. Cardinality(active) \in Nat
    BY <2>3, FS_CardinalityType
  <2>5. Len(queue) \in Nat /\ outstanding \in 0 .. Capacity
    BY DEF IInv, TypeOK
  <2>6. Len(queue) < outstanding
    BY <2>2, <2>4, <2>5 DEF IInv, Counted
  <2> QED
    BY <2>5, <2>6, WorkerAssumption DEF IInv, Closed, TypeOK
<1> QED
  BY Invariance, <1>1, PTL

(* A drain or a stop that returns leaves nothing accepted before it        *)
(* unsettled.                                                              *)
THEOREM DrainsAreThorough == Spec => []DrainCovers
  BY Invariance, PTL DEF IInv

(* The abstract specification counts as this one does.                     *)
LEMMA SameCount == ASSUME NEW S PROVE Work!Cardinality(S) = Cardinality(S)
  BY DEF Work!Cardinality, Cardinality

(* The worker implements bounded admission with a final stop.              *)
THEOREM ImplementsBoundedWork == Spec => WorkSpec
<1>1. Init => Work!Init
  BY DEF Init, Work!Init
<1>2. IInv /\ [Next]_vars => [Work!Next]_Work!vars
  <2> SUFFICES ASSUME IInv, [Next]_vars PROVE [Work!Next]_Work!vars
    OBVIOUS
  <2> USE DEF stateVars, queueVars, fiberVars, history
  <2>1. CASE UNCHANGED <<phase, accepted, settled>>
    BY <2>1 DEF Work!vars
  <2>2. ASSUME NEW p \in Producers, Accept(p) PROVE Work!Next
    <3>1. <<p, call[p]>> \in Items
      BY <2>2, ItemTyped DEF Accept, Reserving, IInv, InCall
    <3>2. <<p, call[p]>> \notin accepted
      BY <2>2, NewItem DEF IInv
    <3>3. Cardinality(accepted \ settled) < Capacity
      BY <2>2, WorkerAssumption DEF Accept, Reserve, Full, IInv, Owing, TypeOK
    <3>4. /\ phase = "running" /\ UNCHANGED <<phase, settled>>
          /\ accepted' = accepted \cup {<<p, call[p]>>}
      BY <2>2 DEF Accept, Reserve, Admitting
    <3>5. Work!Admit(<<p, call[p]>>)
      BY <3>2, <3>3, <3>4, SameCount DEF Work!Admit
    <3> QED
      BY <3>1, <3>5 DEF Work!Next
  <2>3. CASE Process
    <3>1. PICK i \in active : FinishOne(i)
      BY <2>3 DEF Process
    <3>2. i \in accepted \ settled /\ i \in Items
      BY <3>1 DEF IInv, Placed, TypeOK
    <3>3. Work!Settle(i)
      BY <3>1, <3>2 DEF Work!Settle, FinishOne
    <3> QED
      BY <3>2, <3>3 DEF Work!Next
  <2>4. ASSUME NEW c \in Closers, Quiesce(c, TRUE) \/ Quiesce(c, FALSE) PROVE [Work!Next]_Work!vars
    BY <2>4 DEF Quiesce, Work!Next, Work!Close, Work!vars
  <2>5. ASSUME NEW c \in Closers, MarkDraining(c) PROVE UNCHANGED Work!vars
    BY <2>5 DEF MarkDraining, Work!vars, IInv, Closed, Fibers
  <2>6. ASSUME NEW c \in Closers, MarkStopped(c) PROVE [Work!Next]_Work!vars
    <3>1. phase # "running" /\ outstanding = 0
      BY <2>6 DEF MarkStopped, IInv, Closed, Fibers
    <3>2. settled = accepted
      BY <3>1, NothingOwed DEF IInv, Owing
    <3> QED
      BY <2>6, <3>1, <3>2 DEF MarkStopped, Work!Next, Work!Stop, Work!vars
  <2>7. ASSUME NEW p \in Producers, \/ Reject(p) \/ Overloaded(p) \/ Wait(p) \/ Wake(p)
                                    \/ Offer(p) \/ Interrupt(p)
        PROVE UNCHANGED <<phase, accepted, settled>>
    BY <2>7 DEF Reject, Overloaded, Wait, Wake, Offer, Interrupt
  <2>8. ASSUME NEW d \in Drainers, Drain(d) \/ Drained(d) PROVE UNCHANGED <<phase, accepted, settled>>
    BY <2>8 DEF Drain, Drained, ReadIdle
  <2>9. ASSUME NEW c \in Closers, QuiesceInterrupted(c) \/ WakeWaiters(c) \/ StopDrains(c) \/ Shutdown(c)
        PROVE UNCHANGED <<phase, accepted, settled>>
    BY <2>9 DEF QuiesceInterrupted, WakeWaiters, StopDrains, Shutdown, ReadIdle
  <2>10. ASSUME Take \/ Signal PROVE UNCHANGED <<phase, accepted, settled>>
    BY <2>10 DEF Take, Signal
  <2>11. ASSUME UNCHANGED vars PROVE UNCHANGED <<phase, accepted, settled>>
    BY <2>11 DEF vars
  <2> QED
    BY <2>1, <2>2, <2>3, <2>4, <2>5, <2>6, <2>7, <2>8, <2>9, <2>10, <2>11
       DEF Next, Caller, Consumer, Closing
<1> QED
  BY Invariance, <1>1, <1>2, PTL DEF Spec, WorkSpec, Work!Spec
=============================================================================
