-------------------------- MODULE DrainableWorker --------------------------
(***************************************************************************)
(* Bounded single-consumer work admission with staged shutdown             *)
(* (packages/shared/src/DrainableWorker.ts), the worker behind provider    *)
(* runtime ingestion and thread deletion.                                  *)
(*                                                                         *)
(* Fibers interleave between any two effects: each Ref.modify, Deferred    *)
(* completion and queue operation is one step.  A Deferred is the pair of  *)
(* the field that holds it and its generation; fired is the set of those   *)
(* that have been completed.                                               *)
(***************************************************************************)
EXTENDS Naturals, Sequences, FiniteSets

CONSTANTS
    Producers,     (* fibers that call enqueue or tryEnqueue               *)
    Drainers,      (* fibers that call drain                               *)
    Closers,       (* fibers that call quiesce or stop                     *)
    Capacity,      (* active plus queued items                             *)
    CallsEach,     (* bound: calls of a producer                           *)
    Interruptible  (* an item may end by interruption only                 *)

ASSUME WorkerAssumption ==
    /\ Capacity \in Nat \ {0}
    /\ CallsEach \in Nat
    /\ Interruptible \in BOOLEAN

Fibers == Producers \cup Drainers \cup Closers

Items == Producers \X (1..CallsEach)

VARIABLES
    (* WorkerState *)
    phase, outstanding,
    idle, slotAvailable,  (* the generations of the two Deferreds          *)
    fired,                (* the Deferreds completed so far                *)
    (* the queue and its consumer *)
    queue, open,
    consumer,             (* where the consumer fiber is                   *)
    active,               (* the items it holds: none or one               *)
    owed,                 (* the Deferreds finishOne has yet to complete   *)
    (* the calling fibers *)
    pc, call,
    signal,               (* the Deferred a fiber waits for or completes   *)
    (* history *)
    accepted, settled,
    covers                (* what was accepted when a drain read the state *)

stateVars  == <<phase, outstanding, idle, slotAvailable>>
queueVars  == <<queue, open, consumer, active, owed>>
fiberVars  == <<pc, call, signal>>
history    == <<accepted, settled, covers>>
vars       == <<stateVars, fired, queueVars, fiberVars, history>>

Idle(g) == <<"idle", g>>
Slot(g) == <<"slotAvailable", g>>
Deferreds == {"idle", "slotAvailable"} \X Nat

Init ==
    /\ phase = "running" /\ outstanding = 0
    /\ idle = 0 /\ slotAvailable = 0
    /\ fired = {Idle(0), Slot(0)}
    /\ queue = <<>> /\ open = TRUE
    /\ consumer = "take" /\ active = {} /\ owed = <<>>
    /\ pc = [f \in Fibers |-> "ready"]
    /\ call = [p \in Producers |-> 1]
    /\ signal = [f \in Fibers |-> Idle(0)]
    /\ accepted = {} /\ settled = {}
    /\ covers = [f \in Drainers \cup Closers |-> {}]

Goto(f, place) == pc' = [pc EXCEPT ![f] = place]

Forget(f) == signal' = [signal EXCEPT ![f] = Idle(0)]

-----------------------------------------------------------------------------
(* reserve *)

AdmittingUntilStopped == phase # "stopped"
Admitting == phase = "running"

FullTooLate == outstanding > Capacity
Full == outstanding >= Capacity

KeepIdle == idle

\* The first item of a busy period starts a new idle generation.
NextIdle == IF outstanding = 0 THEN idle + 1 ELSE idle

Reserve ==
    /\ Admitting
    /\ ~Full
    /\ outstanding' = outstanding + 1
    /\ idle' = NextIdle
    /\ slotAvailable' = IF outstanding + 1 = Capacity THEN slotAvailable + 1 ELSE slotAvailable
    /\ UNCHANGED phase

-----------------------------------------------------------------------------
(* finishOne *)

SignalsIdleOnly ==
    IF outstanding <= 1 THEN <<Idle(idle)>> ELSE <<>>

\* The Deferreds that finishing one item completes, captured with the count.
FinishSignals ==
    (IF outstanding <= 1 THEN <<Idle(idle)>> ELSE <<>>)
    \o (IF outstanding = Capacity THEN <<Slot(slotAvailable)>> ELSE <<>>)

FinishOne(i) ==
    /\ owed' = FinishSignals
    /\ outstanding' = IF outstanding = 0 THEN 0 ELSE outstanding - 1
    /\ settled' = settled \cup {i}
    /\ UNCHANGED <<phase, idle, slotAvailable, accepted, covers>>

-----------------------------------------------------------------------------
(* enqueue and tryEnqueue *)

Returned(p) ==
    /\ call' = [call EXCEPT ![p] = @ + 1]
    /\ Goto(p, "ready")

\* A call begins, or its loop goes round after a wake-up.
Reserving(p) == pc[p] = "retry" \/ (pc[p] = "ready" /\ call[p] <= CallsEach)

Accept(p) ==
    /\ Reserving(p)
    /\ Reserve
    /\ Goto(p, "offer")
    /\ accepted' = accepted \cup {<<p, call[p]>>}
    /\ UNCHANGED <<fired, queueVars, call, signal, settled, covers>>

\* enqueue answers false, tryEnqueue fails with not-running.
Reject(p) ==
    /\ Reserving(p)
    /\ ~Admitting
    /\ Returned(p)
    /\ UNCHANGED <<stateVars, fired, queueVars, signal, history>>

\* tryEnqueue fails with overloaded.
Overloaded(p) ==
    /\ pc[p] = "ready" /\ call[p] <= CallsEach
    /\ Admitting /\ Full
    /\ Returned(p)
    /\ UNCHANGED <<stateVars, fired, queueVars, signal, history>>

\* enqueue waits for the slot signal it has just read.
Wait(p) ==
    /\ Reserving(p)
    /\ Admitting /\ Full
    /\ signal' = [signal EXCEPT ![p] = Slot(slotAvailable)]
    /\ Goto(p, "wait")
    /\ UNCHANGED <<stateVars, fired, queueVars, call, history>>

Wake(p) ==
    /\ pc[p] = "wait"
    /\ signal[p] \in fired
    /\ Goto(p, "retry")
    /\ Forget(p)
    /\ UNCHANGED <<stateVars, fired, queueVars, call, history>>

\* Only the wait is interruptible: an interrupted caller has admitted nothing.
Interrupt(p) ==
    /\ pc[p] = "wait"
    /\ Returned(p)
    /\ Forget(p)
    /\ UNCHANGED <<stateVars, fired, queueVars, history>>

\* offerReserved suspends, uninterruptibly, while the queue is full; a queue
\* that has been shut down refuses the item and the reservation is given back.
Offer(p) ==
    /\ pc[p] = "offer"
    /\ open
    /\ Len(queue) < Capacity
    /\ queue' = Append(queue, <<p, call[p]>>)
    /\ Returned(p)
    /\ UNCHANGED <<stateVars, fired, open, consumer, active, owed, signal, history>>

-----------------------------------------------------------------------------
(* The consumer *)

Take ==
    /\ consumer = "take"
    /\ open /\ queue # <<>>
    /\ active' = {Head(queue)}
    /\ queue' = Tail(queue)
    /\ consumer' = "process"
    /\ UNCHANGED <<stateVars, fired, open, owed, fiberVars, history>>

\* process(item) ends, with success or a logged failure, and then finishOne.
\* Ending by interruption alone ends the consumer fiber as well.
Process ==
    /\ consumer = "process"
    /\ \E i \in active : FinishOne(i)
    /\ active' = {}
    /\ \/ consumer' = "signal"
       \/ Interruptible /\ consumer' = "signalAndExit"
    /\ UNCHANGED <<fired, queue, open, fiberVars>>

Signal ==
    /\ consumer \in {"signal", "signalAndExit"}
    /\ IF owed # <<>>
       THEN /\ fired' = fired \cup {Head(owed)}
            /\ owed' = Tail(owed)
            /\ UNCHANGED consumer
       ELSE /\ consumer' = IF consumer = "signal" THEN "take" ELSE "exited"
            /\ UNCHANGED <<fired, owed>>
    /\ UNCHANGED <<stateVars, queue, open, active, fiberVars, history>>

-----------------------------------------------------------------------------
(* drain, quiesce and stop *)

ReadIdle(f) ==
    /\ signal' = [signal EXCEPT ![f] = Idle(idle)]
    /\ covers' = [covers EXCEPT ![f] = accepted]
    /\ UNCHANGED <<stateVars, fired, queueVars, call, accepted, settled>>

Drain(d) == pc[d] = "ready" /\ ReadIdle(d) /\ Goto(d, "awaitIdle")

Drained(d) ==
    /\ pc[d] = "awaitIdle"
    /\ signal[d] \in fired
    /\ Goto(d, "drained")
    /\ Forget(d)
    /\ UNCHANGED <<stateVars, fired, queueVars, call, history>>

\* quiesce, alone or as the first step of stop: admission ends, and the slot
\* signal read with the phase is completed so that waiting callers look again.
Quiesce(c, stopping) ==
    /\ pc[c] = "ready"
    /\ IF phase = "running"
       THEN /\ phase' = "quiescing"
            /\ signal' = [signal EXCEPT ![c] = Slot(slotAvailable)]
            /\ Goto(c, IF stopping THEN "wakeAndStop" ELSE "wakeWaiters")
       ELSE /\ Goto(c, IF stopping THEN "markDraining" ELSE "quiesced")
            /\ UNCHANGED <<phase, signal>>
    /\ UNCHANGED <<outstanding, idle, slotAvailable, fired, queueVars, call, history>>

WakeWaiters(c) ==
    /\ pc[c] \in {"wakeWaiters", "wakeAndStop"}
    /\ fired' = fired \cup {signal[c]}
    /\ Goto(c, IF pc[c] = "wakeAndStop" THEN "markDraining" ELSE "quiesced")
    /\ Forget(c)
    /\ UNCHANGED <<stateVars, queueVars, call, history>>

\* quiesce on its own is interruptible between its two steps.
QuiesceInterrupted(c) ==
    /\ pc[c] = "wakeWaiters"
    /\ Goto(c, "quiesced")
    /\ Forget(c)
    /\ UNCHANGED <<stateVars, fired, queueVars, call, history>>

MarkDraining(c) ==
    /\ pc[c] = "markDraining"
    /\ phase' = IF phase = "stopped" THEN phase ELSE "draining"
    /\ Goto(c, "drain")
    /\ UNCHANGED <<outstanding, idle, slotAvailable, fired, queueVars, call, signal, history>>

StopDrains(c) == pc[c] = "drain" /\ ReadIdle(c) /\ Goto(c, "awaitDrained")

ShutdownAtOnce(c) ==
    /\ pc[c] = "awaitDrained"
    /\ open' = FALSE
    /\ queue' = <<>>
    /\ Goto(c, "markStopped")
    /\ UNCHANGED <<stateVars, fired, consumer, active, owed, call, signal, history>>

\* Queue.shutdown discards whatever is still queued.
Shutdown(c) ==
    /\ pc[c] = "awaitDrained"
    /\ signal[c] \in fired
    /\ open' = FALSE
    /\ queue' = <<>>
    /\ Goto(c, "markStopped")
    /\ Forget(c)
    /\ UNCHANGED <<stateVars, fired, consumer, active, owed, call, history>>

MarkStopped(c) ==
    /\ pc[c] = "markStopped"
    /\ phase' = "stopped"
    /\ Goto(c, "stopped")
    /\ UNCHANGED <<outstanding, idle, slotAvailable, fired, queueVars, call, signal, history>>

-----------------------------------------------------------------------------
Caller(p) == Accept(p) \/ Reject(p) \/ Overloaded(p) \/ Wait(p) \/ Wake(p) \/ Offer(p)

Consumer == Take \/ Process \/ Signal

Closing(c) == WakeWaiters(c) \/ MarkDraining(c) \/ StopDrains(c) \/ Shutdown(c) \/ MarkStopped(c)

Next ==
    \/ \E p \in Producers : Caller(p) \/ Interrupt(p)
    \/ Consumer
    \/ \E d \in Drainers : Drain(d) \/ Drained(d)
    \/ \E c \in Closers : \/ Quiesce(c, TRUE) \/ Quiesce(c, FALSE)
                          \/ Closing(c) \/ QuiesceInterrupted(c)

Spec == Init /\ [][Next]_vars

\* The runtime resumes every runnable fiber: a caller inside a call, the
\* consumer and a closing fiber keep going.  Nobody has to call anything.
Fairness ==
    /\ \A p \in Producers : WF_vars(pc[p] # "ready" /\ Caller(p))
    /\ WF_vars(Consumer)
    /\ \A d \in Drainers : WF_vars(Drained(d))
    /\ \A c \in Closers : WF_vars(Closing(c))

FairSpec == Spec /\ Fairness

-----------------------------------------------------------------------------
(* Type invariant *)

\* The worker's fields keep their types and the count stays within capacity.
TypeOK ==
    /\ phase \in {"running", "quiescing", "draining", "stopped"}
    /\ outstanding \in 0..Capacity
    /\ idle \in Nat /\ slotAvailable \in Nat
    /\ fired \subseteq Deferreds
    /\ queue \in Seq(Items) /\ open \in BOOLEAN
    /\ consumer \in {"take", "process", "signal", "signalAndExit", "exited"}
    /\ active \subseteq Items
    /\ owed \in Seq(Deferreds)
    /\ pc \in [Fibers -> {"ready", "retry", "offer", "wait", "awaitIdle", "drained",
                          "wakeWaiters", "wakeAndStop", "quiesced", "markDraining", "drain",
                          "awaitDrained", "markStopped", "stopped"}]
    /\ call \in [Producers -> 1..(CallsEach + 1)]
    /\ signal \in [Fibers -> Deferreds]
    /\ accepted \subseteq Items /\ settled \subseteq Items
    /\ covers \in [Drainers \cup Closers -> SUBSET Items]

-----------------------------------------------------------------------------
(* Safety *)

\* Every accepted and unsettled item is in exactly one place: reserved by a
\* caller that has not offered it yet, queued, or held by the consumer; stop
\* discards none of them.
NothingDropped ==
    LET reserved == {<<p, call[p]>> : p \in {x \in Producers : pc[x] = "offer"}}
        queued   == {queue[k] : k \in 1..Len(queue)}
    IN  /\ accepted \ settled = reserved \cup queued \cup active
        /\ Cardinality(reserved) + Len(queue) + Cardinality(active) = outstanding

\* The uninterruptible offer of a reserved item never suspends on a full or
\* closed queue: a reservation is a place in the queue.
OfferNeverSuspends ==
    \A p \in Producers : pc[p] = "offer" => open /\ Len(queue) < Capacity

\* A drain that has returned found everything accepted before it settled, even
\* when the worker became busy again in between.
DrainCovers ==
    \A f \in Drainers \cup Closers :
        pc[f] \in {"drained", "markStopped", "stopped"} => covers[f] \subseteq settled

\* The worker implements bounded admission with a final stop.
Work == INSTANCE BoundedWork
    WITH admission <- CASE phase = "running" -> "open"
                        [] phase = "stopped" -> "stopped"
                        [] OTHER -> "closed",
         admitted <- accepted, finished <- settled
WorkSpec == Work!Spec

-----------------------------------------------------------------------------
(* Liveness *)

\* A caller waiting for capacity is woken, by a finished item or by the end of
\* admission, and returns; a wake-up is never lost.  Only a consumer ended by
\* an interruption can leave it waiting.
WaitersReturn ==
    \A p \in Producers : \A n \in 1..CallsEach :
        (pc[p] = "wait" /\ call[p] = n) ~> (call[p] > n \/ consumer = "exited")

\* stop, once called, stops the worker: everything accepted drains first.
\* Only a consumer ended by an interruption can keep it from finishing.
StopReturns ==
    \A c \in Closers :
        (pc[c] \in {"wakeAndStop", "markDraining"}) ~> (pc[c] = "stopped" \/ consumer = "exited")

\* No wake-up is lost, whoever waits for it.
CallersReturn == WaitersReturn /\ StopReturns
=============================================================================
