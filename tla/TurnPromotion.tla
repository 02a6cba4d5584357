--------------------------- MODULE TurnPromotion ---------------------------
(***************************************************************************)
(* How a message sent while a turn is running reaches the provider: the    *)
(* rows of QueuedTurnPromotions.ts and the fibers of                       *)
(* ProviderCommandReactor.ts that fill and empty them.  The intent source  *)
(* handles the log in order; the terminal-event fiber and the recovery     *)
(* sweep drain the queue beside it; each may be in the middle of a         *)
(* promotion when another moves.                                           *)
(*                                                                         *)
(* One provider session: its owner is Parent, the other threads are        *)
(* subagents that share it.  A queue row is named by the sequence of the   *)
(* event it was made from, a turn by the sequence of the event that        *)
(* started it.  The provider has no native steering.  A claimed intent in  *)
(* hand at a crash is not run again (CommandDelivery shows why), unless it *)
(* is marked for a retry; the queued and deleted intents, which are not    *)
(* claimed, are.  What a quarantine has skipped is not replayed here.      *)
(***************************************************************************)
EXTENDS Naturals, Sequences, FiniteSets, FiniteSetsExt, Functions

CONSTANTS
    Threads, Parent,
    Messages, ThreadOf,  \* the thread of each message
    Scenarios,           \* bound: the requests that users make, in order, each
                         \* once, how many crashes and failures there are beside
                         \* them, and whether an interrupted turn is continued
    MaxLog               \* bound: no run reaches a longer log (TypeOK)

Requests == [kind : {"send", "cancel", "steer"}, message : Messages]
            \cup [kind : {"stop", "deleted"}, thread : Threads]

ASSUME PromotionAssumption ==
    /\ Parent \in Threads
    /\ ThreadOf \in [Messages -> Threads]
    /\ \A s \in Scenarios : s.asks \in Seq(Requests) /\ s.mishaps \in Nat /\ s.continues \in BOOLEAN
    /\ MaxLog \in Nat

Fibers    == {"source", "terminal", "sweep"}
Numbers == 1 .. MaxLog

VARIABLES
    log,          \* the intents committed, in order
    handled,      \* how many of them the source has finished with
    replayed,     \* the log's length when the process started
    state,        \* the row of each sequence; "orphaned": promoting, for an
                  \* owner that is gone
    tries,        \* its attempt_count
    dispatched,   \* rows whose dispatch-queued command has a receipt
    removed,      \* messages whose cancellation has completed
    live,         \* the turn the provider runs, 0 if none
    starting,     \* the projected session status is "starting"
    terminals,    \* terminal events not yet handled; 0: without a turn id
    held,         \* threads with a restart_turn_recoveries row and a session that
                  \* is stopped or interrupted
    quarantined,  \* threads a delivery that ended uncertain blocks
    reservation,  \* pendingQueuedDispatchBySessionThread, at most one
    draining,     \* drainingQueuedTurns
    barrier,      \* openCodeSteerInterruptBarriers: a turn, 0 if none
    hand,         \* the source's and the terminal fiber's event in hand
    drain,        \* each fiber's drain of the queue
    sent,         \* history: how often the provider accepted each message
    fate,         \* history: what else became of a message
    raced,        \* history: messages steered with a start under way, or accepted
                  \* by a start that a crash found marked for a retry
    mishaps

rows   == <<state, tries>>
memory == <<reservation, draining, barrier>>
ghosts == <<sent, fate, raced>>
store  == <<log, handled, replayed, rows, dispatched, removed>>
world  == <<live, starting, terminals, held, quarantined>>
vars   == <<store, world, memory, hand, drain, ghosts, mishaps>>

NoDrain == [at |-> "none", todo |-> {}, ready |-> {}, allow |-> FALSE, thread |-> Parent, row |-> 0]
AtRest  == [step |-> "idle", mine |-> <<>>, turn |-> 0, retry |-> FALSE]

Active  == {"queued", "promoting", "orphaned"}
Message(n) == log[n].message
ThreadAt(n) == ThreadOf[Message(n)]
Waiting(m) == {n \in 1 .. Len(log) : state[n] \in Active /\ Message(n) = m}
RowsOf(t)  == {n \in 1 .. Len(log) : state[n] \in Active /\ ThreadAt(n) = t}
Pending    == {t \in Threads : RowsOf(t) # {}}
Deleted    == {t \in Threads : \E n \in 1 .. Len(log) : log[n].kind = "deleted" /\ log[n].thread = t}

Intent(kind, m, t, mode) == [kind |-> kind, message |-> m, thread |-> t, mode |-> mode]

Init ==
    /\ log = <<>> /\ handled = 0 /\ replayed = 0
    /\ state = [n \in Numbers |-> "none"] /\ tries = [n \in Numbers |-> 0]
    /\ dispatched = {} /\ removed = {}
    /\ live = 0 /\ starting = FALSE /\ terminals = <<>> /\ held = {} /\ quarantined = {}
    /\ reservation = {} /\ draining = {} /\ barrier = 0
    /\ hand = [f \in {"source", "terminal"} |-> AtRest]
    /\ drain = [f \in Fibers |-> NoDrain]
    /\ sent = [m \in Messages |-> 0] /\ fate = [m \in Messages |-> "none"]
    /\ raced = {} /\ mishaps = 0

-----------------------------------------------------------------------------
(* Users and the provider.                                                 *)

Sent(m) == \E n \in 1 .. Len(log) : log[n].message = m /\ log[n].kind \in {"queued", "start"}
Made(c) == IF c.kind = "send" THEN Sent(c.message)
           ELSE \E n \in 1 .. Len(log) : log[n].kind = c.kind /\
                  IF c.kind \in {"cancel", "steer"} THEN log[n].message = c.message ELSE log[n].thread = c.thread
Asks    == UNION {Range(s.asks) : s \in Scenarios}
Open    ==
    LET made == {c \in Asks : Made(c)}
        continued == \E n \in 1 .. Len(log) : log[n].kind = "recover"
    IN  {s \in Scenarios : mishaps <= s.mishaps /\ made \subseteq Range(s.asks) /\ (continued => s.continues)}
Asked(s) == {s.asks[i] : i \in {j \in DOMAIN s.asks : \A k \in 1 .. j - 1 : Made(s.asks[k])}}
MayFail == (\E s \in Open : mishaps < s.mishaps) /\ mishaps' = mishaps + 1

(* The projection of a committed start: the session is starting, unless    *)
(* the projection, which may lag, shows a turn; no restart holds its queue *)
(* any more.                                                               *)
Admitted(t) ==
    /\ starting' \in {starting, starting \/ (t = Parent /\ live = 0)}
    /\ held' = held \ {t}

(* Where the decider puts a turn: it queues if the projection shows one in *)
(* flight; a subagent's messages never queue there.                        *)
Placed(m, mode) ==
    \E kind \in IF ThreadOf[m] = Parent THEN {"queued", "start"} ELSE {"start"} :
        /\ log' = Append(log, Intent(kind, m, "none", mode))
        /\ IF kind = "start" THEN Admitted(ThreadOf[m]) ELSE UNCHANGED <<starting, held>>

Ask ==
    /\ \E c \in UNION {Asked(s) : s \in Open} :
         /\ ~Made(c)
         /\ \/ c.kind = "send" /\ ThreadOf[c.message] \notin Deleted /\ Placed(c.message, "queue")
            \/ /\ c.kind \in {"cancel", "steer"} /\ Sent(c.message) /\ ThreadOf[c.message] \notin Deleted
               /\ log' = Append(log, Intent(c.kind, c.message, "none", "queue"))
               /\ UNCHANGED <<starting, held>>
            \/ /\ c.kind \in {"stop", "deleted"} /\ c.thread \notin Deleted
               /\ log' = Append(log, Intent(c.kind, "none", c.thread, "queue"))
               /\ held' = held \ {c.thread} /\ UNCHANGED starting
    /\ UNCHANGED <<handled, replayed, rows, dispatched, removed, live, terminals, quarantined, memory,
                   hand, drain, ghosts, mishaps>>

(* The continuation of a turn that a restart interrupted.  That its        *)
(* dispatch fails is only logged, so it need not come.                     *)
ContinueTurn ==
    /\ \E t \in held \ Deleted :
         /\ t = Parent => ~starting
         /\ \E s \in Open : s.continues
         /\ log' = Append(log, Intent("recover", "none", t, "queue"))
         /\ Admitted(t)
    /\ UNCHANGED <<handled, replayed, rows, dispatched, removed, live, terminals, quarantined, memory,
                   hand, drain, ghosts, mishaps>>

(* A turn ends: the adapter clears it and emits a terminal event, with or  *)
(* without the turn's id.                                                  *)
TurnEnds ==
    /\ live # 0
    /\ live' = 0
    /\ \E id \in {live, 0} : terminals' = Append(terminals, id)
    /\ UNCHANGED <<store, starting, held, quarantined, memory, hand, drain, ghosts, mishaps>>

-----------------------------------------------------------------------------
(* The rows (QueuedTurnPromotions.ts).                                     *)

EnqueuedAlways(n) == [state EXCEPT ![n] = IF @ = "none" THEN "queued" ELSE @]

EnqueuedOncePerMessage(n) ==
    [state EXCEPT ![n] = IF \E o \in 1 .. Len(log) : state[o] # "none" /\ Message(o) = Message(n)
                         THEN @ ELSE "queued"]

(* enqueue: the row for a sequence that has none, unless the message has   *)
(* an active one; the conflict clause leaves either as it is.              *)
Enqueued(n) ==
    [state EXCEPT ![n] = IF @ = "none" /\ Waiting(Message(n)) = {} THEN "queued" ELSE @]

(* claimMessageAction, cancelThread: queued and promoting rows alike. *)
Cancels(set) == [n \in Numbers |-> IF n \in set THEN "cancelled" ELSE state[n]]

(* claimNext's order: the newest steer, else the oldest of the others. *)
NewestFirst(set) == Max(set)
First(set) ==
    LET steers == {n \in set : log[n].mode = "steer"}
    IN  IF steers # {} THEN Max(steers) ELSE Min(set)

-----------------------------------------------------------------------------
(* drainQueuedTurnsForThread and drainQueuedTurnsForSession, by fiber f.   *)

(* A drain goes through threads that are ready, or that it has yet to look *)
(* at: the recovery sweep and a newly queued turn look at the live turn    *)
(* before each thread.                                                     *)
Drain(todo, ready, allow) ==
    IF todo \cup ready = {} THEN NoDrain
    ELSE [NoDrain EXCEPT !.at = "open", !.todo = todo, !.ready = ready, !.allow = allow]
DrainsBy(f, t, allow) == drain' = [drain EXCEPT ![f] = Drain({}, {t} \cup Pending, allow)]
At(f, place) == drain' = [drain EXCEPT ![f].at = place]
NextThread(f) == drain' = [drain EXCEPT ![f] = Drain(@.todo, @.ready, @.allow)]

(* The sweep cancels the queue of a deleted thread, and leaves alone the   *)
(* queue of one whose interrupted turn is to be continued first.           *)
Look(f) ==
    /\ drain[f].at = "open" /\ drain[f].ready = {}
    /\ \E t \in drain[f].todo :
         LET gone  == f = "sweep" /\ t \in Deleted
             waits == f = "sweep" /\ t \in held
             rest  == drain[f].todo \ {t}
         IN  /\ state' = IF gone THEN Cancels(RowsOf(t)) ELSE state
             /\ drain' = [drain EXCEPT ![f] =
                            Drain(rest, IF gone \/ waits \/ live # 0 THEN {} ELSE {t}, @.allow)]
    /\ UNCHANGED <<log, handled, replayed, tries, dispatched, removed, world, memory, hand, ghosts, mishaps>>

BlockedOnlyByReservation(f, t) == (starting /\ ~drain[f].allow) \/ barrier # 0 \/ reservation # {}

Blocked(f, t) ==
    \/ starting /\ ~drain[f].allow
    \/ t \in draining
    \/ barrier # 0 \/ reservation # {}

ReclaimedNever(t, late) == {}

(* The promoting rows of a thread that go back to the queue: those of a    *)
(* process that is gone, and one of this process that has outlived its     *)
(* lease of thirty seconds.                                                *)
Reclaimed(t, late) == {n \in RowsOf(t) : state[n] = "orphaned" \/ (late /\ state[n] = "promoting")}

(* claimNext.  The guard and the claim are one step: what passed the guard *)
(* has nothing to lose before it claims.                                   *)
Claim(f) ==
    /\ drain[f].at = "open"
    /\ \E t \in drain[f].ready, late \in BOOLEAN :
         LET back == Reclaimed(t, late)
             free == back \cup {n \in RowsOf(t) : state[n] = "queued"}
             d    == [drain[f] EXCEPT !.ready = @ \ {t}, !.thread = t]
         IN  IF Blocked(f, t) \/ free = {}
             THEN /\ drain' = [drain EXCEPT ![f] = Drain(d.todo, d.ready, d.allow)]
                  /\ UNCHANGED <<rows, draining>>
             ELSE /\ state' = [n \in Numbers |-> IF n = First(free) THEN "promoting"
                                                   ELSE IF n \in back THEN "queued" ELSE state[n]]
                  /\ tries' = [tries EXCEPT ![First(free)] = @ + 1]
                  /\ drain' = [drain EXCEPT ![f] = [d EXCEPT !.at = "dispatch", !.row = First(free)]]
                  /\ draining' = draining \cup {t}
    /\ UNCHANGED <<log, handled, replayed, dispatched, removed, world, reservation, barrier, hand, ghosts, mishaps>>

(* The reservation is an object of its own at every attempt.               *)
Reserve(n) ==
    reservation' = {[message |-> Message(n), token |-> <<n, tries[n]>>, bound |-> 0, early |-> {}]}

StartOf(n) == Intent("start", Message(n), "none", log[n].mode)

DispatchAnew(f) ==
    /\ drain[f].at = "dispatch"
    /\ LET n == drain[f].row
       IN  /\ Reserve(n)
           /\ IF ThreadAt(n) \in Deleted
              THEN At(f, "fail") /\ UNCHANGED <<log, dispatched, starting, held>>
              ELSE /\ log' = Append(log, StartOf(n)) /\ Admitted(ThreadAt(n))
                   /\ dispatched' = dispatched \cup {n}
                   /\ At(f, "mark")
    /\ UNCHANGED <<handled, replayed, rows, removed, live, terminals, quarantined, draining, barrier,
                   hand, ghosts, mishaps>>

(* The reservation, and with it dispatch-queued: the command's id names    *)
(* the row, so a stored receipt answers a second dispatch; the decider     *)
(* refuses a deleted thread and looks at nothing else.                     *)
Dispatch(f) ==
    /\ drain[f].at = "dispatch"
    /\ LET n == drain[f].row
       IN  /\ Reserve(n)
           /\ \/ /\ n \notin dispatched /\ ThreadAt(n) \in Deleted
                 /\ At(f, "fail") /\ UNCHANGED <<log, dispatched, starting, held>>
              \/ /\ n \in dispatched
                 /\ At(f, "mark") /\ UNCHANGED <<log, dispatched, starting, held>>
              \/ /\ n \notin dispatched /\ ThreadAt(n) \notin Deleted
                 /\ log' = Append(log, StartOf(n)) /\ Admitted(ThreadAt(n))
                 /\ dispatched' = dispatched \cup {n}
                 /\ At(f, "mark")
    /\ UNCHANGED <<handled, replayed, rows, removed, live, terminals, quarantined, draining, barrier,
                   hand, ghosts, mishaps>>

(* markPromoted *)
Mark(f) ==
    /\ drain[f].at = "mark"
    /\ IF state[drain[f].row] = "promoting"
       THEN /\ state' = [state EXCEPT ![drain[f].row] = "promoted"]
            /\ draining' = draining \ {drain[f].thread}
            /\ NextThread(f)
       ELSE At(f, "fail") /\ UNCHANGED <<state, draining>>
    /\ UNCHANGED <<log, handled, replayed, tries, dispatched, removed, world, reservation, barrier, hand, ghosts, mishaps>>

(* The promotion failed: whatever reservation there is goes, the claim is  *)
(* released if it is still held, and the error ends the whole drain.       *)
GiveBack(f) ==
    /\ drain[f].at = "fail"
    /\ reservation' = {}
    /\ state' = [state EXCEPT ![drain[f].row] = IF @ = "promoting" THEN "queued" ELSE @]
    /\ draining' = draining \ {drain[f].thread}
    /\ drain' = [drain EXCEPT ![f] = NoDrain]
    /\ UNCHANGED <<log, handled, replayed, tries, dispatched, removed, world, barrier, hand, ghosts, mishaps>>

(* A write of the promotion fails. *)
Fault(f) ==
    /\ drain[f].at \in {"dispatch", "mark"} /\ MayFail
    /\ At(f, "fail")
    /\ UNCHANGED <<store, world, memory, hand, ghosts>>

Draining(f) == Look(f) \/ Claim(f) \/ Dispatch(f) \/ Mark(f) \/ GiveBack(f)

-----------------------------------------------------------------------------
(* The recovery sweep, and the terminal-event fiber.                       *)

Booted == handled >= replayed

Sweep ==
    /\ Booted /\ drain["sweep"].at = "none" /\ Pending # {}
    /\ drain' = [drain EXCEPT !["sweep"] = Drain(Pending, {}, FALSE)]
    /\ UNCHANGED <<store, world, memory, hand, ghosts, mishaps>>

(* processQueueDrainEvent, up to its first await or its drain. *)
TerminalEvent ==
    /\ Booted /\ terminals # <<>>
    /\ hand["terminal"].step = "idle" /\ drain["terminal"].at = "none"
    /\ terminals' = Tail(terminals)
    /\ LET id == Head(terminals)
           later == barrier # 0 /\ id # 0 /\ id # barrier
           other == \E r \in reservation : r.bound # id
       IN  IF id = 0 /\ (barrier # 0 \/ reservation # {})
           THEN /\ hand' = [hand EXCEPT !["terminal"].step = "idless"]
                /\ UNCHANGED <<barrier, reservation, drain>>
           ELSE /\ barrier' = IF id = barrier THEN 0 ELSE barrier
                /\ reservation' =
                     IF later THEN reservation
                     ELSE {IF r.bound = 0 THEN [r EXCEPT !.early = @ \cup {id}] ELSE r
                             : r \in {x \in reservation : x.bound # id}}
                /\ IF later \/ other THEN UNCHANGED drain ELSE DrainsBy("terminal", Parent, TRUE)
                /\ UNCHANGED hand
    /\ UNCHANGED <<store, live, starting, held, quarantined, draining, ghosts, mishaps>>

(* A terminal event without a turn id: only the live session tells. *)
IdlessTerminal ==
    /\ hand["terminal"].step = "idless"
    /\ hand' = [hand EXCEPT !["terminal"] = AtRest]
    /\ IF live # 0
       THEN UNCHANGED <<barrier, reservation, drain>>
       ELSE /\ barrier' = 0 /\ reservation' = {}
            /\ DrainsBy("terminal", Parent, TRUE)
    /\ UNCHANGED <<store, world, draining, ghosts, mishaps>>

-----------------------------------------------------------------------------
(* The intent source.                                                      *)

Event == log[handled + 1]
Me    == hand["source"]
Ready(kind) == /\ handled < Len(log) /\ Event.kind \in kind
               /\ Me.step = "idle" /\ drain["source"].at = "none"
On == IF Event.kind \in {"stop", "deleted", "recover"} THEN Event.thread ELSE ThreadOf[Event.message]
Permitted(kind) == Ready(kind) /\ On \notin quarantined
To(step)  == hand' = [hand EXCEPT !["source"].step = step]
Finish    == hand' = [hand EXCEPT !["source"] = AtRest] /\ handled' = handled + 1

(* A handler that has failed in the store is marked for a retry.           *)
Settle    == IF Me.retry THEN To("retry") /\ UNCHANGED handled ELSE Finish

(* Once the drain it asked for is over, the handler goes on. *)
Resumed == drain["source"].at = "none"

(* skipQuarantinedSideEffect: an action in a quarantined thread is skipped *)
(* without a word; a start first stops the session and abandons what       *)
(* blocks the thread, and is skipped if that fails.                        *)
SkipAction ==
    /\ Ready({"cancel", "steer", "stop"}) /\ On \in quarantined
    /\ Finish
    /\ UNCHANGED <<log, replayed, rows, dispatched, removed, world, memory, drain, ghosts, mishaps>>

RecoverThread ==
    /\ Ready({"start", "recover"}) /\ On \in quarantined
    /\ quarantined' = quarantined \ {On}
    /\ live' = 0 /\ starting' = FALSE /\ terminals' = Append(terminals, 0)
    /\ held' \in {held, held \cup {On}}
    /\ UNCHANGED <<store, memory, hand, drain, ghosts, mishaps>>

SkipStart ==
    /\ Ready({"start", "recover"}) /\ On \in quarantined /\ MayFail
    /\ starting' = (starting /\ On # Parent) /\ held' = held \ {On}
    /\ fate' = IF Event.kind = "start" THEN [fate EXCEPT ![Event.message] = "skipped"] ELSE fate
    /\ Finish
    /\ UNCHANGED <<log, replayed, rows, dispatched, removed, live, terminals, quarantined, memory, drain,
                   sent, raced>>

(* processTurnQueued *)
TurnQueued ==
    /\ Ready({"queued"})
    /\ state' = Enqueued(handled + 1)
    /\ drain' = [drain EXCEPT !["source"] = Drain({ThreadOf[Event.message]}, {}, FALSE)]
    /\ To("finish")
    /\ UNCHANGED <<log, handled, replayed, tries, dispatched, removed, world, memory, ghosts, mishaps>>

FinishDrained ==
    /\ Me.step = "finish" /\ Resumed
    /\ Settle
    /\ UNCHANGED <<log, replayed, rows, dispatched, removed, world, memory, drain, ghosts, mishaps>>

(* processTurnStartRequested: is the reservation this message's, is the    *)
(* message still there, and does a turn run?                               *)
Mine == IF \E r \in reservation : r.message = Event.message
        THEN (CHOOSE r \in reservation : TRUE).token ELSE <<>>
Owned == {r \in reservation : r.token = Me.mine}
LostWithThread(m) == ThreadOf[m] \in Deleted

(* Its message is gone from the projected transcript. *)
Lost(m) == m \in removed \/ ThreadOf[m] \in Deleted

TurnStart ==
    /\ Permitted({"start"})
    /\ LET go == IF Lost(Event.message) THEN "release" ELSE IF live # 0 THEN "requeue" ELSE "send"
       IN  /\ hand' = [hand EXCEPT !["source"] =
                          [step |-> go, mine |-> Mine, turn |-> live, retry |-> FALSE]]
           /\ starting' = (starting \/ (go = "send" /\ On = Parent))
           /\ held' = IF go = "send" THEN held \ {On} ELSE held
    /\ UNCHANGED <<store, live, terminals, quarantined, memory, drain, ghosts, mishaps>>

(* A read or a write of the start fails in the store, before the provider  *)
(* is asked or when its answer is recorded, which is classed as safe to    *)
(* retry.  The handled-turn-start key stays set ...                        *)
StoreFails ==
    /\ Me.step \in {"requeue", "send", "bind"} /\ MayFail
    /\ hand' = [hand EXCEPT !["source"] = [@ EXCEPT !.step = "release", !.retry = TRUE]]
    /\ UNCHANGED <<store, world, memory, drain, ghosts>>

(* ... and so the retry returns at once and is completed as accepted.      *)
RetryReturns ==
    /\ Me.step = "retry"
    /\ fate' = [fate EXCEPT ![Event.message] = IF @ = "none" /\ sent[Event.message] = 0
                                               THEN "dropped" ELSE @]
    /\ Finish
    /\ UNCHANGED <<log, replayed, rows, dispatched, removed, world, memory, drain, sent, raced, mishaps>>

(* bindPendingQueuedDispatchToTurn: a turn that ended before it was bound  *)
(* releases the reservation and drains at once.                            *)
BindToTurn(turn) ==
    IF \E r \in Owned : turn \in r.early
    THEN reservation' = {} /\ DrainsBy("source", ThreadOf[Event.message], FALSE)
    ELSE /\ reservation' = {IF r \in Owned THEN [r EXCEPT !.bound = turn, !.early = {}] ELSE r
                              : r \in reservation}
         /\ UNCHANGED drain

(* The promotion raced another live turn and goes back to the queue. *)
Requeue ==
    /\ Me.step = "requeue"
    /\ state' = Enqueued(handled + 1)
    /\ fate' = [fate EXCEPT ![Event.message] = IF Waiting(Event.message) = {} THEN @ ELSE "swallowed"]
    /\ BindToTurn(Me.turn)
    /\ To("release")
    /\ UNCHANGED <<log, handled, replayed, tries, dispatched, removed, world, draining, barrier, sent, raced, mishaps>>

(* The provider accepts the message: as a turn of the session, or as a     *)
(* steer of a subagent, which starts none.                                 *)
Accept ==
    /\ Me.step = "send"
    /\ sent' = [sent EXCEPT ![Event.message] = @ + 1]
    /\ starting' = FALSE
    /\ IF ThreadOf[Event.message] = Parent
       THEN live' = handled + 1 /\ To("bind")
       ELSE To("release") /\ UNCHANGED live
    /\ UNCHANGED <<store, terminals, held, quarantined, memory, drain, fate, raced, mishaps>>

(* What ends uncertain, or dead, quarantines its thread.                   *)
MayBlock == quarantined' \in {quarantined, quarantined \cup {On}}
Blocks   == quarantined' = quarantined \cup {On}

(* The start fails: the session is in error, and the queue is drained.     *)
Reject ==
    /\ Me.step = "send" /\ MayFail
    /\ fate' = [fate EXCEPT ![Event.message] = "failed"]
    /\ starting' = FALSE /\ MayBlock
    /\ reservation' = reservation \ Owned
    /\ DrainsBy("source", ThreadOf[Event.message], FALSE)
    /\ To("release")
    /\ UNCHANGED <<store, live, terminals, held, draining, barrier, sent, raced>>

Bind ==
    /\ Me.step = "bind"
    /\ BindToTurn(handled + 1)
    /\ To("release")
    /\ UNCHANGED <<store, world, draining, barrier, ghosts, mishaps>>

(* releaseOrphanedQueuedDispatchReservation, up to hasQueuedTurnStart. *)
Release ==
    /\ Me.step = "release" /\ Resumed
    /\ IF (\E r \in Owned : r.bound = 0) /\ Waiting(Event.message) = {}
       THEN To("orphan") /\ UNCHANGED handled
       ELSE Settle
    /\ UNCHANGED <<log, replayed, rows, dispatched, removed, world, memory, drain, ghosts, mishaps>>

ReleaseOrphan ==
    /\ Me.step = "orphan"
    /\ IF live # 0
       THEN BindToTurn(live)
       ELSE /\ reservation' = reservation \ Owned
            /\ DrainsBy("source", ThreadOf[Event.message], FALSE)
    /\ To("finish")
    /\ UNCHANGED <<store, world, draining, barrier, ghosts, mishaps>>

(* The continuation, handled: it gives way to a turn that runs already.    *)
TurnContinued ==
    /\ Permitted({"recover"})
    /\ IF On = Parent /\ On \notin Deleted /\ live = 0
       THEN live' = handled + 1 /\ starting' = FALSE
       ELSE UNCHANGED <<live, starting>>
    /\ Finish
    /\ UNCHANGED <<log, replayed, rows, dispatched, removed, terminals, held, quarantined, memory, drain,
                   ghosts, mishaps>>

ContinuationFails ==
    /\ Permitted({"recover"}) /\ On \notin Deleted /\ live = 0 /\ MayFail
    /\ starting' = (starting /\ On # Parent) /\ MayBlock
    /\ DrainsBy("source", On, FALSE)
    /\ To("finish")
    /\ UNCHANGED <<store, live, terminals, held, memory, ghosts>>

(* The start of a row is committed, or a drain that has claimed it may yet *)
(* commit it.                                                              *)
UnderWay(n) == state[n] # "queued" \/ n \in dispatched \/ \E f \in Fibers : drain[f].row = n

(* claimMessageAction for a cancellation or a steer.  A replay of the      *)
(* action, which an operator may grant, is not modelled.  A steer finds    *)
(* the source of a row only if that is a turn-queued event, which a        *)
(* requeued start is not.                                                  *)
ClaimAction ==
    /\ Permitted({"cancel", "steer"})
    /\ state' = Cancels(Waiting(Event.message))
    /\ IF Waiting(Event.message) = {}
       THEN Finish /\ UNCHANGED fate
       ELSE /\ To(IF Event.kind = "steer" /\ \E n \in Waiting(Event.message) : log[n].kind = "start"
                  THEN "refuse" ELSE "act")
            /\ UNCHANGED handled
            /\ fate' = [fate EXCEPT ![Event.message] = IF Event.kind = "cancel" THEN "cancelled" ELSE @]
    /\ raced' = IF Event.kind = "steer" /\ \E n \in Waiting(Event.message) : UnderWay(n)
                THEN raced \cup {Event.message} ELSE raced
    /\ UNCHANGED <<log, replayed, tries, dispatched, removed, world, memory, drain, sent, mishaps>>

(* The action itself: the message leaves the transcript, or its turn is    *)
(* asked for again as a steer; an OpenCode session holds its queue until   *)
(* the turn the steer interrupts has ended.  The decider refuses a deleted *)
(* thread.                                                                 *)
ActCancel ==
    /\ Me.step = "act" /\ Event.kind = "cancel"
    /\ IF ThreadOf[Event.message] \in Deleted
       THEN UNCHANGED <<removed, held>>
       ELSE removed' = removed \cup {Event.message} /\ held' = held \ {On}
    /\ Finish
    /\ UNCHANGED <<log, replayed, rows, dispatched, live, starting, terminals, quarantined, memory,
                   drain, ghosts, mishaps>>

ActSteer ==
    /\ Me.step = "act" /\ Event.kind = "steer"
    /\ IF Lost(Event.message)
       THEN UNCHANGED <<barrier, log, starting, held>>
       ELSE /\ barrier' \in {barrier, IF barrier = 0 THEN live ELSE barrier}
            /\ Placed(Event.message, "steer")
    /\ Finish
    /\ UNCHANGED <<replayed, rows, dispatched, removed, live, terminals, quarantined, reservation,
                   draining, drain, ghosts, mishaps>>

(* The action fails with the row gone: its source is no turn-queued event, *)
(* or its writes have failed until its retries ran out.                    *)
ActionFails(why) ==
    /\ fate' = [fate EXCEPT ![Event.message] = why]
    /\ Blocks
    /\ Finish
    /\ UNCHANGED <<log, replayed, rows, dispatched, removed, live, starting, terminals, held, memory,
                   drain, sent, raced>>

SteerRefused == Me.step = "refuse" /\ ActionFails("refused") /\ UNCHANGED mishaps
ActionDies   == Me.step = "act" /\ MayFail /\ ActionFails("interrupted")

Started(n, t) == \/ log[n].kind = "start" /\ ThreadAt(n) = t
                 \/ log[n].kind = "recover" /\ log[n].thread = t

(* A running turn, or a start still to come, may have set the marker of a  *)
(* restart.                                                                *)
Marked(t) == \E n \in 1 .. Len(log) : Started(n, t) /\ (t = Parent => live # 0 \/ n > handled)

Stopped == IF Event.thread = Parent THEN Threads ELSE {Event.thread}
Forgets(ts, how) == [m \in Messages |-> IF ThreadOf[m] \in ts /\ Waiting(m) # {} THEN how ELSE fate[m]]

(* processThreadSessionStop: the queues, then the reservations, then the   *)
(* provider.  A marker set again after the stop was asked for stays beside *)
(* the stopped session.                                                    *)
StopQueues ==
    /\ Permitted({"stop"})
    /\ IF Event.thread \in Deleted
       THEN Finish /\ UNCHANGED <<state, draining, barrier, fate>>
       ELSE /\ state' = Cancels(UNION {RowsOf(t) : t \in Stopped})
            /\ fate' = Forgets(Stopped, "stopped")
            /\ draining' = draining \ Stopped
            /\ barrier' = 0
            /\ To("stop") /\ UNCHANGED handled
    /\ UNCHANGED <<log, replayed, tries, dispatched, removed, world, reservation, drain, sent, raced, mishaps>>

StopSession ==
    /\ Me.step = "stop"
    /\ reservation' = {r \in reservation : ThreadOf[r.message] \notin Stopped}
    /\ IF Event.thread = Parent
       THEN live' = 0 /\ starting' = FALSE /\ terminals' = Append(terminals, 0)
       ELSE UNCHANGED <<live, starting, terminals>>
    /\ held' \in {held, held \cup {t \in {On} : Marked(t)}}
    /\ Finish
    /\ UNCHANGED <<log, replayed, rows, dispatched, removed, quarantined, draining, barrier, drain,
                   ghosts, mishaps>>

(* thread.deleted; clearThreadRuntimeCaches leaves the drains alone. *)
ThreadDeleted ==
    /\ Ready({"deleted"})
    /\ state' = Cancels(RowsOf(Event.thread))
    /\ fate' = Forgets({Event.thread}, "deleted")
    /\ Finish
    /\ UNCHANGED <<log, replayed, tries, dispatched, removed, world, memory, drain, sent, raced, mishaps>>

Source == \/ TurnQueued \/ FinishDrained \/ TurnStart \/ Requeue \/ Accept
          \/ Bind \/ Release \/ ReleaseOrphan \/ RetryReturns \/ TurnContinued
          \/ ClaimAction \/ ActCancel \/ ActSteer \/ SteerRefused
          \/ StopQueues \/ StopSession \/ ThreadDeleted \/ SkipAction \/ RecoverThread
Mishaps == Reject \/ StoreFails \/ ContinuationFails \/ ActionDies \/ SkipStart

-----------------------------------------------------------------------------
(* The process dies and starts again.                                      *)

Claimed == /\ handled < Len(log) /\ Event.kind \notin {"queued", "deleted"}
           /\ Me.step \notin {"idle", "retry"}

(* A claimed intent in hand ends uncertain, and its thread with it, until  *)
(* a fence has stopped the session, which startup tries for every blocker. *)
(* A start that is marked for a retry is run again, for the key is gone.   *)
(* The turns and starts that were in flight are to be continued first, as  *)
(* far as the projection has them in flight.                               *)
Crash ==
    /\ MayFail
    /\ IF Claimed
       THEN /\ handled' = handled + 1
            /\ fate' = CASE Event.kind = "start" /\ sent[Event.message] = 0 ->
                               [fate EXCEPT ![Event.message] = "uncertain"]
                         [] Me.step \in {"act", "refuse"} ->
                               [fate EXCEPT ![Event.message] = "interrupted"]
                         [] OTHER -> fate
            /\ quarantined' \in SUBSET (quarantined \cup {On})
       ELSE UNCHANGED <<handled, fate>> /\ quarantined' \in SUBSET quarantined
    /\ raced' = IF Me.step = "retry" /\ sent[Event.message] > 0 THEN raced \cup {Event.message}
                                                               ELSE raced
    /\ held' \in SUBSET {t \in Threads : \E n \in 1 .. Len(log) : Started(n, t)}
    /\ replayed' = Len(log)
    /\ state' = [n \in Numbers |-> IF state[n] = "promoting" THEN "orphaned" ELSE state[n]]
    /\ live' = 0 /\ starting' = FALSE /\ terminals' = <<>>
    /\ reservation' = {} /\ draining' = {} /\ barrier' = 0
    /\ hand' = [f \in {"source", "terminal"} |-> AtRest]
    /\ drain' = [f \in Fibers |-> NoDrain]
    /\ UNCHANGED <<log, tries, dispatched, removed, sent>>

Next == \/ Ask \/ ContinueTurn \/ TurnEnds
        \/ \E f \in Fibers : Draining(f) \/ Fault(f)
        \/ Sweep \/ TerminalEvent \/ IdlessTerminal
        \/ Source \/ Mishaps \/ Crash

Spec == Init /\ [][Next]_vars
FairSpec ==
    /\ Spec
    /\ WF_vars(TurnEnds)
    /\ \A f \in Fibers : WF_vars(Draining(f))
    /\ WF_vars(Sweep) /\ WF_vars(TerminalEvent \/ IdlessTerminal) /\ WF_vars(Source)

-----------------------------------------------------------------------------
(* Properties.                                                             *)

(* Types; a message waits in one row at most, as the unique index has it,  *)
(* and a row counts as promoted only after its start has been committed.   *)
TypeOK ==
    /\ Len(log) <= MaxLog /\ handled \in 0 .. Len(log) /\ replayed \in 0 .. Len(log)
    /\ state \in [Numbers -> {"none", "promoted", "cancelled"} \cup Active]
    /\ \A n \in Numbers : state[n] # "none" => n <= Len(log) /\ log[n].kind \in {"queued", "start"}
    /\ \A n \in Numbers : state[n] = "promoted" => n \in dispatched
    /\ \A m \in Messages : Cardinality(Waiting(m)) <= 1
    /\ dispatched \subseteq 1 .. Len(log) /\ removed \subseteq Messages
    /\ live \in 0 .. Len(log) /\ barrier \in 0 .. Len(log)
    /\ draining \subseteq Threads /\ held \subseteq Threads /\ quarantined \subseteq Threads
    /\ Cardinality(reservation) <= 1

(* The provider receives a message once, whatever promotions overlap, fail *)
(* and are repeated, with crashes and requeues in between.  The            *)
(* exceptions: a steer that meets a start under way, and a start that was  *)
(* accepted, failed to record it, and was met by a crash before its retry. *)
StartedOnce == \A m \in Messages \ raced : sent[m] <= 1

(* A cancellation that finds the message still waiting, or the deletion of *)
(* its thread, keeps it from the provider, also when a drain has claimed   *)
(* its row already; only a crash or a failure in the middle of the         *)
(* cancellation undoes it.                                                 *)
WithdrawnStaysUnsent ==
    [][\A m \in Messages : sent'[m] # sent[m] => fate[m] \notin {"cancelled", "deleted"}]_vars

(* A session stop has reached the source. *)
Cleared == \E n \in 1 .. Len(log) : log[n].kind = "stop" /\ n <= handled + 1

(* Two fibers never drain one thread at once, which the lease of a claim   *)
(* alone would not ensure; only a session stop clears the guard under a    *)
(* drain that is still running.                                            *)
Promoting(f, t) == drain[f].thread = t /\ drain[f].at \in {"dispatch", "mark", "fail"}
OneDrain ==
    \A t \in Threads : \A f, g \in Fibers :
        f # g /\ Promoting(f, t) /\ Promoting(g, t) => Cleared

(* A message keeps its place: when a row is dispatched, no older row of    *)
(* its thread is waiting, unless it is a steer or a session stop has let   *)
(* two drains overlap.                                                     *)
OldestFirst ==
    [][\A n \in dispatched' \ dispatched :
         \/ log[n].mode = "steer" \/ Cleared
         \/ ~\E o \in RowsOf(ThreadAt(n)) : o < n /\ state[o] = "queued"]_vars

(* No message is lost: it is still to be handled, waits in the queue, was  *)
(* accepted, was withdrawn by its owner, or its failure is on record: a    *)
(* failed or skipped start, a delivery that ended uncertain or dead.  Two  *)
(* ways to lose one silently are left: a requeue that meets the message's  *)
(* own row, still being promoted, and a start whose store failure is       *)
(* retried and taken for handled.                                          *)
Unhandled(m) == \E n \in handled + 1 .. Len(log) : Message(n) = m /\ log[n].kind \in {"queued", "start"}
Steered(m)   == Me.step \in {"act", "refuse"} /\ Event.message = m
Ended        == {"cancelled", "deleted", "stopped"}
OnRecord     == {"failed", "skipped", "uncertain", "interrupted", "refused"}
Silent       == {"swallowed", "dropped"}
Accounted(m) ==
    Sent(m) => \/ Lost(m) \/ Unhandled(m) \/ Steered(m) \/ Waiting(m) # {} \/ sent[m] > 0
               \/ fate[m] \in Ended \cup OnRecord \cup Silent
NothingLost == \A m \in Messages : Accounted(m)

(* The queue empties again and again but for the threads that the marker   *)
(* of a restart holds until a turn is started there or a stop asked for,   *)
(* which may never happen; or all is held for something that is no longer  *)
(* to come: the start of a reservation, the end of a turn that a           *)
(* reservation or the barrier names, or the turn of a session projected as *)
(* starting.                                                               *)
Over(turn) == turn \notin {0, live} /\ terminals = <<>> /\ hand["terminal"].step = "idle"
HeldForNothing ==
    \/ \E r \in reservation : Over(r.bound) \/ (r.bound = 0 /\ ~Unhandled(r.message))
    \/ Over(barrier)
    \/ starting /\ live = 0 /\ \A n \in handled + 1 .. Len(log) : log[n].kind \notin {"start", "recover"}
QueueEmpties == []<>(Pending \subseteq held \/ HeldForNothing)

=============================================================================
