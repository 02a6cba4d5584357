--------------------------- MODULE CommandDelivery ---------------------------
(***************************************************************************)
(* How committed orchestration events become provider calls: the rows of   *)
(* OrchestrationEventDeliveries.ts (one consumer, its contiguous cursor,   *)
(* a delivery per claimed event, the operator's reconciliations) and the   *)
(* source in ProviderCommandReactor.ts that owns them: attach, heal,       *)
(* resume, replay, live.  One permit serialises the source and the         *)
(* operator, so there is a single job; what interleaves with it are        *)
(* commits, crashes, failing writes and the operator between two events.   *)
(*                                                                         *)
(* Abstracted: an event is its thread and its kind; the claim's owner and  *)
(* lease are left out because one process writes at a time (a claim found  *)
(* in flight is always an older process's, and it is waited out); the      *)
(* handler behind a delivery is one call that the provider may or may not  *)
(* have received, writes to the store before and after it, and one answer  *)
(* of four.                                                                *)
(***************************************************************************)
EXTENDS Naturals, Sequences, FiniteSets, FiniteSetsExt, Functions

CONSTANTS
    Threads,
    Histories,         \* the event sequences that may be committed
    TailRows,          \* ORCHESTRATION_EVENT_TAIL_ROWS
    SafeRetryLimit,    \* PROVIDER_COMMAND_SAFE_RETRY_LIMIT
    MaxEvents, MaxMishaps, MaxGrants   \* bounds: a history's length, crashes
                                       \* and failures, retries granted

Kinds == {"other", "created", "deleted", "archived", "effect", "turnStart", "interrupt"}

ASSUME DeliveryAssumption ==
    /\ Histories \subseteq Seq([thread : Threads, kind : Kinds])
    /\ \A h \in Histories : Len(h) <= MaxEvents
    /\ {TailRows, MaxEvents, MaxMishaps, MaxGrants} \subseteq Nat
    /\ SafeRetryLimit \in Nat \ {0}

Events == 1 .. MaxEvents

(***************************************************************************)
(* Classification (providerIntentClassification.ts).  "other" stands for   *)
(* every event that is no provider intent or an intent of session-set or   *)
(* turn-queued; "effect" for every side effect without a rule of its own.  *)
(***************************************************************************)
ReplaySafe == {"created", "archived"}
SideEffect == {"archived", "effect", "turnStart", "interrupt"}
Claimed    == ReplaySafe \cup SideEffect
Exempt     == {"interrupt"}
Guarded    == SideEffect \ Exempt
Terminal   == {"dead", "uncertain"}

VARIABLES
    log,         \* every event committed, in sequence order
    gone,        \* events 1 .. gone have been collected
    acked,       \* orchestration_consumer_state.last_acked_sequence
    state,       \* state of each event's delivery row; "none": no row
    attempts,    \* its attempt_count
    grants,      \* safe_retry reconciliations recorded for the event
    phase,       \* where the source is
    cursor,      \* its in-memory cursor
    cache,       \* quarantinedThreads
    next,        \* the next event the live queue will hand over
    goal,        \* replayThrough
    failed,      \* failedThreads of the startup recovery
    retries,     \* retryable deliveries still to resume at startup
    resuming,    \* the delivery being resumed, 0 if none
    span,        \* skipped events still to be replayed
    operating,   \* the operator's reconcileDelivery holds the permit
    job,         \* the event or the fence in hand
    keys,        \* turn starts in handledTurnStartKeys
    received,    \* history: how often the provider received each event's call
    redone,      \* history: how often an event was run again, without a grant,
                 \* that the provider may have received
    mishaps,     \* crashes and failures so far
    cutOff,      \* history: threads whose fence a mishap has cut off
    putOff       \* history: threads of which a granted retry was not carried out

durable == <<log, gone, acked, state, attempts, grants>>
source  == <<phase, next, goal, failed, retries, resuming, span, operating>>
past    == <<mishaps, cutOff, putOff>>
vars    == <<durable, source, cursor, cache, job, keys, received, redone, past>>

Idle == [step |-> "idle", event |-> 0, thread |-> 0, why |-> "none", first |-> 0, hit |-> FALSE]
Step(s) == job' = [job EXCEPT !.step = s]
Pick(e) == job' = [step |-> "check", event |-> e, thread |-> log[e].thread, why |-> "event",
                   first |-> 0, hit |-> FALSE]
AtRest  == job = Idle /\ span = {} /\ resuming = 0

(* The durable blockers of a thread, and those the listing can still join. *)
Blocking(t) == {n \in 1 .. Len(log) : log[n].thread = t /\ state[n] \in Terminal}
Listed(t)   == {n \in Blocking(t) : n > gone}

Kind == log[job.event].kind
HeldByCacheOnly == Kind \in Guarded /\ job.thread \in cache
(* skipQuarantinedSideEffect's condition, isThreadQuarantined included. *)
Held == Kind \in Guarded /\ (job.thread \in cache \/ Blocking(job.thread) # {})

(* The events a replay of a thread's skipped work goes through. *)
SkippedAfter(t, e) ==
    {n \in (e + 1) .. cursor : n > gone /\ log[n].thread = t /\ log[n].kind \in SideEffect}

(* listRetryableDeliveries *)
Retryable == {n \in 1 .. acked : state[n] \in {"retry", "inflight"} /\ grants[n] > 0}

Init ==
    /\ log = <<>> /\ gone = 0 /\ acked = 0
    /\ state = [n \in Events |-> "none"]
    /\ attempts = [n \in Events |-> 0] /\ grants = [n \in Events |-> 0]
    /\ phase = "down" /\ cursor = 0 /\ cache = {} /\ next = 1 /\ goal = 0
    /\ failed = {} /\ retries = {} /\ resuming = 0 /\ span = {} /\ operating = FALSE
    /\ job = Idle
    /\ keys = {} /\ received = [n \in Events |-> 0] /\ redone = [n \in Events |-> 0]
    /\ mishaps = 0 /\ cutOff = {} /\ putOff = {}

-----------------------------------------------------------------------------
(* The rows.                                                               *)

AcknowledgeCollectingAll(e, rows) ==
    /\ acked' = e /\ gone' = Len(log)
    /\ state' = [n \in Events |-> IF rows[n] = "succeeded" THEN "none" ELSE rows[n]]
    /\ UNCHANGED attempts

(* collectAcknowledgedTail, inside the transaction that moved the cursor   *)
(* to e; rows is the delivery state that transaction leaves.               *)
Acknowledge(e, rows) ==
    LET cutoff == IF Len(log) > TailRows THEN Min({e, Len(log) - TailRows}) ELSE 0
        Swept(n) == n <= cutoff /\ rows[n] = "succeeded"
    IN  /\ acked' = e
        /\ gone' = Max({gone, cutoff})
        /\ state' = [n \in Events |-> IF Swept(n) THEN "none" ELSE rows[n]]
        /\ attempts' = [n \in Events |-> IF Swept(n) THEN 0 ELSE attempts[n]]

(* advanceCursor's test: e is the first stored event after the cursor. *)
IsNext(e) == e = acked + 1

SetState(e, s) == state' = [state EXCEPT ![e] = s]

(* An event is committed by the engine and published to the live queue. *)
Commit ==
    /\ \E h \in Histories :
         /\ Len(log) < Len(h) /\ log = SubSeq(h, 1, Len(log))
         /\ log' = Append(log, h[Len(log) + 1])
    /\ UNCHANGED <<gone, acked, state, attempts, grants, source, cursor, cache, job,
                   received, redone, keys, past>>

-----------------------------------------------------------------------------
(* The source dies, or what it was doing fails: where control goes.        *)

PutBack(n) == n \in keys /\ state[n] = "retry" /\ attempts[n] < SafeRetryLimit

(* The process is gone, and with it the keys: a turn start that a safe     *)
(* retry has put back will be run again.                                   *)
Vanish ==
    /\ phase' = "down" /\ cursor' = 0 /\ cache' = {} /\ next' = 1 /\ goal' = 0
    /\ failed' = {} /\ retries' = {} /\ resuming' = 0 /\ span' = {} /\ operating' = FALSE
    /\ job' = Idle
    /\ keys' = {}
    /\ redone' = [n \in Events |-> redone[n] + IF PutBack(n) THEN 1 ELSE 0]

(* The operator's request fails alone; the startup recovery is logged and  *)
(* startup goes on; a failing startup ends the process; a failing live     *)
(* source stops.                                                           *)
GiveUp ==
    IF ~operating /\ phase \in {"resume", "replay"}
    THEN Vanish
    ELSE /\ job' = Idle /\ span' = {} /\ resuming' = 0 /\ operating' = FALSE
         /\ phase' = CASE operating       -> phase
                       [] phase = "heal"  -> "resume"
                       [] OTHER           -> "stopped"
         /\ retries' = IF phase = "heal" THEN Retryable ELSE retries
         /\ failed' = {}
         /\ UNCHANGED <<cursor, cache, next, goal, keys, redone>>

(* A fence between its last listing of blockers and the clearing of the    *)
(* cache; a retry granted but not carried out.                             *)
CutOff == {t \in Threads : job.step = "abandon" /\ job.thread = t /\ Blocking(t) = {}}
PutOff == {log[n].thread : n \in {resuming} \ {0}}

Mishap ==
    /\ mishaps < MaxMishaps
    /\ mishaps' = mishaps + 1
    /\ cutOff' = cutOff \cup CutOff
    /\ putOff' = putOff \cup PutOff

Crash ==
    /\ phase # "down" /\ Mishap
    /\ Vanish
    /\ UNCHANGED <<durable, received>>

(* A write of the job in hand fails, or the operator's client leaves. *)
Fault ==
    /\ ~AtRest /\ Mishap
    /\ GiveUp
    /\ UNCHANGED <<durable, received>>

-----------------------------------------------------------------------------
(* One event (processOrderedEvent, processClaimedProviderIntent).          *)

(* No claimed intent: a deletion clears the thread's caches, unless its    *)
(* handler fails, which is only logged.                                    *)
PassOver ==
    /\ job.step = "check" /\ Kind \notin Claimed
    /\ \/ UNCHANGED cache
       \/ Kind = "deleted" /\ cache' = cache \ {job.thread}
    /\ Step("advance")
    /\ UNCHANGED <<durable, source, cursor, received, redone, keys, past>>

(* A side effect of a quarantined thread is skipped ...                    *)
Skip ==
    /\ job.step = "check" /\ Held /\ Kind # "turnStart"
    /\ cache' = cache \cup {job.thread}
    /\ Step("advance")
    /\ UNCHANGED <<durable, source, cursor, received, redone, keys, past>>

(* ... but a new turn first tries to recover the thread. *)
RecoverForTurn ==
    /\ job.step = "check" /\ Held /\ Kind = "turnStart"
    /\ cache' = cache \cup {job.thread}
    /\ job' = [job EXCEPT !.step = "fence", !.why = "turn"]
    /\ UNCHANGED <<durable, source, cursor, received, redone, keys, past>>

Lookup ==
    \/ job.step = "lookup"
    \/ job.step = "check" /\ Kind \in Claimed /\ ~Held

AlreadySettled ==
    /\ Lookup /\ state[job.event] \in {"succeeded"} \cup Terminal
    /\ cache' = IF state[job.event] \in Terminal THEN cache \cup {job.thread} ELSE cache
    /\ Step("advance")
    /\ UNCHANGED <<durable, source, cursor, received, redone, keys, past>>

RequeueAnything ==
    /\ Lookup /\ state[job.event] = "inflight"
    /\ SetState(job.event, "retry")
    /\ Step("lookup")
    /\ UNCHANGED <<log, gone, acked, attempts, grants, source, cursor, cache, received,
                   redone, keys, past>>

(* A claim left in flight by a process that is gone: requeued if replaying *)
(* it is safe ...                                                          *)
Requeue ==
    /\ Lookup /\ state[job.event] = "inflight" /\ Kind \in ReplaySafe
    /\ SetState(job.event, "retry")
    /\ Step("lookup")
    /\ UNCHANGED <<log, gone, acked, attempts, grants, source, cursor, cache, received,
                   redone, keys, past>>

(* ... and otherwise uncertain, with the fence to follow. *)
LeaseLost ==
    /\ Lookup /\ state[job.event] = "inflight" /\ Kind \notin ReplaySafe
    /\ SetState(job.event, "uncertain")
    /\ cache' = cache \cup {job.thread}
    /\ job' = [job EXCEPT !.step = "advance", !.why = "lease"]
    /\ UNCHANGED <<log, gone, acked, attempts, grants, source, cursor, received,
                   redone, keys, past>>

Claim ==
    /\ Lookup /\ state[job.event] \in {"none", "retry"}
    /\ SetState(job.event, "inflight")
    /\ attempts' = [attempts EXCEPT ![job.event] = @ + 1]
    /\ Step("call")
    /\ UNCHANGED <<log, gone, acked, grants, source, cursor, cache, received, redone,
                   keys, past>>

(* The handler runs; the provider receives the call or not.  A turn start  *)
(* first leaves a key ...                                                  *)
Send ==
    /\ job.step = "call" /\ job.event \notin keys
    /\ keys' = IF Kind = "turnStart" THEN keys \cup {job.event} ELSE keys
    /\ \E hit \in BOOLEAN :
         /\ job' = [job EXCEPT !.step = "answer", !.hit = hit]
         /\ received' = [received EXCEPT ![job.event] = @ + (IF hit THEN 1 ELSE 0)]
    /\ UNCHANGED <<durable, source, cursor, cache, redone, past>>

(* ... by which it is not handled again within half an hour.               *)
HandledAlready == job.step = "call" /\ job.event \in keys

(* Accepted, rejected before acceptance, or not handled again: complete. *)
Complete ==
    /\ job.step = "answer" \/ HandledAlready
    /\ LET rows == [state EXCEPT ![job.event] = "succeeded"]
       IN  IF IsNext(job.event)
           THEN Acknowledge(job.event, rows)
           ELSE state' = rows /\ UNCHANGED <<gone, acked, attempts>>
    /\ cursor' = acked'
    /\ job' = Idle
    /\ UNCHANGED <<log, grants, source, cache, received, redone, keys, past>>

(* classifyProviderAttemptOutcome calls a storage error safe to retry,     *)
(* also when the handler meets it after it has called the provider.  The   *)
(* handler of "created" only sets a map entry.                             *)
RetryableAnswer == job.step = "answer" /\ Kind # "created"

RetrySafely ==
    /\ RetryableAnswer /\ attempts[job.event] < SafeRetryLimit
    /\ SetState(job.event, "retry")
    /\ redone' = [redone EXCEPT ![job.event] = @ + IF job.hit /\ Kind # "turnStart" THEN 1 ELSE 0]
    /\ Step("lookup")
    /\ UNCHANGED <<log, gone, acked, attempts, grants, source, cursor, cache, keys,
                   received, past>>

(* settleTerminalFailure *)
SettleAs(s) ==
    /\ SetState(job.event, s)
    /\ cache' = cache \cup {job.thread}
    /\ job' = [job EXCEPT !.step = "advance", !.hit = FALSE]
    /\ UNCHANGED <<log, gone, acked, attempts, grants, source, cursor, received,
                   redone, keys, past>>

RetriesExhausted ==
    RetryableAnswer /\ attempts[job.event] >= SafeRetryLimit /\ SettleAs("dead")

(* A timeout, a defect, or an error that does not tell. *)
AnswerUncertain == job.step = "answer" /\ Kind # "created" /\ SettleAs("uncertain")

(* requireCursorAdvance: the cursor moves, is already past, or refuses,    *)
(* and then the process dies of it.                                        *)
Advance ==
    /\ job.step = "advance"
    /\ IF job.event > acked + 1
       THEN GiveUp /\ UNCHANGED durable
       ELSE /\ IF IsNext(job.event)
               THEN Acknowledge(job.event, state)
               ELSE UNCHANGED <<gone, acked, state, attempts>>
            /\ cursor' = acked'
            /\ job' = IF job.why = "lease" THEN [job EXCEPT !.step = "fence"] ELSE Idle
            /\ UNCHANGED <<log, grants, source, cache, keys, redone>>
    /\ UNCHANGED <<received, past>>

-----------------------------------------------------------------------------
(* fenceAndAbandonThreadBlockers                                           *)

NotRecoveredForgotten ==
    /\ job' = IF job.why = "turn" THEN [job EXCEPT !.step = "advance"] ELSE Idle
    /\ UNCHANGED <<durable, source, cursor, received, redone, keys, past>>

(* It returns null: nothing was recovered. *)
NotRecovered ==
    /\ job' = IF job.why = "turn" THEN [job EXCEPT !.step = "advance"] ELSE Idle
    /\ failed' = IF job.why = "heal" THEN failed \cup {job.thread} ELSE failed
    /\ UNCHANGED <<durable, phase, next, goal, retries, resuming, span, operating, cursor,
                   received, redone, keys, past>>

(* There is nothing to abandon after all, or the fence could not be set up. *)
FenceReturnsNull ==
    /\ job.step = "fence"
    /\ cache' = IF Blocking(job.thread) = {} THEN cache \ {job.thread}
                                            ELSE cache \cup {job.thread}
    /\ NotRecovered

FenceStops ==
    /\ job.step = "fence" /\ Blocking(job.thread) # {}
    /\ Step("abandon")
    /\ UNCHANGED <<durable, source, cursor, cache, received, redone, keys, past>>

Abandon ==
    /\ job.step = "abandon" /\ Blocking(job.thread) # {}
    /\ LET n == Min(Blocking(job.thread))
       IN  /\ SetState(n, "succeeded")
           /\ job' = [job EXCEPT !.first = IF @ = 0 THEN n ELSE @]
    /\ UNCHANGED <<log, gone, acked, attempts, grants, source, cursor, cache, received,
                   redone, keys, past>>

RecoveredKeepingCache ==
    /\ job.step = "abandon" /\ Blocking(job.thread) = {}
    /\ job' = IF job.why = "turn" THEN [job EXCEPT !.step = "lookup", !.first = 0] ELSE Idle
    /\ span' = IF job.why = "heal" THEN SkippedAfter(job.thread, job.first) ELSE span
    /\ UNCHANGED <<durable, phase, next, goal, failed, retries, resuming, operating, cursor,
                   cache, received, redone, keys, past>>

(* No blocker is left: the cache is cleared, and the caller goes on.  Only *)
(* the startup recovery replays what was skipped.                          *)
Recovered ==
    /\ job.step = "abandon" /\ Blocking(job.thread) = {}
    /\ cache' = cache \ {job.thread}
    /\ job' = IF job.why = "turn" THEN [job EXCEPT !.step = "lookup", !.first = 0] ELSE Idle
    /\ span' = IF job.why = "heal" THEN SkippedAfter(job.thread, job.first) ELSE span
    /\ UNCHANGED <<durable, phase, next, goal, failed, retries, resuming, operating, cursor,
                   received, redone, keys, past>>

ReplaySkippedNewestFirst ==
    /\ span # {} /\ job = Idle
    /\ Pick(Max(span))
    /\ span' = span \ {Max(span)}
    /\ UNCHANGED <<durable, phase, next, goal, failed, retries, resuming, operating, cursor,
                   cache, received, redone, keys, past>>

(* replayQuarantinedThreadSideEffects takes its next event. *)
ReplaySkipped ==
    /\ span # {} /\ job = Idle
    /\ Pick(Min(span))
    /\ span' = span \ {Min(span)}
    /\ UNCHANGED <<durable, phase, next, goal, failed, retries, resuming, operating, cursor,
                   cache, received, redone, keys, past>>

-----------------------------------------------------------------------------
(* startProviderIntentSource: attach, heal, resume, replay, live.          *)

Boot ==
    /\ phase = "down"
    /\ phase' = "heal" /\ next' = Len(log) + 1 /\ cursor' = acked
    /\ UNCHANGED <<durable, cache, goal, failed, retries, resuming, span, operating, job,
                   received, redone, keys, past>>

Healable == {t \in Threads \ failed : Listed(t) # {}}

HealThread ==
    /\ phase = "heal" /\ AtRest
    /\ \E t \in Healable :
         job' = [Idle EXCEPT !.step = "fence", !.thread = t, !.why = "heal"]
    /\ UNCHANGED <<durable, source, cursor, cache, received, redone, keys, past>>

EndHeal ==
    /\ phase = "heal" /\ AtRest /\ Healable = {}
    /\ phase' = "resume" /\ retries' = Retryable /\ failed' = {}
    /\ UNCHANGED <<durable, next, goal, resuming, span, operating, cursor, cache, job,
                   received, redone, keys, past>>

(* resumeRetryableDelivery at startup: the event must still be stored. *)
ResumeRetry ==
    /\ phase = "resume" /\ AtRest /\ retries # {}
    /\ LET e == Min(retries)
       IN  IF e <= gone
           THEN Vanish
           ELSE /\ cache' = cache \ {log[e].thread}
                /\ Pick(e)
                /\ resuming' = e /\ retries' = retries \ {e}
                /\ UNCHANGED <<phase, next, goal, failed, span, operating, cursor,
                               keys, redone>>
    /\ UNCHANGED <<durable, received, past>>

(* After the resumed delivery: if it succeeded, what was skipped follows.  *)
(* It may not have been tried at all, since another blocker holds the      *)
(* thread; then its row keeps the grant for a later start.                 *)
AfterResume ==
    /\ resuming # 0 /\ job = Idle
    /\ LET t == log[resuming].thread
       IN  /\ IF state[resuming] = "succeeded"
              THEN cache' = cache \ {t} /\ span' = SkippedAfter(t, resuming)
              ELSE UNCHANGED <<cache, span>>
           /\ putOff' = IF state[resuming] \in {"retry", "inflight"} THEN putOff \cup {t}
                                                                  ELSE putOff
    /\ resuming' = 0
    /\ UNCHANGED <<durable, phase, next, goal, failed, retries, operating, cursor, job,
                   received, redone, keys, mishaps, cutOff>>

EndResume ==
    /\ phase = "resume" /\ AtRest /\ retries = {}
    /\ phase' = "replay" /\ goal' = Len(log)
    /\ UNCHANGED <<durable, next, failed, retries, resuming, span, operating, cursor, cache, job,
                   received, redone, keys, past>>

ReplayEvent ==
    /\ phase = "replay" /\ AtRest /\ cursor < goal
    /\ Pick(cursor + 1)
    /\ UNCHANGED <<durable, source, cursor, cache, received, redone, keys, past>>

EndReplayThenAttach ==
    /\ phase = "replay" /\ AtRest /\ cursor >= goal
    /\ phase' = "live" /\ goal' = 0 /\ next' = Len(log) + 1
    /\ UNCHANGED <<durable, failed, retries, resuming, span, operating, cursor, cache,
                   job, received, redone, keys, past>>

EndReplay ==
    /\ phase = "replay" /\ AtRest /\ cursor >= goal
    /\ phase' = "live" /\ goal' = 0
    /\ UNCHANGED <<durable, next, failed, retries, resuming, span, operating, cursor, cache,
                   job, received, redone, keys, past>>

(* The live queue hands over an event; the cursor tells whether it is new. *)
LiveEvent ==
    /\ phase = "live" /\ AtRest /\ ~operating /\ next <= Len(log)
    /\ next' = next + 1
    /\ IF next <= cursor THEN UNCHANGED job ELSE Pick(next)
    /\ UNCHANGED <<durable, phase, goal, failed, retries, resuming, span, operating, cursor,
                   cache, received, redone, keys, past>>

-----------------------------------------------------------------------------
(* reconcileDelivery, for a blocker the operator was shown.                *)

Shown == {n \in gone + 1 .. Len(log) : state[n] \in Terminal}
OperatorMay == phase \in {"live", "stopped"} /\ AtRest /\ ~operating

OperatorAbandons ==
    /\ OperatorMay
    /\ \E e \in Shown :
         /\ SetState(e, "succeeded")
         /\ cache' = cache \ {log[e].thread}
         /\ span' = SkippedAfter(log[e].thread, e)
    /\ operating' = TRUE
    /\ UNCHANGED <<log, gone, acked, attempts, grants, phase, next, goal, failed, retries, resuming,
                   cursor, job, received, redone, keys, past>>

OperatorRetries ==
    /\ OperatorMay /\ SumFunction(grants) < MaxGrants
    /\ \E e \in Shown :
         /\ SetState(e, "retry")
         /\ grants' = [grants EXCEPT ![e] = @ + 1]
         /\ cache' = cache \ {log[e].thread}
         /\ resuming' = e
         /\ keys' \in {keys, keys \ {e}}
         /\ Pick(e)
    /\ operating' = TRUE
    /\ UNCHANGED <<log, gone, acked, attempts, phase, next, goal, failed, retries, span, cursor,
                   received, redone, past>>

OperatorReturns ==
    /\ operating /\ AtRest
    /\ operating' = FALSE
    /\ UNCHANGED <<durable, phase, next, goal, failed, retries, resuming, span, cursor, cache, job,
                   received, redone, keys, past>>

-----------------------------------------------------------------------------
Deliver == \/ PassOver \/ Skip \/ RecoverForTurn \/ AlreadySettled \/ Requeue \/ LeaseLost
           \/ Claim \/ Send \/ Complete \/ RetrySafely \/ RetriesExhausted \/ AnswerUncertain
           \/ Advance
Fence   == FenceReturnsNull \/ FenceStops \/ Abandon \/ Recovered \/ ReplaySkipped
Source  == \/ Boot \/ HealThread \/ EndHeal \/ ResumeRetry \/ AfterResume \/ EndResume
           \/ ReplayEvent \/ EndReplay \/ LiveEvent \/ OperatorReturns
Reactor == Deliver \/ Fence \/ Source

Next == \/ Reactor
        \/ OperatorAbandons \/ OperatorRetries
        \/ Commit \/ Crash \/ Fault

Spec     == Init /\ [][Next]_vars
(* The event loop runs what can run, and the application is started again. *)
FairSpec == Spec /\ WF_vars(Reactor)

-----------------------------------------------------------------------------
(* Properties.                                                             *)

RowStates == {"none", "inflight", "retry", "succeeded"} \cup Terminal
Jobs ==
    [step : {"idle", "check", "lookup", "call", "answer", "advance", "fence", "abandon"},
     event : 0 .. Len(log), thread : Threads \cup {0},
     why : {"none", "event", "turn", "lease", "heal"}, first : 0 .. Len(log), hit : BOOLEAN]

(* Types, and the arithmetic of the three positions in the log: what has   *)
(* been collected is acknowledged, the in-memory cursor never runs ahead.  *)
TypeOK ==
    /\ log \in Seq([thread : Threads, kind : Kinds]) /\ Len(log) <= MaxEvents
    /\ acked \in 0 .. Len(log) /\ gone \in 0 .. acked /\ cursor \in 0 .. acked
    /\ state \in [Events -> RowStates]
    /\ attempts \in [Events -> Nat] /\ grants \in [Events -> Nat]
    /\ phase \in {"down", "heal", "resume", "replay", "live", "stopped"}
    /\ cache \subseteq Threads /\ next \in 1 .. Len(log) + 1 /\ goal \in 0 .. Len(log)
    /\ failed \subseteq Threads /\ retries \subseteq 1 .. Len(log)
    /\ resuming \in 0 .. Len(log) /\ span \subseteq 1 .. Len(log) /\ operating \in BOOLEAN
    /\ job \in Jobs
    /\ keys \subseteq 1 .. Len(log)
    /\ received \in [Events -> Nat] /\ redone \in [Events -> Nat]
    /\ mishaps \in 0 .. MaxMishaps /\ cutOff \subseteq Threads /\ putOff \subseteq Threads

(* "Never retry that command": across crashes, leases, fences, replays of  *)
(* skipped work and restarts, the provider receives a command that is not  *)
(* replay-safe once, and once more for each retry an operator granted.     *)
(* The code has one exception: a store failure after the call counts as    *)
(* safe to retry, and the command is run again, a turn start only after a  *)
(* restart; that happens less often than the retry limit.                  *)
SentAgainForCause ==
    \A n \in 1 .. Len(log) : log[n].kind \notin ReplaySafe =>
        received[n] <= 1 + grants[n] + redone[n] /\ redone[n] < SafeRetryLimit

(* The source never meets a gap: whichever of replay, live queue and       *)
(* operator hands it an event, all earlier ones are acknowledged, so the   *)
(* cursor is never refused and the process never dies of it.               *)
CursorContiguous == job.step = "advance" => job.event <= acked + 1

(* While a thread has a durable blocker the provider receives none of its  *)
(* commands but interrupts, whether the cache knows the blocker or not.    *)
QuarantineSilences ==
    [][\A n \in 1 .. Len(log) :
         received'[n] # received[n] /\ log[n].kind \in Guarded => Blocking(log[n].thread) = {}]_vars

(* A claimed intent is acknowledged without a delivery of its own only     *)
(* while its thread has a durable blocker: a stale cache, or a cursor that *)
(* jumps, would drop a user's command without a trace.                     *)
SkipsOnlyQuarantined ==
    [][\A n \in acked + 1 .. acked' :
         /\ log[n].kind \in Claimed /\ state[n] = "none" /\ job.step = "advance"
         => log[n].kind \in Guarded /\ (Blocking(log[n].thread) # {} \/ log[n].thread \in cutOff)]_vars

(* Commands of one thread reach the provider for the first time in the     *)
(* order they were committed, through any skipping and replaying; an       *)
(* operator's retry and an interrupt are the exceptions, and a thread in   *)
(* which a granted retry was cut off or met another blocker.               *)
OrderKept ==
    [][\A n \in 1 .. Len(log) :
         /\ received[n] = 0 /\ received'[n] > 0
         /\ log[n].kind \in Guarded /\ grants[n] = 0 /\ log[n].thread \notin putOff
         => \A m \in n + 1 .. Len(log) :
              log[m].thread = log[n].thread /\ log[m].kind \in Guarded => received[m] = 0]_vars

(* However often it crashes, the reactor catches up with all that has been *)
(* committed, unless a failing write has stopped the source, or a retry an *)
(* operator granted has outlived its event and stops every startup.        *)
OrphanedRetry == \E n \in 1 .. gone : n \in Retryable
EventsSettle == []<>(acked = Len(log) \/ phase = "stopped" \/ OrphanedRetry)

=============================================================================
