--------------------------- MODULE RuntimeJournal ---------------------------
(***************************************************************************)
(* The durable provider-runtime journal and its ingestion.                 *)
(*                                                                         *)
(* Provider output is appended to provider_runtime_events before anything  *)
(* is projected.  One drain at a time (a semaphore) selects at most one    *)
(* pending head per thread, runs the head's effects (commands deduplicated *)
(* by receipt) and then, in one transaction, advances the thread's cursor, *)
(* maintains the open-turn ledger and prunes accepted history.  A failing  *)
(* head is retried with backoff and finally quarantined; a restart         *)
(* releases every quarantined head once and replays.                       *)
(*                                                                         *)
(* Wall-clock time appears only through two flags of a failure record:     *)
(* due (next_retry_at has passed) and aged (the same error has blocked the *)
(* thread for the minimum time).                                           *)
(***************************************************************************)
EXTENDS Naturals, Sequences, FiniteSets

CONSTANTS
    Threads,            (* conversation threads                             *)
    Turns,              (* provider turn ids                                *)
    NoTurn,             (* an event that names no turn                      *)
    Shapes,             (* the [thread, turn, kind] a provider may emit     *)
    PoisonThreads,      (* threads with events that always fail to project  *)
    Fingerprints,       (* error fingerprints                               *)
    EffectsPerEvent,    (* commands one event dispatches                    *)
    PageSize,           (* PROVIDER_RUNTIME_REPLAY_PAGE_SIZE                *)
    RetainAccepted,     (* PROVIDER_RUNTIME_EVENT_RETAIN_ACCEPTED           *)
    ScanInterval,       (* PROVIDER_RUNTIME_EVENT_RETENTION_SCAN_INTERVAL   *)
    AttemptLimit,       (* PROVIDER_RUNTIME_PROJECTION_FAILURE_ATTEMPT_LIMIT*)
    UpgradeBreaksRows,  (* a restart may bring a schema that rejects a row  *)
    MaxEvents,          (* bound: events appended                           *)
    MaxCrashes,         (* bound: crashes                                   *)
    MaxTransient        (* bound: transient storage or dispatch failures    *)

Kinds == {"progress", "turnEnd", "threadEnd"}
Event == [id : Nat, thread : Threads, turn : Turns \cup {NoTurn}, kind : Kinds]

ASSUME JournalAssumption ==
    /\ NoTurn \notin Turns
    /\ Shapes \subseteq [thread : Threads, turn : Turns \cup {NoTurn}, kind : Kinds]
    /\ EffectsPerEvent \in Nat \ {0}
    /\ PageSize \in Nat \ {0}
    /\ RetainAccepted \in Nat
    /\ ScanInterval \in Nat
    /\ AttemptLimit \in Nat \ {0}
    /\ UpgradeBreaksRows \in BOOLEAN
    /\ MaxEvents \in Nat /\ MaxCrashes \in Nat /\ MaxTransient \in Nat

VARIABLES
    (* SQLite *)
    log,          (* everything ever appended, indexed by sequence          *)
    rows,         (* sequences still present in provider_runtime_events     *)
    cursor,       (* provider_runtime_thread_cursors                        *)
    openTurn,     (* provider_runtime_open_turns: first_sequence, 0 = none  *)
    settled,      (* turns that projection_turns records as settled         *)
    failures,     (* provider_runtime_projection_failures by sequence       *)
    effects,      (* per thread, the commands accepted, in commit order     *)
    attended,     (* ids whose quarantine attention has been projected      *)
    (* the server process *)
    phase,        (* how far start() has come                               *)
    lastScan,     (* lastThreadRetentionScanSequence                        *)
    draining,     (* the drain lock is held                                 *)
    fence,        (* throughSequenceInclusive of the running drain          *)
    blocked,      (* runtimeThreadsBlockedThisDrain                         *)
    batch,        (* heads enqueued on the worker and not finished          *)
    current,      (* the head the worker is processing, 0 = none            *)
    step,         (* where the worker is in processInputSafely              *)
    done,         (* commands of the current head dispatched so far         *)
    (* the environment *)
    poison,       (* ids whose projection fails deterministically           *)
    undecodable,  (* stored rows the running release cannot decode          *)
    closedAt,     (* history: last accepted event that ended each turn      *)
    crashes, transients

durable  == <<log, rows, cursor, openTurn, settled, failures, effects, attended>>
drainVars == <<draining, fence, blocked, batch>>
worker   == <<current, step, done>>
external == <<poison, undecodable, closedAt, crashes, transients>>
vars     == <<durable, phase, lastScan, drainVars, worker, external>>

-----------------------------------------------------------------------------
(* Queries *)

IsLeast(s, S) == s \in S /\ \A r \in S : s <= r
Largest(m, n) == IF m >= n THEN m ELSE n

\* COALESCE(cursor.last_acked_sequence, 0) < sequence: rows a thread has still
\* to accept.
Pending(t) == {s \in rows : log[s].thread = t /\ s > cursor[t]}

\* s is the exact next stored row of its thread: what readPendingThreadHeads
\* selects and the only row advanceThreadCursor accepts.
NextStored(s) == s \in rows /\ IsLeast(s, Pending(log[s].thread))

Quarantined(t) ==
    \E s \in DOMAIN failures : log[s].thread = t /\ failures[s].status = "quarantined"

PausedWithoutQuarantine(t) ==
    \E s \in DOMAIN failures :
        log[s].thread = t /\ failures[s].status = "active" /\ ~failures[s].due

PausedByAnyThread(t) ==
    \E s \in DOMAIN failures :
        \/ failures[s].status = "quarantined"
        \/ failures[s].status = "active" /\ ~failures[s].due

\* The NOT EXISTS of readPendingThreadHeads: quarantined, or retry not yet due.
Paused(t) ==
    \E s \in DOMAIN failures :
        /\ log[s].thread = t
        /\ \/ failures[s].status = "quarantined"
           \/ failures[s].status = "active" /\ ~failures[s].due

HeadsSkippingFailedRows ==
    LET ready(t) == {s \in Pending(t) :
                        s \in DOMAIN failures => failures[s].status = "active" /\ failures[s].due}
        heads    == {s \in rows : s <= fence /\ IsLeast(s, ready(log[s].thread))}
    IN  {s \in heads : Cardinality({h \in heads : h <= s}) <= PageSize}

\* At most one head per thread, in journal order, at most PageSize of them.
readPendingThreadHeads ==
    LET heads == {s \in rows : s <= fence /\ NextStored(s) /\ ~Paused(log[s].thread)}
    IN  {s \in heads : Cardinality({h \in heads : h <= s}) <= PageSize}

NewestRows == {s \in rows : Cardinality({r \in rows : r >= s}) <= RetainAccepted}

LedgerKeepingNewest(e, s) ==
    IF e.turn # NoTurn /\ e.kind = "progress"
    THEN [openTurn EXCEPT ![e.thread][e.turn] = IF e.turn \in settled[e.thread] THEN @ ELSE s]
    ELSE [openTurn EXCEPT ![e.thread] =
             [u \in Turns |-> IF e.turn \in {u, NoTurn} THEN 0 ELSE @[u]]]

\* updateOpenTurnLedger, for accepting event e at sequence s.
updateOpenTurnLedger(e, s) ==
    LET terminal == e.kind # "progress"
        closeAll == [openTurn EXCEPT ![e.thread] = [u \in Turns |-> 0]]
    IN CASE e.turn # NoTurn /\ ~terminal ->
              IF e.turn \in settled[e.thread] THEN openTurn
              ELSE [openTurn EXCEPT ![e.thread][e.turn] =
                       IF @ = 0 \/ s < @ THEN s ELSE @]
         [] e.turn # NoTurn /\ terminal ->
              [openTurn EXCEPT ![e.thread][e.turn] = 0]
         [] e.turn = NoTurn /\ e.kind = "threadEnd" -> closeAll
         [] e.turn = NoTurn /\ e.kind = "turnEnd" ->
              IF \E u \in Turns : {w \in Turns : openTurn[e.thread][w] # 0} = {u}
              THEN closeAll ELSE openTurn
         [] OTHER -> openTurn

DeletableIgnoringCursors(cur, open) ==
    {s \in rows :
        /\ ~(s \in DOMAIN failures /\ failures[s].status = "quarantined")
        /\ s \notin NewestRows}

\* The rows the retention scan deletes, given the ledger and cursors it sees.
Deletable(cur, open) ==
    {s \in rows :
        /\ cur[log[s].thread] >= s
        /\ ~(s \in DOMAIN failures /\ failures[s].status = "quarantined")
        /\ ~(/\ log[s].turn # NoTurn
             /\ open[log[s].thread][log[s].turn] # 0
             /\ s >= open[log[s].thread][log[s].turn])
        /\ s \notin NewestRows}

ScanDue(e, s) == e.kind # "progress" \/ s - lastScan >= ScanInterval

AdvanceEveryThread(t, s) == [x \in Threads |-> Largest(cursor[x], s)]

advanceThreadCursor(t, s) == [cursor EXCEPT ![t] = s]

LeaveFailureActive(s) == failures

\* Acceptance resolves an active failure of the row.
resolveFailure(s) ==
    [x \in DOMAIN failures |->
        IF x = s /\ failures[x].status = "active"
        THEN [failures[x] EXCEPT !.status = "resolved"] ELSE failures[x]]

NoCascade(f, kept) == f

\* A failure row goes with the journal row it refers to (ON DELETE CASCADE).
cascade(f, kept) == [x \in DOMAIN f \cap kept |-> f[x]]

RecordIgnoringFingerprint(s, fp) ==
    LET same    == s \in DOMAIN failures /\ failures[s].status # "resolved"
        attempt == IF same /\ failures[s].attempt < AttemptLimit
                   THEN failures[s].attempt + 1 ELSE IF same THEN AttemptLimit ELSE 1
        aged    == same /\ failures[s].aged
    IN  [status  |-> IF attempt >= AttemptLimit /\ aged THEN "quarantined" ELSE "active",
         attempt |-> attempt, fp |-> fp, aged |-> aged, due |-> FALSE]

RecordWithoutEvidence(s, fp) ==
    [status |-> "active", attempt |-> 1, fp |-> fp, aged |-> FALSE, due |-> FALSE]

\* A failed head keeps its evidence when the same unresolved error repeats;
\* any other error starts the evidence afresh.  attempt saturates at the limit.
recordProjectionFailure(s, fp) ==
    LET existing == s \in DOMAIN failures
        same     == /\ existing
                    /\ failures[s].status # "resolved"
                    /\ failures[s].fp = fp
        attempt  == IF same THEN (IF failures[s].attempt < AttemptLimit
                                  THEN failures[s].attempt + 1 ELSE AttemptLimit)
                    ELSE 1
        aged     == same /\ failures[s].aged
    IN  [status  |-> IF attempt >= AttemptLimit /\ aged THEN "quarantined" ELSE "active",
         attempt |-> attempt, fp |-> fp, aged |-> aged, due |-> FALSE]

\* failures with row s replaced by r.
WithFailure(s, r) ==
    [x \in DOMAIN failures \cup {s} |-> IF x = s THEN r ELSE failures[x]]

Released(r) ==
    [status |-> "active", attempt |-> 1, fp |-> r.fp, aged |-> FALSE, due |-> TRUE]

\* releaseQuarantinedThread as one UPDATE over the thread's quarantined rows.
releaseQuarantinedThread(t) ==
    [x \in DOMAIN failures |->
        IF log[x].thread = t /\ failures[x].status = "quarantined"
        THEN Released(failures[x]) ELSE failures[x]]

\* pruneSettledOpenTurns as one DELETE.
pruneSettledOpenTurns ==
    [t \in Threads |-> [u \in Turns |-> IF u \in settled[t] THEN 0 ELSE openTurn[t][u]]]

PageUndecodable == readPendingThreadHeads \cap undecodable # {}

-----------------------------------------------------------------------------
(* Initial state: an empty database and no server *)

Init ==
    /\ log = <<>>
    /\ rows = {}
    /\ cursor = [t \in Threads |-> 0]
    /\ openTurn = [t \in Threads |-> [u \in Turns |-> 0]]
    /\ settled = [t \in Threads |-> {}]
    /\ failures = <<>>
    /\ effects = [t \in Threads |-> <<>>]
    /\ attended = {}
    /\ phase = "down"
    /\ lastScan = 0
    /\ draining = FALSE /\ fence = 0 /\ blocked = {} /\ batch = {}
    /\ current = 0 /\ step = "idle" /\ done = 0
    /\ poison = {} /\ undecodable = {}
    /\ closedAt = [t \in Threads |-> [u \in Turns |-> 0]]
    /\ crashes = 0 /\ transients = 0

\* Everything the process holds in memory is gone.
ProcessLost ==
    /\ phase' = "down"
    /\ lastScan' = 0
    /\ draining' = FALSE /\ fence' = 0 /\ blocked' = {} /\ batch' = {}
    /\ current' = 0 /\ step' = "idle" /\ done' = 0

\* A transient storage or dispatch failure, within the bound.
TransientFailure == transients < MaxTransient /\ transients' = transients + 1

-----------------------------------------------------------------------------
(* Appending.  ProviderService persists before it publishes, so rows appear  *)
(* at any time the process is up, startup included.                          *)

AppendEvent(shape) ==
    /\ phase # "down"
    /\ Len(log) < MaxEvents
    /\ LET s == Len(log) + 1 IN
       /\ log' = Append(log, [id |-> s, thread |-> shape.thread,
                              turn |-> shape.turn, kind |-> shape.kind])
       /\ rows' = rows \cup {s}
       /\ \/ UNCHANGED poison
          \/ shape.thread \in PoisonThreads /\ poison' = poison \cup {s}
    /\ UNCHANGED <<cursor, openTurn, settled, failures, effects, attended, phase,
                   lastScan, drainVars, worker, undecodable, closedAt, crashes, transients>>

\* An adapter replays a stable event id.  While the row is stored append returns
\* it; once retention has removed it the event is stored again.
ReplayEvent(s) ==
    /\ phase # "down"
    /\ Len(log) < MaxEvents
    /\ \A r \in rows : log[r].id # log[s].id
    /\ log' = Append(log, log[s])
    /\ rows' = rows \cup {Len(log) + 1}
    /\ UNCHANGED <<cursor, openTurn, settled, failures, effects, attended, phase,
                   lastScan, drainVars, worker, external>>

-----------------------------------------------------------------------------
(* start() *)

\* A new process; the release it runs may have healed a poisonous projector or
\* may no longer decode a stored row.
Boot ==
    /\ phase = "down"
    /\ phase' = "prune"
    /\ \E healed \in SUBSET poison : poison' = poison \ healed
    /\ \/ UNCHANGED undecodable
       \/ /\ UpgradeBreaksRows
          /\ \E s \in rows : undecodable' = undecodable \cup {s}
    /\ UNCHANGED <<durable, lastScan, drainVars, worker, closedAt, crashes, transients>>

PruneAtStartup ==
    /\ phase = "prune"
    /\ openTurn' = pruneSettledOpenTurns
    /\ phase' = "release"
    /\ UNCHANGED <<log, rows, cursor, settled, failures, effects, attended,
                   lastScan, drainVars, worker, external>>

ReleaseAtStartup(t) ==
    /\ phase = "release"
    /\ Quarantined(t)
    /\ failures' = releaseQuarantinedThread(t)
    /\ UNCHANGED <<log, rows, cursor, openTurn, settled, effects, attended, phase,
                   lastScan, drainVars, worker, external>>

ReleaseDone ==
    /\ phase = "release"
    /\ \A t \in Threads : ~Quarantined(t)
    /\ phase' = "replay"
    /\ UNCHANGED <<durable, lastScan, drainVars, worker, external>>

\* restoreQuarantinedThreadAttention; a projection that fails is only logged.
RestoreAttention ==
    /\ phase = "restore"
    /\ LET ids == {log[s].id : s \in {x \in DOMAIN failures :
                                        failures[x].status = "quarantined"}}
       IN \/ attended' = attended \cup ids /\ UNCHANGED transients
          \/ /\ ids # {}
             /\ TransientFailure
             /\ \E lost \in ids : attended' = attended \cup (ids \ {lost})
    /\ phase' = "live"
    /\ UNCHANGED <<log, rows, cursor, openTurn, settled, failures, effects,
                   lastScan, drainVars, worker, poison, undecodable, closedAt, crashes>>

\* Any failure start() does not catch ends the process (orDie).
FailStartup ==
    /\ phase \in {"prune", "release", "restore"}
    /\ TransientFailure
    /\ ProcessLost
    /\ UNCHANGED <<durable, poison, undecodable, closedAt, crashes>>

-----------------------------------------------------------------------------
(* drainRuntimeJournalThrough, under runtimeJournalDrainLock *)

\* The startup replay and the poll drain through the high water mark; the
\* stream drains through the sequence it has just persisted.
BeginDrain(through) ==
    /\ ~draining
    /\ \/ phase = "replay" /\ through = Len(log)
       \/ phase = "live" /\ through \in 1..Len(log)
    /\ draining' = TRUE
    /\ fence' = through
    /\ blocked' = {}
    /\ UNCHANGED <<durable, phase, lastScan, batch, worker, external>>

Processable == {s \in readPendingThreadHeads : log[s].thread \notin blocked}
PageReady == draining /\ batch = {} /\ current = 0

ReadPage ==
    /\ PageReady
    /\ ~PageUndecodable
    /\ Processable # {}
    /\ batch' = Processable
    /\ UNCHANGED <<durable, phase, lastScan, draining, fence, blocked, worker, external>>

EndDrain ==
    /\ PageReady
    /\ ~PageUndecodable
    /\ Processable = {}
    /\ draining' = FALSE /\ fence' = 0
    /\ phase' = IF phase = "replay" THEN "restore" ELSE phase
    /\ UNCHANGED <<durable, lastScan, blocked, batch, worker, external>>

\* A page that cannot be read or decoded fails the whole drain: logged once the
\* server is live, fatal while start() awaits the replay (orDie).
FailDrain ==
    /\ PageReady
    /\ \/ PageUndecodable /\ UNCHANGED transients
       \/ ~PageUndecodable /\ TransientFailure
    /\ IF phase = "replay"
       THEN ProcessLost
       ELSE draining' = FALSE /\ fence' = 0 /\ UNCHANGED <<phase, lastScan, blocked, batch, worker>>
    /\ UNCHANGED <<durable, poison, undecodable, closedAt, crashes>>

-----------------------------------------------------------------------------
(* processInputSafely, one head at a time on the worker *)

TakeHead ==
    /\ current = 0
    /\ \E s \in batch : IsLeast(s, batch) /\ current' = s
    /\ step' = "effects"
    /\ done' = 0
    /\ UNCHANGED <<durable, phase, lastScan, drainVars, external>>

\* The worker is finished with the head.
HeadDone ==
    /\ current' = 0 /\ step' = "idle" /\ done' = 0
    /\ batch' = batch \ {current}
    /\ UNCHANGED <<draining, fence>>

DispatchOncePerEvent(t, command) ==
    IF \E i \in 1..Len(effects[t]) : effects[t][i][1] = command[1]
    THEN effects
    ELSE [effects EXCEPT ![t] = Append(@, command)]

\* dispatchProviderCommandOnce: the command id is derived from the event id, so
\* a command with an accepted receipt is not dispatched again.
dispatchProviderCommandOnce(t, command) ==
    IF \E i \in 1..Len(effects[t]) : effects[t][i] = command
    THEN effects
    ELSE [effects EXCEPT ![t] = Append(@, command)]

DispatchEffect ==
    /\ step = "effects"
    /\ done < EffectsPerEvent
    /\ log[current].id \in poison => done + 1 < EffectsPerEvent
    /\ effects' = dispatchProviderCommandOnce(log[current].thread,
                                              <<log[current].id, done + 1>>)
    /\ done' = done + 1
    /\ UNCHANGED <<log, rows, cursor, openTurn, settled, failures, attended, phase,
                   lastScan, drainVars, current, step, external>>

\* What ending a turn means: an end that names it, an end of the whole thread, or
\* an unnamed turn end while no other turn is open.
Ends(e, u) ==
    /\ e.kind # "progress"
    /\ \/ e.turn = u
       \/ /\ e.turn = NoTurn
          /\ \/ e.kind = "threadEnd"
             \/ \A w \in Turns \ {u} : openTurn[e.thread][w] = 0

\* The cursor transaction of processInput: canonical facts, cursor, failure
\* resolution, open-turn ledger and the retention scan commit together.
AcceptHead ==
    /\ step = "effects"
    /\ done = EffectsPerEvent
    /\ NextStored(current)
    /\ LET s == current
           e == log[s]
           kept == IF ScanDue(e, s) THEN rows \ Deletable(cursor', openTurn') ELSE rows
       IN /\ cursor' = advanceThreadCursor(e.thread, s)
          /\ openTurn' = updateOpenTurnLedger(e, s)
          /\ rows' = kept
          /\ failures' = cascade(resolveFailure(s), kept)
          /\ lastScan' = IF ScanDue(e, s) THEN Largest(lastScan, s) ELSE lastScan
          /\ closedAt' = [closedAt EXCEPT ![e.thread] =
                            [u \in Turns |-> IF Ends(e, u) THEN s ELSE @[u]]]
    /\ HeadDone
    /\ UNCHANGED <<log, settled, effects, attended, phase, blocked,
                   poison, undecodable, crashes, transients>>

\* Projection fails: the thread is blocked for the rest of this drain.
FailHead ==
    /\ step = "effects"
    /\ \/ /\ log[current].id \in poison
          /\ done + 1 = EffectsPerEvent
          /\ UNCHANGED transients
       \/ log[current].id \notin poison /\ TransientFailure
    /\ blocked' = blocked \cup {log[current].thread}
    /\ step' = "record"
    /\ UNCHANGED <<durable, phase, lastScan, draining, fence, batch, current, done,
                   poison, undecodable, closedAt, crashes>>

RecordFailure(fp) ==
    /\ step = "record"
    /\ failures' = WithFailure(current, recordProjectionFailure(current, fp))
    /\ IF failures'[current].status = "quarantined"
       THEN step' = "attention" /\ UNCHANGED <<drainVars, current, done>>
       ELSE HeadDone /\ UNCHANGED blocked
    /\ UNCHANGED <<log, rows, cursor, openTurn, settled, effects, attended, phase,
                   lastScan, external>>

\* Recording the failure failed too: only logged.
LoseFailure ==
    /\ step = "record"
    /\ TransientFailure
    /\ HeadDone
    /\ UNCHANGED <<durable, phase, lastScan, blocked, poison, undecodable, closedAt, crashes>>

\* projectQuarantineAttention; a failure of it is only logged.
ProjectAttention ==
    /\ step = "attention"
    /\ \/ attended' = attended \cup {log[current].id} /\ UNCHANGED transients
       \/ UNCHANGED attended /\ TransientFailure
    /\ HeadDone
    /\ UNCHANGED <<log, rows, cursor, openTurn, settled, failures, effects, phase,
                   lastScan, blocked, poison, undecodable, closedAt, crashes>>

-----------------------------------------------------------------------------
(* Other actors: the clock, the projector's turn settlement, the operator *)

RetryDue(s) ==
    /\ failures[s].status = "active" /\ ~failures[s].due
    /\ failures' = [failures EXCEPT ![s].due = TRUE]
    /\ UNCHANGED <<log, rows, cursor, openTurn, settled, effects, attended, phase,
                   lastScan, drainVars, worker, external>>

BlockedLongEnough(s) ==
    /\ failures[s].status = "active" /\ ~failures[s].aged
    /\ failures' = [failures EXCEPT ![s].aged = TRUE]
    /\ UNCHANGED <<log, rows, cursor, openTurn, settled, effects, attended, phase,
                   lastScan, drainVars, worker, external>>

\* projection_turns records a turn as settled, whoever dispatched the command.
SettleTurn(t, u) ==
    /\ phase # "down"
    /\ u \notin settled[t]
    /\ settled' = [settled EXCEPT ![t] = @ \cup {u}]
    /\ UNCHANGED <<log, rows, cursor, openTurn, failures, effects, attended, phase,
                   lastScan, drainVars, worker, external>>

\* ProviderRuntimeReconciler and the post-ready recovery prune the ledger.
reconcileSettledOpenTurns ==
    /\ phase = "live"
    /\ openTurn # pruneSettledOpenTurns
    /\ openTurn' = pruneSettledOpenTurns
    /\ UNCHANGED <<log, rows, cursor, settled, failures, effects, attended, phase,
                   lastScan, drainVars, worker, external>>

\* penkra_retry_thread_projection.
RetryThreadProjection(t) ==
    /\ phase = "live"
    /\ Quarantined(t)
    /\ failures' = releaseQuarantinedThread(t)
    /\ UNCHANGED <<log, rows, cursor, openTurn, settled, effects, attended, phase,
                   lastScan, drainVars, worker, external>>

Crash ==
    /\ phase # "down"
    /\ crashes < MaxCrashes
    /\ crashes' = crashes + 1
    /\ ProcessLost
    /\ UNCHANGED <<durable, poison, undecodable, closedAt, transients>>

-----------------------------------------------------------------------------
Startup == Boot \/ PruneAtStartup \/ (\E t \in Threads : ReleaseAtStartup(t))
           \/ ReleaseDone \/ RestoreAttention \/ FailStartup

Drain == (\E through \in 0..Len(log) : BeginDrain(through)) \/ ReadPage \/ EndDrain \/ FailDrain

Worker == \/ TakeHead \/ DispatchEffect \/ AcceptHead \/ FailHead
          \/ (\E fp \in Fingerprints : RecordFailure(fp))
          \/ LoseFailure \/ ProjectAttention

Clock == \E s \in DOMAIN failures : RetryDue(s) \/ BlockedLongEnough(s)

Environment ==
    \/ \E shape \in Shapes : AppendEvent(shape)
    \/ \E s \in 1..Len(log) : ReplayEvent(s)
    \/ \E t \in Threads : RetryThreadProjection(t) \/ (\E u \in Turns : SettleTurn(t, u))
    \/ reconcileSettledOpenTurns
    \/ Crash

Next == Startup \/ Drain \/ Worker \/ Clock \/ Environment

Spec == Init /\ [][Next]_vars

\* The poll fiber drains through the high water mark every 250 ms.
PollDrain == BeginDrain(Len(log))

\* Startup, the worker and a running drain keep going while the process is up;
\* time passes; and the drain lock is granted in order, so the poll, which
\* competes with the stream for it, is not overtaken forever.
Fairness ==
    /\ WF_vars(Startup)
    /\ WF_vars(Worker)
    /\ WF_vars(ReadPage \/ EndDrain \/ FailDrain)
    /\ SF_vars(PollDrain)
    /\ \A s \in 1..MaxEvents :
          /\ WF_vars(s \in DOMAIN failures /\ RetryDue(s))
          /\ WF_vars(s \in DOMAIN failures /\ BlockedLongEnough(s))

FairSpec == Spec /\ Fairness

-----------------------------------------------------------------------------
(* Type invariant *)

FailureRecord ==
    [status : {"active", "quarantined", "resolved"}, attempt : 1..AttemptLimit,
     fp : Fingerprints, aged : BOOLEAN, due : BOOLEAN]

\* Every variable holds the kind of value its table column or process-local
\* variable holds, and every stored row has a recorded event behind it.
TypeOK ==
    /\ log \in Seq(Event)
    /\ rows \subseteq 1..Len(log)
    /\ cursor \in [Threads -> Nat]
    /\ openTurn \in [Threads -> [Turns -> Nat]]
    /\ settled \in [Threads -> SUBSET Turns]
    /\ DOMAIN failures \subseteq rows
    /\ failures \in [DOMAIN failures -> FailureRecord]
    /\ effects \in [Threads -> Seq(Nat \X Nat)]
    /\ attended \subseteq Nat
    /\ phase \in {"down", "prune", "release", "replay", "restore", "live"}
    /\ lastScan \in Nat
    /\ draining \in BOOLEAN
    /\ fence \in Nat
    /\ blocked \subseteq Threads
    /\ batch \subseteq 1..Len(log)
    /\ current \in Nat
    /\ step \in {"idle", "effects", "record", "attention"}
    /\ done \in 0..EffectsPerEvent
    /\ poison \subseteq Nat
    /\ undecodable \subseteq Nat
    /\ closedAt \in [Threads -> [Turns -> Nat]]
    /\ crashes \in Nat
    /\ transients \in Nat

-----------------------------------------------------------------------------
(* Safety *)

Accepted(s) == s <= cursor[log[s].thread]

\* A provider event is never deleted before its thread has accepted it: not by
\* retention, not by a failure, not across restarts.
PendingRowsKept == \A s \in 1..Len(log) : ~Accepted(s) => s \in rows

\* A cursor never stands on an event some of whose commands were not committed,
\* whatever failed or crashed between the commands and the cursor transaction.
AcceptedEffectsCommitted ==
    \A s \in 1..Len(log) : Accepted(s) =>
        \A k \in 1..EffectsPerEvent :
            \E i \in 1..Len(effects[log[s].thread]) :
                effects[log[s].thread][i] = <<log[s].id, k>>

\* Retries, replays and restarts leave each thread's commands in journal order
\* with no command committed twice.
EffectsOnceInOrder ==
    \A t \in Threads : \A i, j \in 1..Len(effects[t]) :
        i < j => \/ effects[t][i][1] < effects[t][j][1]
                 \/ /\ effects[t][i][1] = effects[t][j][1]
                    /\ effects[t][i][2] < effects[t][j][2]

\* No event is projected while an earlier event of its thread is unaccepted.
NoEffectPastHead ==
    \A t \in Threads : \A i \in 1..Len(effects[t]) :
        \A r \in 1..Len(log) :
            log[r].thread = t /\ r < effects[t][i][1] => Accepted(r)

\* What a thread's events do to the transcript is what an uninterrupted run
\* would have done up to its cursor, and the head's own commands so far: across
\* failures, retries and crashes nothing is missing, repeated, out of order or
\* early.
EffectsFaithful == AcceptedEffectsCommitted /\ EffectsOnceInOrder /\ NoEffectPastHead

\* An unresolved failure is always about the head of its thread, so a thread
\* has at most one: the unique index on blocked threads is never violated and
\* a release never frees two rows.
FailureIsAtHead ==
    \A s \in DOMAIN failures : failures[s].status # "resolved" => NextStored(s)

\* The head the worker projects is still the exact next stored row of its
\* thread when its transaction runs, so advanceThreadCursor never answers false
\* and processInput never dies on it.
CurrentIsHead == current # 0 => NextStored(current)

\* Every accepted event of a turn that is still open (not settled, and ended by
\* no accepted event since) can be replayed after a restart: its row is stored
\* and the ledger's range for the turn covers it.
OpenTurnReplayable ==
    \A s \in 1..Len(log) :
        LET e == log[s] IN
        /\ e.kind = "progress" /\ e.turn # NoTurn
        /\ Accepted(s)
        /\ e.turn \notin settled[e.thread]
        /\ s > closedAt[e.thread][e.turn]
        => s \in rows /\ openTurn[e.thread][e.turn] \in 1..s

\* Retention always leaves the diagnostic tail: the newest RetainAccepted
\* events ever appended.
TailKept == \A s \in 1..Len(log) : s + RetainAccepted > Len(log) => s \in rows

\* Retention keeps both kinds of rows a restart or an operator comes back to.
RetentionKeeps == OpenTurnReplayable /\ TailKept

\* While a thread is quarantined none of its later rows is accepted and no
\* command of it is committed.
QuarantineHolds ==
    [][\A t \in Threads : Quarantined(t) =>
          cursor'[t] = cursor[t] /\ effects'[t] = effects[t]]_vars

\* A thread enters quarantine only from a head that already carries evidence:
\* a first failure, or a failure with a new error, never quarantines.
QuarantineNeedsRepetition ==
    [][\A s \in DOMAIN failures' :
          failures'[s].status = "quarantined" =>
              /\ s \in DOMAIN failures
              /\ \/ failures[s].status = "quarantined"
                 \/ failures[s].fp = failures'[s].fp /\ failures[s].aged]_vars

\* The journal, with its retention, failures, batches and restarts, still
\* appends to one log and moves each thread through it one event at a time.
Ordered == INSTANCE OrderedProjection
    WITH journal <- [s \in 1..Len(log) |-> log[s].thread], accepted <- cursor
OrderedSpec == Ordered!Spec

-----------------------------------------------------------------------------
(* Liveness *)

\* No event up to s of s's thread fails deterministically.
Clear(s) ==
    /\ s \in 1..Len(log)
    /\ \A r \in 1..s : log[r].thread = log[s].thread => log[r].id \notin poison

\* An event with no poisonous event before it in its thread is eventually
\* accepted, whatever happens to other threads and at whatever step the process
\* restarts: one thread cannot stop another, and a healed thread drains.
ClearEventsAccepted ==
    \A s \in 1..MaxEvents : Clear(s) ~> (s \in 1..Len(log) /\ Accepted(s))

\* A thread whose head keeps failing is eventually shown as needing attention.
PoisonBecomesVisible ==
    \A s \in 1..MaxEvents :
        (s \in 1..Len(log) /\ NextStored(s) /\ log[s].id \in poison)
            ~> (s \in 1..Len(log) /\ (log[s].id \in attended \/ log[s].id \notin poison))

\* A quarantined thread does not stay quarantined without its user-visible
\* error: "a thread that cannot safely advance is visibly settled".
QuarantineBecomesVisible ==
    \A s \in 1..MaxEvents :
        (s \in DOMAIN failures /\ failures[s].status = "quarantined")
            ~> (\/ s \notin DOMAIN failures
                \/ failures[s].status # "quarantined"
                \/ failures[s].status = "quarantined" /\ log[s].id \in attended)
=============================================================================
