# Penkra: a TLA+ model of the server's runtime core

Penkra is a desktop application that runs coding-agent providers (Codex, Claude,
OpenCode and others) behind one local server. Its server keeps conversation threads in
SQLite, sends commands to provider processes and projects what the providers emit back
into the threads. This directory holds TLA+ modules for the parts of that server where a
mistake loses, repeats or reorders a conversation, TLC configurations that check them on
small instances, and proofs that TLAPS checks for every instance.

Paths below are relative to `src/`; `server/` stands for `apps/server/src/`.

## 1. Inventory

| Component | State it keeps | Operations | What makes it correct |
| --- | --- | --- | --- |
| **Runtime journal** (`server/persistence/Layers/ProviderRuntimeEvents.ts`, migrations 066 and 090) | SQLite tables: events, per-thread cursors, open-turn ledger, failures | append, read heads, advance a cursor (with ledger, failure and retention in the same transaction), record a failure, release, prune the ledger | nothing pending is deleted; each thread in order; failures block one thread only; retention keeps what a restart replays |
| **Ingestion driver** (`server/orchestration/Layers/ProviderRuntimeIngestion.ts`) | drain lock and fence, threads blocked in this drain, worker queue, startup progress | startup replay, drain, process a head, fail it, quarantine, show attention, poll, reconcile | commands neither lost nor doubled over crashes; a thread that cannot advance becomes visible |
| **Text assembly** (same file) | per-message text buffer, delivery mode and known messages per turn, all process-local | delta, spill, item completion, turn end, rebuild at restart | the finished message is what the provider said |
| **Drainable worker** (`packages/shared/src/DrainableWorker.ts`) | phase, outstanding count, idle and slot deferreds, bounded queue | enqueue, tryEnqueue, drain, quiesce, stop, consume | accepted work is finished; no lost wake-up; drain covers what came before it |
| **Event delivery** (`server/persistence/Layers/OrchestrationEventDeliveries.ts`) | one delivery row per consumer and event, a contiguous cursor per consumer | claim, complete, retry, fail, requeue an expired claim, advance, collect the acknowledged tail | every event settled once, cursor contiguous, nothing collected that is needed |
| **Provider command reactor** (`server/orchestration/Layers/ProviderCommandReactor.ts`) | cursor and quarantine cache, live queue, claims with an owner | replay then follow live, execute a provider intent, fence and abandon a thread's blockers | no command is run again without cause; later intents of a fenced thread run |
| **Queued turn promotions** (`server/persistence/Layers/QueuedTurnPromotions.ts`) | one row per queued turn with state and claim | enqueue, claim (steer first), promote, release, cancel, durable message action | a queued turn starts at most once, a cancelled one never |
| **Orchestration engine** (`server/orchestration/Layers/OrchestrationEngine.ts`) | command queue, receipts, event store, in-memory read model | dispatch with timeout, decide, commit, reconcile | one outcome per command id, the caller learns the stored one |
| **Command admission** (`server/orchestration/orchestrationAdmission.ts`) | three lanes and a wake queue | admit, take next | a token always finds a command, control is never starved |
| **Runtime reconciler and startup reconciliation** (`server/provider/Layers/ProviderRuntimeReconciler.ts`, `server/orchestration/startupTurnReconciliation.ts`) | none of their own | settle turns no runtime owns | no thread runs forever, no live turn is settled |
| **Others** | thread switch coordinator, thread deletion, managed attachments, database lock and migration backup, provider ingress and processes, WebSocket admission, web transport, desktop shell | | listed with their reasons in `PROJECT.json` |

How they interact. A provider process emits events into a bounded ingress; the event pump
**appends** them to the journal before anything else sees them. Ingestion **drains** the
journal: it reads one pending head per thread, puts the heads on a drainable **worker**,
and the worker turns each event into commands for the **engine** (each with an id derived
from the event, so that a receipt makes it idempotent) and then moves the thread's cursor
in one transaction. Assistant text goes through the **assembly** on the way. The engine
commits domain events; the **reactor** consumes them through event **delivery** and calls
providers, which closes the loop. Queued turns are **promoted** by the reactor when a
thread becomes free. At startup the journal is replayed before clients connect, and the
reconcilers settle what the previous process left open.

What is hard: the journal's transactions, its worker, the poll, the live stream, the
operator and the retention run interleaved; the process may die between any two commands;
the same event may be projected several times; one failing thread must not hold up others;
and much of the text being assembled lives only in memory. `PROJECT.json` lists each such
hazard at its line, with the property that would catch it.

## 2. Modules and plan

| Module | Models | Kind |
| --- | --- | --- |
| `OrderedProjection` | what the journal promises: one log, each thread accepts its own events in order without gaps | abstract |
| `RuntimeJournal` | the journal repository and the ingestion driver | detailed, implements `OrderedProjection` |
| `RuntimeJournalProofs` | theorems about each moment of `RuntimeJournal`: rows, heads, failures, and the implementation of `OrderedProjection` | proofs |
| `RuntimeJournalHistoryProofs` | theorems about its history: commands, retention, quarantine | proofs |
| `BoundedWork` | what a drainable worker promises: bounded admission, everything admitted settles before the stop | abstract |
| `DrainableWorker` | `makeDrainableWorker`, fiber by fiber | detailed, implements `BoundedWork` |
| `DrainableWorkerProofs` | theorems about `DrainableWorker`, the implementation of `BoundedWork` included | proofs |
| `AssistantAssembly` | the text of one turn from deltas to transcript | detailed |
| `AssistantAssemblyProofs` | theorems about `AssistantAssembly` | proofs |
| `CommandDelivery` | delivery rows and the reactor's intent source over them: claims, cursor, fences, recovery, operator, collection | detailed, composes repository and reactor |
| `CommandDeliveryProofs` | theorems about `CommandDelivery` | proofs |
| `CommandDeliveryOrderProofs` | theorem about the order in which `CommandDelivery` sends | proofs |
| `TurnPromotion` | the queue of turns and the three fibers of the reactor that fill and empty it | detailed, composes repository and reactor |
| `TurnPromotionProofs` | theorems about `TurnPromotion` | proofs |
| `CommandLedger` | what the engine promises: ids decided once and for good, and calls told what fits the decisions | abstract |
| `CommandEngine` | one command from admission to answer: lanes, worker, receipts, deferred projection, publication | detailed, composes engine and admission, implements `CommandLedger` |
| `CommandEngineProofs` | theorems about `CommandEngine`, the implementation of `CommandLedger` included | proofs |
| `MC...` | instances for TLC | |

The order followed the damage a mistake does: the journal, its worker and the assembly; the
delivery of commands to providers; the queue of turns; the engine. What is left, in order:

1. The projected status of a session, for the attention of a quarantined thread against a turn
   that starts meanwhile, and `RuntimeReconciler` over it.
2. The provider thread switch coordinator, a saga whose steps are provider calls.
3. Managed attachments: reference counts of files against deletions.

Every safety and action property of the passing runs is a theorem for all instances (section 10).
Worth proving next is what composition would state: that a journal which dispatches its commands
through `CommandLedger`, and so may be told of a failure without a look at the receipt, still
projects in order and once.

## 3. The journal: `RuntimeJournal`

**State.** `log` is everything ever appended, `rows` what retention has left of it;
`cursor`, `openTurn`, `failures` and `settled` are the SQLite tables of those names
(`settled` is the part of `projection_turns` the ledger reads). `effects` is the list of
commands accepted per thread, in commit order; `attended` the events whose quarantine was
shown. The process holds `phase` (how far `start()` has come), `lastScan`, the drain
(`draining`, `fence`, `blocked`), the worker's `batch`, and the head in progress
(`current`, `step`, `done`). `poison` is the set of events whose projection always fails,
`undecodable` the stored rows the running release cannot decode. `closedAt` is history,
used only to state which turns are still open.

**Actions.** One per handler or per transaction. `AcceptHead` is the whole cursor
transaction of `processInput`: cursor, failure resolution, ledger and retention scan
together, with the deletion cascading to failures. `DispatchEffect` is one command, with
its receipt; commands and the transaction are separate steps because they commit
separately, and `Crash` may fall between any two. `FailHead`, `RecordFailure`, `LoseFailure`
and `ProjectAttention` are the error path of `processInputSafely`; `LoseFailure` and the
failing branch of `ProjectAttention` are the two places where the code only logs.
`BeginDrain`, `ReadPage`, `EndDrain`, `FailDrain` are `drainRuntimeJournalThrough` under its
lock. `Boot` to `RestoreAttention` are `start()`. `ReplayEvent` is an adapter that repeats a
stable event id: while the row is stored nothing happens, after retention it is stored
again. `RetryThreadProjection` is the operator's tool.

**Abstractions.** What an event contains is reduced to its thread, its turn and whether it
ends a turn or the whole thread; what it projects is `EffectsPerEvent` commands. Time is two
flags of a failure: `due` (the backoff has passed) and `aged` (it has lasted the minimum
time), set by clock actions at any moment. The number of attempts saturates at the limit. Two
multi-row statements (`releaseQuarantinedThread`, `pruneSettledOpenTurns`) are one step, as
each is one SQL statement. A failure's `error_detail` is dropped; its fingerprint is a model
value. A failing transaction changes nothing, so it is the same as failing before it.

**Bounds** (all named constants): `MaxEvents`, `MaxCrashes`, `MaxTransient`. The page size,
the retained tail, the scan interval and the attempt limit are constants of the code scaled
down: 128, 512, 512 and 12 become 1 or 2, which keeps what matters of them (a page smaller than
the threads, a tail smaller than the log, a limit that needs a repetition).

| Run | Instance | Shows |
| --- | --- | --- |
| `journal_failures` | 2 threads, one of them poisonous, 3 events, 2 commands each, 1 crash, 1 transient failure, page of 1 | `TypeOK`; no pending row lost (`PendingRowsKept`); commands committed before the cursor, once, in order, never past the head (`EffectsFaithful`); failure only at the head (`FailureIsAtHead`); the worker's head is the next stored row (`CurrentIsHead`); quarantine holds (`QuarantineHolds`); refinement of `OrderedProjection` (`OrderedSpec`) |
| `journal_turns` | 1 thread, 2 turns, every kind of end, 2 fingerprints, settlement by others, 3 events | replayable open turns and the diagnostic tail (`RetentionKeeps`); no quarantine without repetition (`QuarantineNeedsRepetition`) |
| `journal_liveness` | 2 threads, 2 events, 1 crash, fairness | healthy events are accepted (`ClearEventsAccepted`); a head that keeps failing becomes visible (`PoisonBecomesVisible`) |
| `journal_upgrade` | as above, a release that cannot decode a stored row | finding 1 |
| `journal_attention` | as above, one transient failure | finding 2 |

Three events suffice for the safety runs: two of one thread and one of the other give every order of
failing, retrying and overtaking; with two turns, an event of each and one end give every
ledger transition. The two fingerprints are interchangeable, so `journal_turns` takes them as a symmetry
set. Deadlock is checked in the three passing runs.

**Fairness.** The drain poll runs every 250 ms behind a fair semaphore (`SF` on `PollDrain`:
the lock is granted in order, so the stream cannot overtake the poll for ever), and a drain,
the worker and startup make progress while the process is up (`WF`). Time passes (`WF` on the
two clock actions). Nothing makes a provider emit, a process crash or an operator retry. A
process that is down is started again: the desktop shell supervises it.

**Page size and liveness.** `ClearEventsAccepted` needs room in a page for a healthy head
next to the failing ones; with the code's 128 it takes that many failing threads to fill a
page. The instance gives two places for two threads.

## 4. The worker: `DrainableWorker`

`pc` is where each fiber stands: producers (each call is an `enqueue` or a `tryEnqueue`), drainers, and
closers, which call `quiesce` or `stop`. An action is one atomic section of the code: a `Ref.modify`, the
completion of a deferred, a queue operation. `idle` and `slotAvailable` are the deferreds held
in the state, numbered so that a fiber may wait on an old one; `fired` is the set already
completed. The consumer takes, processes and then settles: `FinishOne` updates the count and
`Signal` completes the deferreds, as in the code, in separate steps, so that others run in
between. An item may succeed, fail (logged), or end in an interruption, which ends the
consumer (`exited`). A producer that waits may be interrupted, but not between reservation and offer.

| Run | Instance | Shows |
| --- | --- | --- |
| `worker` | 2 producers with 2 calls each, 1 drainer, 1 closer, capacity 2, fairness | `TypeOK`; accepted items in exactly one place (`NothingDropped`); an offer never suspends (`OfferNeverSuspends`); a drain covers what preceded it (`DrainCovers`); refinement of `BoundedWork` (`WorkSpec`); a waiting caller returns and stop completes (`CallersReturn`) |

The liveness property excepts the case in which an interrupted item has ended the consumer:
the code leaves later work unsettled there. Four calls on two places make callers wait and wake
in both orders. The fairness is weak for every fiber that is inside a call, and nobody has to
call anything. Two stops at once are beyond the instance; the safety theorems of section 10 hold
for any number of closers. Deadlock is not checked: clients may stop calling.

## 5. Text assembly: `AssistantAssembly`

One turn of one thread. Receiving appends to the journal; processing an event computes its
commands from the caches, changes the caches, dispatches each command under its receipt and
accepts. The token of a delta is its sequence number, so a message is the list of deltas it
contains and repetition, loss and order are visible; a completion that carries accumulated text
replaces the message by one token. `Fail` retries the event from its start with the caches as
they are; `Crash` drops the caches and `Restart` rebuilds them as
`rebuildAcceptedOpenTurnState` does.

A *scenario* fixes the delivery mode, whether completions carry text, whether items come one after the
other, and how many faults there are. `Sound` names the scenarios in which the code does what its
documentation says:

| | Faults | Delivery |
| --- | --- | --- |
| `Calm` | none | any |
| `Streamed` | any number of retries | streamed, completions without text |
| `Carried` | any number of retries | items one after the other, completions with text |
| `Restarted` | one restart | streamed, items one after the other, completions with text |

`assembly_sound` checks all of them with at most one restart and two failures. The
classification is exact on this instance: every scenario with at most two restarts and one failure that
is not `Sound` violates one of the run's properties. `assembly_retry` and `assembly_restart` keep the
two shortest of those (findings 3 and 4). Six events are two deltas and a completion for two
items, or more deltas of one item than the buffer holds (`BufferLimit` 1), so that spilling
happens. A behaviour ends with its turn; deadlock is not checked.

## 6. Delivery of commands to providers: `CommandDelivery`

**State.** `log` is the event store, of which `1 .. gone` have been collected; `acked` is the
consumer's cursor row; `state`, `attempts` and `grants` are the delivery rows and the operator's
reconciliations. The process holds `phase` (attach, heal, resume, replay, live), its own
`cursor`, the `cache` of quarantined threads, the live queue (`next`, since the queue hands over
events in order), what startup has still to resume or heal, the skipped events still to be
replayed (`span`), the `keys` of turn starts handled within the last half hour, and the `job` in
hand. Two variables are history: `received`, how often the provider has been called for an event,
and `redone`, how often a safe retry has put an event back that the provider may have received.

**Actions.** `PassOver` to `Advance` are one event's way through `processDurableEvent`: the
check against the quarantine, the claim, the provider's call, its answer, the settlement of the
row, the acknowledgement with its collection. `Send` and the answers are separate steps, since
a crash falls between what the provider has seen and what the row says. A turn start whose key
is set is not sent (`HandledAlready`): its retry is completed without a call, unless a crash has
emptied the keys in between. `RecoverForTurn`, `LeaseLost` and the `Fence` actions are the
recovery of a thread: fence its runtime, abandon its blockers, replay what was skipped. `Boot` to `LiveEvent` are the source's startup and its loop.
`OperatorRetries` and `OperatorAbandons` are `reconcileDelivery`.

**Abstractions.** An event is a thread and a kind, and the kinds are the classes that
`providerIntentClassification.ts` distinguishes. One permit serialises source and operator, so
there is one job. Healed threads come in any order; a page of blockers is all of them. The
operator acts when the source is live or stopped, on blockers the listing shows; in the code a
request may also come between two events of the startup, since the permit is taken per event. A
handler is writes to the store, one call, and writes to the store: a failing write is classed as
safe to retry whether it comes before the call or after it (PCR:161-163), and so is it in the
model; only the handler of `created`, which sets a map entry, has no such write.

| Run | Instance | Shows |
| --- | --- | --- |
| `delivery` | 6 histories of up to 4 events of 2 threads, a tail of 3 rows, 2 attempts, 2 crashes or failures, 1 granted retry, fairness; 2,007,081 states | positions fit (`TypeOK`); nothing unprovable is sent again but for a grant or a safe retry after the call (`SentAgainForCause`); the cursor meets no gap (`CursorContiguous`); a blocked thread is silent (`QuarantineSilences`); only blocked work is skipped (`SkipsOnlyQuarantined`); order per thread (`OrderKept`); the reactor catches up with the log (`EventsSettle`) |

Three commands of a thread are a blocker, something skipped behind it, and what recovers the
thread or is skipped too; the bystander shows that a quarantine stays within its thread; the
tail is smaller than the longest history, so that collection happens. Two mishaps are what it takes
to interrupt a recovery from an earlier interruption. `SentAgainForCause` is about everything that
could send a command again, crashes, lost leases, fences, replays and resumptions, and allows two
causes: a grant, and a store failure after the call (observation 16), which by its second
conjunct happens less often than the retry limit, also over restarts. Without their exceptions
`SkipsOnlyQuarantined` and `OrderKept` hold with one mishap and fail with two. The first excepts the threads in `cutOff`, whose
fence a mishap has cut off (observation 7), the second those in `putOff`, of which a granted retry was
cut off or met another blocker (observation 8); each is history that the code does not
keep. The run's histories are too short for the second way into `putOff`; the proof of `OrderKept`
brought it to light. Fairness is weak for the
reactor as a whole: one process runs what it can run and is started again after a crash. A
failing write stops the source for good (`phase = "stopped"`), as the code does; `EventsSettle`
excepts that, and a granted retry whose event was collected (section 9, further
observations). Deadlock is off, because a history ends.

## 7. Queued turns: `TurnPromotion`

**State.** The rows (`state`, `tries`), the receipts of their start commands (`dispatched`), the
live turn and the projected `starting`, the terminal events that wait (`terminals`), and the
reactor's process-local guards: the reservation of a queued dispatch, `draining`, the OpenCode
barrier. `held` are the threads with a restart marker beside a stopped session, `quarantined` those
that a delivery ended uncertain or dead blocks. `hand` is what the source and the terminal fiber
are doing (its `retry`: the start has failed in the store and will be run again), `drain` each
fiber's drain of the queue. `sent`, `fate` and `raced` are history.

**Actions.** Three fibers interleave: the source, which handles the log (`TurnQueued`,
`TurnStart`, cancel, steer, stop, delete); the terminal fiber, which drains after a turn's end;
and the recovery sweep. A drain is a sequence of steps, claim, dispatch, mark, and its failure
branches, because another fiber may move between any two of them. A start may fail in the store at
each of its steps (`StoreFails`); it is marked for a retry, and the retry finds its key set and
returns (`RetryReturns`). A steer whose row came from a requeued start cancels it and fails
(`SteerRefused`). What fails may quarantine its thread: later actions there are skipped
(`SkipAction`), a later start first recovers the thread (`RecoverThread`) or is skipped with its
failure shown (`SkipStart`). `Crash` drops the process-local state and leaves promoting rows to be
taken back; a claimed intent in hand ends uncertain and its thread quarantined, but a start marked
for a retry is run again, without its key. The crash, a recovery or a stop may leave a marker
beside a stopped session (`held`): `ContinueTurn` commits the continuation, which may never
happen, since a failure to dispatch it is only logged; meanwhile the sweep leaves the thread's
queue alone (`Look`).

**Abstractions.** A row is named by its event, a turn by the event that started it; the decider
may queue or start a message (its projection lags); the provider has no native steering. Left
out: the quiesce flag, edits that resend, `runtime.error`, interrupts of a pending start, an
operator's replay of an interrupted action, and the replay of what a quarantine has skipped
(`CommandDelivery` has it). The retry budget is not kept: a retry in the same process returns at
its key, so there is no third attempt without a crash. Which turns a crash leaves to be continued
is a free choice among the threads that had a start. The marker is not a variable of its own:
`Marked` says where one may stand beside a session that a stop settles.

| Run | Instance | Shows |
| --- | --- | --- |
| `promotions` | 12 scenarios of up to 4 requests over a parent and a subagent thread, 3 messages, up to 2 crashes or failures, 2 of them with continued turns, fairness; 517,452 states | rows fit (`TypeOK`); a message starts once (`StartedOnce`); one drain per thread (`OneDrain`); none is lost (`NothingLost`); a withdrawn one stays unsent (`WithdrawnStaysUnsent`); order (`OldestFirst`); the queue empties (`QueueEmpties`) |

A scenario is a list of requests in order, so that each kind of request meets each stage of a
promotion; no log is longer than `MaxLog`, 14 (`TypeOK` says so). The scenario with two mishaps lets
a crash follow a store failure, a quarantine or another crash. Turns end, fibers run, the sweep
recurs (weak fairness); users ask nothing by obligation, and nothing obliges a restart to continue a
turn. Deadlock is off: a scenario ends.

Several properties name exceptions; each is a behaviour of the code listed in section 9.
`StartedOnce` excepts `raced` messages: steered with a start under way (observation 13), or accepted
by a start whose record failed and whose retry a crash preceded (16). `NothingLost` counts a message
as answered for when its owner withdrew it or its failure is on record (a failed or skipped start, a
delivery that ended uncertain or dead); two losses are silent, `"swallowed"` (10) and `"dropped"`
(17). `QueueEmpties` excepts the threads in `held` (19) and a queue that is `HeldForNothing` (12,
20). `OneDrain` and `OldestFirst` except what a stop has `Cleared` (11).

## 8. The engine: `CommandEngine`

**State.** Durable: the event `log`, `receipts`, the deferred projector's `cursor` and the
`summary` of each thread. In the process: the three `queues` with their `wake` tokens, `phase`,
`outstanding`, the worker's step, the maintenance `lock`, each call as its caller sees it
(`caller`), its `execution` state and its `result`, and the catch-up (`dirty`, `catchUp`).
`heard` is what live subscribers have been told; `torn`, `slipped` and `unread` are history of
the three ways an error is swallowed.

**Actions.** `Dispatch` and `GiveUp` are the caller with its deadline; `TakeToken` and `Look` are
the worker's walk over the lanes, one look per step, since commands may arrive in between;
`Begin` to `Finish` are `processEnvelope`. `Timeout` interrupts the command at any step,
`Fail` and `ReconcileFails` are the error paths, and reconciliation republishes what was stored.
The catch-up fiber competes for the same lock. `Restart` is a crash and a start.

**Abstractions.** A command produces one event; a receipt's fingerprint matches; a deadline is
a free choice that counts as a mishap; the idle deferred of `drain` is the condition
`outstanding = 0`. `repairState` and `refreshCommandReadModel` are not modelled.

| Run | Instance | Shows |
| --- | --- | --- |
| `engine` | 4 calls over 3 lanes, one a repetition of another's id, three at a time; capacity 2, reserve 1; 2 mishaps; fairness | tokens and counts match (`TypeOK`); the promised ledger is implemented (`LedgerSpec`); the live bus has order and no gap (`BusInOrder`); summaries catch up (`SummariesKept`); everything settles (`EngineSettles`) |

Two mishaps let a deadline meet a failing reconciliation, and a crash follow either. The
worker, the catch-up and the end of a stop are weakly fair; calls and stops come when they like.
Deadlock is off: callers stop.

**What it promises.** `CommandLedger` is the engine as its callers may see it: a `log`, a `verdict` per
id and an `answer` per call. `Accept` decides an open id and appends one event; `Confirm`,
`Reject` and `Deny` tell a call, once, what agrees with the decision; `Misreport` is the answer given
when the receipt cannot be read, the only one that may be wrong. The refinement mapping takes the
verdict from `receipts` and the answer from how the call ended for its caller: refused, abandoned, or answered
(`Told`). So a call that was told it failed is never carried out later, a stored rejection is never
followed by an acceptance, and no answer changes, wherever deadlines, failures and restarts fall.
`AnswersTrue` is what this says of a single state.

## 9. Findings

With a run that shows them:

1. **One row that cannot be decoded stops every thread** (`journal_upgrade`).
   `readPendingThreadHeads` decodes the page's rows in one effect; a failure of one fails the
   read, which is fatal during startup and repeats at every poll afterwards.
   `docs/provider-runtime-projection-recovery.md:11` promises that one thread cannot prevent
   another from projecting.
2. **A quarantine can stay invisible** (`journal_attention`). When the projection of the
   attention event fails, the failure is logged and nothing tries again until a restart or a manual
   release. The same document, lines 14-15, promises that such a thread is visibly settled.
3. **A retry repeats buffered text** (`assembly_retry`). The delta is appended to the buffer
   before the event is accepted, so the retry of the event appends it again. Lines 12-13
   promise idempotence across retry and restart.
4. **A restart repeats finished text** (`assembly_restart`). The rebuild replays deltas but
   not completions, so a finished item's buffer returns and the end of the turn appends it
   to the finished message under a new command id.

Further observations, met while modelling; the properties name them as exceptions, or a
property that forbade them would fail. (`PCR` is `ProviderCommandReactor.ts`, `DEL`
`OrchestrationEventDeliveries.ts`, `QTP` `QueuedTurnPromotions.ts`, `ENG` `OrchestrationEngine.ts`,
all under `server/`.)

5. **A turn start recovers a thread without replaying its skipped work** (PCR:3566-3569).
   The trace: event 1, a side effect of thread *t*, ends `uncertain` and blocks *t*; event 2,
   another command of *t*, is acknowledged without a delivery; event 3 starts a turn of *t*:
   `RecoverForTurn` fences the runtime, `Abandon` settles event 1, and event 3 is sent. Event 2
   is never sent and no row says so. The replay runs only after a startup recovery or an operator's
   reconciliation; `ProviderCommandReactor.test.ts:1291-1292` says skipped work "must be
   replayed once the thread resumes".
6. **A granted retry may outlive its event.** The operator grants a retry, the process dies
   before it runs, and collection removes the event; every later startup reads the retryable
   delivery and stops on the missing event (`OrphanedRetry`). Blockers whose event was collected
   are not listed either, because of the inner join at DEL:343.
7. **A fence interrupted at its end leaves a stale quarantine** (PCR:3453-3484). Between the
   `reconcile` that abandons the last blocker and `quarantinedThreads.delete` the loop awaits one
   more listing. If that read fails or its caller is interrupted, the source stays up with a thread
   in the cache that no row blocks: its later side effects, a turn start included (its fence
   returns null), are acknowledged without a delivery until a restart, although PCR:3417-3420
   calls them "only skipped locally while the quarantine was in force".
8. **A retry resumed at startup may replay skipped work late** (PCR:3843-3868). What was skipped
   behind event *e* is replayed when *e* is resumed, which may be after a later event *m* of its
   thread was sent. One way: the operator grants a retry of *e*, it is interrupted before the
   claim, the thread is no longer blocked and *m* is sent; the next startup resumes *e* and
   replays. The other needs no interruption of the retry: an interrupt of the thread has ended
   `uncertain` too, so the granted *e* only meets that blocker and is skipped, its row still
   `retry`; the operator abandons the interrupt, *m* is sent, and a later startup resumes *e* and
   replays what lies between it and the interrupt.
9. **A stop between claim and dispatch cancels a row whose start then commits** (QTP:196-202):
   the turn runs although its row is cancelled.
10. **A requeue that meets the message's own row is swallowed** by the conflict clause while
   that row is still promoting, and the message is lost (PCR:1780, fate `"swallowed"`).
11. **A session stop clears the guard of a running drain** (PCR:3019), against the note at
   PCR:710-713, so that two drains of a thread overlap (`Cleared`).
12. **A reservation or barrier may wait for nothing** (PCR:1686-1690): a dispatch answered by a
    receipt sets a reservation no event will release, and a terminal event without a turn id
    leaves the barrier of a dead turn (`HeldForNothing`).
13. **A steer that meets a row some drain still holds starts the message twice** (`raced`); after
    a stop has let two drains overlap the row may look queued meanwhile (`UnderWay`). And a crash
    in the middle of a cancellation abandons it after the row is gone (`"interrupted"`).
14. **A summary may slip for good** (ENG:331-332, 356-357, 392): a deadline that cuts off the
    deferred projection after the commit leaves no mark, and the mark is cleared after the lock
    is released; the next event moves the cursor past what was missed, where no bootstrap
    looks (`slipped`).
15. **Swallowed errors of a reconciliation**: when it fails after a commit, its events are never
    published live (`torn`); when the receipt cannot be read, a committed command is answered
    with a timeout (`unread`).
16. **A store failure after the provider call sends the command again.** Rollback (PCR:2732-2745),
    edit and resend (PCR:2821-2842) and a turn start (PCR:1946) write to the store after the call; a
    `PersistenceSqlError` there is classed as safe to retry (PCR:161-163), and the handler runs
    again without an operator's word. A turn start is protected by its key until the process
    restarts (`redone`, `raced`).
17. **A turn start that fails in the store is dropped by its own key** (PCR:1723). The key is set
    before the thread is read; the retry that follows a failing read or write finds it, returns, and
    the delivery is completed as accepted. The message was not sent and nothing records it
    (fate `"dropped"`). An operator's granted retry within half an hour, in the same process, meets
    the same key.
18. **A requeued start cannot be steered** (PCR:2050-2057). The row of a start that went back to the
    queue (PCR:1779) names a `thread.turn-start-requested` event; a steer cancels the row, finds that
    the source is no `thread.turn-queued` event, and fails. The message is gone from the queue and
    the thread is blocked by the uncertain delivery (fate `"refused"`).
19. **A continuation that fails to start holds the queue** (PCR:2351-2362). The sweep passes over a
    thread with a restart marker and a stopped session; the dispatch that would clear the marker
    runs once at startup, and its failure is only logged (`restartTurnRecovery.ts:98-104`). The
    thread's messages wait until something else is started or stopped there (`held`). A stop that is
    handled after a later start, or after its session's turn was projected as running again, leaves
    the same pair behind: its own commit clears the marker, its handling does not.
20. **A session may stay projected as starting.** A start whose handling fails in the store, or finds
    its message gone, leaves the projected session at `starting`, which holds back every drain but
    that of a terminal event (`HeldForNothing`).

## 10. Proofs

**The journal.** `RuntimeJournalProofs` proves, for any sets of threads, turns, shapes and
fingerprints and any bounds that satisfy `JournalAssumption` (typing of the constants; attempt
limit, page size and commands per event positive):

| Theorem | States |
| --- | --- |
| `TypeCorrectness` | `Spec => []TypeOK` |
| `NoPendingRowLost` | `Spec => []PendingRowsKept` |
| `OneFailurePerThread` | `Spec => []FailureIsAtHead` |
| `CursorNeverRefuses` | `Spec => []CurrentIsHead` |
| `QuarantineStopsTheThread` | `Spec => QuarantineHolds` |
| `ImplementsOrderedProjection` | `Spec => OrderedSpec` |

The inductive invariant is

    IInv == TypeOK /\ PendingRowsKept /\ BatchIsHeads /\ WorkerInBatch
            /\ QuarantineNotEnqueued /\ FailureIsAtHead

None of the wanted properties is inductive alone. That the worker's head is next in its thread
depends on the whole batch having been heads when the page was read and on nothing else
moving a cursor: `BatchIsHeads`, and `WorkerInBatch` ties the head in progress to the batch. That a
failure is at the head depends on its row being the one in progress when it is recorded (hence
`CurrentIsHead`, which follows) and on acceptance resolving it. That a quarantined thread does not
advance depends on no head of it waiting in the batch, except the one being announced:
`QuarantineNotEnqueued`, which in turn uses `FailureIsAtHead` to know that the thread's other
failures cannot be in the way. And that the accepted event is the next one *of the log*, as the
abstract specification demands, and not only the next stored row, is `PendingRowsKept`.
Actions are grouped by what they touch; `HeadStays` is the lemma they share: a pending row
remains its thread's head while its thread's cursor stands and rows are only appended or
removed elsewhere.

**The journal's history.** `RuntimeJournalHistoryProofs` builds on that invariant:

| Theorem | States |
| --- | --- |
| `TranscriptIsFaithful` | `Spec => []EffectsFaithful` |
| `RetentionIsSafe` | `Spec => []RetentionKeeps` |
| `QuarantineIsDeliberate` | `Spec => QuarantineNeedsRepetition` |

`History` is what makes the first one inductive. `DispatchEffect` appends a command only if it is
not committed yet, so order depends on where the uncommitted ones can be. `CommittedFromFirst`: an
event's commands are committed from the first on, so the uncommitted ones of the head follow its
committed ones. `IdsAreFirst` and `CopiesOfAccepted`: an event that was appended again carries the
id of an accepted one, so all its commands are committed and the projection of the copy adds none;
the second holds because an event is stored again only when no row has its id, and
`PendingRowsKept` says that an unaccepted event still has its row. `DoneIsCommitted` carries the
commands of the head over to the cursor transaction, where `AcceptMoves` shows that the
cursor passes the head and nothing else.

For retention, the tail is a matter of counting (`TailIsNewest`: the stored rows from `s` on are at
most as many as the sequences from `s` to the end of the log, whatever gaps earlier scans left), and
open turns rest on `LedgerHolds`: an event that does not end a turn leaves its entry in the
ledger as it is. The case that matters is the unnamed turn end, which clears the ledger only when
it has a single entry. The third theorem is a case analysis of the steps that write failure records.

**The worker.** `DrainableWorkerProofs` proves, for any sets of producers, drainers and closers,
any number of calls and any positive capacity (`WorkerAssumption`):

| Theorem | States |
| --- | --- |
| `WorkerTyped` | `Spec => []TypeOK` |
| `AcceptedIsSomewhere` | `Spec => []NothingDropped` |
| `OffersFindRoom` | `Spec => []OfferNeverSuspends` |
| `DrainsAreThorough` | `Spec => []DrainCovers` |
| `ImplementsBoundedWork` | `Spec => WorkSpec` |

The heart of its invariant is `IdleMeans`: the current idle generation is completed, or among
the signals the consumer has captured to complete, only while nothing is outstanding, and no later
generation exists; an older one may be completed at any time, since a reservation replaces it.
From it, `Closed` gives that a stop which sees its signal shuts an empty queue (admission ended
before it read the signal, so the generation cannot have moved), and `Covered` that a waiter whose
generation is old has had its items settled at the moment the generation moved. `Once`, `Placed`,
`Counted` and `Owing` are the accounting: which place an accepted item is in, that it is in one, and
that both sums are the count; the cardinality facts come from `FiniteSetTheorems`. `Moves` reduces
the steps to the four that move an item.

**The assembly.** `AssistantAssemblyProofs` proves, for any messages, any buffer limit, any number of
events and any scenarios that satisfy `AssemblyAssumption`:

| Theorem | States |
| --- | --- |
| `SpecTypeOK` | `Spec => []TypeOK` |
| `SpecTranscriptFaithful` | `Spec => [](Sound(scenario) => TranscriptFaithful)` |
| `SpecNothingInLimbo` | `Spec => [](Sound(scenario) => NothingInLimbo)` |
| `SpecCompletedTextIsFinal` | `Spec => CompletedTextIsFinal`, when every scenario is `Sound` |

Which scenario it is decides why the text is right, so the invariant has a common part and one per
reason. `Base` holds in every scenario: types, the order in which the provider's events come
(`Orderly`), that a receipt belongs to an accepted event or the one in hand (`ReceiptsReal`), and
what the worker may have in hand (`InHand`). *Calm* (`CalmInv`): every token is at one place on its
way, so the text, the command about to be dispatched and the buffer together are the deltas
read so far (`Conserved`), until a completion that carries text replaces them (`Settled`); without a
fault no command in hand has a receipt yet (`Fresh`). *Streamed* (`StreamedInv`): nothing is ever
buffered, and the text contains a delta exactly when its receipt exists, so a retry dispatches
what is missing and nothing else. *Carried* and *Restarted* (`CarriedInv`): a retried delta may
well be buffered twice, but a completed message is closed to whatever was collected for it
(`Closed`) and holds what its completion carried (`Replaced`); a restart of a streaming turn
finds the receipt of every accepted delta (`ReceiptedDeltas`), takes the turn for streaming and
rebuilds no buffer; if no delta was accepted before, later ones are buffered, and the completion
closes those as well. The lemmas on `DeltasOf`, the reference the text is
compared with, say how it grows with an event and that it is stable elsewhere; they count by
rank (`RankExists`, `OneMoreCounted`), since a recursion on the log could not be reasoned about.

**The engine.** `CommandEngineProofs` proves, for any calls, ids, lanes and threads and any
capacity and reserve that satisfy `EngineAssumption`:

| Theorem | States |
| --- | --- |
| `CountsCorrect` | `Spec => []TypeOK` |
| `AnswersAgreeWithLog` | `Spec => []AnswersTrue` |
| `ImplementsCommandLedger` | `Spec => LedgerSpec` |
| `SummariesCatchUp` | `Spec => []SummariesKept` |
| `LiveBusInOrder` | `Spec => BusInOrder` |

The invariant ties what is durable to what the worker is doing: a receipt names the event of its
id and every event has one (`Ledger`), none exists for the command being decided (`Undecided`,
`NotYet`), a queued call is untouched and is queued once (`QueuesOK`, `Tracked`), which makes an
answer about a call that is not in the log stay true. For the bus, every event is heard or torn but
for the last one while the worker still has to publish it (`BusFilled`); for the summaries, what is
behind is slipped, or is the catch-up's, or is in the worker's hand (`Behind`), which becomes
`SummariesKept` when the cursor passes it. For the refinement, `AnswerIsFirst` says that a reply goes to
the call in hand, which had no answer, `TellsMe` that nobody else is told anything by it, and
`TellsStored` and `TellsFailure` that it is `Confirm`, `Reject` or `Deny` according to the receipt;
`UnreadAnswered` keeps the misreported calls apart from the open ones.

**The delivery.** `CommandDeliveryProofs` proves, for any threads, any histories and any bounds
that satisfy `DeliveryAssumption` (histories of the known kinds no longer than `MaxEvents`, a
positive retry limit), with any number of crashes and failures:

| Theorem | States |
| --- | --- |
| `PositionsFit` | `Spec => []TypeOK` |
| `CursorMeetsNoGap` | `Spec => []CursorContiguous` |
| `CommandsSentForCause` | `Spec => []SentAgainForCause` |
| `BlockedThreadsAreSilent` | `Spec => QuarantineSilences` |
| `OnlyBlockedWorkIsSkipped` | `Spec => SkipsOnlyQuarantined` |

and `CommandDeliveryOrderProofs` on top of it:

| Theorem | States |
| --- | --- |
| `CommandsKeepOrder` | `Spec => OrderKept` |

Three arguments meet in its invariant. *Position*: the in-memory cursor is the durable one
(`Placed`), a row exists for at most one event past it (`RowsReached`), and the live queue is at
most one event past it, which is then in hand (`QueueMeetsCursor`, `InHand`); so replay, live
queue, resumption and operator never leave a gap for the cursor to refuse. *Quarantine*: the
check asks the cache and reads the rows only on a miss. What passed it has no blocker, and none
appears before the call, since only its own settlement could make one (`Unblocked`); what it holds
back has a blocker, since a cached thread has one unless its fence is at the step that clears the
cache, or a mishap cut that fence off (`CacheTrue`, `HeldBack`). *Sending*: `Budget` counts what was sent before
the step that may send again: an event without a row was never sent, and a row in the state `retry`
of a command whose replay is unsafe is owed to an operator's grant not yet used, to a safe retry
counted in `redone`, or to a turn start whose key still stands and which only a restart would send
(`Owed`). `Repeats` bounds `redone`: every repetition has cost an attempt, and the attempt that reaches
the limit puts nothing back. `BudgetStep` combines one lemma per way to spend or to grant
(`VanishSpends`, `ClaimSpends`, `SendSpends`, `RetrySpends`, `GrantSpends`). `AckMoves`,
`Steady` and `Unmoving` group the actions by what they leave alone, since most of them disturb one
of the three arguments only. `Min` and `Max` are characterised by `MinIsMember` and `MaxOfTwo`, the
former from the well-founded order on the naturals.

*Order*, in the second module: a command that is skipped is sent later only by a replay, and a
replay starts somewhere. The places it may start from, now or later, are the `Root`s: the blockers,
what is left of the span being replayed, the delivery being resumed, the event in hand, the first
blocker a fence has abandoned. `RootsClear` says that from none of them on is a
command of the same thread pending, never sent, that a later one has overtaken. Sending keeps it:
a guarded command is sent only while its thread has no blocker, and every other root of its thread
that may exist at that moment follows it. A replay keeps it, since its span begins behind a root. `SpanAhead`, `ResumeAlone` and `FirstKept` say what the roots of a recovery in progress
are, and `GrantsKept` that a granted retry is being resumed or its thread is in `putOff`.
An earlier `OrderKept`, which excepted only the threads of interrupted retries, passed the run and did
not survive this proof: `GrantsKept` failed for a retry held back by another blocker, and TLC
found the trace of observation 8 in a history of four events.

**The promotions.** `TurnPromotionProofs` proves, for any threads, messages and scenarios that
satisfy `PromotionAssumption`, with any number of crashes and failures:

| Theorem | States |
| --- | --- |
| `TypesHold` | `Spec /\ []Fits => []TypeOK` |
| `StartsOnce` | `Spec /\ []Fits => []StartedOnce` |
| `DrainsExclude` | `Spec /\ []Fits => []OneDrain` |
| `NoneLost` | `Spec /\ []Fits => []NothingLost` |
| `WithdrawnIsFinal` | `Spec /\ []Fits => WithdrawnStaysUnsent` |
| `DispatchesInOrder` | `Spec /\ []Fits => OldestFirst` |

`Fits` says that the log has not outgrown `MaxLog`, which is any number: rows are numbered up to
it, and the code has no such limit. (The conjunct of `TypeOK` that says the same is assumed
thereby, not proved; the run checks it.) The invariant has three parts. *Exclusion*: a drain at
work has its thread's guard unless a stop has cleared it (`Guarding`); hence one drain per
thread, and the row about to be dispatched stays the first of its queue (`FirstInQueue`), since
only another drain of the thread could give an older one back. *One start*: the sequences from
which a message may still be started are its `Chances`: an intent to come, a row that waits, a
row a drain holds, none of them dispatched yet. There is one at most and none once the message is sent
(`OneChance`). Every step passes the chance on or takes it: `OldChances` and `NewChances` show
that only a commit makes one, `CommitTakes`, `AcceptTakes` and `SteerTakes` that whoever commits,
sends or steers takes the old one. *Nothing lost*: a message is still to come, waits, is in hand, or is
answered for (`Kept`), and a row that is dispatched is answered for by its start, which is what
lets `Mark` drop it. The fates on record and the two silent ones are part of the statement, so that
the theorem says there is no other way to lose a message, whatever crashes, store failures,
quarantines, steers and requeues come together. `RowMoves`, `DrainMoves` and `FateMoves` reduce the steps to what they do to
a row, a drain or a message.

**Model-checked only.** Liveness, which depends on fairness and `ENABLED` and is out of the prover's
reach: `CallersReturn`, `EventsSettle`, `EngineSettles` and the like. The classification of scenarios
by `Sound` is exact on the instance only: the theorems say that the sound ones are sound, not that
no other is. And what the runs of section 9 refute.

## 11. Not modelled

Everything marked so in `PROJECT.json`, for the reasons given there. Inside the modelled
files: what each event type projects besides assistant text (activities, tool output,
reasoning, plans, usage, images), the canonical facts stored with the cursor, expiry and eviction of
the process-local caches, the single provider handlers of the reactor and the session status
they project, and logging. In the journal the engine is one atomic command with a receipt; the
engine's own module shows how that promise is kept (`CommandLedger`), but the two are not composed.
The engine's live bus is taken to have room: the back-pressure of its bounded PubSub, which can hold
the worker behind a slow subscriber, is not modelled. The assembly's histories have no completion of
an item without a delta before it (`Sensible`), which the code accepts.
