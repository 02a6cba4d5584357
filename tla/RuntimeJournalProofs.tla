------------------------ MODULE RuntimeJournalProofs ------------------------
(***************************************************************************)
(* Theorems about RuntimeJournal, for every value of its constants: the    *)
(* inductive invariant behind its safety properties, and the refinement of *)
(* OrderedProjection.                                                      *)
(***************************************************************************)
EXTENDS RuntimeJournal, SequenceTheorems, TLAPS

-----------------------------------------------------------------------------
(* The inductive invariant *)

\* What a drain has enqueued is, until the worker is finished with it, the head
\* of its thread.
BatchIsHeads == \A s \in batch : NextStored(s)

\* The worker is idle exactly when it holds no head, and it holds one of the
\* enqueued heads.
WorkerInBatch ==
    /\ step = "idle" <=> current = 0
    /\ current # 0 => current \in batch

\* A quarantined thread has no enqueued head, unless that head is the one whose
\* quarantine the worker is just announcing.
QuarantineNotEnqueued ==
    \A s \in batch : \A x \in DOMAIN failures :
        /\ log[x].thread = log[s].thread
        /\ failures[x].status = "quarantined"
        => s = current /\ step = "attention"

IInv ==
    /\ TypeOK
    /\ PendingRowsKept
    /\ BatchIsHeads
    /\ WorkerInBatch
    /\ QuarantineNotEnqueued
    /\ FailureIsAtHead

-----------------------------------------------------------------------------
(* Lemmas about heads and about the operators the actions are built from *)

\* A thread has one head.
LEMMA OneHead ==
    ASSUME TypeOK, NEW s, NEW r, NextStored(s), NextStored(r),
           log[s].thread = log[r].thread
    PROVE  s = r
<1>1. s \in Nat /\ r \in Nat
  BY DEF TypeOK, NextStored
<1> QED
  BY <1>1 DEF NextStored, IsLeast

\* A head is a recorded event past its thread's cursor.
LEMMA HeadIsRecorded ==
    ASSUME TypeOK, NEW s, NextStored(s)
    PROVE  /\ s \in rows /\ s \in 1..Len(log) /\ s \in Nat \ {0}
           /\ log[s] \in Event /\ log[s].thread \in Threads
           /\ s > cursor[log[s].thread]
<1>1. s \in rows /\ s \in 1..Len(log)
  BY DEF NextStored, TypeOK
<1>2. log[s] \in Event
  BY <1>1 DEF TypeOK
<1>3. s > cursor[log[s].thread]
  BY DEF NextStored, IsLeast, Pending
<1> QED
  BY <1>1, <1>2, <1>3 DEF Event

\* A head stays the head of its thread while its row is stored, its thread's
\* cursor stands still, and nothing but newer rows is added.
LEMMA HeadStays ==
    ASSUME TypeOK, NEW s, NextStored(s), s \in rows',
           \A r \in 1..Len(log) : log'[r] = log[r],
           cursor'[log[s].thread] = cursor[log[s].thread],
           rows' \subseteq rows \cup {Len(log) + 1}
    PROVE  NextStored(s)'
<1>1. s \in 1..Len(log) /\ log'[s] = log[s]
  BY HeadIsRecorded
<1>2. s \in Pending(log[s].thread)'
  BY <1>1, HeadIsRecorded DEF Pending
<1>3. ASSUME NEW r \in Pending(log[s].thread)' PROVE s <= r
  <2>1. r \in rows \/ r = Len(log) + 1
    BY <1>3 DEF Pending
  <2>2. CASE r \in rows
    <3>1. r \in 1..Len(log) /\ log'[r] = log[r]
      BY <2>2 DEF TypeOK
    <3>2. log'[r].thread = log'[s].thread /\ r > cursor'[log'[s].thread]
      BY <1>3 DEF Pending
    <3>3. r \in Pending(log[s].thread)
      BY <1>1, <2>2, <3>1, <3>2 DEF Pending
    <3> QED
      BY <3>3 DEF NextStored, IsLeast
  <2>3. CASE r = Len(log) + 1
    BY <1>1, <2>3 DEF TypeOK
  <2> QED
    BY <2>1, <2>2, <2>3
<1> QED
  BY <1>1, <1>2, <1>3 DEF NextStored, IsLeast

\* The heads of a page are heads, and none of their threads is paused.
LEMMA PageHeads ==
    ASSUME NEW s \in readPendingThreadHeads
    PROVE  NextStored(s) /\ s \in rows /\ ~Paused(log[s].thread)
  BY DEF readPendingThreadHeads

\* A recorded failure is a failure record.
LEMMA RecordedFailureType ==
    ASSUME TypeOK, NEW s, NEW fp \in Fingerprints
    PROVE  recordProjectionFailure(s, fp) \in FailureRecord
<1>1. AttemptLimit \in Nat \ {0}
  BY JournalAssumption
<1>2. s \in DOMAIN failures => failures[s] \in FailureRecord
  BY DEF TypeOK
<1> QED
  BY <1>1, <1>2 DEF recordProjectionFailure, FailureRecord

LEMMA ReleasedType ==
    ASSUME NEW r \in FailureRecord
    PROVE  Released(r) \in FailureRecord
<1>1. AttemptLimit \in Nat \ {0}
  BY JournalAssumption
<1> QED
  BY <1>1 DEF Released, FailureRecord

\* The ledger keeps its type.
LEMMA LedgerType ==
    ASSUME TypeOK, NEW s \in Nat, NEW e \in Event
    PROVE  updateOpenTurnLedger(e, s) \in [Threads -> [Turns -> Nat]]
<1>1. e.thread \in Threads /\ e.turn \in Turns \cup {NoTurn} /\ e.kind \in Kinds
  BY DEF Event
<1> DEFINE closeAll == [openTurn EXCEPT ![e.thread] = [u \in Turns |-> 0]]
<1>2. openTurn \in [Threads -> [Turns -> Nat]]
  BY DEF TypeOK
<1>3. closeAll \in [Threads -> [Turns -> Nat]]
  BY <1>2
<1>4. CASE e.turn # NoTurn
  <2>1. e.turn \in Turns
    BY <1>1, <1>4
  <2>2. [openTurn EXCEPT ![e.thread][e.turn] = IF @ = 0 \/ s < @ THEN s ELSE @]
            \in [Threads -> [Turns -> Nat]]
    BY <1>1, <1>2, <2>1
  <2>3. [openTurn EXCEPT ![e.thread][e.turn] = 0] \in [Threads -> [Turns -> Nat]]
    BY <1>1, <1>2, <2>1
  <2> QED
    BY <1>2, <1>4, <2>2, <2>3 DEF updateOpenTurnLedger
<1>5. CASE e.turn = NoTurn
  BY <1>2, <1>3, <1>5 DEF updateOpenTurnLedger
<1> QED
  BY <1>4, <1>5

-----------------------------------------------------------------------------
(* Type correctness of each step *)

\* An appended event keeps the journal a sequence of events.
LEMMA AppendType ==
    ASSUME TypeOK, NEW e \in Event, log' = Append(log, e)
    PROVE  /\ log' \in Seq(Event)
           /\ Len(log') = Len(log) + 1
           /\ \A r \in 1..Len(log) : log'[r] = log[r]
           /\ log'[Len(log) + 1] = e
  BY AppendProperties DEF TypeOK

LEMMA AppendSteps ==
    ASSUME IInv,
           (\E shape \in Shapes : AppendEvent(shape)) \/ (\E s \in 1..Len(log) : ReplayEvent(s))
    PROVE  /\ TypeOK'
           /\ \E e \in Event : log' = Append(log, e)
           /\ rows' = rows \cup {Len(log) + 1}
           /\ UNCHANGED <<cursor, failures, batch, current, step>>
<1> USE DEF IInv
<1>1. Len(log) \in Nat
  BY DEF TypeOK
<1>2. CASE \E s \in 1..Len(log) : ReplayEvent(s)
  <2>1. PICK s \in 1..Len(log) : ReplayEvent(s)
    BY <1>2
  <2>2. log[s] \in Event /\ log' = Append(log, log[s])
    BY <2>1 DEF TypeOK, ReplayEvent
  <2>3. log' \in Seq(Event) /\ Len(log') = Len(log) + 1
    BY <2>2, AppendType
  <2> QED
    BY <1>1, <2>1, <2>2, <2>3 DEF TypeOK, ReplayEvent, drainVars, worker, external
<1>3. CASE \E shape \in Shapes : AppendEvent(shape)
  <2>1. PICK shape \in Shapes : AppendEvent(shape)
    BY <1>3
  <2> DEFINE e == [id |-> Len(log) + 1, thread |-> shape.thread,
                   turn |-> shape.turn, kind |-> shape.kind]
  <2>2. e \in Event
    BY <1>1, JournalAssumption DEF Event
  <2>3. log' = Append(log, e)
    BY <2>1 DEF AppendEvent
  <2>4. log' \in Seq(Event) /\ Len(log') = Len(log) + 1
    BY <2>2, <2>3, AppendType
  <2>5. poison' \subseteq Nat
    BY <1>1, <2>1 DEF AppendEvent, TypeOK
  <2>6. rows' = rows \cup {Len(log) + 1}
        /\ UNCHANGED <<cursor, openTurn, settled, failures, effects, attended, phase,
                       lastScan, drainVars, worker, undecodable, closedAt, crashes, transients>>
    BY <2>1 DEF AppendEvent
  <2> QED
    BY <1>1, <2>2, <2>3, <2>4, <2>5, <2>6 DEF TypeOK, drainVars, worker
<1> QED
  BY <1>2, <1>3

core == <<log, rows, cursor, failures, batch, current, step>>

\* Steps that touch neither the journal, nor the failures, nor the worker.
QuietStep ==
    \/ Boot \/ PruneAtStartup \/ ReleaseDone \/ RestoreAttention
    \/ \E through \in 0..Len(log) : BeginDrain(through)
    \/ EndDrain \/ DispatchEffect \/ reconcileSettledOpenTurns
    \/ \E t \in Threads, u \in Turns : SettleTurn(t, u)

LEMMA QuietSteps ==
    ASSUME IInv, QuietStep
    PROVE  TypeOK' /\ UNCHANGED core
<1> USE DEF IInv, core
<1>1. CASE Boot
  BY <1>1 DEF TypeOK, Boot, durable, drainVars, worker
<1>2. CASE PruneAtStartup
  BY <1>2 DEF TypeOK, PruneAtStartup, pruneSettledOpenTurns, drainVars, worker, external
<1>3. CASE ReleaseDone
  BY <1>3 DEF TypeOK, ReleaseDone, durable, drainVars, worker, external
<1>4. CASE RestoreAttention
  <2> DEFINE ids == {log[s].id : s \in {x \in DOMAIN failures :
                                          failures[x].status = "quarantined"}}
  <2>1. ids \subseteq Nat
    <3>1. \A s \in DOMAIN failures : log[s] \in Event
      BY DEF TypeOK
    <3> QED
      BY <3>1 DEF Event
  <2>2. attended' \subseteq attended \cup ids
    BY <1>4 DEF RestoreAttention
  <2>3. transients' \in Nat
    BY <1>4 DEF RestoreAttention, TransientFailure, TypeOK
  <2> QED
    BY <1>4, <2>1, <2>2, <2>3 DEF TypeOK, RestoreAttention, drainVars, worker
<1>5. CASE \E through \in 0..Len(log) : BeginDrain(through)
  BY <1>5 DEF TypeOK, BeginDrain, durable, worker, external
<1>6. CASE EndDrain
  BY <1>6 DEF TypeOK, EndDrain, durable, worker, external
<1>7. CASE DispatchEffect
  <2>1. current # 0
    BY <1>7 DEF DispatchEffect, WorkerInBatch
  <2>2. log[current] \in Event /\ log[current].thread \in Threads
    BY <2>1, HeadIsRecorded DEF WorkerInBatch, BatchIsHeads
  <2>3. <<log[current].id, done + 1>> \in Nat \X Nat
    <3>1. log[current].id \in Nat
      BY <2>2 DEF Event
    <3>2. done + 1 \in Nat
      BY JournalAssumption DEF TypeOK
    <3> QED
      BY <3>1, <3>2
  <2>4. effects' \in [Threads -> Seq(Nat \X Nat)]
    BY <1>7, <2>2, <2>3, AppendProperties
       DEF DispatchEffect, dispatchProviderCommandOnce, TypeOK
  <2>5. done' \in 0..EffectsPerEvent
    BY <1>7, JournalAssumption DEF DispatchEffect, TypeOK
  <2> QED
    BY <1>7, <2>4, <2>5 DEF TypeOK, DispatchEffect, drainVars, external
<1>8. CASE reconcileSettledOpenTurns
  BY <1>8 DEF TypeOK, reconcileSettledOpenTurns, pruneSettledOpenTurns, drainVars, worker,
              external
<1>9. CASE \E t \in Threads, u \in Turns : SettleTurn(t, u)
  BY <1>9 DEF TypeOK, SettleTurn, drainVars, worker, external
<1> QED
  BY <1>1, <1>2, <1>3, <1>4, <1>5, <1>6, <1>7, <1>8, <1>9 DEF QuietStep

\* Steps that lose the process.
LossStep == FailStartup \/ (FailDrain /\ phase = "replay") \/ Crash

LEMMA LossSteps ==
    ASSUME IInv, LossStep
    PROVE  /\ TypeOK'
           /\ UNCHANGED <<log, rows, cursor, failures>>
           /\ batch' = {} /\ current' = 0 /\ step' = "idle"
<1> USE DEF IInv, ProcessLost, TransientFailure, durable
<1>0. 0 \in 0..EffectsPerEvent
  BY JournalAssumption
<1>1. CASE FailStartup
  <2>1. ProcessLost /\ transients' \in Nat
        /\ UNCHANGED <<durable, poison, undecodable, closedAt, crashes>>
    BY <1>1 DEF FailStartup, TypeOK
  <2> QED
    BY <1>0, <2>1 DEF TypeOK
<1>2. CASE FailDrain /\ phase = "replay"
  <2>1. ProcessLost /\ transients' \in Nat
        /\ UNCHANGED <<durable, poison, undecodable, closedAt, crashes>>
    BY <1>2 DEF FailDrain, TypeOK
  <2> QED
    BY <1>0, <2>1 DEF TypeOK
<1>3. CASE Crash
  <2>1. ProcessLost /\ crashes' \in Nat
        /\ UNCHANGED <<durable, poison, undecodable, closedAt, transients>>
    BY <1>3 DEF Crash, TypeOK
  <2> QED
    BY <1>0, <2>1 DEF TypeOK
<1> QED
  BY <1>1, <1>2, <1>3 DEF LossStep

LEMMA FailDrainLive ==
    ASSUME IInv, FailDrain, phase # "replay"
    PROVE  TypeOK' /\ UNCHANGED core
<1>1. /\ draining' = FALSE /\ fence' = 0 /\ transients' \in Nat
      /\ UNCHANGED <<phase, lastScan, blocked, batch, worker>>
      /\ UNCHANGED <<durable, poison, undecodable, closedAt, crashes>>
  BY DEF IInv, TypeOK, FailDrain, TransientFailure
<1> QED
  BY <1>1 DEF IInv, core, TypeOK, durable, worker

\* Steps that only rewrite failure records.
FailureStep ==
    \/ \E t \in Threads : ReleaseAtStartup(t) \/ RetryThreadProjection(t)
    \/ \E s \in DOMAIN failures : RetryDue(s) \/ BlockedLongEnough(s)

LEMMA FailureSteps ==
    ASSUME IInv, FailureStep
    PROVE  /\ TypeOK'
           /\ UNCHANGED <<log, rows, cursor, batch, current, step>>
           /\ DOMAIN failures' = DOMAIN failures
           /\ \A s \in DOMAIN failures :
                \/ failures'[s].status = failures[s].status
                \/ failures[s].status = "quarantined" /\ failures'[s].status = "active"
<1> USE DEF IInv
<1>1. CASE \E t \in Threads : ReleaseAtStartup(t) \/ RetryThreadProjection(t)
  <2>1. PICK t \in Threads : ReleaseAtStartup(t) \/ RetryThreadProjection(t)
    BY <1>1
  <2>2. failures' = releaseQuarantinedThread(t)
    BY <2>1 DEF ReleaseAtStartup, RetryThreadProjection
  <2>3. DOMAIN failures' = DOMAIN failures
    BY <2>2 DEF releaseQuarantinedThread
  <2>4. ASSUME NEW s \in DOMAIN failures
        PROVE  /\ failures'[s] \in FailureRecord
               /\ \/ failures'[s].status = failures[s].status
                  \/ failures[s].status = "quarantined" /\ failures'[s].status = "active"
    <3>1. failures[s] \in FailureRecord
      BY DEF TypeOK
    <3>2. \/ failures'[s] = failures[s]
          \/ failures[s].status = "quarantined" /\ failures'[s] = Released(failures[s])
      BY <2>2 DEF releaseQuarantinedThread
    <3>3. Released(failures[s]).status = "active"
      BY DEF Released
    <3> QED
      BY <3>1, <3>2, <3>3, ReleasedType
  <2>5. failures' \in [DOMAIN failures' -> FailureRecord]
    BY <2>2, <2>3, <2>4 DEF releaseQuarantinedThread
  <2> QED
    BY <2>1, <2>3, <2>4, <2>5
       DEF TypeOK, ReleaseAtStartup, RetryThreadProjection, drainVars, worker, external
<1>2. CASE \E s \in DOMAIN failures : RetryDue(s) \/ BlockedLongEnough(s)
  <2>1. PICK s \in DOMAIN failures : RetryDue(s) \/ BlockedLongEnough(s)
    BY <1>2
  <2>2. failures[s] \in FailureRecord
    BY DEF TypeOK
  <2> DEFINE due  == [failures[s] EXCEPT !.due = TRUE]
             aged == [failures[s] EXCEPT !.aged = TRUE]
  <2>3. /\ due \in FailureRecord /\ due.status = failures[s].status
        /\ aged \in FailureRecord /\ aged.status = failures[s].status
    BY <2>2 DEF FailureRecord
  <2>4. \/ failures' = [failures EXCEPT ![s] = due]
        \/ failures' = [failures EXCEPT ![s] = aged]
    BY <2>1 DEF RetryDue, BlockedLongEnough
  <2> HIDE DEF due, aged
  <2>5. failures' \in [DOMAIN failures -> FailureRecord]
        /\ \A x \in DOMAIN failures : failures'[x].status = failures[x].status
    BY <2>3, <2>4 DEF TypeOK
  <2> QED
    BY <2>1, <2>5 DEF TypeOK, RetryDue, BlockedLongEnough, drainVars, worker, external
<1> QED
  BY <1>1, <1>2 DEF FailureStep

LEMMA ReadPageStep ==
    ASSUME IInv, ReadPage
    PROVE  /\ TypeOK'
           /\ UNCHANGED <<log, rows, cursor, failures, current, step>>
           /\ current = 0
           /\ \A s \in batch' : NextStored(s) /\ ~Paused(log[s].thread)
<1>1. \A s \in batch' : NextStored(s) /\ s \in rows /\ ~Paused(log[s].thread)
  BY PageHeads DEF ReadPage, Processable
<1> QED
  BY <1>1 DEF IInv, TypeOK, ReadPage, PageReady, durable, worker, external

\* The worker's current head, and what finishing it leaves behind.
LEMMA CurrentHead ==
    ASSUME IInv, step # "idle"
    PROVE  /\ current \in batch /\ current # 0
           /\ NextStored(current)
           /\ current \in 1..Len(log) /\ current \in rows /\ current \in Nat
           /\ log[current] \in Event /\ log[current].thread \in Threads
           /\ current > cursor[log[current].thread]
  BY HeadIsRecorded DEF IInv, WorkerInBatch, BatchIsHeads

LEMMA TakeHeadStep ==
    ASSUME IInv, TakeHead
    PROVE  /\ TypeOK'
           /\ UNCHANGED <<log, rows, cursor, failures, batch>>
           /\ current' \in batch /\ current' # 0 /\ step' = "effects"
<1>1. PICK s \in batch : IsLeast(s, batch) /\ current' = s
  BY DEF TakeHead
<1>2. s \in Nat /\ s # 0
  BY HeadIsRecorded DEF IInv, BatchIsHeads
<1>3. 0 \in 0..EffectsPerEvent
  BY JournalAssumption
<1> QED
  BY <1>1, <1>2, <1>3 DEF IInv, TypeOK, TakeHead, durable, drainVars, external

LEMMA FailHeadStep ==
    ASSUME IInv, FailHead
    PROVE  /\ TypeOK'
           /\ UNCHANGED <<log, rows, cursor, failures, batch, current>>
           /\ step = "effects" /\ step' = "record"
<1>1. log[current].thread \in Threads
  BY CurrentHead DEF FailHead
<1>2. transients' \in Nat
  BY DEF FailHead, TransientFailure, IInv, TypeOK
<1> QED
  BY <1>1, <1>2 DEF IInv, TypeOK, FailHead, durable

\* Recording a failure rewrites the record of the current head only.
LEMMA RecordFailureStep ==
    ASSUME IInv, NEW fp \in Fingerprints, RecordFailure(fp)
    PROVE  /\ TypeOK'
           /\ UNCHANGED <<log, rows, cursor>>
           /\ step = "record"
           /\ DOMAIN failures' = DOMAIN failures \cup {current}
           /\ \A x \in DOMAIN failures : x # current => failures'[x] = failures[x]
           /\ \/ /\ failures'[current].status = "quarantined"
                 /\ step' = "attention" /\ UNCHANGED <<batch, current>>
              \/ /\ failures'[current].status # "quarantined"
                 /\ step' = "idle" /\ current' = 0 /\ batch' = batch \ {current}
<1> DEFINE r == recordProjectionFailure(current, fp)
<1>0. step = "record" /\ failures' = WithFailure(current, r)
  BY DEF RecordFailure
<1>1. current \in rows
  BY <1>0, CurrentHead
<1>2. r \in FailureRecord
  BY RecordedFailureType DEF IInv
<1> HIDE DEF r
<1>3. /\ DOMAIN failures' = DOMAIN failures \cup {current}
      /\ failures'[current] = r
      /\ \A x \in DOMAIN failures : x # current => failures'[x] = failures[x]
      /\ failures' \in [DOMAIN failures' -> FailureRecord]
  BY <1>0, <1>2 DEF WithFailure, IInv, TypeOK
<1>4. DOMAIN failures' \subseteq rows
  BY <1>1, <1>3 DEF IInv, TypeOK
<1>5. 0 \in 0..EffectsPerEvent
  BY JournalAssumption
<1>6. CASE failures'[current].status = "quarantined"
  <2>1. step' = "attention" /\ UNCHANGED <<drainVars, current, done>>
    BY <1>6 DEF RecordFailure
  <2> QED
    BY <1>0, <1>3, <1>4, <1>6, <2>1 DEF IInv, TypeOK, RecordFailure, drainVars, external
<1>7. CASE failures'[current].status # "quarantined"
  <2>1. HeadDone /\ UNCHANGED blocked
    BY <1>7 DEF RecordFailure
  <2> QED
    BY <1>0, <1>3, <1>4, <1>5, <1>7, <2>1 DEF IInv, TypeOK, RecordFailure, HeadDone, external
<1> QED
  BY <1>6, <1>7

\* Giving up on a head, or finishing its announcement, only releases the worker.
LEMMA ReleaseWorkerStep ==
    ASSUME IInv, LoseFailure \/ ProjectAttention
    PROVE  /\ TypeOK'
           /\ UNCHANGED <<log, rows, cursor, failures>>
           /\ step' = "idle" /\ current' = 0 /\ batch' = batch \ {current}
<1>0. 0 \in 0..EffectsPerEvent
  BY JournalAssumption
<1>1. HeadDone /\ transients' \in Nat
  BY DEF LoseFailure, ProjectAttention, TransientFailure, IInv, TypeOK
<1>2. CASE LoseFailure
  BY <1>0, <1>1, <1>2 DEF LoseFailure, HeadDone, IInv, TypeOK, durable
<1>3. CASE ProjectAttention
  <2>1. step = "attention"
    BY <1>3 DEF ProjectAttention
  <2>2. log[current].id \in Nat
    BY <2>1, CurrentHead DEF Event
  <2>3. attended' \subseteq Nat
    BY <1>3, <2>2 DEF ProjectAttention, IInv, TypeOK
  <2> QED
    BY <1>0, <1>1, <1>3, <2>3 DEF ProjectAttention, HeadDone, IInv, TypeOK
<1> QED
  BY <1>2, <1>3

\* Acceptance: the cursor of one thread moves to its head, retention deletes
\* accepted rows only, and the head's active failure is resolved.
LEMMA AcceptHeadStep ==
    ASSUME IInv, AcceptHead
    PROVE  /\ TypeOK'
           /\ UNCHANGED log
           /\ step = "effects" /\ step' = "idle" /\ current' = 0
           /\ batch' = batch \ {current}
           /\ cursor' = [cursor EXCEPT ![log[current].thread] = current]
           /\ rows' \subseteq rows
           /\ \A s \in rows : s > cursor'[log[s].thread] => s \in rows'
           /\ DOMAIN failures' \subseteq DOMAIN failures
           /\ \A x \in DOMAIN failures' : x # current => failures'[x] = failures[x]
           /\ current \in DOMAIN failures' /\ failures[current].status = "active"
                => failures'[current].status = "resolved"
           /\ current \in DOMAIN failures' /\ failures[current].status # "active"
                => failures'[current] = failures[current]
<1> DEFINE e == log[current]
<1> DEFINE kept == IF ScanDue(e, current) THEN rows \ Deletable(cursor', openTurn') ELSE rows
<1>0. step = "effects"
  BY DEF AcceptHead
<1>1. /\ current \in batch /\ current \in Nat /\ current \in 1..Len(log)
      /\ e \in Event /\ e.thread \in Threads
  BY <1>0, CurrentHead
<1>2. /\ cursor' = advanceThreadCursor(e.thread, current)
      /\ openTurn' = updateOpenTurnLedger(e, current)
      /\ rows' = kept
      /\ failures' = cascade(resolveFailure(current), kept)
      /\ lastScan' = IF ScanDue(e, current) THEN Largest(lastScan, current) ELSE lastScan
      /\ closedAt' = [closedAt EXCEPT ![e.thread] =
                        [u \in Turns |-> IF Ends(e, u) THEN current ELSE @[u]]]
      /\ HeadDone
      /\ UNCHANGED <<log, settled, effects, attended, phase, blocked,
                     poison, undecodable, crashes, transients>>
  BY DEF AcceptHead
<1>3. cursor' = [cursor EXCEPT ![e.thread] = current]
      /\ cursor' \in [Threads -> Nat]
  BY <1>1, <1>2 DEF advanceThreadCursor, IInv, TypeOK
<1>4. openTurn' \in [Threads -> [Turns -> Nat]]
  BY <1>1, <1>2, LedgerType DEF IInv
<1>5. /\ rows' \subseteq rows
      /\ \A s \in rows : s > cursor'[log[s].thread] => s \in rows'
  <2>1. \A s \in Deletable(cursor', openTurn') : cursor'[log[s].thread] >= s
    BY DEF Deletable
  <2>2. \A s \in rows : s > cursor'[log[s].thread] => s \notin Deletable(cursor', openTurn')
    <3> SUFFICES ASSUME NEW s \in rows, s > cursor'[log[s].thread],
                        s \in Deletable(cursor', openTurn')
                 PROVE  FALSE
      OBVIOUS
    <3>1. s \in Nat /\ s \in 1..Len(log)
      BY DEF IInv, TypeOK
    <3>2. log[s] \in Event
      BY <3>1 DEF IInv, TypeOK
    <3>3. cursor'[log[s].thread] \in Nat
      BY <1>3, <3>2 DEF Event
    <3> QED
      BY <2>1, <3>1, <3>3
  <2> QED
    BY <1>2, <2>2
<1> HIDE DEF kept
<1>6. /\ DOMAIN failures' = DOMAIN failures \cap kept
      /\ \A x \in DOMAIN failures' :
            failures'[x] = IF x = current /\ failures[x].status = "active"
                           THEN [failures[x] EXCEPT !.status = "resolved"]
                           ELSE failures[x]
      /\ failures' \in [DOMAIN failures' -> {failures'[x] : x \in DOMAIN failures'}]
  BY <1>2 DEF cascade, resolveFailure
<1>7. \A x \in DOMAIN failures : failures[x] \in FailureRecord
  BY DEF IInv, TypeOK
<1>8. \A x \in DOMAIN failures : [failures[x] EXCEPT !.status = "resolved"] \in FailureRecord
                                 /\ [failures[x] EXCEPT !.status = "resolved"].status = "resolved"
  BY <1>7 DEF FailureRecord
<1>9. failures' \in [DOMAIN failures' -> FailureRecord] /\ DOMAIN failures' \subseteq rows'
  BY <1>2, <1>6, <1>7, <1>8
<1>10. closedAt' \in [Threads -> [Turns -> Nat]]
  BY <1>1, <1>2 DEF IInv, TypeOK
<1>11. lastScan' \in Nat
  BY <1>1, <1>2 DEF Largest, IInv, TypeOK
<1>12. 0 \in 0..EffectsPerEvent
  BY JournalAssumption
<1>13. TypeOK'
  BY <1>2, <1>3, <1>4, <1>5, <1>9, <1>10, <1>11, <1>12 DEF HeadDone, IInv, TypeOK
<1> QED
  BY <1>0, <1>2, <1>3, <1>5, <1>6, <1>8, <1>13 DEF HeadDone

-----------------------------------------------------------------------------
(* The invariant is inductive *)

\* Nothing the invariant speaks of changed but its type.
LEMMA Undisturbed ==
    ASSUME IInv, TypeOK', UNCHANGED core
    PROVE  IInv'
BY DEF IInv, core, PendingRowsKept, Accepted, BatchIsHeads, WorkerInBatch,
       QuarantineNotEnqueued, FailureIsAtHead, NextStored, IsLeast, Pending

LEMMA InitIInv ==
    ASSUME Init
    PROVE  IInv
<1>1. TypeOK
  <2>1. log \in Seq(Event) /\ effects \in [Threads -> Seq(Nat \X Nat)]
    BY DEF Init
  <2>2. 0 \in 0..EffectsPerEvent
    BY JournalAssumption
  <2>3. DOMAIN failures = {} /\ failures \in [DOMAIN failures -> FailureRecord]
    BY DEF Init
  <2> QED
    BY <2>1, <2>2, <2>3 DEF Init, TypeOK
<1>2. PendingRowsKept
  BY DEF Init, PendingRowsKept
<1>3. BatchIsHeads /\ WorkerInBatch /\ QuarantineNotEnqueued
  BY DEF Init, BatchIsHeads, WorkerInBatch, QuarantineNotEnqueued
<1>4. FailureIsAtHead
  BY DEF Init, FailureIsAtHead
<1> QED
  BY <1>1, <1>2, <1>3, <1>4 DEF IInv

\* A step that leaves the journal alone leaves every head where it is.
LEMMA HeadsUnmoved ==
    ASSUME UNCHANGED <<log, rows, cursor>>
    PROVE  /\ PendingRowsKept' <=> PendingRowsKept
           /\ \A s : NextStored(s)' <=> NextStored(s)
  BY DEF PendingRowsKept, Accepted, NextStored, IsLeast, Pending

LEMMA AppendIInv ==
    ASSUME IInv,
           (\E shape \in Shapes : AppendEvent(shape)) \/ (\E s \in 1..Len(log) : ReplayEvent(s))
    PROVE  IInv'
<1>1. /\ TypeOK'
      /\ rows' = rows \cup {Len(log) + 1}
      /\ UNCHANGED <<cursor, failures, batch, current, step>>
  BY AppendSteps
<1>2. Len(log') = Len(log) + 1 /\ \A r \in 1..Len(log) : log'[r] = log[r]
  BY AppendSteps, AppendType DEF IInv
<1>3. ASSUME NEW s, NextStored(s) PROVE NextStored(s)'
  BY <1>1, <1>2, <1>3, HeadIsRecorded, HeadStays DEF IInv
<1>4. PendingRowsKept'
  <2> SUFFICES ASSUME NEW s \in 1..Len(log'), ~Accepted(s)'
               PROVE  s \in rows'
    BY DEF PendingRowsKept
  <2>1. CASE s \in 1..Len(log)
    BY <1>1, <1>2, <2>1 DEF IInv, PendingRowsKept, Accepted
  <2>2. CASE s = Len(log) + 1
    BY <1>1, <2>2
  <2> QED
    BY <1>2, <2>1, <2>2 DEF IInv, TypeOK
<1>5. BatchIsHeads' /\ FailureIsAtHead'
  BY <1>1, <1>3 DEF IInv, BatchIsHeads, FailureIsAtHead
<1>6. QuarantineNotEnqueued'
  <2>1. \A s \in batch : log'[s] = log[s]
    BY <1>2 DEF IInv, TypeOK
  <2>2. \A x \in DOMAIN failures : log'[x] = log[x]
    BY <1>2 DEF IInv, TypeOK
  <2> QED
    BY <1>1, <2>1, <2>2 DEF IInv, QuarantineNotEnqueued
<1> QED
  BY <1>1, <1>4, <1>5, <1>6 DEF IInv, WorkerInBatch

LEMMA FailureIInv ==
    ASSUME IInv, FailureStep
    PROVE  IInv'
<1>1. /\ TypeOK'
      /\ UNCHANGED <<log, rows, cursor, batch, current, step>>
      /\ DOMAIN failures' = DOMAIN failures
      /\ \A s \in DOMAIN failures :
           \/ failures'[s].status = failures[s].status
           \/ failures[s].status = "quarantined" /\ failures'[s].status = "active"
  BY FailureSteps
<1>2. PendingRowsKept' /\ \A s : NextStored(s)' <=> NextStored(s)
  BY <1>1, HeadsUnmoved DEF IInv
<1>3. FailureIsAtHead'
  BY <1>1, <1>2 DEF IInv, FailureIsAtHead
<1>4. QuarantineNotEnqueued'
  BY <1>1 DEF IInv, QuarantineNotEnqueued
<1> QED
  BY <1>1, <1>2, <1>3, <1>4 DEF IInv, BatchIsHeads, WorkerInBatch

\* Steps of the drain and the worker that leave the journal and the failures
\* alone: only what is enqueued and what is current changes.
LEMMA WorkerIInv ==
    ASSUME IInv, ReadPage \/ TakeHead \/ FailHead \/ LoseFailure \/ ProjectAttention
    PROVE  IInv'
<1>1. TypeOK' /\ UNCHANGED <<log, rows, cursor, failures>>
  BY ReadPageStep, TakeHeadStep, FailHeadStep, ReleaseWorkerStep
<1>2. /\ PendingRowsKept' /\ FailureIsAtHead'
      /\ \A s : NextStored(s)' <=> NextStored(s)
  BY <1>1, HeadsUnmoved DEF IInv, FailureIsAtHead
<1>3. CASE ReadPage
  <2>1. /\ UNCHANGED <<current, step>> /\ current = 0
        /\ \A s \in batch' : NextStored(s) /\ ~Paused(log[s].thread)
    BY <1>3, ReadPageStep
  <2>2. QuarantineNotEnqueued'
    BY <1>1, <2>1 DEF QuarantineNotEnqueued, Paused
  <2> QED
    BY <1>1, <1>2, <2>1, <2>2 DEF IInv, BatchIsHeads, WorkerInBatch
<1>4. CASE TakeHead
  <2>1. UNCHANGED batch /\ current' \in batch /\ current' # 0 /\ step' = "effects"
    BY <1>4, TakeHeadStep
  <2>2. current = 0
    BY <1>4 DEF TakeHead
  <2>3. \A s \in batch : s # current
    BY <2>2, HeadIsRecorded DEF IInv, BatchIsHeads
  <2>4. QuarantineNotEnqueued'
    BY <1>1, <2>1, <2>3 DEF IInv, QuarantineNotEnqueued
  <2> QED
    BY <1>1, <1>2, <2>1, <2>4 DEF IInv, BatchIsHeads, WorkerInBatch
<1>5. CASE FailHead
  <2>1. UNCHANGED <<batch, current>> /\ step = "effects" /\ step' = "record"
    BY <1>5, FailHeadStep
  <2> QED
    BY <1>1, <1>2, <2>1 DEF IInv, BatchIsHeads, WorkerInBatch, QuarantineNotEnqueued
<1>6. CASE LoseFailure \/ ProjectAttention
  <2>1. step' = "idle" /\ current' = 0 /\ batch' = batch \ {current}
    BY <1>6, ReleaseWorkerStep
  <2> QED
    BY <1>1, <1>2, <2>1 DEF IInv, BatchIsHeads, WorkerInBatch, QuarantineNotEnqueued
<1> QED
  BY <1>3, <1>4, <1>5, <1>6

LEMMA RecordFailureIInv ==
    ASSUME IInv, NEW fp \in Fingerprints, RecordFailure(fp)
    PROVE  IInv'
<1>1. /\ TypeOK' /\ UNCHANGED <<log, rows, cursor>>
      /\ step = "record"
      /\ DOMAIN failures' = DOMAIN failures \cup {current}
      /\ \A x \in DOMAIN failures : x # current => failures'[x] = failures[x]
      /\ \/ /\ failures'[current].status = "quarantined"
            /\ step' = "attention" /\ UNCHANGED <<batch, current>>
         \/ /\ failures'[current].status # "quarantined"
            /\ step' = "idle" /\ current' = 0 /\ batch' = batch \ {current}
  BY RecordFailureStep
<1>2. PendingRowsKept' /\ \A s : NextStored(s)' <=> NextStored(s)
  BY <1>1, HeadsUnmoved DEF IInv
<1>3. current \in batch /\ current # 0 /\ NextStored(current)
  BY <1>1, CurrentHead
<1>4. FailureIsAtHead'
  BY <1>1, <1>2, <1>3 DEF IInv, FailureIsAtHead
<1>5. BatchIsHeads' /\ WorkerInBatch'
  BY <1>1, <1>2, <1>3 DEF IInv, BatchIsHeads, WorkerInBatch
<1>6. QuarantineNotEnqueued'
  <2> SUFFICES ASSUME NEW s \in batch', NEW x \in DOMAIN failures',
                      log[x].thread = log[s].thread, failures'[x].status = "quarantined"
               PROVE  s = current' /\ step' = "attention"
    BY <1>1 DEF QuarantineNotEnqueued
  <2>1. s \in batch /\ NextStored(s)
    BY <1>1 DEF IInv, BatchIsHeads
  <2>2. CASE x = current
    BY <1>1, <1>3, <2>1, <2>2, OneHead DEF IInv
  <2>3. CASE x # current
    BY <1>1, <2>1, <2>3 DEF IInv, QuarantineNotEnqueued
  <2> QED
    BY <2>2, <2>3
<1> QED
  BY <1>1, <1>2, <1>4, <1>5, <1>6 DEF IInv
LEMMA AcceptIInv ==
    ASSUME IInv, AcceptHead
    PROVE  IInv'
<1>1. /\ TypeOK' /\ UNCHANGED log
      /\ step = "effects" /\ step' = "idle" /\ current' = 0
      /\ batch' = batch \ {current}
      /\ cursor' = [cursor EXCEPT ![log[current].thread] = current]
      /\ rows' \subseteq rows
      /\ \A s \in rows : s > cursor'[log[s].thread] => s \in rows'
      /\ DOMAIN failures' \subseteq DOMAIN failures
      /\ \A x \in DOMAIN failures' : x # current => failures'[x] = failures[x]
      /\ current \in DOMAIN failures' /\ failures[current].status = "active"
           => failures'[current].status = "resolved"
      /\ current \in DOMAIN failures' /\ failures[current].status # "active"
           => failures'[current] = failures[current]
  BY AcceptHeadStep
<1>2. /\ NextStored(current) /\ current \in batch /\ current \in Nat
      /\ log[current].thread \in Threads
      /\ current > cursor[log[current].thread]
  BY <1>1, CurrentHead
<1>3. \A t \in Threads :
         cursor'[t] = IF t = log[current].thread THEN current ELSE cursor[t]
  BY <1>1 DEF IInv, TypeOK
<1>4. PendingRowsKept'
  <2> SUFFICES ASSUME NEW s \in 1..Len(log), ~Accepted(s)'
               PROVE  s \in rows'
    BY <1>1 DEF PendingRowsKept, Accepted
  <2>0. log[s] \in Event
    BY <1>1 DEF IInv, TypeOK
  <2>1. log[s].thread \in Threads
    BY <2>0 DEF Event
  <2>2. cursor[log[s].thread] \in Nat /\ cursor'[log[s].thread] \in Nat /\ s \in Nat
    <3>1. cursor[log[s].thread] \in Nat /\ Len(log) \in Nat
      BY <2>1 DEF IInv, TypeOK
    <3> QED
      BY <1>2, <1>3, <2>1, <3>1
  <2>3. s > cursor'[log[s].thread]
    BY <1>1, <2>2 DEF Accepted
  <2>4. s > cursor[log[s].thread]
    BY <1>2, <1>3, <2>1, <2>2, <2>3
  <2>5. s \in rows
    BY <2>2, <2>4 DEF IInv, PendingRowsKept, Accepted
  <2> QED
    BY <1>1, <2>3, <2>5
<1>5. ASSUME NEW s, NextStored(s), s # current PROVE NextStored(s)'
  <2>1. log[s].thread # log[current].thread
    BY <1>2, <1>5, OneHead DEF IInv
  <2>2. s \in rows /\ log[s].thread \in Threads /\ s > cursor[log[s].thread]
    BY <1>5, HeadIsRecorded DEF IInv
  <2>3. cursor'[log[s].thread] = cursor[log[s].thread]
    BY <1>3, <2>1, <2>2
  <2>4. s \in rows'
    BY <1>1, <2>2, <2>3
  <2> QED
    BY <1>1, <1>5, <2>3, <2>4, HeadStays DEF IInv
<1>6. BatchIsHeads' /\ WorkerInBatch'
  BY <1>1, <1>5 DEF IInv, BatchIsHeads, WorkerInBatch
<1>7. ASSUME NEW x \in DOMAIN failures, failures[x].status = "quarantined"
      PROVE  x # current
  BY <1>1, <1>2, <1>7 DEF IInv, QuarantineNotEnqueued
<1>8. FailureIsAtHead'
  <2> SUFFICES ASSUME NEW x \in DOMAIN failures', failures'[x].status # "resolved"
               PROVE  NextStored(x)'
    BY DEF FailureIsAtHead
  <2>1. CASE x = current
    <3>1. failures[current] \in FailureRecord
      BY <1>1, <2>1 DEF IInv, TypeOK
    <3>2. failures[current].status \in {"active", "quarantined", "resolved"}
      BY <3>1 DEF FailureRecord
    <3> QED
      BY <1>1, <1>7, <2>1, <3>2
  <2>2. CASE x # current
    BY <1>1, <1>5, <2>2 DEF IInv, FailureIsAtHead
  <2> QED
    BY <2>1, <2>2
<1>9. QuarantineNotEnqueued'
  <2> SUFFICES ASSUME NEW s \in batch', NEW x \in DOMAIN failures',
                      log[x].thread = log[s].thread, failures'[x].status = "quarantined"
               PROVE  FALSE
    BY <1>1 DEF QuarantineNotEnqueued
  <2>1. failures[x].status = "quarantined"
    <3>1. CASE x = current
      <4>1. failures[current] \in FailureRecord
        BY <1>1, <3>1 DEF IInv, TypeOK
      <4> QED
        BY <1>1, <3>1, <4>1 DEF FailureRecord
    <3>2. CASE x # current
      BY <1>1, <3>2
    <3> QED
      BY <3>1, <3>2
  <2> QED
    BY <1>1, <2>1 DEF IInv, QuarantineNotEnqueued
<1> QED
  BY <1>1, <1>4, <1>6, <1>8, <1>9 DEF IInv

LEMMA LossIInv ==
    ASSUME IInv, LossStep
    PROVE  IInv'
<1>1. /\ TypeOK' /\ UNCHANGED <<log, rows, cursor, failures>>
      /\ batch' = {} /\ current' = 0 /\ step' = "idle"
  BY LossSteps
<1> QED
  BY <1>1, HeadsUnmoved DEF IInv, BatchIsHeads, WorkerInBatch, QuarantineNotEnqueued,
                            FailureIsAtHead

\* The invariant is preserved by every step.
LEMMA IInvStep ==
    ASSUME IInv, [Next]_vars
    PROVE  IInv'
<1>1. CASE UNCHANGED vars
  <2>1. TypeOK'
    BY <1>1 DEF IInv, TypeOK, vars, durable, drainVars, worker, external
  <2> QED
    BY <1>1, <2>1, Undisturbed DEF vars, durable, drainVars, worker, core
<1>2. CASE QuietStep
  BY <1>2, QuietSteps, Undisturbed
<1>3. CASE FailDrain /\ phase # "replay"
  BY <1>3, FailDrainLive, Undisturbed
<1>4. CASE \/ \E shape \in Shapes : AppendEvent(shape)
           \/ \E s \in 1..Len(log) : ReplayEvent(s)
  BY <1>4, AppendIInv
<1>5. CASE LossStep
  BY <1>5, LossIInv
<1>6. CASE FailureStep
  BY <1>6, FailureIInv
<1>7. CASE ReadPage \/ TakeHead \/ FailHead \/ LoseFailure \/ ProjectAttention
  BY <1>7, WorkerIInv
<1>8. CASE \E fp \in Fingerprints : RecordFailure(fp)
  BY <1>8, RecordFailureIInv
<1>9. CASE AcceptHead
  BY <1>9, AcceptIInv
<1>10. Startup => QuietStep \/ FailureStep \/ LossStep
  BY DEF Startup, QuietStep, FailureStep, LossStep
<1>11. Drain => \/ QuietStep \/ ReadPage \/ LossStep
                \/ FailDrain /\ phase # "replay"
  BY DEF Drain, QuietStep, LossStep
<1>12. Worker => \/ TakeHead \/ QuietStep \/ AcceptHead \/ FailHead
                 \/ (\E fp \in Fingerprints : RecordFailure(fp))
                 \/ LoseFailure \/ ProjectAttention
  BY DEF Worker, QuietStep
<1>13. Clock => FailureStep
  BY DEF Clock, FailureStep
<1>14. Environment => \/ \E shape \in Shapes : AppendEvent(shape)
                      \/ \E s \in 1..Len(log) : ReplayEvent(s)
                      \/ FailureStep \/ QuietStep \/ LossStep
  BY DEF Environment, FailureStep, QuietStep, LossStep
<1> QED
  BY <1>1, <1>2, <1>3, <1>4, <1>5, <1>6, <1>7, <1>8, <1>9, <1>10, <1>11, <1>12,
     <1>13, <1>14 DEF Next

-----------------------------------------------------------------------------
(* Safety, for every value of the constants *)

\* The inductive invariant holds in every reachable state.
LEMMA Invariance == Spec => []IInv
<1>1. Init => IInv
  BY InitIInv
<1>2. IInv /\ [Next]_vars => IInv'
  BY IInvStep
<1> QED
  BY <1>1, <1>2, PTL DEF Spec

\* Every variable keeps its type; in particular a failure row never outlives
\* the journal row it refers to.
THEOREM TypeCorrectness == Spec => []TypeOK
<1>1. IInv => TypeOK
  BY DEF IInv
<1> QED
  BY <1>1, Invariance, PTL

\* Retention, quarantine, crashes and re-appended events never delete a row its
\* thread has not accepted (the retention scan of processInput).
THEOREM NoPendingRowLost == Spec => []PendingRowsKept
<1>1. IInv => PendingRowsKept
  BY DEF IInv
<1> QED
  BY <1>1, Invariance, PTL

\* An unresolved failure always blocks the head of its thread, so the unique
\* index over blocked threads is never violated by recordProjectionFailure.
THEOREM OneFailurePerThread == Spec => []FailureIsAtHead
<1>1. IInv => FailureIsAtHead
  BY DEF IInv
<1> QED
  BY <1>1, Invariance, PTL

\* From the page query to the cursor transaction the enqueued head stays the
\* exact next row of its thread: advanceThreadCursor never refuses it.
THEOREM CursorNeverRefuses == Spec => []CurrentIsHead
<1>1. IInv => CurrentIsHead
  BY DEF IInv, WorkerInBatch, BatchIsHeads, CurrentIsHead
<1> QED
  BY <1>1, Invariance, PTL

-----------------------------------------------------------------------------
(* Quarantine, and the refinement of OrderedProjection *)

\* Only the worker's two steps on its current head touch cursors and commands.
LEMMA OnlyTheWorkerAdvances ==
    ASSUME Next
    PROVE  AcceptHead \/ DispatchEffect \/ UNCHANGED <<cursor, effects>>
<1>1. Startup => UNCHANGED <<cursor, effects>>
  BY DEF Startup, Boot, PruneAtStartup, ReleaseAtStartup, ReleaseDone, RestoreAttention,
         FailStartup, durable
<1>2. Drain => UNCHANGED <<cursor, effects>>
  BY DEF Drain, BeginDrain, ReadPage, EndDrain, FailDrain, durable
<1>3. Worker => AcceptHead \/ DispatchEffect \/ UNCHANGED <<cursor, effects>>
  BY DEF Worker, TakeHead, FailHead, RecordFailure, LoseFailure, ProjectAttention, durable
<1>4. Clock => UNCHANGED <<cursor, effects>>
  BY DEF Clock, RetryDue, BlockedLongEnough
<1>5. Environment => UNCHANGED <<cursor, effects>>
  BY DEF Environment, AppendEvent, ReplayEvent, RetryThreadProjection, SettleTurn,
         reconcileSettledOpenTurns, Crash, durable
<1> QED
  BY <1>1, <1>2, <1>3, <1>4, <1>5 DEF Next

\* A quarantined thread accepts nothing and commits no command until it is
\* released, even by the head that was enqueued when it was quarantined.
THEOREM QuarantineStopsTheThread == Spec => QuarantineHolds
<1> DEFINE A == \A t \in Threads : Quarantined(t) =>
                   cursor'[t] = cursor[t] /\ effects'[t] = effects[t]
<1>1. IInv /\ [Next]_vars => A
  <2> SUFFICES ASSUME IInv, [Next]_vars, NEW t \in Threads, Quarantined(t)
               PROVE  cursor'[t] = cursor[t] /\ effects'[t] = effects[t]
    OBVIOUS
  <2>1. CASE UNCHANGED vars
    BY <2>1 DEF vars, durable
  <2>2. CASE step = "effects" /\ Next
    <3>1. current \in batch /\ log[current].thread \in Threads
      BY <2>2, CurrentHead
    <3>2. log[current].thread # t
      BY <2>2, <3>1 DEF IInv, QuarantineNotEnqueued, Quarantined
    <3>3. CASE AcceptHead
      BY <3>1, <3>2, <3>3 DEF AcceptHead, advanceThreadCursor, IInv, TypeOK
    <3>4. CASE DispatchEffect
      BY <3>1, <3>2, <3>4 DEF DispatchEffect, dispatchProviderCommandOnce, IInv, TypeOK
    <3> QED
      BY <2>2, <3>3, <3>4, OnlyTheWorkerAdvances
  <2>3. CASE step # "effects" /\ Next
    BY <2>3, OnlyTheWorkerAdvances DEF AcceptHead, DispatchEffect
  <2> QED
    BY <2>1, <2>2, <2>3
<1>2. []IInv /\ [][Next]_vars => [][A]_vars
  BY <1>1, PTL
<1>3. QuarantineHolds <=> [][A]_vars
  BY DEF QuarantineHolds
<1> QED
  BY <1>2, <1>3, Invariance, PTL DEF Spec

\* The thread of every event ever appended, as OrderedProjection sees it.
journalThreads == [s \in 1..Len(log) |-> log[s].thread]

\* A head in the sense of the store is the next event in the abstract sense:
\* no row below it was pruned before its thread accepted it.
LEMMA HeadIsNext ==
    ASSUME IInv, NEW s, NextStored(s)
    PROVE  Ordered!IsNext(log[s].thread, s)
<1>1. s \in 1..Len(log) /\ log[s].thread \in Threads /\ s > cursor[log[s].thread]
  BY HeadIsRecorded DEF IInv
<1>2. Len(log) \in Nat /\ cursor[log[s].thread] \in Nat
  BY <1>1 DEF IInv, TypeOK
<1>3. Len(journalThreads) = Len(log)
  BY <1>2 DEF journalThreads
<1>4. ASSUME NEW r \in 1..Len(log), log[r].thread = log[s].thread,
             r > cursor[log[s].thread]
      PROVE  s <= r
  <2>1. r \in rows
    BY <1>2, <1>4 DEF IInv, PendingRowsKept, Accepted
  <2>2. r \in Pending(log[s].thread)
    BY <1>4, <2>1 DEF Pending
  <2> QED
    BY <2>2 DEF NextStored, IsLeast
<1> QED
  BY <1>1, <1>3, <1>4 DEF Ordered!IsNext, journalThreads

LEMMA StepRefines ==
    ASSUME IInv, [Next]_vars
    PROVE  [Ordered!Next]_(Ordered!vars)
<1> USE DEF Ordered!vars
<1>1. CASE AcceptHead
  <2>1. step = "effects" /\ UNCHANGED log
    BY <1>1 DEF AcceptHead
  <2>2. NextStored(current) /\ current \in 1..Len(log) /\ log[current].thread \in Threads
    BY <2>1, CurrentHead
  <2>3. cursor' = [cursor EXCEPT ![log[current].thread] = current]
    BY <1>1 DEF AcceptHead, advanceThreadCursor
  <2>4. Ordered!IsNext(log[current].thread, current)
    BY <2>2, HeadIsNext
  <2>5. Len(journalThreads) = Len(log)
    BY DEF journalThreads, IInv, TypeOK
  <2>6. Ordered!Accept(log[current].thread)
    BY <2>1, <2>2, <2>3, <2>4, <2>5 DEF Ordered!Accept, journalThreads
  <2> QED
    BY <2>2, <2>6 DEF Ordered!Next
<1>2. CASE \/ \E shape \in Shapes : AppendEvent(shape)
           \/ \E s \in 1..Len(log) : ReplayEvent(s)
  <2>1. PICK e \in Event : log' = Append(log, e)
    BY <1>2, AppendSteps
  <2>2. /\ Len(log') = Len(log) + 1 /\ Len(log) \in Nat
        /\ \A r \in 1..Len(log) : log'[r] = log[r]
        /\ log'[Len(log) + 1] = e
    BY <2>1, AppendType DEF IInv, TypeOK
  <2>3. journalThreads' = Append(journalThreads, e.thread)
    <3>1. journalThreads \in Seq(Threads)
      <4>1. \A s \in 1..Len(log) : log[s] \in Event
        BY DEF IInv, TypeOK
      <4>2. \A s \in 1..Len(log) : log[s].thread \in Threads
        BY <4>1 DEF Event
      <4> QED
        BY <2>2, <4>2 DEF journalThreads
    <3>2. Len(journalThreads) = Len(log)
      BY <2>2 DEF journalThreads
    <3>3. e.thread \in Threads
      BY DEF Event
    <3> QED
      BY <2>2, <3>1, <3>2, <3>3 DEF journalThreads
  <2>4. UNCHANGED cursor
    BY <1>2, AppendSteps
  <2>5. e.thread \in Threads
    BY DEF Event
  <2>6. Ordered!Record(e.thread)
    BY <2>3, <2>4 DEF Ordered!Record, journalThreads
  <2> QED
    BY <2>5, <2>6 DEF Ordered!Next
<1>3. CASE UNCHANGED <<log, cursor>>
  BY <1>3
<1>4. Startup => UNCHANGED <<log, cursor>>
  BY DEF Startup, Boot, PruneAtStartup, ReleaseAtStartup, ReleaseDone, RestoreAttention,
         FailStartup, durable
<1>5. Drain => UNCHANGED <<log, cursor>>
  BY DEF Drain, BeginDrain, ReadPage, EndDrain, FailDrain, durable
<1>6. Worker => AcceptHead \/ UNCHANGED <<log, cursor>>
  BY DEF Worker, TakeHead, DispatchEffect, FailHead, RecordFailure, LoseFailure,
         ProjectAttention, durable
<1>7. Clock => UNCHANGED <<log, cursor>>
  BY DEF Clock, RetryDue, BlockedLongEnough
<1>8. Environment => \/ \E shape \in Shapes : AppendEvent(shape)
                     \/ \E s \in 1..Len(log) : ReplayEvent(s)
                     \/ UNCHANGED <<log, cursor>>
  BY DEF Environment, RetryThreadProjection, SettleTurn, reconcileSettledOpenTurns, Crash,
         durable
<1>9. UNCHANGED vars => UNCHANGED <<log, cursor>>
  BY DEF vars, durable
<1> QED
  BY <1>1, <1>2, <1>3, <1>4, <1>5, <1>6, <1>7, <1>8, <1>9 DEF Next

\* The journal with its retention, failures, quarantine, batches and restarts
\* implements the ordered projection: every event is recorded once in the global
\* order and each thread accepts its own events without passing over one.
THEOREM ImplementsOrderedProjection == Spec => OrderedSpec
<1>1. Init => Ordered!Init
  BY DEF Init, Ordered!Init
<1>2. IInv /\ [Next]_vars => [Ordered!Next]_(Ordered!vars)
  BY StepRefines
<1> QED
  BY <1>1, <1>2, Invariance, PTL DEF Spec, OrderedSpec, Ordered!Spec
=============================================================================
