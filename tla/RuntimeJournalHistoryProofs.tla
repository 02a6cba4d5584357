-------------------- MODULE RuntimeJournalHistoryProofs --------------------
(***************************************************************************)
(* What the journal's history says, for every value of the constants: the  *)
(* commands an event dispatches (EffectsFaithful), the rows retention      *)
(* leaves behind (RetentionKeeps), and what it takes to quarantine a       *)
(* thread (QuarantineNeedsRepetition).  RuntimeJournalProofs shows what    *)
(* holds of rows, heads and failures at each moment (IInv); here that is   *)
(* used to relate the present to everything that was ever appended.        *)
(***************************************************************************)
EXTENDS RuntimeJournalProofs, FiniteSetTheorems

-----------------------------------------------------------------------------
(* The invariant behind EffectsFaithful *)

\* Command c of thread t has an accepted receipt.
Committed(t, c) == \E i \in 1..Len(effects[t]) : effects[t][i] = c

\* No cursor is past the end of the log.
CursorInLog == \A t \in Threads : cursor[t] <= Len(log)

\* An event's id is the sequence at which the event was first appended.
IdsAreFirst ==
    \A s \in 1..Len(log) :
        /\ log[s].id \in 1..Len(log)
        /\ log[log[s].id].thread = log[s].thread
        /\ log[log[s].id].id = log[s].id

\* An event is appended again only after its thread has accepted it.
CopiesOfAccepted == \A s \in 1..Len(log) : log[s].id # s => Accepted(log[s].id)

\* Every command stems from an event of its thread.
EffectsHaveEvents ==
    \A t \in Threads : \A i \in 1..Len(effects[t]) :
        /\ effects[t][i] \in Nat \X Nat
        /\ effects[t][i][1] \in 1..Len(log)
        /\ log[effects[t][i][1]].thread = t
        /\ effects[t][i][2] \in 1..EffectsPerEvent

\* The commands of an event are committed from the first on.
CommittedFromFirst ==
    \A t \in Threads : \A i \in 1..Len(effects[t]) :
        \A k \in 1..effects[t][i][2] : Committed(t, <<effects[t][i][1], k>>)

\* What the worker counts as dispatched is committed.
DoneIsCommitted ==
    step = "effects" =>
        \A k \in 1..done : Committed(log[current].thread, <<log[current].id, k>>)

History ==
    /\ CursorInLog
    /\ IdsAreFirst
    /\ CopiesOfAccepted
    /\ EffectsHaveEvents
    /\ CommittedFromFirst
    /\ DoneIsCommitted
    /\ EffectsFaithful

-----------------------------------------------------------------------------
(* What each step leaves alone *)

Appending ==
    \/ \E shape \in Shapes : AppendEvent(shape)
    \/ \E s \in 1..Len(log) : ReplayEvent(s)

\* Apart from appends and the worker's steps towards the transcript, a step
\* leaves log, cursors and commands alone, and the worker where it is unless it
\* takes it out of dispatching.
Elsewhere ==
    /\ UNCHANGED <<log, cursor, effects>>
    /\ step' = "effects" => UNCHANGED <<current, step, done>>

LEMMA StepsElsewhere ==
    ASSUME Next
    PROVE  AcceptHead \/ DispatchEffect \/ TakeHead \/ Appending \/ Elsewhere
<1> USE DEF Elsewhere, worker, durable
<1>1. Startup => Elsewhere
  BY DEF Startup, Boot, PruneAtStartup, ReleaseAtStartup, ReleaseDone, RestoreAttention,
         FailStartup, ProcessLost
<1>2. Drain => Elsewhere
  BY DEF Drain, BeginDrain, ReadPage, EndDrain, FailDrain, ProcessLost
<1>3. Worker => AcceptHead \/ DispatchEffect \/ TakeHead \/ Elsewhere
  BY DEF Worker, FailHead, RecordFailure, LoseFailure, ProjectAttention, HeadDone
<1>4. Clock => Elsewhere
  BY DEF Clock, RetryDue, BlockedLongEnough
<1>5. Environment => Appending \/ Elsewhere
  BY DEF Environment, Appending, RetryThreadProjection, SettleTurn,
         reconcileSettledOpenTurns, Crash, ProcessLost
<1> QED
  BY <1>1, <1>2, <1>3, <1>4, <1>5 DEF Next

LEMMA InitHistory ==
    ASSUME Init
    PROVE  History
<1>1. /\ Len(log) = 0 /\ \A t \in Threads : cursor[t] = 0 /\ effects[t] = <<>>
      /\ step = "idle"
  BY DEF Init
<1>2. 1..0 = {} /\ Len(<<>>) = 0
  OBVIOUS
<1> QED
  BY <1>1, <1>2 DEF History, CursorInLog, IdsAreFirst, CopiesOfAccepted, EffectsHaveEvents,
     CommittedFromFirst, DoneIsCommitted, EffectsFaithful, AcceptedEffectsCommitted,
     EffectsOnceInOrder, NoEffectPastHead

\* What the invariant says of the durable state stays true while log, cursors
\* and commands do.
LEMMA DurableHistory ==
    ASSUME History, UNCHANGED <<log, cursor, effects>>, DoneIsCommitted'
    PROVE  History'
<1>1. CursorInLog' /\ IdsAreFirst'
  BY DEF History, CursorInLog, IdsAreFirst
<1>2. CopiesOfAccepted'
  BY DEF History, CopiesOfAccepted, Accepted
<1>3. EffectsHaveEvents'
  BY DEF History, EffectsHaveEvents
<1>4. CommittedFromFirst'
  <2> SUFFICES ASSUME NEW t \in Threads, NEW i \in 1..Len(effects[t]),
                      NEW k \in 1..effects[t][i][2]
               PROVE  \E j \in 1..Len(effects[t]) : effects[t][j] = <<effects[t][i][1], k>>
    BY DEF CommittedFromFirst, Committed
  <2> QED
    BY DEF History, CommittedFromFirst, Committed
<1>5. AcceptedEffectsCommitted'
  BY DEF History, EffectsFaithful, AcceptedEffectsCommitted, Accepted
<1>6. EffectsOnceInOrder'
  BY DEF History, EffectsFaithful, EffectsOnceInOrder
<1>7. NoEffectPastHead'
  BY DEF History, EffectsFaithful, NoEffectPastHead, Accepted
<1> QED
  BY <1>1, <1>2, <1>3, <1>4, <1>5, <1>6, <1>7 DEF History, EffectsFaithful

LEMMA ElsewhereHistory ==
    ASSUME History, Elsewhere
    PROVE  History'
<1>1. DoneIsCommitted'
  BY DEF Elsewhere, History, DoneIsCommitted, Committed
<1> QED
  BY <1>1, DurableHistory DEF Elsewhere

LEMMA TakeHeadHistory ==
    ASSUME History, TakeHead
    PROVE  History'
<1>1. UNCHANGED <<log, cursor, effects>> /\ done' = 0
  BY DEF TakeHead, durable
<1>2. DoneIsCommitted'
  BY <1>1 DEF DoneIsCommitted
<1> QED
  BY <1>1, <1>2, DurableHistory

\* The event appended: a first event carries its own sequence, a repeated one
\* the sequence of an accepted event of its thread.
LEMMA AppendedEvent ==
    ASSUME IInv, History, Appending
    PROVE  /\ UNCHANGED <<cursor, effects, current, step, done>>
           /\ \E e \in Event :
                /\ log' = Append(log, e)
                /\ \/ e.id = Len(log) + 1
                   \/ /\ e.id \in 1..Len(log) /\ Accepted(e.id)
                      /\ log[e.id].thread = e.thread /\ log[e.id].id = e.id
<1>0. Len(log) \in Nat
  BY DEF IInv, TypeOK
<1>1. CASE \E shape \in Shapes : AppendEvent(shape)
  <2>1. PICK shape \in Shapes : AppendEvent(shape)
    BY <1>1
  <2> DEFINE e == [id |-> Len(log) + 1, thread |-> shape.thread,
                   turn |-> shape.turn, kind |-> shape.kind]
  <2>2. e \in Event /\ e.id = Len(log) + 1
    BY <1>0, <2>1, JournalAssumption DEF Event
  <2>3. log' = Append(log, e) /\ UNCHANGED <<cursor, effects, current, step, done>>
    BY <2>1 DEF AppendEvent, worker
  <2> QED
    BY <2>2, <2>3
<1>2. CASE \E s \in 1..Len(log) : ReplayEvent(s)
  <2>1. PICK s \in 1..Len(log) : ReplayEvent(s)
    BY <1>2
  <2> DEFINE id == log[s].id
  <2>2. log[s] \in Event
    BY <1>0 DEF IInv, TypeOK
  <2>3. id \in 1..Len(log) /\ log[id].thread = log[s].thread /\ log[id].id = id
    BY DEF History, IdsAreFirst
  <2>4. id \notin rows
    BY <2>1, <2>3 DEF ReplayEvent
  <2>5. Accepted(id)
    BY <2>3, <2>4 DEF IInv, PendingRowsKept
  <2>6. log' = Append(log, log[s]) /\ UNCHANGED <<cursor, effects, current, step, done>>
    BY <2>1 DEF ReplayEvent, worker
  <2> QED
    BY <2>2, <2>3, <2>5, <2>6
<1> QED
  BY <1>1, <1>2 DEF Appending

LEMMA AppendHistory ==
    ASSUME IInv, History, Appending
    PROVE  History'
<1> USE DEF History
<1>1. UNCHANGED <<cursor, effects, current, step, done>>
  BY AppendedEvent
<1>2. PICK e \in Event :
        /\ log' = Append(log, e)
        /\ \/ e.id = Len(log) + 1
           \/ /\ e.id \in 1..Len(log) /\ Accepted(e.id)
              /\ log[e.id].thread = e.thread /\ log[e.id].id = e.id
  BY AppendedEvent
<1> DEFINE n == Len(log) + 1
<1>3. /\ Len(log) \in Nat /\ Len(log') = n
      /\ \A r \in 1..Len(log) : log'[r] = log[r]
      /\ log'[n] = e
  BY <1>2, AppendType DEF IInv, TypeOK
<1>4. e.thread \in Threads
  BY DEF Event
<1>5. cursor[e.thread] <= Len(log) /\ cursor[e.thread] \in Nat
  BY <1>4 DEF CursorInLog, IInv, TypeOK
<1>6. \A r \in 1..Len(log') : r \in 1..Len(log) \/ r = n
  BY <1>3
<1>7. ~(n <= cursor[e.thread])
  BY <1>3, <1>5
<1> HIDE DEF n
<1>8. CursorInLog'
  BY <1>1, <1>3 DEF CursorInLog, IInv, TypeOK, n
<1>9. IdsAreFirst'
  <2> SUFFICES ASSUME NEW r \in 1..Len(log')
               PROVE  /\ log'[r].id \in 1..Len(log')
                      /\ log'[log'[r].id].thread = log'[r].thread
                      /\ log'[log'[r].id].id = log'[r].id
    BY DEF IdsAreFirst
  <2>1. 1..Len(log) \subseteq 1..Len(log') /\ n \in 1..Len(log')
    BY <1>3 DEF n
  <2>2. CASE r \in 1..Len(log)
    BY <1>3, <2>1, <2>2 DEF IdsAreFirst
  <2>3. CASE r = n
    BY <1>2, <1>3, <2>1, <2>3 DEF n
  <2> QED
    BY <1>6, <2>2, <2>3
<1>10. CopiesOfAccepted'
  <2> SUFFICES ASSUME NEW r \in 1..Len(log'), NEW i, i = log'[r].id, i # r
               PROVE  i <= cursor[log'[i].thread]
    BY <1>1 DEF CopiesOfAccepted, Accepted
  <2>1. CASE r \in 1..Len(log)
    <3>1. i = log[r].id /\ i \in 1..Len(log)
      BY <1>3, <2>1 DEF IdsAreFirst
    <3> QED
      BY <1>3, <2>1, <3>1 DEF CopiesOfAccepted, Accepted
  <2>2. CASE r = n
    <3>1. i = e.id /\ i \in 1..Len(log) /\ Accepted(i)
      BY <1>2, <1>3, <2>2 DEF n
    <3> QED
      BY <1>3, <3>1 DEF Accepted
  <2> QED
    BY <1>6, <2>1, <2>2
<1>11. EffectsHaveEvents'
  <2>1. 1..Len(log) \subseteq 1..Len(log')
    BY <1>3 DEF n
  <2> QED
    BY <1>1, <1>3, <2>1 DEF EffectsHaveEvents
<1>12. CommittedFromFirst'
  BY <1>1 DEF CommittedFromFirst, Committed
<1>13. DoneIsCommitted'
  <2> SUFFICES ASSUME step = "effects"
               PROVE  DoneIsCommitted'
    BY <1>1 DEF DoneIsCommitted
  <2>1. current \in 1..Len(log) /\ log'[current] = log[current]
    BY <1>3, CurrentHead
  <2> QED
    BY <1>1, <2>1 DEF DoneIsCommitted, Committed
<1>14. AcceptedEffectsCommitted'
  <2> SUFFICES ASSUME NEW r \in 1..Len(log'), r <= cursor[log'[r].thread],
                      NEW k \in 1..EffectsPerEvent
               PROVE  \E i \in 1..Len(effects[log'[r].thread]) :
                         effects[log'[r].thread][i] = <<log'[r].id, k>>
    BY <1>1 DEF AcceptedEffectsCommitted, Accepted
  <2>1. r \in 1..Len(log) /\ log'[r] = log[r]
    BY <1>3, <1>6, <1>7
  <2> QED
    BY <2>1 DEF EffectsFaithful, AcceptedEffectsCommitted, Accepted
<1>15. EffectsOnceInOrder'
  BY <1>1 DEF EffectsFaithful, EffectsOnceInOrder
<1>16. NoEffectPastHead'
  <2> SUFFICES ASSUME NEW t \in Threads, NEW i \in 1..Len(effects[t]),
                      NEW r \in 1..Len(log'), log'[r].thread = t, r < effects[t][i][1]
               PROVE  r <= cursor[log'[r].thread]
    BY <1>1 DEF NoEffectPastHead, Accepted
  <2>1. effects[t][i][1] \in 1..Len(log)
    BY DEF EffectsHaveEvents
  <2>2. r \in 1..Len(log)
    BY <1>3, <1>6, <2>1 DEF n
  <2> QED
    BY <1>3, <2>2 DEF EffectsFaithful, NoEffectPastHead, Accepted
<1> QED
  BY <1>8, <1>9, <1>10, <1>11, <1>12, <1>13, <1>14, <1>15, <1>16 DEF EffectsFaithful

-----------------------------------------------------------------------------
(* The worker's steps *)

LEMMA EventType ==
    ASSUME IInv, NEW s \in 1..Len(log)
    PROVE  log[s] \in Event /\ log[s].thread \in Threads
<1>1. log[s] \in Event
  BY DEF IInv, TypeOK
<1> QED
  BY <1>1 DEF Event

\* Every earlier event of the head's thread has been accepted.
LEMMA EarlierAccepted ==
    ASSUME IInv, NEW s, NextStored(s), NEW r \in 1..Len(log),
           log[r].thread = log[s].thread, r < s
    PROVE  r <= cursor[log[s].thread]
<1>1. s \in 1..Len(log) /\ log[s].thread \in Threads
  BY HeadIsRecorded DEF IInv
<1>2. Len(log) \in Nat /\ cursor[log[s].thread] \in Nat
  BY <1>1 DEF IInv, TypeOK
<1>3. r \in Pending(log[s].thread) => s <= r
  BY DEF NextStored, IsLeast
<1>4. ~(r <= cursor[log[s].thread]) => r \in Pending(log[s].thread)
  BY <1>2 DEF IInv, PendingRowsKept, Accepted, Pending
<1> QED
  BY <1>1, <1>2, <1>3, <1>4

\* The next command of the head is committed already, or the head is a first
\* event and its next command comes after every command of its thread.
LEMMA NextCommand ==
    ASSUME IInv, History, step = "effects", done < EffectsPerEvent,
           NEW t, t = log[current].thread, NEW c, c = <<log[current].id, done + 1>>,
           ~Committed(t, c)
    PROVE  /\ log[current].id = current
           /\ \A i \in 1..Len(effects[t]) :
                 \/ effects[t][i][1] < current
                 \/ effects[t][i][1] = current /\ effects[t][i][2] < done + 1
<1> USE DEF History
<1>1. /\ NextStored(current) /\ current \in 1..Len(log) /\ t \in Threads
      /\ current > cursor[t] /\ cursor[t] \in Nat
  BY CurrentHead DEF IInv, TypeOK
<1>2. done \in Nat /\ EffectsPerEvent \in Nat /\ done + 1 \in 1..EffectsPerEvent
  BY JournalAssumption DEF IInv, TypeOK
<1>3. Len(log) \in Nat
  BY DEF IInv, TypeOK
<1>4. log[current].id = current
  <2> SUFFICES ASSUME NEW id, id = log[current].id, id # current
               PROVE  FALSE
    OBVIOUS
  <2>1. id \in 1..Len(log) /\ log[id].thread = t /\ log[id].id = id /\ Accepted(id)
    BY <1>1 DEF IdsAreFirst, CopiesOfAccepted
  <2>2. Committed(t, <<id, done + 1>>)
    BY <1>2, <2>1 DEF EffectsFaithful, AcceptedEffectsCommitted, Committed
  <2> QED
    BY <2>2
<1>5. ASSUME NEW i \in 1..Len(effects[t])
      PROVE  \/ effects[t][i][1] < current
             \/ effects[t][i][1] = current /\ effects[t][i][2] < done + 1
  <2>1. effects[t][i][1] \in 1..Len(log) /\ effects[t][i][2] \in 1..EffectsPerEvent
    BY <1>1 DEF EffectsHaveEvents
  <2>2. ~(current < effects[t][i][1])
    BY <1>1, <1>3, <2>1 DEF EffectsFaithful, NoEffectPastHead, Accepted
  <2>3. ASSUME effects[t][i][1] = current, done + 1 <= effects[t][i][2]
        PROVE  FALSE
    <3>1. done + 1 \in 1..effects[t][i][2]
      BY <1>2, <2>1, <2>3
    <3>2. Committed(t, <<current, done + 1>>)
      BY <1>1, <2>3, <3>1 DEF CommittedFromFirst
    <3> QED
      BY <1>4, <3>2
  <2> QED
    BY <1>1, <1>2, <1>3, <2>1, <2>2, <2>3
<1> QED
  BY <1>4, <1>5

\* Dispatching a command of thread t either leaves the commands alone, because
\* it is committed, or appends it to those of t; either way it is committed.
LEMMA DispatchStep ==
    ASSUME IInv, History, DispatchEffect,
           NEW t, t = log[current].thread, NEW c, c = <<log[current].id, done + 1>>
    PROVE  /\ UNCHANGED <<log, rows, cursor, current>> /\ step = "effects" /\ step' = "effects"
           /\ done < EffectsPerEvent /\ done' = done + 1
           /\ t \in Threads /\ c \in Nat \X Nat
           /\ \/ Committed(t, c) /\ effects' = effects
              \/ /\ ~Committed(t, c)
                 /\ effects' = [effects EXCEPT ![t] = Append(effects[t], c)]
<1>1. /\ step = "effects" /\ done < EffectsPerEvent /\ done' = done + 1
      /\ effects' = dispatchProviderCommandOnce(t, c)
      /\ UNCHANGED <<log, rows, cursor, current, step>>
  BY DEF DispatchEffect
<1>2. t \in Threads /\ log[current] \in Event
  BY <1>1, CurrentHead
<1>3. log[current].id \in Nat /\ done + 1 \in Nat
  <2>1. done \in Nat
    BY JournalAssumption DEF IInv, TypeOK
  <2> QED
    BY <1>2, <2>1 DEF Event
<1> QED
  BY <1>1, <1>2, <1>3 DEF dispatchProviderCommandOnce, Committed

LEMMA DispatchHistory ==
    ASSUME IInv, History, DispatchEffect
    PROVE  History'
<1> USE DEF History
<1>1. PICK t, c : t = log[current].thread /\ c = <<log[current].id, done + 1>>
  OBVIOUS
<1>2. /\ UNCHANGED <<log, rows, cursor, current>> /\ step = "effects" /\ step' = "effects"
      /\ done < EffectsPerEvent /\ done' = done + 1
      /\ t \in Threads /\ c \in Nat \X Nat
      /\ \/ Committed(t, c) /\ effects' = effects
         \/ ~Committed(t, c) /\ effects' = [effects EXCEPT ![t] = Append(effects[t], c)]
  BY <1>1, DispatchStep
<1>3. /\ done \in Nat /\ done + 1 \in 1..EffectsPerEvent
      /\ effects \in [Threads -> Seq(Nat \X Nat)]
      /\ current \in 1..Len(log) /\ Len(log) \in Nat /\ NextStored(current)
  <2>1. current \in 1..Len(log) /\ NextStored(current)
    BY <1>2, CurrentHead
  <2>2. done \in Nat /\ EffectsPerEvent \in Nat
    BY JournalAssumption DEF IInv, TypeOK
  <2>3. effects \in [Threads -> Seq(Nat \X Nat)] /\ Len(log) \in Nat
    BY DEF IInv, TypeOK
  <2> QED
    BY <1>2, <2>1, <2>2, <2>3
<1>4. CASE Committed(t, c) /\ effects' = effects
  <2>1. DoneIsCommitted'
    <3> SUFFICES ASSUME NEW k \in 1..done + 1
                 PROVE  \E i \in 1..Len(effects[t]) : effects[t][i] = <<log[current].id, k>>
      BY <1>1, <1>2, <1>4 DEF DoneIsCommitted, Committed
    <3>1. k \in 1..done \/ k = done + 1
      BY <1>3
    <3> QED
      BY <1>1, <1>2, <1>4, <3>1 DEF DoneIsCommitted, Committed
  <2> QED
    BY <1>2, <1>4, <2>1, DurableHistory
<1>5. CASE ~Committed(t, c) /\ effects' = [effects EXCEPT ![t] = Append(effects[t], c)]
  <2> DEFINE n == Len(effects[t])
  <2>1. /\ c = <<current, done + 1>> /\ log[current].id = current
        /\ \A i \in 1..n : \/ effects[t][i][1] < current
                           \/ effects[t][i][1] = current /\ effects[t][i][2] < done + 1
    BY <1>1, <1>2, <1>5, NextCommand
  <2>2. effects[t] \in Seq(Nat \X Nat) /\ n \in Nat
    BY <1>2, <1>3
  <2>3. /\ Len(effects'[t]) = n + 1
        /\ \A i \in 1..n : effects'[t][i] = effects[t][i]
        /\ effects'[t][n + 1] = c
        /\ \A x \in Threads : x # t => effects'[x] = effects[x]
    BY <1>2, <1>3, <1>5, <2>2, AppendProperties
  <2>4. c[1] = current /\ c[2] = done + 1
    BY <2>1
  <2>5. \A i \in 1..n + 1 : i \in 1..n \/ i = n + 1
    BY <2>2
  <2>6. \A x \in Threads : /\ 1..Len(effects[x]) \subseteq 1..Len(effects'[x])
                           /\ \A i \in 1..Len(effects[x]) : effects'[x][i] = effects[x][i]
    BY <2>2, <2>3
  <2>7. n + 1 \in 1..Len(effects'[t])
    BY <2>2, <2>3
  <2> HIDE DEF n
  <2>8. CursorInLog' /\ IdsAreFirst'
    BY <1>2 DEF CursorInLog, IdsAreFirst
  <2>9. CopiesOfAccepted'
    BY <1>2 DEF CopiesOfAccepted, Accepted
  <2>10. EffectsHaveEvents'
    <3> SUFFICES ASSUME NEW x \in Threads, NEW i \in 1..Len(effects'[x])
                 PROVE  /\ effects'[x][i] \in Nat \X Nat
                        /\ effects'[x][i][1] \in 1..Len(log)
                        /\ log[effects'[x][i][1]].thread = x
                        /\ effects'[x][i][2] \in 1..EffectsPerEvent
      BY <1>2 DEF EffectsHaveEvents
    <3>1. CASE x = t /\ i = n + 1
      <4>1. effects'[x][i] = c
        BY <2>3, <3>1
      <4> QED
        BY <1>1, <1>2, <1>3, <2>4, <3>1, <4>1
    <3>2. CASE i \in 1..Len(effects[x])
      BY <2>6, <3>2 DEF EffectsHaveEvents
    <3> QED
      BY <2>3, <2>5, <3>1, <3>2 DEF n
  <2>11. ASSUME NEW k \in 1..done + 1
         PROVE  \E i \in 1..Len(effects'[t]) : effects'[t][i] = <<current, k>>
    <3>1. k \in 1..done \/ k = done + 1
      BY <1>3
    <3>2. CASE k \in 1..done
      <4>1. \E i \in 1..Len(effects[t]) : effects[t][i] = <<current, k>>
        BY <1>1, <1>2, <2>1, <3>2 DEF DoneIsCommitted, Committed
      <4> QED
        BY <1>2, <2>6, <4>1
    <3>3. CASE k = done + 1
      BY <2>1, <2>3, <2>7, <3>3
    <3> QED
      BY <3>1, <3>2, <3>3
  <2>12. DoneIsCommitted'
    <3>1. log'[current'].thread = t /\ log'[current'].id = current
      BY <1>1, <1>2, <2>1
    <3> SUFFICES ASSUME NEW k \in 1..done'
                 PROVE  \E i \in 1..Len(effects'[log'[current'].thread]) :
                           effects'[log'[current'].thread][i] = <<log'[current'].id, k>>
      BY DEF DoneIsCommitted, Committed
    <3>2. k \in 1..done + 1
      BY <1>2
    <3>3. \E i \in 1..Len(effects'[t]) : effects'[t][i] = <<current, k>>
      BY <2>11, <3>2
    <3> QED
      BY <3>1, <3>3
  <2>13. CommittedFromFirst'
    <3> SUFFICES ASSUME NEW x \in Threads, NEW i \in 1..Len(effects'[x]),
                        NEW k \in 1..effects'[x][i][2]
                 PROVE  \E j \in 1..Len(effects'[x]) :
                           effects'[x][j] = <<effects'[x][i][1], k>>
      BY DEF CommittedFromFirst, Committed
    <3>1. CASE x = t /\ i = n + 1
      <4>1. effects'[x][i][1] = current /\ k \in 1..done + 1
        BY <2>3, <2>4, <3>1
      <4> QED
        BY <2>11, <3>1, <4>1
    <3>2. CASE i \in 1..Len(effects[x])
      <4>1. effects'[x][i] = effects[x][i]
        BY <2>6, <3>2
      <4>2. \E j \in 1..Len(effects[x]) : effects[x][j] = <<effects[x][i][1], k>>
        BY <3>2, <4>1 DEF CommittedFromFirst, Committed
      <4> QED
        BY <2>6, <4>1, <4>2
    <3> QED
      BY <2>3, <2>5, <3>1, <3>2 DEF n
  <2>14. AcceptedEffectsCommitted'
    <3> SUFFICES ASSUME NEW s \in 1..Len(log), s <= cursor[log[s].thread],
                        NEW k \in 1..EffectsPerEvent
                 PROVE  \E i \in 1..Len(effects'[log[s].thread]) :
                           effects'[log[s].thread][i] = <<log[s].id, k>>
      BY <1>2 DEF AcceptedEffectsCommitted, Accepted
    <3>1. PICK x \in Threads : x = log[s].thread
      BY EventType
    <3>2. \E i \in 1..Len(effects[x]) : effects[x][i] = <<log[s].id, k>>
      BY <3>1 DEF EffectsFaithful, AcceptedEffectsCommitted, Accepted
    <3> QED
      BY <2>6, <3>1, <3>2
  <2>15. EffectsOnceInOrder'
    <3> SUFFICES ASSUME NEW x \in Threads, NEW i \in 1..Len(effects'[x]),
                        NEW j \in 1..Len(effects'[x]), i < j
                 PROVE  \/ effects'[x][i][1] < effects'[x][j][1]
                        \/ /\ effects'[x][i][1] = effects'[x][j][1]
                           /\ effects'[x][i][2] < effects'[x][j][2]
      BY DEF EffectsOnceInOrder
    <3>1. CASE i \in 1..Len(effects[x]) /\ j \in 1..Len(effects[x])
      BY <2>6, <3>1 DEF EffectsFaithful, EffectsOnceInOrder
    <3>2. CASE x = t /\ j = n + 1
      <4>1. i \in 1..n
        BY <2>2, <2>3, <2>5, <3>2
      <4> QED
        BY <2>1, <2>3, <2>4, <3>2, <4>1
    <3>3. ASSUME x = t, j # n + 1
          PROVE  i \in 1..Len(effects[x]) /\ j \in 1..Len(effects[x])
      <4>1. j \in 1..n + 1 /\ i \in 1..n + 1
        BY <2>3, <3>3
      <4>2. j \in 1..n /\ i \in 1..n
        BY <2>2, <3>3, <4>1
      <4> QED
        BY <3>3, <4>2 DEF n
    <3> QED
      BY <2>3, <3>1, <3>2, <3>3
  <2>16. NoEffectPastHead'
    <3> SUFFICES ASSUME NEW x \in Threads, NEW i \in 1..Len(effects'[x]),
                        NEW r \in 1..Len(log), log[r].thread = x, r < effects'[x][i][1]
                 PROVE  r <= cursor[log[r].thread]
      BY <1>2 DEF NoEffectPastHead, Accepted
    <3>1. CASE x = t /\ i = n + 1
      BY <1>1, <1>3, <2>3, <2>4, <3>1, EarlierAccepted
    <3>2. CASE i \in 1..Len(effects[x])
      BY <2>6, <3>2 DEF EffectsFaithful, NoEffectPastHead, Accepted
    <3> QED
      BY <2>3, <2>5, <3>1, <3>2 DEF n
  <2> QED
    BY <2>8, <2>9, <2>10, <2>11, <2>13, <2>14, <2>15, <2>16, <2>12 DEF EffectsFaithful
<1> QED
  BY <1>2, <1>4, <1>5

\* Accepting moves the cursor of the head's thread up to the head, past nothing
\* but the head.
LEMMA AcceptMoves ==
    ASSUME IInv, AcceptHead, NEW t, t = log[current].thread
    PROVE  /\ UNCHANGED <<log, effects>> /\ step = "effects" /\ step' = "idle"
           /\ done = EffectsPerEvent
           /\ t \in Threads /\ current \in 1..Len(log) /\ Len(log) \in Nat
           /\ cursor'[t] = current /\ cursor[t] \in Nat /\ cursor[t] < current
           /\ \A x \in Threads : x # t => cursor'[x] = cursor[x]
           /\ \A r \in 1..Len(log) : log[r].thread = t /\ r <= current =>
                 r = current \/ r <= cursor[t]
<1>1. /\ UNCHANGED <<log, effects>> /\ step = "effects" /\ done = EffectsPerEvent
      /\ step' = "idle" /\ cursor' = [cursor EXCEPT ![t] = current]
  BY DEF AcceptHead, HeadDone, advanceThreadCursor
<1>2. /\ NextStored(current) /\ current \in 1..Len(log) /\ t \in Threads
      /\ current > cursor[t]
  BY <1>1, CurrentHead
<1>3. Len(log) \in Nat /\ cursor \in [Threads -> Nat] /\ cursor[t] \in Nat
  BY <1>2 DEF IInv, TypeOK
<1>4. ASSUME NEW r \in 1..Len(log), log[r].thread = t, r <= current
      PROVE  r = current \/ r <= cursor[t]
  BY <1>2, <1>3, <1>4, EarlierAccepted
<1> QED
  BY <1>1, <1>2, <1>3, <1>4

LEMMA AcceptHistory ==
    ASSUME IInv, History, AcceptHead
    PROVE  History'
<1> USE DEF History
<1>1. PICK t : t = log[current].thread
  OBVIOUS
<1>2. /\ UNCHANGED <<log, effects>> /\ step = "effects" /\ step' = "idle"
      /\ done = EffectsPerEvent
      /\ t \in Threads /\ current \in 1..Len(log) /\ Len(log) \in Nat
      /\ cursor'[t] = current /\ cursor[t] \in Nat /\ cursor[t] < current
      /\ \A x \in Threads : x # t => cursor'[x] = cursor[x]
      /\ \A r \in 1..Len(log) : log[r].thread = t /\ r <= current =>
            r = current \/ r <= cursor[t]
  BY <1>1, AcceptMoves
<1>3. \A r \in 1..Len(log) : r <= cursor[log[r].thread] => r <= cursor'[log[r].thread]
  <2> SUFFICES ASSUME NEW r \in 1..Len(log), r <= cursor[log[r].thread]
               PROVE  r <= cursor'[log[r].thread]
    OBVIOUS
  <2>1. log[r].thread \in Threads
    BY EventType
  <2> QED
    BY <1>2, <2>1
<1>4. CursorInLog'
  BY <1>2 DEF CursorInLog
<1>5. IdsAreFirst'
  BY <1>2 DEF IdsAreFirst
<1>6. CopiesOfAccepted'
  <2> SUFFICES ASSUME NEW s \in 1..Len(log), NEW i, i = log[s].id, i # s
               PROVE  i <= cursor'[log[i].thread]
    BY <1>2 DEF CopiesOfAccepted, Accepted
  <2>1. i \in 1..Len(log) /\ i <= cursor[log[i].thread]
    BY DEF IdsAreFirst, CopiesOfAccepted, Accepted
  <2> QED
    BY <1>3, <2>1
<1>7. EffectsHaveEvents'
  BY <1>2 DEF EffectsHaveEvents
<1>8. CommittedFromFirst'
  <2> SUFFICES ASSUME NEW x \in Threads, NEW i \in 1..Len(effects[x]),
                      NEW k \in 1..effects[x][i][2]
               PROVE  \E j \in 1..Len(effects[x]) : effects[x][j] = <<effects[x][i][1], k>>
    BY <1>2 DEF CommittedFromFirst, Committed
  <2> QED
    BY DEF CommittedFromFirst, Committed
<1>9. DoneIsCommitted'
  BY <1>2 DEF DoneIsCommitted
<1>10. AcceptedEffectsCommitted'
  <2> SUFFICES ASSUME NEW s \in 1..Len(log), s <= cursor'[log[s].thread],
                      NEW k \in 1..EffectsPerEvent
               PROVE  \E i \in 1..Len(effects[log[s].thread]) :
                         effects[log[s].thread][i] = <<log[s].id, k>>
    BY <1>2 DEF AcceptedEffectsCommitted, Accepted
  <2>1. log[s].thread \in Threads
    BY EventType
  <2>2. CASE s = current
    BY <1>2, <2>2 DEF DoneIsCommitted, Committed
  <2>3. CASE s <= cursor[log[s].thread]
    BY <2>3 DEF EffectsFaithful, AcceptedEffectsCommitted, Accepted
  <2> QED
    BY <1>2, <2>1, <2>2, <2>3
<1>11. EffectsOnceInOrder'
  BY <1>2 DEF EffectsFaithful, EffectsOnceInOrder
<1>12. NoEffectPastHead'
  <2> SUFFICES ASSUME NEW x \in Threads, NEW i \in 1..Len(effects[x]),
                      NEW r \in 1..Len(log), log[r].thread = x, r < effects[x][i][1]
               PROVE  r <= cursor'[log[r].thread]
    BY <1>2 DEF NoEffectPastHead, Accepted
  <2> QED
    BY <1>3 DEF EffectsFaithful, NoEffectPastHead, Accepted
<1> QED
  BY <1>4, <1>5, <1>6, <1>7, <1>8, <1>9, <1>10, <1>11, <1>12 DEF EffectsFaithful

LEMMA HistoryStep ==
    ASSUME IInv, History, [Next]_vars
    PROVE  History'
<1>1. CASE UNCHANGED vars
  <2>1. Elsewhere
    BY <1>1 DEF Elsewhere, vars, durable, worker
  <2> QED
    BY <2>1, ElsewhereHistory
<1>2. CASE Next
  BY <1>2, StepsElsewhere, AcceptHistory, DispatchHistory, TakeHeadHistory, AppendHistory,
     ElsewhereHistory
<1> QED
  BY <1>1, <1>2

\* Across failures, retries, replayed events, quarantine and restarts the
\* commands of a thread are those an uninterrupted run would have dispatched up
\* to its cursor, in order and once each, and the head's own so far
\* (processInput and dispatchProviderCommandOnce).
THEOREM TranscriptIsFaithful == Spec => []EffectsFaithful
<1>1. Init => History
  BY InitHistory
<1>2. IInv /\ History /\ [Next]_vars => History'
  BY HistoryStep
<1>3. History => EffectsFaithful
  BY DEF History
<1> QED
  BY <1>1, <1>2, <1>3, Invariance, PTL DEF Spec

-----------------------------------------------------------------------------
(* What retention keeps *)

\* A step that appends and accepts nothing removes no row, and forgets that a
\* turn is open only when the turn is settled.
LedgerEases ==
    /\ UNCHANGED <<log, rows, cursor, closedAt>>
    /\ \A t \in Threads : \A u \in Turns :
          /\ u \in settled[t] => u \in settled'[t]
          /\ openTurn'[t][u] = openTurn[t][u] \/ u \in settled'[t]

LEMMA StepsEase ==
    ASSUME TypeOK, Next
    PROVE  AcceptHead \/ Appending \/ LedgerEases
<1> DEFINE Same == UNCHANGED <<log, rows, cursor, closedAt, openTurn, settled>>
<1>1. ASSUME Same PROVE LedgerEases
  BY <1>1 DEF LedgerEases
<1>2. ASSUME UNCHANGED <<log, rows, cursor, settled, external>>,
             openTurn' = pruneSettledOpenTurns
      PROVE  LedgerEases
  BY <1>2 DEF LedgerEases, pruneSettledOpenTurns, external
<1>3. ASSUME NEW t \in Threads, NEW u \in Turns, SettleTurn(t, u) PROVE LedgerEases
  BY <1>3 DEF TypeOK, SettleTurn, LedgerEases, external
<1>4. Startup => LedgerEases
  <2>1. PruneAtStartup => LedgerEases
    BY <1>2 DEF PruneAtStartup
  <2>2. Boot \/ (\E t \in Threads : ReleaseAtStartup(t)) \/ ReleaseDone \/ RestoreAttention
        \/ FailStartup => Same
    BY DEF Boot, ReleaseAtStartup, ReleaseDone, RestoreAttention, FailStartup, durable, external
  <2> QED
    BY <1>1, <2>1, <2>2 DEF Startup
<1>5. Drain => Same
  BY DEF Drain, BeginDrain, ReadPage, EndDrain, FailDrain, durable, external
<1>6. Worker => AcceptHead \/ Same
  BY DEF Worker, TakeHead, DispatchEffect, FailHead, RecordFailure, LoseFailure,
         ProjectAttention, durable, external
<1>7. Clock => Same
  BY DEF Clock, RetryDue, BlockedLongEnough, external
<1>8. Environment => Appending \/ LedgerEases
  <2>1. reconcileSettledOpenTurns => LedgerEases
    BY <1>2 DEF reconcileSettledOpenTurns
  <2>2. Crash \/ (\E t \in Threads : RetryThreadProjection(t)) => Same
    BY DEF Crash, RetryThreadProjection, durable, external
  <2> QED
    BY <1>1, <1>3, <2>1, <2>2 DEF Environment, Appending
<1> QED
  BY <1>1, <1>4, <1>5, <1>6, <1>7, <1>8 DEF Next

\* The newest RetainAccepted events are among the newest stored rows, whatever
\* gaps retention has left before.
LEMMA TailIsNewest ==
    ASSUME TypeOK, NEW s \in rows, s + RetainAccepted > Len(log)
    PROVE  s \in NewestRows
<1> DEFINE after == {r \in rows : r >= s}
<1>1. Len(log) \in Nat /\ RetainAccepted \in Nat /\ s \in Nat /\ s <= Len(log)
  BY JournalAssumption DEF TypeOK
<1>2. after \in SUBSET (s..Len(log))
  BY <1>1 DEF TypeOK
<1>3. IsFiniteSet(s..Len(log)) /\ Cardinality(s..Len(log)) = Len(log) - s + 1
  BY <1>1, FS_Interval
<1>4. /\ IsFiniteSet(after) /\ Cardinality(after) <= Len(log) - s + 1
  BY <1>2, <1>3, FS_Subset
<1>5. Cardinality(after) \in Nat
  BY <1>4, FS_CardinalityType
<1>6. Cardinality(after) <= RetainAccepted
  BY <1>1, <1>4, <1>5
<1> QED
  BY <1>6 DEF NewestRows

\* What the cursor transaction keeps, as the two properties need it.
LEMMA AcceptKeepsRows ==
    ASSUME IInv, AcceptHead, NEW s \in rows, s \notin rows'
    PROVE  /\ s \notin NewestRows
           /\ log[s].turn # NoTurn =>
                \/ openTurn'[log[s].thread][log[s].turn] = 0
                \/ ~(s >= openTurn'[log[s].thread][log[s].turn])
BY DEF AcceptHead, Deletable

LEMMA TailStep ==
    ASSUME IInv, TailKept, [Next]_vars
    PROVE  TailKept'
<1>0. Len(log) \in Nat /\ RetainAccepted \in Nat
  BY JournalAssumption DEF IInv, TypeOK
<1>1. CASE AcceptHead
  <2> SUFFICES ASSUME NEW s \in 1..Len(log), s + RetainAccepted > Len(log)
               PROVE  s \in rows'
    BY <1>1 DEF AcceptHead, TailKept
  <2> QED
    BY <1>1, TailIsNewest, AcceptKeepsRows DEF IInv, TailKept
<1>2. CASE Appending
  <2>1. PICK e \in Event : log' = Append(log, e)
    BY <1>2, AppendSteps DEF Appending
  <2>2. rows' = rows \cup {Len(log) + 1}
    BY <1>2, AppendSteps DEF Appending
  <2>3. Len(log') = Len(log) + 1
    BY <2>1, AppendType DEF IInv
  <2> SUFFICES ASSUME NEW s \in 1..Len(log'), s + RetainAccepted > Len(log')
               PROVE  s \in rows'
    BY DEF TailKept
  <2> QED
    BY <1>0, <2>2, <2>3 DEF TailKept
<1>3. CASE LedgerEases
  BY <1>3 DEF LedgerEases, TailKept
<1>4. CASE UNCHANGED vars
  BY <1>4 DEF vars, durable, TailKept
<1> QED
  BY <1>1, <1>2, <1>3, <1>4, StepsEase DEF IInv

\* A turn that the head does not end stays open where it was: the ledger
\* neither forgets it nor moves it forward.
LEMMA LedgerHolds ==
    ASSUME IInv, NEW s \in Nat, NEW e \in Event, NEW u \in Turns,
           openTurn[e.thread][u] # 0, openTurn[e.thread][u] <= s, ~Ends(e, u)
    PROVE  updateOpenTurnLedger(e, s)[e.thread][u] = openTurn[e.thread][u]
<1>1. e.thread \in Threads /\ e.turn \in Turns \cup {NoTurn} /\ e.kind \in Kinds
  BY DEF Event
<1>2. openTurn \in [Threads -> [Turns -> Nat]]
  BY DEF IInv, TypeOK
<1>3. CASE e.turn # NoTurn /\ e.kind = "progress"
  BY <1>1, <1>2, <1>3 DEF updateOpenTurnLedger
<1>4. CASE e.turn # NoTurn /\ e.kind # "progress"
  BY <1>1, <1>2, <1>4 DEF updateOpenTurnLedger, Ends
<1>5. CASE e.turn = NoTurn /\ e.kind # "progress"
  <2>1. e.kind = "turnEnd"
    BY <1>1, <1>5 DEF Ends, Kinds
  <2>2. PICK w \in Turns \ {u} : openTurn[e.thread][w] # 0
    BY <1>5 DEF Ends
  <2>3. {u, w} \subseteq {v \in Turns : openTurn[e.thread][v] # 0}
    BY <2>2
  <2>4. ~(\E x \in Turns : {v \in Turns : openTurn[e.thread][v] # 0} = {x})
    BY <2>2, <2>3
  <2> QED
    BY <1>5, <2>1, <2>4 DEF updateOpenTurnLedger
<1>6. CASE e.turn = NoTurn /\ e.kind = "progress"
  BY <1>6 DEF updateOpenTurnLedger
<1> QED
  BY <1>3, <1>4, <1>5, <1>6

LEMMA AcceptKeepsOpenTurns ==
    ASSUME IInv, OpenTurnReplayable, AcceptHead
    PROVE  OpenTurnReplayable'
<1>1. PICK t, e : t = log[current].thread /\ e = log[current]
  OBVIOUS
<1>2. /\ UNCHANGED <<log, settled>>
      /\ openTurn' = updateOpenTurnLedger(e, current)
      /\ closedAt' = [closedAt EXCEPT ![t] =
                        [u \in Turns |-> IF Ends(e, u) THEN current ELSE closedAt[t][u]]]
  BY <1>1 DEF AcceptHead
<1>3. /\ t \in Threads /\ current \in 1..Len(log) /\ Len(log) \in Nat
      /\ cursor'[t] = current /\ cursor[t] \in Nat
      /\ \A x \in Threads : x # t => cursor'[x] = cursor[x]
      /\ \A r \in 1..Len(log) : log[r].thread = t /\ r <= current =>
            r = current \/ r <= cursor[t]
  BY <1>1, AcceptMoves
<1>4. e \in Event /\ e.thread = t /\ current \in rows
  <2>1. step = "effects"
    BY DEF AcceptHead
  <2> QED
    BY <1>1, <2>1, CurrentHead
<1>5. /\ openTurn \in [Threads -> [Turns -> Nat]] /\ openTurn' \in [Threads -> [Turns -> Nat]]
      /\ closedAt \in [Threads -> [Turns -> Nat]]
  BY <1>2, <1>3, <1>4, LedgerType DEF IInv, TypeOK
<1>6. \A x \in Threads : x # t => openTurn'[x] = openTurn[x] /\ closedAt'[x] = closedAt[x]
  <2>1. \A x \in Threads : x # t => closedAt'[x] = closedAt[x]
    BY <1>2, <1>5
  <2>2. \A x \in Threads : x # t => updateOpenTurnLedger(e, current)[x] = openTurn[x]
    BY <1>3, <1>4, <1>5 DEF updateOpenTurnLedger
  <2> QED
    BY <1>2, <2>1, <2>2
<1>7. \A u \in Turns : closedAt'[t][u] = IF Ends(e, u) THEN current ELSE closedAt[t][u]
  BY <1>2, <1>3, <1>5
<1> SUFFICES ASSUME NEW s \in 1..Len(log), NEW x, x = log[s].thread, NEW u, u = log[s].turn,
                    log[s].kind = "progress", u # NoTurn,
                    s <= cursor'[x], u \notin settled[x], s > closedAt'[x][u]
             PROVE  s \in rows' /\ openTurn'[x][u] \in 1..s
  BY <1>2 DEF OpenTurnReplayable, Accepted
<1>8. x \in Threads /\ u \in Turns
  BY EventType DEF Event
<1>9. s \in rows /\ openTurn'[x][u] \in 1..s
  <2>1. CASE s = current
    <3>1. e.turn = u /\ e.kind = "progress" /\ x = t /\ u \notin settled[e.thread]
      BY <1>1, <1>4, <2>1
    <3>2. updateOpenTurnLedger(e, current)[t][u] =
            IF openTurn[t][u] = 0 \/ current < openTurn[t][u] THEN current ELSE openTurn[t][u]
      BY <1>4, <1>5, <1>8, <3>1 DEF updateOpenTurnLedger
    <3> QED
      BY <1>2, <1>3, <1>4, <1>5, <1>8, <2>1, <3>1, <3>2
  <2>2. CASE x # t
    <3>1. s <= cursor[x] /\ s > closedAt[x][u]
      BY <1>3, <1>6, <1>8, <2>2
    <3> QED
      BY <1>6, <1>8, <2>2, <3>1 DEF OpenTurnReplayable, Accepted
  <2>3. CASE x = t /\ s # current
    <3>1. s <= cursor[t] /\ s <= current
      BY <1>3, <2>3
    <3>2. ~Ends(e, u) /\ s > closedAt[t][u]
      BY <1>3, <1>5, <1>7, <1>8, <2>3, <3>1
    <3>3. s \in rows /\ openTurn[t][u] \in 1..s
      BY <2>3, <3>1, <3>2 DEF OpenTurnReplayable, Accepted
    <3>4. updateOpenTurnLedger(e, current)[t][u] = openTurn[t][u]
      BY <1>3, <1>4, <1>8, <3>1, <3>2, <3>3, LedgerHolds
    <3> QED
      BY <1>2, <2>3, <3>3, <3>4
  <2> QED
    BY <2>1, <2>2, <2>3
<1>10. s \in rows'
  BY <1>2, <1>9, AcceptKeepsRows
<1> QED
  BY <1>9, <1>10

LEMMA OpenTurnStep ==
    ASSUME IInv, CursorInLog, OpenTurnReplayable, [Next]_vars
    PROVE  OpenTurnReplayable'
<1>1. CASE AcceptHead
  BY <1>1, AcceptKeepsOpenTurns
<1>2. CASE Appending
  <2>1. PICK e \in Event : log' = Append(log, e)
    BY <1>2, AppendSteps DEF Appending
  <2>2. /\ rows \subseteq rows'
        /\ UNCHANGED <<cursor, openTurn, settled, closedAt>>
    BY <1>2 DEF Appending, AppendEvent, ReplayEvent, external
  <2>3. /\ Len(log) \in Nat /\ Len(log') = Len(log) + 1
        /\ \A r \in 1..Len(log) : log'[r] = log[r]
        /\ log'[Len(log) + 1] = e
    BY <2>1, AppendType DEF IInv, TypeOK
  <2>4. cursor[e.thread] \in Nat /\ cursor[e.thread] <= Len(log)
    BY DEF Event, CursorInLog, IInv, TypeOK
  <2> SUFFICES ASSUME NEW s \in 1..Len(log'), s <= cursor[log'[s].thread],
                      log'[s].kind = "progress", log'[s].turn # NoTurn,
                      log'[s].turn \notin settled[log'[s].thread],
                      s > closedAt[log'[s].thread][log'[s].turn]
               PROVE  s \in rows' /\ openTurn[log'[s].thread][log'[s].turn] \in 1..s
    BY <2>2 DEF OpenTurnReplayable, Accepted
  <2>5. s \in 1..Len(log) /\ log'[s] = log[s]
    BY <2>3, <2>4
  <2> QED
    BY <2>2, <2>5 DEF OpenTurnReplayable, Accepted
<1>3. CASE LedgerEases
  <2> SUFFICES ASSUME NEW s \in 1..Len(log), NEW x, x = log[s].thread, NEW u, u = log[s].turn,
                      log[s].kind = "progress", u # NoTurn,
                      s <= cursor[x], u \notin settled'[x], s > closedAt[x][u]
               PROVE  s \in rows /\ openTurn'[x][u] \in 1..s
    BY <1>3 DEF LedgerEases, OpenTurnReplayable, Accepted
  <2>1. x \in Threads /\ u \in Turns
    BY EventType DEF Event
  <2>2. u \notin settled[x] /\ openTurn'[x][u] = openTurn[x][u]
    BY <1>3, <2>1 DEF LedgerEases
  <2> QED
    BY <2>2 DEF OpenTurnReplayable, Accepted
<1>4. CASE UNCHANGED vars
  BY <1>4 DEF vars, durable, external, OpenTurnReplayable, Accepted
<1> QED
  BY <1>1, <1>2, <1>3, <1>4, StepsEase DEF IInv

LEMMA InitRetention ==
    ASSUME Init
    PROVE  RetentionKeeps
<1>1. 1..Len(log) = {}
  BY DEF Init
<1> QED
  BY <1>1 DEF RetentionKeeps, OpenTurnReplayable, TailKept

\* The retention scan of processInput leaves every accepted event of an open
\* turn stored and in the ledger's range, and the newest RetainAccepted events:
\* what a restart replays from and what an operator looks back on.
THEOREM RetentionIsSafe == Spec => []RetentionKeeps
<1>1. Init => History /\ RetentionKeeps
  BY InitHistory, InitRetention
<1>2. IInv /\ History /\ RetentionKeeps /\ [Next]_vars => History' /\ RetentionKeeps'
  BY HistoryStep, TailStep, OpenTurnStep DEF History, RetentionKeeps
<1> QED
  BY <1>1, <1>2, Invariance, PTL DEF Spec

-----------------------------------------------------------------------------
(* What it takes to quarantine *)

\* A release, a due retry or an ageing failure quarantines nothing.
LEMMA FailureStepsQuarantineNothing ==
    ASSUME IInv, FailureStep, NEW s \in DOMAIN failures', failures'[s].status = "quarantined"
    PROVE  s \in DOMAIN failures /\ failures[s].status = "quarantined"
BY FailureSteps

\* Recording a failure quarantines a row only on evidence it carried before.
LEMMA RecordNeedsEvidence ==
    ASSUME IInv, NEW fp \in Fingerprints, RecordFailure(fp),
           NEW s \in DOMAIN failures', failures'[s].status = "quarantined"
    PROVE  /\ s \in DOMAIN failures
           /\ \/ failures[s].status = "quarantined"
              \/ failures[s].fp = failures'[s].fp /\ failures[s].aged
<1>1. failures' = WithFailure(current, recordProjectionFailure(current, fp))
  BY DEF RecordFailure
<1>2. CASE s # current
  BY <1>1, <1>2 DEF WithFailure
<1>3. CASE s = current
  <2>1. failures'[s] = recordProjectionFailure(s, fp)
    BY <1>1, <1>3 DEF WithFailure
  <2> QED
    BY <2>1 DEF recordProjectionFailure
<1> QED
  BY <1>2, <1>3

\* Every other step keeps the status of the failures it does not remove.
LEMMA OthersQuarantineNothing ==
    ASSUME Next
    PROVE  \/ FailureStep
           \/ \E fp \in Fingerprints : RecordFailure(fp)
           \/ AcceptHead
           \/ UNCHANGED failures
<1>1. Startup => FailureStep \/ UNCHANGED failures
  BY DEF Startup, FailureStep, Boot, PruneAtStartup, ReleaseDone, RestoreAttention,
         FailStartup, durable
<1>2. Drain => UNCHANGED failures
  BY DEF Drain, BeginDrain, ReadPage, EndDrain, FailDrain, durable
<1>3. Worker => AcceptHead \/ (\E fp \in Fingerprints : RecordFailure(fp)) \/ UNCHANGED failures
  BY DEF Worker, TakeHead, DispatchEffect, FailHead, LoseFailure, ProjectAttention, durable
<1>4. Clock => FailureStep
  BY DEF Clock, FailureStep
<1>5. Environment => FailureStep \/ UNCHANGED failures
  BY DEF Environment, FailureStep, AppendEvent, ReplayEvent, SettleTurn,
         reconcileSettledOpenTurns, Crash, durable
<1> QED
  BY <1>1, <1>2, <1>3, <1>4, <1>5 DEF Next

\* One failure, or a failure with an error not seen before, never quarantines a
\* thread: a quarantine always repeats an error that has blocked it for the
\* minimum time (recordProjectionFailure).
THEOREM QuarantineIsDeliberate == Spec => QuarantineNeedsRepetition
<1> DEFINE A == \A s \in DOMAIN failures' :
                   failures'[s].status = "quarantined" =>
                      /\ s \in DOMAIN failures
                      /\ \/ failures[s].status = "quarantined"
                         \/ failures[s].fp = failures'[s].fp /\ failures[s].aged
<1>1. IInv /\ [Next]_vars => A
  <2> SUFFICES ASSUME IInv, [Next]_vars, NEW s \in DOMAIN failures',
                      failures'[s].status = "quarantined"
               PROVE  /\ s \in DOMAIN failures
                      /\ \/ failures[s].status = "quarantined"
                         \/ failures[s].fp = failures'[s].fp /\ failures[s].aged
    OBVIOUS
  <2>1. CASE FailureStep
    BY <2>1, FailureStepsQuarantineNothing
  <2>2. CASE \E fp \in Fingerprints : RecordFailure(fp)
    BY <2>2, RecordNeedsEvidence
  <2>3. CASE AcceptHead
    BY <2>3, AcceptHeadStep DEF AcceptHead, cascade, resolveFailure
  <2>4. CASE UNCHANGED failures
    BY <2>4
  <2>5. UNCHANGED vars => UNCHANGED failures
    BY DEF vars, durable
  <2> QED
    BY <2>1, <2>2, <2>3, <2>4, <2>5, OthersQuarantineNothing
<1>2. []IInv /\ [][Next]_vars => [][A]_vars
  BY <1>1, PTL
<1>3. QuarantineNeedsRepetition <=> [][A]_vars
  BY DEF QuarantineNeedsRepetition
<1> QED
  BY <1>2, <1>3, Invariance, PTL DEF Spec
=============================================================================
