------------------------ MODULE CommandDeliveryProofs ------------------------
(***************************************************************************)
(* What CommandDelivery promises, for any threads, histories and bounds    *)
(* that satisfy DeliveryAssumption: the source never meets a gap, a        *)
(* blocked thread is silent, only blocked work is skipped, and no command  *)
(* is sent again without cause.                                            *)
(***************************************************************************)
EXTENDS CommandDelivery, WellFoundedInduction, SequenceTheorems, TLAPS

-----------------------------------------------------------------------------
(* The invariant *)

\* The in-memory cursor is the durable one; a process that is down holds nothing.
Placed ==
    /\ phase # "down" => cursor = acked
    /\ phase = "down" => AtRest /\ ~operating

\* Rows exist only for events handed to the provider, at most one past the cursor.
RowsReached ==
    /\ \A n \in Events : state[n] # "none" => n <= Len(log) /\ n <= acked + 1
    /\ retries \subseteq 1 .. acked
    /\ span \subseteq gone + 1 .. acked

\* The job knows its event and thread, and its event is stored until it is acknowledged.
InHand ==
    /\ job.step = "idle" <=> job = Idle
    /\ job.step # "idle" => job.thread \in Threads
    /\ job.event # 0 => job.thread = log[job.event].thread
    /\ job.event = 0 => job.step \in {"idle", "fence", "abandon"} /\ job.why \in {"none", "heal"}
    /\ job.step \in {"fence", "abandon"} => job.why \in {"turn", "lease", "heal"}
    /\ job.why = "heal" => job.event = 0
    /\ job.why = "turn" => log[job.event].kind = "turnStart"
    /\ job.event <= acked + 1
    /\ span # {} => job.event <= acked
    /\ IF job.step \in {"fence", "abandon"} /\ job.why = "lease"
       THEN job.event <= acked
       ELSE job.event # 0 => gone < job.event
    /\ job.step \in {"call", "answer"} => state[job.event] = "inflight"

\* The live queue is at most one event past the cursor, and then it is in hand.
QueueMeetsCursor ==
    /\ phase = "replay" => next <= goal + 1
    /\ phase = "live" /\ next > acked + 1 =>
          /\ ~operating /\ job.step # "idle"
          /\ next = acked + 2 /\ job.event = acked + 1

\* A guarded command in hand is past the check only while its thread has no blocker.
Unblocked ==
    job.step \in {"lookup", "call", "answer"} /\ log[job.event].kind \in Guarded
        => Blocking(job.thread) = {}

\* A cached thread has a blocker, or its fence is about to clear the cache or never will.
CacheTrue ==
    \A t \in cache : \/ Blocking(t) # {} \/ t \in cutOff
                     \/ job.step = "abandon" /\ job.thread = t

\* A claimed intent to be acknowledged without a row is held back by its thread.
HeldBack ==
    (\/ job.step = "advance" /\ log[job.event].kind \in Claimed /\ state[job.event] = "none"
     \/ job.step = "fence" /\ job.why = "turn")
        => /\ log[job.event].kind \in Guarded
           /\ Blocking(job.thread) # {} \/ job.thread \in cutOff

\* A turn start with a key that a safe retry has put back, or may put back.
Owed(n) == IF n \in keys /\ attempts[n] < SafeRetryLimit THEN 1 ELSE 0

\* What may still be sent has not been sent more often than granted or put back.
Budget ==
    /\ \A n \in Events : state[n] = "none" /\ n > gone => received[n] = 0
    /\ \A n \in 1 .. Len(log) : log[n].kind \notin ReplaySafe =>
          /\ received[n] <= 1 + grants[n] + redone[n]
          /\ state[n] = "retry" => received[n] <= grants[n] + redone[n] + Owed(n)
          /\ job.event = n /\ \/ job.step = "call" /\ n \notin keys
                              \/ job.step = "answer" /\ ~job.hit
                 => received[n] <= grants[n] + redone[n]

\* Every repetition has cost an attempt, and the last one allowed repeats nothing.
Repeats ==
    /\ \A n \in keys : log[n].kind = "turnStart"
    /\ job.step = "answer" /\ log[job.event].kind = "turnStart" => job.event \in keys
    /\ \A n \in Events :
          /\ redone[n] < SafeRetryLimit
          /\ state[n] = "none" /\ n > gone => redone[n] = 0 /\ n \notin keys
          /\ state[n] # "none" => redone[n] <= attempts[n]
          /\ state[n] # "none" /\ n \in keys => redone[n] < attempts[n]
          /\ job.event = n /\ job.step \in {"call", "answer"} => redone[n] < attempts[n]

IInv == /\ TypeOK /\ Placed /\ RowsReached /\ InHand /\ QueueMeetsCursor
        /\ Unblocked /\ CacheTrue /\ HeldBack /\ Budget /\ Repeats

-----------------------------------------------------------------------------
(* Smallest elements, and what a step does to the log *)

\* A nonempty set of numbers has a smallest one, and Min returns it.
LEMMA MinIsMember ==
    ASSUME NEW S \in SUBSET Nat, S # {}
    PROVE  Min(S) \in S /\ \A n \in S : Min(S) <= n
  <1> DEFINE R == {ss \in Nat \X Nat : ss[1] < ss[2]}
  <1>0. IsWellFoundedOn(R, Nat)
    BY NatLessThanWellFounded DEF OpToRel
  <1>1. \E m \in S : \A n \in S : ~(<<n, m>> \in R)
    <2> HIDE DEF R
    <2> QED  BY <1>0, WFMin
  <1>2. \E m \in S : \A n \in S : m <= n
    <2>1. PICK m \in S : \A n \in S : <<n, m>> \notin R
      BY <1>1
    <2>2. \A n \in S : ~(n < m)
      <3>1. SUFFICES ASSUME NEW n \in S, n < m  PROVE <<n, m>> \in R
        BY <2>1
      <3>2. n \in Nat /\ m \in Nat
        OBVIOUS
      <3>3. QED  BY <3>1, <3>2, Zenon
    <2>3. QED  BY <2>2
  <1>3. QED  BY <1>2 DEF Min

\* Max of a pair is the larger of the two.
LEMMA MaxOfTwo ==
    ASSUME NEW a \in Nat, NEW b \in Nat
    PROVE  Max({a, b}) = IF a < b THEN b ELSE a
  <1>1. \E m \in {a, b} : \A n \in {a, b} : m >= n
    OBVIOUS
  <1>2. Max({a, b}) \in {a, b} /\ \A n \in {a, b} : Max({a, b}) >= n
    BY <1>1 DEF Max
  <1>3. QED  BY <1>2

\* The cursor moves to e; only rows that succeeded and are collected vanish.
LEMMA AcknowledgeEffect ==
    ASSUME TypeOK, NEW e \in Nat, e = acked + 1, e <= Len(log),
           NEW rows \in [Events -> RowStates], Acknowledge(e, rows)
    PROVE  /\ acked' = e /\ gone' \in gone .. e
           /\ state' \in [Events -> RowStates] /\ attempts' \in [Events -> Nat]
           /\ \A n \in Events : \/ state'[n] = rows[n]
                                \/ state'[n] = "none" /\ rows[n] = "succeeded" /\ n <= gone'
           /\ \A n \in Events : state'[n] # "none" => attempts'[n] = attempts[n]
  <1> DEFINE cutoff == IF Len(log) > TailRows THEN Min({e, Len(log) - TailRows}) ELSE 0
  <1>1. TailRows \in Nat /\ Len(log) \in Nat /\ gone \in Nat /\ acked \in Nat
        /\ gone <= acked /\ acked <= e
    BY DeliveryAssumption DEF TypeOK
  <1>2. cutoff \in 0 .. e
    <2>1. CASE Len(log) > TailRows
      <3>1. {e, Len(log) - TailRows} \in SUBSET Nat
        BY <1>1, <2>1
      <3>2. Min({e, Len(log) - TailRows}) \in {e, Len(log) - TailRows}
            /\ Min({e, Len(log) - TailRows}) <= e
        BY <3>1, MinIsMember
      <3>3. QED  BY <3>1, <3>2, <2>1
    <2>2. CASE ~(Len(log) > TailRows)
      BY <2>2
    <2>3. QED  BY <2>1, <2>2
  <1>3. /\ acked' = e /\ gone' = Max({gone, cutoff})
        /\ state' = [n \in Events |-> IF n <= cutoff /\ rows[n] = "succeeded"
                                      THEN "none" ELSE rows[n]]
        /\ attempts' = [n \in Events |-> IF n <= cutoff /\ rows[n] = "succeeded"
                                         THEN 0 ELSE attempts[n]]
    BY DEF Acknowledge
  <1> HIDE DEF cutoff
  <1>4. gone' = IF gone < cutoff THEN cutoff ELSE gone
    BY <1>1, <1>2, <1>3, MaxOfTwo
  <1>5. gone' \in gone .. e /\ cutoff <= gone'
    BY <1>1, <1>2, <1>4
  <1>6. state' \in [Events -> RowStates] /\ attempts' \in [Events -> Nat]
    BY <1>3 DEF TypeOK, RowStates
  <1>7. \A n \in Events : \/ state'[n] = rows[n]
                          \/ state'[n] = "none" /\ rows[n] = "succeeded" /\ n <= gone'
    BY <1>2, <1>3, <1>5 DEF Events
  <1>8. \A n \in Events : state'[n] # "none" => attempts'[n] = attempts[n]
    BY <1>3
  <1>9. QED  BY <1>3, <1>5, <1>6, <1>7, <1>8

\* The log only grows at its end.
LEMMA LogGrows ==
    ASSUME TypeOK, Commit
    PROVE  /\ log' \in Seq([thread : Threads, kind : Kinds])
           /\ Len(log') = Len(log) + 1 /\ Len(log') <= MaxEvents
           /\ \A n \in 1 .. Len(log) : log'[n] = log[n]
  <1>1. PICK h \in Histories : Len(log) < Len(h) /\ log' = Append(log, h[Len(log) + 1])
    BY DEF Commit
  <1>2. h \in Seq([thread : Threads, kind : Kinds]) /\ Len(h) <= MaxEvents /\ MaxEvents \in Nat
    BY DeliveryAssumption
  <1>3. h[Len(log) + 1] \in [thread : Threads, kind : Kinds]
    <2>1. Len(log) \in Nat /\ Len(h) \in Nat /\ Len(log) + 1 \in 1 .. Len(h)
      BY <1>1, <1>2 DEF TypeOK
    <2>2. QED  BY <1>2, <2>1, ElementOfSeq
  <1>4. QED  BY <1>1, <1>2, <1>3 DEF TypeOK

\* A process that is down, with an empty log, satisfies the invariant.
LEMMA InitHolds == ASSUME Init PROVE IInv
  <1>1. TypeOK
    <2>1. log \in Seq([thread : Threads, kind : Kinds]) /\ Len(log) = 0
      BY DEF Init
    <2>2. MaxEvents \in Nat /\ MaxMishaps \in Nat
      BY DeliveryAssumption
    <2>3. job \in Jobs
      BY <2>1 DEF Init, Idle, Jobs
    <2>4. /\ acked = 0 /\ gone = 0 /\ cursor = 0 /\ next = 1 /\ goal = 0 /\ resuming = 0
          /\ mishaps = 0 /\ phase = "down" /\ operating = FALSE
          /\ cache = {} /\ failed = {} /\ retries = {} /\ span = {} /\ cutOff = {}
          /\ putOff = {} /\ keys = {}
      BY DEF Init
    <2>5. state \in [Events -> RowStates] /\ attempts \in [Events -> Nat]
          /\ grants \in [Events -> Nat] /\ received \in [Events -> Nat]
          /\ redone \in [Events -> Nat]
      BY DEF Init, RowStates
    <2>6. /\ acked \in 0 .. Len(log) /\ gone \in 0 .. acked /\ cursor \in 0 .. acked
          /\ next \in 1 .. Len(log) + 1 /\ goal \in 0 .. Len(log) /\ resuming \in 0 .. Len(log)
          /\ Len(log) <= MaxEvents /\ mishaps \in 0 .. MaxMishaps
      BY <2>1, <2>2, <2>4
    <2>7. QED  BY <2>1, <2>3, <2>4, <2>5, <2>6, Zenon DEF TypeOK
  <1>2. Placed /\ RowsReached /\ QueueMeetsCursor
    BY DEF Init, Placed, RowsReached, QueueMeetsCursor, AtRest, Events
  <1>3. InHand
    BY DEF Init, InHand, Idle
  <1>4. Unblocked /\ CacheTrue /\ HeldBack /\ Budget
    BY DEF Init, Unblocked, CacheTrue, HeldBack, Budget, Idle
  <1>5. Repeats
    <2>1. SafeRetryLimit \in Nat \ {0}
      BY DeliveryAssumption
    <2>2. QED  BY <2>1 DEF Init, Repeats, Idle
  <1>6. QED  BY <1>1, <1>2, <1>3, <1>4, <1>5 DEF IInv

\* The numbers and fields an action reads, without the types around them.
LEMMA Numbers ==
    ASSUME IInv
    PROVE  /\ Len(log) \in Nat /\ acked \in Nat /\ gone \in Nat /\ cursor \in Nat
           /\ acked <= Len(log) /\ gone <= acked /\ cursor <= acked
           /\ next \in Nat \ {0} /\ next <= Len(log) + 1
           /\ goal \in Nat /\ goal <= Len(log) /\ resuming \in Nat /\ resuming <= Len(log)
           /\ Len(log) <= MaxEvents /\ MaxEvents \in Nat
           /\ job.event \in Nat /\ job.event <= Len(log) /\ job.event <= acked + 1
           /\ phase # "down" => cursor = acked
  <1>1. Len(log) \in Nat /\ MaxEvents \in Nat
    BY DeliveryAssumption DEF IInv, TypeOK
  <1>2. /\ acked \in 0 .. Len(log) /\ gone \in 0 .. acked /\ cursor \in 0 .. acked
        /\ next \in 1 .. Len(log) + 1 /\ goal \in 0 .. Len(log) /\ resuming \in 0 .. Len(log)
        /\ Len(log) <= MaxEvents /\ job \in Jobs
    BY Zenon DEF IInv, TypeOK
  <1>3. job.event \in 0 .. Len(log)
    BY <1>2 DEF Jobs
  <1>4. QED  BY <1>1, <1>2, <1>3 DEF IInv, Placed, InHand

\* The positions of TypeOK, and the two cursors.
NumbersOK ==
    /\ acked \in 0 .. Len(log) /\ gone \in 0 .. acked /\ cursor \in 0 .. acked
    /\ next \in 1 .. Len(log) + 1 /\ goal \in 0 .. Len(log) /\ resuming \in 0 .. Len(log)
    /\ Len(log) <= MaxEvents
    /\ phase # "down" => cursor = acked

\* The steps that leave the log, the cursor and what is collected alone.
Steady ==
    \/ PassOver \/ Skip \/ RecoverForTurn \/ AlreadySettled \/ Requeue \/ LeaseLost \/ Claim
    \/ Send \/ RetrySafely \/ RetriesExhausted \/ AnswerUncertain \/ Fence
    \/ HealThread \/ EndHeal \/ AfterResume \/ EndResume \/ ReplayEvent \/ EndReplay
    \/ LiveEvent \/ OperatorReturns \/ OperatorAbandons \/ OperatorRetries \/ UNCHANGED vars

\* A steady step leaves the positions in the log alone.
LEMMA SteadyFrame == ASSUME Steady PROVE UNCHANGED <<log, gone, acked, cursor, mishaps, cutOff>>
  <1>1. CASE PassOver \/ Skip \/ RecoverForTurn \/ AlreadySettled
    BY <1>1
    DEF PassOver, Skip, RecoverForTurn, AlreadySettled, Step, durable, source, past, Lookup
  <1>2. CASE Requeue \/ LeaseLost \/ Claim
    BY <1>2 DEF Requeue, LeaseLost, Claim, Lookup, SetState, Step, source, past
  <1>3. CASE Send \/ RetrySafely
    BY <1>3 DEF Send, RetrySafely, durable, source, past, SetState, Step
  <1>4. CASE RetriesExhausted \/ AnswerUncertain
    BY <1>4 DEF RetriesExhausted, AnswerUncertain, SettleAs, SetState, source, past
  <1>5. CASE FenceReturnsNull \/ FenceStops
    BY <1>5 DEF FenceReturnsNull, FenceStops, NotRecovered, Step, durable, source, past, Idle
  <1>6. CASE Abandon \/ Recovered \/ ReplaySkipped
    BY <1>6 DEF Abandon, Recovered, ReplaySkipped, SetState, source, past, Idle, durable, Pick
  <1>7. CASE HealThread \/ EndHeal
    BY <1>7 DEF HealThread, EndHeal, AtRest, Idle, durable, source, past
  <1>8. CASE AfterResume \/ EndResume \/ ReplayEvent \/ EndReplay
    BY <1>8
    DEF AfterResume, EndResume, ReplayEvent, EndReplay, Idle, durable, past, AtRest, Pick,
        source
  <1>9. CASE LiveEvent \/ OperatorReturns
    BY <1>9 DEF LiveEvent, OperatorReturns, AtRest, Pick, durable, past, Idle
  <1>10. CASE OperatorAbandons \/ OperatorRetries
    BY <1>10
    DEF OperatorAbandons, OperatorRetries, OperatorMay, SetState, past, Pick, AtRest, Idle
  <1>11. CASE UNCHANGED vars
    BY <1>11 DEF vars, durable, past
  <1>12. QED  BY <1>1, <1>2, <1>3, <1>4, <1>5, <1>6, <1>7, <1>8, <1>9, <1>10, <1>11 DEF Steady, Fence

\* The two steps that acknowledge: the cursor moves to the event in hand or is past it.
AckMoves ==
    /\ job.step \in {"call", "answer", "advance"} /\ job.event # 0
    /\ UNCHANGED <<log, grants, source, cache, received, redone, keys, past>>
    /\ cursor' = acked'
    /\ acked' = IF job.event = acked + 1 THEN job.event ELSE acked
    /\ gone' \in gone .. acked' /\ (acked' = acked => gone' = gone)
    /\ state' \in [Events -> RowStates] /\ attempts' \in [Events -> Nat]
    /\ \A n \in Events :
         \/ state'[n] = state[n]
         \/ state'[n] = "none" /\ state[n] = "succeeded" /\ n <= gone'
         \/ n = job.event /\ job.step # "advance"
            /\ (state'[n] = "succeeded" \/ (state'[n] = "none" /\ n <= gone'))
    /\ \A n \in Events : state'[n] # "none" => attempts'[n] = attempts[n]

\* Completing a delivery acknowledges it if it is the next event.
LEMMA CompleteMoves == ASSUME IInv, Complete PROVE AckMoves /\ job' = Idle
  <1> USE Numbers
  <1> DEFINE rows == [state EXCEPT ![job.event] = "succeeded"]
  <1>1. /\ job.step \in {"call", "answer"} /\ cursor' = acked' /\ job' = Idle
        /\ UNCHANGED <<log, grants, source, cache, received, redone, keys, past>>
    BY DEF Complete, HandledAlready
  <1>2. job.event # 0 /\ job.event \in Events
    BY <1>1 DEF IInv, InHand, Events
  <1>3. state \in [Events -> RowStates] /\ attempts \in [Events -> Nat]
    BY Zenon DEF IInv, TypeOK
  <1>4. rows \in [Events -> RowStates]
        /\ \A n \in Events : rows[n] = IF n = job.event THEN "succeeded" ELSE state[n]
    BY <1>2, <1>3 DEF RowStates
  <1>5. CASE job.event = acked + 1
    <2>1. Acknowledge(job.event, rows)
      BY <1>5 DEF Complete, IsNext
    <2> HIDE DEF rows
    <2>2. /\ acked' = job.event /\ gone' \in gone .. job.event
          /\ state' \in [Events -> RowStates] /\ attempts' \in [Events -> Nat]
          /\ \A n \in Events : \/ state'[n] = rows[n]
                               \/ state'[n] = "none" /\ rows[n] = "succeeded" /\ n <= gone'
          /\ \A n \in Events : state'[n] # "none" => attempts'[n] = attempts[n]
      BY <2>1, <1>4, <1>5, AcknowledgeEffect, Zenon DEF IInv
    <2>3. QED  BY <1>1, <1>2, <1>4, <1>5, <2>2 DEF AckMoves
  <1>6. CASE job.event # acked + 1
    <2>1. state' = rows /\ UNCHANGED <<gone, acked, attempts>>
      BY <1>6 DEF Complete, IsNext
    <2>2. QED  BY <1>1, <1>2, <1>3, <1>4, <1>6, <2>1 DEF AckMoves
  <1>7. QED  BY <1>5, <1>6

\* An event settled without a completion is acknowledged, and never refused.
LEMMA AdvanceMoves ==
    ASSUME IInv, Advance
    PROVE  /\ AckMoves /\ job.step = "advance"
           /\ job' = IF job.why = "lease" THEN [job EXCEPT !.step = "fence"] ELSE Idle
  <1> USE Numbers
  <1>1. job.step = "advance" /\ ~(job.event > acked + 1)
    BY DEF Advance
  <1>2. job.event # 0 /\ job.event \in Events
    BY <1>1 DEF IInv, InHand, Events
  <1>3. state \in [Events -> RowStates] /\ attempts \in [Events -> Nat]
    BY Zenon DEF IInv, TypeOK
  <1>4. /\ IF IsNext(job.event) THEN Acknowledge(job.event, state)
                                ELSE UNCHANGED <<gone, acked, state, attempts>>
        /\ cursor' = acked'
        /\ job' = IF job.why = "lease" THEN [job EXCEPT !.step = "fence"] ELSE Idle
        /\ UNCHANGED <<log, grants, source, cache, received, redone, keys, past>>
    BY <1>1 DEF Advance, past
  <1>5. CASE job.event = acked + 1
    <2>1. Acknowledge(job.event, state)
      BY <1>4, <1>5 DEF IsNext
    <2>2. /\ acked' = job.event /\ gone' \in gone .. job.event
          /\ state' \in [Events -> RowStates] /\ attempts' \in [Events -> Nat]
          /\ \A n \in Events : \/ state'[n] = state[n]
                               \/ state'[n] = "none" /\ state[n] = "succeeded" /\ n <= gone'
          /\ \A n \in Events : state'[n] # "none" => attempts'[n] = attempts[n]
      BY <2>1, <1>3, <1>5, AcknowledgeEffect, Zenon DEF IInv
    <2>3. QED  BY <1>1, <1>2, <1>4, <1>5, <2>2 DEF AckMoves
  <1>6. CASE job.event # acked + 1
    <2>1. UNCHANGED <<gone, acked, state, attempts>>
      BY <1>4, <1>6 DEF IsNext
    <2>2. QED  BY <1>1, <1>2, <1>3, <1>4, <1>6, <2>1 DEF AckMoves
  <1>7. QED  BY <1>4, <1>1, <1>5, <1>6

\* A mishap ends the process, or puts down what is in hand.
LEMMA MishapMoves ==
    ASSUME IInv, Crash \/ Fault
    PROVE  /\ UNCHANGED <<durable, received>>
           /\ mishaps < MaxMishaps /\ mishaps' = mishaps + 1 /\ cutOff' = cutOff \cup CutOff
           /\ putOff' = putOff \cup PutOff
           /\ \/ Vanish
              \/ /\ phase # "down" /\ UNCHANGED <<cursor, cache, next, goal, keys, redone>>
                 /\ job' = Idle /\ span' = {} /\ resuming' = 0 /\ operating' = FALSE /\ failed' = {}
                 /\ retries' \in {retries, Retryable}
                 /\ \/ operating /\ phase' = phase
                    \/ phase' \in {"resume", "stopped"}
  <1>1. CASE Crash
    BY <1>1 DEF Crash, Mishap
  <1>2. CASE Fault
    <2>1. phase # "down"
      BY <1>2 DEF Fault, IInv, Placed
    <2>2. QED  BY <1>2, <2>1 DEF Fault, Mishap, GiveUp
  <1>3. QED  BY <1>1, <1>2

\* No step takes a position out of its range.
LEMMA NumbersStep == ASSUME IInv, [Next]_vars PROVE NumbersOK'
  <1> USE Numbers
  <1>1. CASE Commit
    <2>1. Len(log') = Len(log) + 1 /\ Len(log') <= MaxEvents
      BY <1>1, LogGrows DEF IInv
    <2>2. QED  BY <1>1, <2>1 DEF Commit, NumbersOK, source
  <1>2. CASE Steady
    <2>1. UNCHANGED <<log, gone, acked, cursor>>
      BY <1>2, SteadyFrame
    <2>2. /\ phase' # "down" => phase # "down"
          /\ goal' \in {goal, Len(log), 0}
          /\ next' = next \/ (next' = next + 1 /\ next <= Len(log))
          /\ resuming' \in {resuming, 0} \cup (1 .. Len(log))
      <3>1. CASE HealThread \/ EndHeal
        BY <3>1 DEF HealThread, EndHeal, AtRest, Idle, durable, source, past
      <3>2. CASE AfterResume \/ EndResume
        BY <3>2 DEF AfterResume, EndResume, Idle, durable, past, AtRest
      <3>3. CASE ReplayEvent \/ EndReplay
        BY <3>3 DEF ReplayEvent, EndReplay, AtRest, Pick, durable, source, past, Idle
      <3>4. CASE LiveEvent \/ OperatorReturns
        BY <3>4 DEF LiveEvent, OperatorReturns, AtRest, Pick, durable, past, Idle
      <3>5. CASE OperatorAbandons
        BY <3>5 DEF OperatorAbandons, OperatorMay, SetState, past, AtRest, Idle
      <3>6. CASE OperatorRetries
        BY <3>6 DEF OperatorRetries, OperatorMay, SetState, Pick, past, AtRest, Idle, Shown
      <3>7. CASE Fence
        BY <3>7
        DEF Fence, FenceReturnsNull, FenceStops, Abandon, Recovered, ReplaySkipped,
            NotRecovered, Step, durable, source, past, SetState, Idle, Pick
      <3>8. CASE \/ PassOver \/ Skip \/ RecoverForTurn \/ AlreadySettled \/ Requeue \/ LeaseLost
                 \/ Claim \/ Send \/ RetrySafely \/ RetriesExhausted \/ AnswerUncertain
        <4>1. UNCHANGED source
          BY <3>8
          DEF PassOver, Skip, RecoverForTurn, AlreadySettled, Requeue, LeaseLost, Claim,
              Send, RetrySafely, RetriesExhausted, AnswerUncertain, Step, durable, past,
              Lookup, SetState, SettleAs
        <4>2. QED  BY <4>1 DEF source
      <3>9. CASE UNCHANGED vars
        BY <3>9 DEF vars, source
      <3>10. QED
        BY <1>2, <3>1, <3>2, <3>3, <3>4, <3>5, <3>6, <3>7, <3>8, <3>9 DEF Steady
    <2>3. QED  BY <2>1, <2>2 DEF NumbersOK
  <1>3. CASE Crash \/ Fault
    <2>1. UNCHANGED <<log, gone, acked>>
      BY <1>3 DEF Crash, Fault, durable
    <2>2. Vanish \/ (phase # "down" /\ UNCHANGED <<cursor, next, goal>> /\ resuming' = 0)
      BY <1>3, MishapMoves
    <2>3. CASE Vanish
      BY <2>1, <2>3 DEF NumbersOK, Vanish
    <2>4. CASE phase # "down" /\ UNCHANGED <<cursor, next, goal>> /\ resuming' = 0
      BY <2>1, <2>4 DEF NumbersOK
    <2>5. QED  BY <2>2, <2>3, <2>4
  <1>4. CASE Boot
    BY <1>4 DEF Boot, NumbersOK, durable
  <1>5. CASE ResumeRetry
    <2>1. UNCHANGED <<log, gone, acked>>
      BY <1>5 DEF ResumeRetry, durable
    <2>2. CASE Vanish
      BY <2>1, <2>2 DEF NumbersOK, Vanish
    <2>3. CASE ~Vanish
      <3>1. /\ retries # {} /\ resuming' = Min(retries) /\ UNCHANGED <<phase, next, goal, cursor>>
        BY <1>5, <2>3 DEF ResumeRetry
      <3>2. retries \in SUBSET Nat /\ retries \subseteq 1 .. acked
        BY DEF IInv, RowsReached
      <3>3. resuming' \in 1 .. acked
        BY <3>1, <3>2, MinIsMember
      <3>4. QED  BY <2>1, <3>1, <3>3 DEF NumbersOK
    <2>4. QED  BY <2>2, <2>3
  <1>6. CASE Complete
    <2>1. AckMoves
      BY <1>6, CompleteMoves
    <2>2. QED  BY <2>1 DEF AckMoves, NumbersOK, source
  <1>7. CASE Advance
    <2>1. AckMoves
      BY <1>7, AdvanceMoves
    <2>2. QED  BY <2>1 DEF AckMoves, NumbersOK, source
  <1>8. QED
    BY <1>1, <1>2, <1>3, <1>4, <1>5, <1>6, <1>7 DEF Next, Reactor, Deliver, Source, Steady

\* Only a commit changes the log.
LEMMA LogStep == ASSUME IInv, [Next]_vars, ~Commit PROVE log' = log
  <1>1. CASE Steady
    BY <1>1, SteadyFrame
  <1>2. CASE Crash \/ Fault
    BY <1>2, MishapMoves DEF durable
  <1>3. CASE Boot \/ ResumeRetry
    BY <1>3 DEF Boot, ResumeRetry, durable
  <1>4. CASE Complete \/ Advance
    BY <1>4, CompleteMoves, AdvanceMoves DEF AckMoves
  <1>5. QED
    BY <1>1, <1>2, <1>3, <1>4 DEF Next, Reactor, Deliver, Source, Steady

-----------------------------------------------------------------------------
(* What a step does to the rows *)

\* What is in hand has a thread, and a stored event unless it is a healed thread.
LEMMA Hand ==
    ASSUME IInv
    PROVE  /\ job.step \notin {"idle", "fence", "abandon"} => job.event # 0
           /\ job.event # 0 => job.event \in Events /\ job.event \in 1 .. Len(log)
           /\ job.step # "idle" => job.thread \in Threads
           /\ job.event # 0 => job.thread = log[job.event].thread
           /\ \A t \in Threads : Blocking(t) \in SUBSET Nat /\ Blocking(t) \subseteq Events
                                  /\ Blocking(t) \subseteq 1 .. Len(log)
  <1> USE Numbers
  <1>1. \A t \in Threads : Blocking(t) \subseteq 1 .. Len(log)
    BY DEF Blocking
  <1>2. 1 .. Len(log) \subseteq Events /\ Events \subseteq Nat
    BY DEF Events
  <1>3. QED  BY <1>1, <1>2 DEF IInv, InHand

\* Only the event in hand, or a blocker that is abandoned or granted a retry.
RowMoves ==
    \/ UNCHANGED state
    \/ job.event # 0 /\ job.step \notin {"idle", "fence", "abandon"}
       /\ \E r \in RowStates \ {"none"} : state' = [state EXCEPT ![job.event] = r]
    \/ \E n \in Events, r \in {"succeeded", "retry"} :
          state[n] \in Terminal /\ state' = [state EXCEPT ![n] = r]

\* A steady step changes at most one row, and never back to "none".
LEMMA RowsMove == ASSUME IInv, Steady PROVE RowMoves
  <1>1. CASE Requeue \/ LeaseLost \/ Claim
    <2>1. job.step \in {"check", "lookup"}
      BY <1>1 DEF Requeue, LeaseLost, Claim, Lookup
    <2>2. \E r \in RowStates \ {"none"} : state' = [state EXCEPT ![job.event] = r]
      BY <1>1 DEF Requeue, LeaseLost, Claim, SetState, RowStates, Terminal
    <2>3. QED  BY <2>1, <2>2, Hand DEF RowMoves
  <1>2. CASE RetrySafely \/ RetriesExhausted \/ AnswerUncertain
    <2>1. job.step = "answer"
      BY <1>2 DEF RetrySafely, RetriesExhausted, AnswerUncertain, RetryableAnswer
    <2>2. \E r \in RowStates \ {"none"} : state' = [state EXCEPT ![job.event] = r]
      BY <1>2 DEF RetrySafely, RetriesExhausted, AnswerUncertain, SettleAs, SetState, RowStates, Terminal
    <2>3. QED  BY <2>1, <2>2, Hand DEF RowMoves
  <1>3. CASE Abandon
    <2> DEFINE n == Min(Blocking(job.thread))
    <2>1. /\ job.step = "abandon" /\ Blocking(job.thread) # {}
          /\ state' = [state EXCEPT ![n] = "succeeded"]
      BY <1>3 DEF Abandon, SetState
    <2>2. job.thread \in Threads /\ Blocking(job.thread) \in SUBSET Nat
          /\ Blocking(job.thread) \subseteq Events
      BY <2>1, Hand
    <2>3. n \in Blocking(job.thread)
      BY <2>1, <2>2, MinIsMember
    <2>4. n \in Events /\ state[n] \in Terminal
      BY <2>2, <2>3 DEF Blocking
    <2>5. QED  BY <2>1, <2>4 DEF RowMoves
  <1>4. CASE OperatorAbandons \/ OperatorRetries
    <2>1. Shown \subseteq Events /\ \A n \in Shown : state[n] \in Terminal
      BY Numbers DEF Shown, Events
    <2>2. \E n \in Shown, r \in {"succeeded", "retry"} : state' = [state EXCEPT ![n] = r]
      BY <1>4 DEF OperatorAbandons, OperatorRetries, SetState
    <2>3. QED  BY <2>1, <2>2 DEF RowMoves
  <1>5. CASE PassOver \/ Skip \/ RecoverForTurn \/ AlreadySettled \/ Send
    BY <1>5 DEF PassOver, Skip, RecoverForTurn, AlreadySettled, Send, durable, RowMoves
  <1>6. CASE FenceReturnsNull \/ FenceStops \/ Recovered \/ ReplaySkipped
    BY <1>6 DEF FenceReturnsNull, NotRecovered, FenceStops, Recovered, ReplaySkipped, durable, RowMoves
  <1>7. CASE HealThread \/ EndHeal \/ AfterResume \/ EndResume \/ ReplayEvent \/ EndReplay
    BY <1>7 DEF HealThread, EndHeal, AfterResume, EndResume, ReplayEvent, EndReplay, durable, RowMoves
  <1>8. CASE LiveEvent \/ OperatorReturns \/ UNCHANGED vars
    BY <1>8 DEF LiveEvent, OperatorReturns, durable, vars, RowMoves
  <1>9. QED
    BY <1>1, <1>2, <1>3, <1>4, <1>5, <1>6, <1>7, <1>8 DEF Steady, Fence

\* Rows, grants and receptions keep their types.
LEMMA RowsStep ==
    ASSUME IInv, [Next]_vars
    PROVE  /\ state' \in [Events -> RowStates] /\ attempts' \in [Events -> Nat]
           /\ grants' \in [Events -> Nat] /\ received' \in [Events -> Nat]
  <1>0. /\ state \in [Events -> RowStates] /\ attempts \in [Events -> Nat]
        /\ grants \in [Events -> Nat] /\ received \in [Events -> Nat]
    BY Zenon DEF IInv, TypeOK
  <1>1. CASE Steady
    <2>1. state' \in [Events -> RowStates]
      BY <1>0, <1>1, RowsMove DEF RowMoves, RowStates
    <2>2. attempts' \in [Events -> Nat] /\ grants' \in [Events -> Nat] /\ received' \in [Events -> Nat]
      <3>1. CASE Claim
        <4>1. job.event \in Events
          BY <3>1, Hand DEF Claim, Lookup
        <4>2. QED  BY <1>0, <3>1, <4>1 DEF Claim, source
      <3>2. CASE Send
        <4>1. job.event \in Events
          BY <3>2, Hand DEF Send
        <4>2. PICK hit \in BOOLEAN :
                received' = [received EXCEPT ![job.event] = @ + (IF hit THEN 1 ELSE 0)]
          BY <3>2 DEF Send
        <4>3. QED  BY <1>0, <3>2, <4>1, <4>2 DEF Send, durable
      <3>3. CASE OperatorRetries
        <4>1. Shown \subseteq Events
          BY Numbers DEF Shown, Events
        <4>2. QED  BY <1>0, <3>3, <4>1 DEF OperatorRetries
      <3>4. CASE Requeue \/ LeaseLost \/ RetrySafely \/ RetriesExhausted \/ AnswerUncertain
        BY <1>0, <3>4 DEF Requeue, LeaseLost, RetrySafely, RetriesExhausted, AnswerUncertain, SettleAs
      <3>5. CASE PassOver \/ Skip \/ RecoverForTurn \/ AlreadySettled
        BY <1>0, <3>5 DEF PassOver, Skip, RecoverForTurn, AlreadySettled, durable
      <3>6. CASE Fence
        BY <1>0, <3>6 DEF Fence, FenceReturnsNull, NotRecovered, FenceStops, Abandon, Recovered,
                          ReplaySkipped, durable
      <3>7. CASE HealThread \/ EndHeal \/ AfterResume \/ EndResume \/ ReplayEvent \/ EndReplay
        BY <1>0, <3>7 DEF HealThread, EndHeal, AfterResume, EndResume, ReplayEvent, EndReplay, durable
      <3>8. CASE LiveEvent \/ OperatorReturns \/ OperatorAbandons \/ UNCHANGED vars
        BY <1>0, <3>8 DEF LiveEvent, OperatorReturns, OperatorAbandons, durable, vars
      <3>9. QED
        BY <1>1, <3>1, <3>2, <3>3, <3>4, <3>5, <3>6, <3>7, <3>8 DEF Steady
    <2>3. QED  BY <2>1, <2>2
  <1>2. CASE Crash \/ Fault
    BY <1>0, <1>2, MishapMoves DEF durable
  <1>3. CASE Boot \/ ResumeRetry \/ Commit
    BY <1>0, <1>3 DEF Boot, ResumeRetry, Commit, durable
  <1>4. CASE Complete \/ Advance
    BY <1>0, <1>4, CompleteMoves, AdvanceMoves DEF AckMoves
  <1>5. QED
    BY <1>1, <1>2, <1>3, <1>4 DEF Next, Reactor, Deliver, Source, Steady

-----------------------------------------------------------------------------
(* The job in hand *)

\* The job keeps its type.
LEMMA JobStep == ASSUME IInv, [Next]_vars PROVE job' \in Jobs'
  <1> USE Numbers
  <1>0. job \in Jobs /\ log \in Seq([thread : Threads, kind : Kinds])
    BY Zenon DEF IInv, TypeOK
  <1>a. \A e \in 1 .. Len(log) : log[e].thread \in Threads
    <2>1. \A e \in 1 .. Len(log) : log[e] \in [thread : Threads, kind : Kinds]
      BY <1>0, ElementOfSeq
    <2>2. QED  BY <2>1
  <1>b. Idle \in Jobs /\ (log' = log => Jobs' = Jobs)
    <2>1. Idle \in Jobs
      BY DEF Idle, Jobs
    <2>2. ASSUME log' = log PROVE Jobs' = Jobs
      BY <2>2, Zenon DEF Jobs
    <2>3. QED  BY <2>1, <2>2
  <1>c. \A e \in 1 .. Len(log) : Pick(e) => job' \in Jobs
    BY <1>a DEF Pick, Jobs
  <1>1. CASE Commit
    <2>1. Len(log') = Len(log) + 1 /\ job' = job
      BY <1>1, LogGrows DEF Commit, IInv
    <2>2. QED  BY <1>0, <2>1 DEF Jobs
  <1>2. CASE ~Commit
    <2> USE <1>2
    <2>0. SUFFICES job' \in Jobs
      BY <1>b, LogStep
    <2>1. CASE PassOver \/ Skip \/ AlreadySettled \/ Requeue \/ Claim \/ RetrySafely \/ FenceStops
      BY <1>0, <2>1 DEF PassOver, Skip, AlreadySettled, Requeue, Claim, RetrySafely, FenceStops,
                        Step, Jobs
    <2>2. CASE LeaseLost \/ RecoverForTurn
      BY <1>0, <2>2 DEF LeaseLost, RecoverForTurn, Jobs
    <2>3. CASE RetriesExhausted \/ AnswerUncertain \/ Send
      BY <1>0, <2>3 DEF RetriesExhausted, AnswerUncertain, SettleAs, Send, Jobs
    <2>4. CASE FenceReturnsNull
      BY <1>0, <1>b, <2>4 DEF FenceReturnsNull, NotRecovered, Jobs
    <2>5. CASE Recovered
      <3>1. 0 \in 0 .. Len(log)
        OBVIOUS
      <3>2. job' = [job EXCEPT !.step = "lookup", !.first = 0] \/ job' = Idle
        BY <2>5 DEF Recovered
      <3>3. QED  BY <1>0, <1>b, <3>1, <3>2 DEF Jobs
    <2>6. CASE Abandon
      <3>1. Min(Blocking(job.thread)) \in 0 .. Len(log)
        <4>1. job.thread \in Threads /\ Blocking(job.thread) # {}
          BY <2>6, Hand DEF Abandon
        <4>2. Min(Blocking(job.thread)) \in Blocking(job.thread)
          BY <4>1, Hand, MinIsMember
        <4>3. QED  BY <4>1, <4>2, Hand
      <3>2. QED  BY <1>0, <2>6, <3>1 DEF Abandon, Jobs
    <2>7. CASE ReplaySkipped
      <3>1. span \in SUBSET Nat /\ span \subseteq 1 .. Len(log)
        BY DEF IInv, RowsReached
      <3>2. Min(span) \in 1 .. Len(log)
        BY <2>7, <3>1, MinIsMember DEF ReplaySkipped
      <3>3. QED  BY <1>c, <2>7, <3>2 DEF ReplaySkipped
    <2>8. CASE HealThread
      <3>1. PICK t \in Threads : job' = [Idle EXCEPT !.step = "fence", !.thread = t, !.why = "heal"]
        BY <2>8 DEF HealThread, Healable
      <3>2. QED  BY <1>b, <3>1 DEF Jobs
    <2>9. CASE EndHeal \/ AfterResume \/ EndResume \/ EndReplay \/ OperatorReturns \/ Boot
      BY <1>0, <2>9 DEF EndHeal, AfterResume, EndResume, EndReplay, OperatorReturns, Boot
    <2>10. CASE ResumeRetry
      <3>1. retries \in SUBSET Nat /\ retries \subseteq 1 .. Len(log)
        BY DEF IInv, RowsReached
      <3>2. Min(retries) \in 1 .. Len(log)
        BY <2>10, <3>1, MinIsMember DEF ResumeRetry
      <3>3. QED  BY <1>b, <1>c, <2>10, <3>2 DEF ResumeRetry, Vanish
    <2>11. CASE ReplayEvent
      <3>1. cursor + 1 \in 1 .. Len(log)
        BY <2>11 DEF ReplayEvent
      <3>2. QED  BY <1>c, <2>11, <3>1 DEF ReplayEvent
    <2>12. CASE LiveEvent
      <3>1. next \in 1 .. Len(log)
        BY <2>12 DEF LiveEvent
      <3>2. QED  BY <1>0, <1>c, <2>12, <3>1 DEF LiveEvent
    <2>13. CASE OperatorRetries
      <3>1. Shown \subseteq 1 .. Len(log)
        BY DEF Shown
      <3>2. QED  BY <1>c, <2>13, <3>1 DEF OperatorRetries
    <2>14. CASE OperatorAbandons \/ UNCHANGED vars
      BY <1>0, <2>14 DEF OperatorAbandons, vars
    <2>15. CASE Crash \/ Fault
      BY <1>b, <2>15, MishapMoves DEF Vanish
    <2>16. CASE Complete
      BY <1>b, <2>16, CompleteMoves
    <2>17. CASE Advance
      BY <1>0, <1>b, <2>17, AdvanceMoves DEF Jobs
    <2>18. QED
      BY <2>1, <2>2, <2>3, <2>4, <2>5, <2>6, <2>7, <2>8, <2>9, <2>10, <2>11, <2>12, <2>13, <2>14,
         <2>15, <2>16, <2>17 DEF Next, Reactor, Deliver, Fence, Source
  <1>3. QED  BY <1>1, <1>2

\* No step makes a row, a retry or a replay for an event not yet reached.
LEMMA RowsReachedStep == ASSUME IInv, [Next]_vars PROVE RowsReached'
  <1> USE Numbers
  <1>0. state \in [Events -> RowStates] /\ RowsReached /\ \A n \in Events : n \in Nat
    <2>1. state \in [Events -> RowStates] /\ RowsReached
      BY Zenon DEF IInv, TypeOK
    <2>2. QED  BY <2>1 DEF Events
  <1>a. Len(log') \in Nat /\ Len(log') >= Len(log)
    BY LogStep, LogGrows DEF IInv
  <1>1. \A n \in Events : state'[n] # "none" => n <= Len(log') /\ n <= acked' + 1
    <2>1. CASE Steady
      <3>1. log' = log /\ acked' = acked
        BY <2>1, SteadyFrame
      <3>2. \A n \in Events : state'[n] # "none" => state[n] # "none" \/ n = job.event
        BY <1>0, <2>1, RowsMove DEF RowMoves, Terminal
      <3>3. QED  BY <1>0, <3>1, <3>2 DEF RowsReached
    <2>2. CASE Complete \/ Advance
      <3>1. AckMoves
        BY <2>2, CompleteMoves, AdvanceMoves
      <3>2. /\ log' = log /\ acked' \in Nat /\ acked <= acked'
            /\ \A n \in Events : state'[n] # "none" => state[n] # "none" \/ n = job.event
        BY <3>1 DEF AckMoves
      <3>3. QED  BY <1>0, <3>2 DEF RowsReached
    <2>3. CASE Commit \/ Crash \/ Fault \/ Boot \/ ResumeRetry
      <3>1. UNCHANGED <<acked, state>>
        BY <2>3, MishapMoves DEF Commit, Boot, ResumeRetry, durable
      <3>2. QED  BY <1>0, <1>a, <3>1 DEF RowsReached
    <2>4. QED
      BY <2>1, <2>2, <2>3 DEF Next, Reactor, Deliver, Source, Steady
  <1>2. retries' \subseteq 1 .. acked' /\ span' \subseteq gone' + 1 .. acked'
    <2>1. \A t, e : SkippedAfter(t, e) \subseteq gone + 1 .. acked
      <3>1. SUFFICES ASSUME NEW t, NEW e, NEW n \in SkippedAfter(t, e)
                     PROVE  n \in gone + 1 .. acked
        OBVIOUS
      <3>2. n \in (e + 1) .. cursor /\ n > gone
        BY <3>1 DEF SkippedAfter
      <3>3. n \in Int /\ n <= cursor
        BY <3>2
      <3>4. QED  BY <3>2, <3>3
    <2>2. Retryable \subseteq 1 .. acked
      BY DEF Retryable
    <2>3. CASE Steady
      <3>1. gone' = gone /\ acked' = acked
        BY <2>3, SteadyFrame
      <3>2. SUFFICES retries' \subseteq 1 .. acked /\ span' \subseteq gone + 1 .. acked
        BY <3>1
      <3>3. CASE Recovered
        BY <1>0, <2>1, <3>3 DEF Recovered, RowsReached
      <3>4. CASE AfterResume
        <4>1. /\ retries' = retries
              /\ span' = span \/ \E t, e : span' = SkippedAfter(t, e)
          BY <3>4 DEF AfterResume
        <4>2. QED  BY <1>0, <2>1, <4>1 DEF RowsReached
      <3>5. CASE OperatorAbandons
        BY <1>0, <2>1, <3>5 DEF OperatorAbandons, RowsReached
      <3>6. CASE ReplaySkipped \/ FenceReturnsNull \/ FenceStops \/ Abandon
        BY <1>0, <3>6 DEF ReplaySkipped, FenceReturnsNull, NotRecovered, FenceStops, Abandon, source,
                          RowsReached
      <3>7. CASE HealThread \/ EndResume \/ ReplayEvent \/ EndReplay \/ LiveEvent
        BY <1>0, <3>7 DEF HealThread, EndResume, ReplayEvent, EndReplay, LiveEvent, source, RowsReached
      <3>8. CASE EndHeal
        BY <1>0, <2>2, <3>8 DEF EndHeal, RowsReached
      <3>9. CASE OperatorReturns \/ OperatorRetries \/ UNCHANGED vars
        BY <1>0, <3>9 DEF OperatorReturns, OperatorRetries, vars, source, RowsReached
      <3>10. CASE \/ PassOver \/ Skip \/ RecoverForTurn \/ AlreadySettled \/ Requeue \/ LeaseLost
                  \/ Claim \/ Send \/ RetrySafely \/ RetriesExhausted \/ AnswerUncertain
        <4>1. UNCHANGED source
          BY <3>10 DEF PassOver, Skip, RecoverForTurn, AlreadySettled, Requeue, LeaseLost, Claim,
                       Send, RetrySafely, RetriesExhausted, AnswerUncertain, SettleAs
        <4>2. QED  BY <1>0, <4>1 DEF source, RowsReached
      <3>11. QED
        BY <2>3, <3>3, <3>4, <3>5, <3>6, <3>7, <3>8, <3>9, <3>10 DEF Steady, Fence
    <2>4. CASE Complete \/ Advance
      <3>1. AckMoves
        BY <2>4, CompleteMoves, AdvanceMoves
      <3>2. /\ retries' = retries /\ span' = span /\ acked' \in Nat /\ acked <= acked'
            /\ acked' = acked => gone' = gone
            /\ job.event <= acked => acked' = acked
        BY <3>1 DEF AckMoves, source
      <3>3. CASE span = {}
        BY <1>0, <3>2, <3>3 DEF RowsReached
      <3>4. CASE span # {}
        BY <1>0, <3>2, <3>4 DEF IInv, InHand, RowsReached
      <3>5. QED  BY <3>3, <3>4
    <2>5. CASE Crash \/ Fault
      BY <1>0, <2>2, <2>5, MishapMoves DEF Vanish, durable, RowsReached
    <2>6. CASE Commit \/ Boot \/ ResumeRetry
      BY <1>0, <2>6 DEF Commit, Boot, ResumeRetry, Vanish, source, durable, RowsReached
    <2>7. QED
      BY <2>3, <2>4, <2>5, <2>6 DEF Next, Reactor, Deliver, Source, Steady
  <1>3. QED  BY <1>1, <1>2 DEF RowsReached

\* The source's own fields keep their types.
LEMMA SourceStep ==
    ASSUME IInv, [Next]_vars
    PROVE  /\ phase' \in {"down", "heal", "resume", "replay", "live", "stopped"}
           /\ operating' \in BOOLEAN /\ cache' \subseteq Threads /\ failed' \subseteq Threads
           /\ cutOff' \subseteq Threads /\ mishaps' \in 0 .. MaxMishaps
  <1>0. /\ phase \in {"down", "heal", "resume", "replay", "live", "stopped"}
        /\ operating \in BOOLEAN /\ cache \subseteq Threads /\ failed \subseteq Threads
        /\ cutOff \subseteq Threads /\ mishaps \in 0 .. MaxMishaps /\ MaxMishaps \in Nat
    BY DeliveryAssumption, Zenon DEF IInv, TypeOK
  <1>1. CASE Commit \/ Boot \/ UNCHANGED vars
    BY <1>0, <1>1 DEF Commit, Boot, source, past, vars
  <1>2. CASE Crash \/ Fault
    <2>1. CutOff \subseteq Threads
      BY DEF CutOff
    <2>2. mishaps' \in 0 .. MaxMishaps /\ cutOff' \subseteq Threads
      <3>1. mishaps < MaxMishaps /\ mishaps' = mishaps + 1 /\ cutOff' = cutOff \cup CutOff
        BY <1>2, MishapMoves
      <3>2. mishaps' \in 0 .. MaxMishaps
        BY <1>0, <3>1
      <3>3. QED  BY <1>0, <2>1, <3>1, <3>2
    <2>3. /\ phase' \in {phase, "down", "resume", "stopped"} /\ operating' = FALSE
          /\ cache' \in {cache, {}} /\ failed' = {}
      BY <1>2, MishapMoves DEF Vanish
    <2>4. QED  BY <1>0, <2>2, <2>3
  <1>3. CASE Complete \/ Advance
    BY <1>0, <1>3, CompleteMoves, AdvanceMoves DEF AckMoves, source, past
  <1>4. CASE ResumeRetry
    BY <1>0, <1>4 DEF ResumeRetry, Vanish, past
  <1>5. CASE \/ PassOver \/ Skip \/ RecoverForTurn \/ AlreadySettled \/ Requeue \/ LeaseLost
             \/ Claim \/ Send \/ RetrySafely \/ RetriesExhausted \/ AnswerUncertain
    <2>1. UNCHANGED <<source, past>>
      BY <1>5 DEF PassOver, Skip, RecoverForTurn, AlreadySettled, Requeue, LeaseLost, Claim,
                  Send, RetrySafely, RetriesExhausted, AnswerUncertain, SettleAs
    <2>2. job.thread \in Threads
      BY <1>5, Hand DEF PassOver, Skip, RecoverForTurn, AlreadySettled, Requeue, LeaseLost, Claim,
                  Send, RetrySafely, RetriesExhausted, AnswerUncertain, RetryableAnswer, Lookup
    <2>3. cache' \subseteq cache \cup {job.thread}
      BY <1>5 DEF PassOver, Skip, RecoverForTurn, AlreadySettled, Requeue, LeaseLost, Claim,
                  Send, RetrySafely, RetriesExhausted, AnswerUncertain, SettleAs
    <2>4. QED  BY <1>0, <2>1, <2>2, <2>3 DEF source, past
  <1>6. CASE Fence
    <2>1. UNCHANGED <<phase, operating, past>>
      BY <1>6 DEF Fence, FenceReturnsNull, NotRecovered, FenceStops, Abandon, Recovered,
                  ReplaySkipped, source
    <2>2. CASE FenceReturnsNull
      <3>1. job.thread \in Threads
        BY <2>2, Hand DEF FenceReturnsNull
      <3>2. QED  BY <1>0, <2>1, <2>2, <3>1 DEF FenceReturnsNull, NotRecovered, past
    <2>3. CASE ~FenceReturnsNull
      BY <1>0, <1>6, <2>1, <2>3 DEF Fence, FenceStops, Abandon, Recovered, ReplaySkipped, source, past
    <2>4. QED  BY <2>2, <2>3
  <1>7. CASE HealThread \/ EndHeal \/ AfterResume \/ EndResume \/ ReplayEvent \/ EndReplay
    BY <1>0, <1>7 DEF HealThread, EndHeal, AfterResume, EndResume, ReplayEvent, EndReplay, source, past
  <1>8. CASE LiveEvent \/ OperatorReturns \/ OperatorAbandons \/ OperatorRetries
    BY <1>0, <1>8 DEF LiveEvent, OperatorReturns, OperatorAbandons, OperatorRetries, past
  <1>9. QED
    BY <1>1, <1>2, <1>3, <1>4, <1>5, <1>6, <1>7, <1>8 DEF Next, Reactor, Deliver, Source

\* Only a mishap, and the end of a resumed delivery, put a retry off, and only its own.
LEMMA PutOffMoves ==
    ASSUME IInv, [Next]_vars
    PROVE  \/ putOff' = putOff
           \/ Crash \/ Fault \/ AfterResume
  <1>1. CASE PassOver \/ Skip \/ RecoverForTurn \/ AlreadySettled \/ Requeue \/ LeaseLost
    BY <1>1 DEF PassOver, Skip, RecoverForTurn, AlreadySettled, Requeue, LeaseLost, past
  <1>2. CASE Claim \/ Send \/ RetrySafely \/ RetriesExhausted \/ AnswerUncertain
    BY <1>2 DEF Claim, Send, RetrySafely, RetriesExhausted, AnswerUncertain, SettleAs, past
  <1>3. CASE Complete \/ Advance
    BY <1>3 DEF Complete, Advance, past
  <1>4. CASE Fence
    BY <1>4 DEF Fence, FenceReturnsNull, NotRecovered, FenceStops, Abandon, Recovered,
                ReplaySkipped, past
  <1>5. CASE Boot \/ HealThread \/ EndHeal \/ ResumeRetry \/ EndResume \/ ReplayEvent
    BY <1>5 DEF Boot, HealThread, EndHeal, ResumeRetry, EndResume, ReplayEvent, past
  <1>6. CASE EndReplay \/ LiveEvent \/ OperatorReturns \/ OperatorAbandons \/ OperatorRetries
    BY <1>6 DEF EndReplay, LiveEvent, OperatorReturns, OperatorAbandons, OperatorRetries, past
  <1>7. CASE Commit \/ UNCHANGED vars
    BY <1>7 DEF Commit, vars, past
  <1>8. QED
    BY <1>1, <1>2, <1>3, <1>4, <1>5, <1>6, <1>7 DEF Next, Reactor, Deliver, Source

\* The threads of which a granted retry was put off are threads.
LEMMA PutOffStep == ASSUME IInv, [Next]_vars PROVE putOff' \subseteq Threads
  <1>0. putOff \subseteq Threads
    BY Zenon DEF IInv, TypeOK
  <1>1. resuming # 0 => log[resuming].thread \in Threads
    <2>1. SUFFICES ASSUME resuming # 0  PROVE log[resuming].thread \in Threads
      OBVIOUS
    <2>2. log \in Seq([thread : Threads, kind : Kinds]) /\ resuming \in 1 .. Len(log)
      BY <2>1, Numbers DEF IInv, TypeOK
    <2>3. log[resuming] \in [thread : Threads, kind : Kinds]
      BY <2>2, ElementOfSeq
    <2>4. QED  BY <2>3
  <1>2. CASE AfterResume
    <2>1. putOff' \subseteq putOff \cup {log[resuming].thread} /\ resuming # 0
      BY <1>2 DEF AfterResume
    <2>2. QED  BY <1>0, <1>1, <2>1
  <1>3. CASE Crash \/ Fault
    <2>1. putOff' = putOff \cup PutOff
      BY <1>3, MishapMoves
    <2>2. QED  BY <1>0, <1>1, <2>1 DEF PutOff
  <1>4. QED  BY <1>0, <1>2, <1>3, PutOffMoves

\* Keys come with a send and go with the process; what is put back is counted when it
\* is, or when the process goes.
LEMMA KeysMove ==
    ASSUME IInv, [Next]_vars
    PROVE  /\ keys' = keys \/ Send \/ OperatorRetries \/ Vanish
           /\ redone' = redone \/ RetrySafely \/ Vanish
  <1>1. CASE PassOver \/ Skip \/ RecoverForTurn \/ AlreadySettled \/ Requeue \/ LeaseLost
    BY <1>1 DEF PassOver, Skip, RecoverForTurn, AlreadySettled, Requeue, LeaseLost
  <1>2. CASE Claim \/ Send \/ RetrySafely \/ RetriesExhausted \/ AnswerUncertain
    BY <1>2 DEF Claim, Send, RetrySafely, RetriesExhausted, AnswerUncertain, SettleAs
  <1>3. CASE Complete \/ Advance
    BY <1>3, CompleteMoves, AdvanceMoves DEF AckMoves
  <1>4. CASE Fence
    BY <1>4 DEF Fence, FenceReturnsNull, NotRecovered, FenceStops, Abandon, Recovered,
                ReplaySkipped
  <1>5. CASE Boot \/ HealThread \/ EndHeal \/ ResumeRetry \/ EndResume \/ ReplayEvent
    BY <1>5 DEF Boot, HealThread, EndHeal, ResumeRetry, EndResume, ReplayEvent
  <1>6. CASE AfterResume \/ EndReplay \/ LiveEvent \/ OperatorReturns \/ OperatorAbandons
             \/ OperatorRetries
    BY <1>6 DEF AfterResume, EndReplay, LiveEvent, OperatorReturns, OperatorAbandons,
                OperatorRetries
  <1>7. CASE Commit \/ UNCHANGED vars
    BY <1>7 DEF Commit, vars
  <1>8. CASE Crash \/ Fault
    BY <1>8, MishapMoves
  <1>9. QED
    BY <1>1, <1>2, <1>3, <1>4, <1>5, <1>6, <1>7, <1>8 DEF Next, Reactor, Deliver, Source

\* Keys are of events in the log, and what is put back is counted in numbers.
LEMMA KeysStep ==
    ASSUME IInv, [Next]_vars
    PROVE  keys' \subseteq 1 .. Len(log') /\ redone' \in [Events -> Nat]
  <1> USE Numbers
  <1>0. keys \subseteq 1 .. Len(log) /\ redone \in [Events -> Nat]
    BY Zenon DEF IInv, TypeOK
  <1>a. Len(log') \in Nat /\ Len(log') >= Len(log)
    BY LogStep, LogGrows DEF IInv
  <1>1. CASE Send
    <2>1. keys' \subseteq keys \cup {job.event} /\ job.event \in 1 .. Len(log)
      BY <1>1, Hand DEF Send
    <2>2. redone' = redone
      BY <1>1 DEF Send
    <2>3. QED  BY <1>0, <1>a, <2>1, <2>2
  <1>2. CASE ~Send
    <2>1. keys' \subseteq keys
      BY <1>2, KeysMove DEF OperatorRetries, Vanish
    <2>2. redone' \in [Events -> Nat]
      <3>1. CASE Vanish
        BY <1>0, <3>1 DEF Vanish
      <3>2. CASE RetrySafely
        <4>1. job.event \in Events
          BY <3>2, Hand DEF RetrySafely, RetryableAnswer
        <4>2. QED  BY <1>0, <3>2, <4>1 DEF RetrySafely
      <3>3. QED  BY <1>0, <3>1, <3>2, KeysMove
    <2>3. QED  BY <1>0, <1>a, <2>1, <2>2
  <1>3. QED  BY <1>1, <1>2

\* No step breaks a type.
LEMMA TypeStep == ASSUME IInv, [Next]_vars PROVE TypeOK'
  <1>1. log' \in Seq([thread : Threads, kind : Kinds])
    BY LogStep, LogGrows, Zenon DEF IInv, TypeOK
  <1>2. NumbersOK'
    BY NumbersStep
  <1>3. Len(log') \in Nat /\ acked' \in 0 .. Len(log') /\ gone' \in 0 .. acked'
    BY <1>1, <1>2 DEF NumbersOK
  <1>4. retries' \subseteq 1 .. Len(log') /\ span' \subseteq 1 .. Len(log')
    BY <1>3, RowsReachedStep DEF RowsReached
  <1>5. QED
    BY <1>1, <1>2, <1>4, RowsStep, JobStep, SourceStep, PutOffStep, KeysStep, Zenon DEF NumbersOK, TypeOK

\* The cursors agree after every step, and a process that is gone holds nothing.
LEMMA PlacedStep == ASSUME IInv, [Next]_vars PROVE Placed'
  <1> USE Numbers
  <1>0. phase' # "down" => cursor' = acked'
    BY NumbersStep DEF NumbersOK
  <1>a. phase = "down" => job.step = "idle" /\ resuming = 0 /\ span = {} /\ ~operating /\ job = Idle
    BY DEF IInv, Placed, AtRest, Idle
  <1>1. CASE Vanish
    BY <1>0, <1>1 DEF Vanish, Placed, AtRest, Idle
  <1>2. CASE ~Vanish
    <2> USE <1>2
    <2>1. SUFFICES (phase' = "down" => AtRest' /\ ~operating')
      BY <1>0 DEF Placed
    <2>2. CASE Commit \/ UNCHANGED vars
      BY <1>a, <2>2 DEF Commit, source, vars, AtRest, Idle
    <2>3. CASE Crash \/ Fault
      BY <2>3, MishapMoves
    <2>4. CASE Boot \/ HealThread \/ EndHeal \/ EndResume \/ ReplayEvent \/ EndReplay \/ LiveEvent
               \/ ResumeRetry
      BY <2>4 DEF Boot, HealThread, EndHeal, EndResume, ReplayEvent, EndReplay, LiveEvent, ResumeRetry,
                  source
    <2>5. CASE AfterResume \/ OperatorReturns \/ OperatorAbandons \/ OperatorRetries
      BY <1>a, <2>5 DEF AfterResume, OperatorReturns, OperatorAbandons, OperatorRetries, OperatorMay
    <2>6. CASE FenceReturnsNull \/ FenceStops \/ Abandon \/ Recovered \/ ReplaySkipped
      BY <1>a, <2>6 DEF FenceReturnsNull, NotRecovered, FenceStops, Abandon, Recovered, ReplaySkipped,
                  source
    <2>7. CASE Complete \/ Advance
      <3>1. UNCHANGED source /\ job.step # "idle"
        BY <2>7, CompleteMoves, AdvanceMoves DEF AckMoves
      <3>2. QED  BY <1>a, <3>1 DEF source
    <2>8. CASE \/ PassOver \/ Skip \/ RecoverForTurn \/ AlreadySettled \/ Requeue \/ LeaseLost
               \/ Claim \/ Send \/ RetrySafely \/ RetriesExhausted \/ AnswerUncertain
      <3>1. UNCHANGED source /\ job.step # "idle"
        BY <2>8 DEF PassOver, Skip, RecoverForTurn, AlreadySettled, Requeue, LeaseLost, Claim,
                  Send, RetrySafely, RetriesExhausted, AnswerUncertain, SettleAs, RetryableAnswer, Lookup
      <3>2. QED  BY <1>a, <3>1 DEF source
    <2>9. QED
      BY <2>2, <2>3, <2>4, <2>5, <2>6, <2>7, <2>8 DEF Next, Reactor, Deliver, Fence, Source
  <1>3. QED  BY <1>1, <1>2

\* Whatever is picked up is stored, reached and known by its thread.
LEMMA InHandStep == ASSUME IInv, [Next]_vars PROVE InHand'
  <1> USE Numbers
  <1>0. /\ InHand /\ RowsReached /\ job \in Jobs /\ state \in [Events -> RowStates]
    BY Zenon DEF IInv, TypeOK
  <1>a. job' = Idle /\ acked' \in Nat => InHand'
    <2>1. Idle.step = "idle" /\ Idle.event = 0 /\ Idle.why = "none"
      BY DEF Idle
    <2>2. ASSUME job' = Idle, acked' \in Nat
          PROVE  0 <= acked' /\ job'.step = "idle" /\ job'.event = 0 /\ job'.why = "none"
      BY <2>1, <2>2
    <2>3. QED  BY <2>2 DEF InHand
  <1>b. ASSUME NEW e \in 1 .. Len(log), UNCHANGED <<log, gone, acked>>, Pick(e),
               gone < e, e <= acked + 1, span' # {} => e <= acked
        PROVE  InHand'
    <2>1. log[e] \in [thread : Threads, kind : Kinds]
      <3>1. log \in Seq([thread : Threads, kind : Kinds])
        BY DEF IInv, TypeOK
      <3>2. QED  BY <3>1, ElementOfSeq
    <2>2. /\ job'.step = "check" /\ job'.event = e /\ job'.thread = log[e].thread
          /\ job'.why = "event" /\ job' # Idle
      BY <1>b DEF Pick, Idle
    <2>3. QED  BY <1>b, <2>1, <2>2 DEF InHand
  <1>1. CASE Commit
    <2>1. /\ \A n \in 1 .. Len(log) : log'[n] = log[n]
          /\ UNCHANGED <<gone, acked, state, job, span>>
      BY <1>1, LogGrows DEF Commit, source, IInv
    <2>2. QED  BY <1>0, <2>1, Hand DEF InHand
  <1>2. CASE Crash \/ Fault
    BY <1>a, <1>2, MishapMoves DEF durable, Vanish
  <1>3. CASE Complete
    BY <1>a, <1>3, CompleteMoves DEF AckMoves
  <1>4. CASE Advance
    <2>1. AckMoves /\ job.step = "advance"
          /\ job' = IF job.why = "lease" THEN [job EXCEPT !.step = "fence"] ELSE Idle
      BY <1>4, AdvanceMoves
    <2>2. acked' \in Nat
      BY <2>1 DEF AckMoves
    <2>3. CASE job.why = "lease"
      <3>1. /\ job'.step = "fence" /\ job'.event = job.event /\ job'.thread = job.thread
            /\ job'.why = "lease" /\ job' # Idle
        BY <1>0, <2>1, <2>3 DEF Jobs, Idle
      <3>2. /\ log' = log /\ span' = span /\ job.event <= acked' /\ acked' \in Nat
        BY <2>1 DEF AckMoves, source
      <3>3. QED  BY <1>0, <2>1, <3>1, <3>2, Hand DEF InHand
    <2>4. CASE job.why # "lease"
      BY <1>a, <2>1, <2>2, <2>4
    <2>5. QED  BY <2>3, <2>4
  <1>5. CASE Steady
    <2>0. UNCHANGED <<log, gone, acked>>
      BY <1>5, SteadyFrame
    <2>1. CASE PassOver \/ Skip \/ AlreadySettled
      <3>1. /\ job' = [job EXCEPT !.step = "advance"] /\ job.step \in {"check", "lookup"}
            /\ span' = span
        BY <2>1 DEF PassOver, Skip, AlreadySettled, Lookup, Step, source
      <3>2. /\ job'.step = "advance" /\ job'.event = job.event /\ job'.thread = job.thread
            /\ job'.why = job.why
        BY <1>0, <3>1 DEF Jobs
      <3>3. QED  BY <1>0, <2>0, <3>1, <3>2, Hand DEF InHand, Idle
    <2>2. CASE RecoverForTurn
      <3>1. /\ job' = [job EXCEPT !.step = "fence", !.why = "turn"] /\ job.step = "check"
            /\ log[job.event].kind = "turnStart" /\ span' = span
        BY <2>2 DEF RecoverForTurn, Kind, source
      <3>2. /\ job'.step = "fence" /\ job'.event = job.event /\ job'.thread = job.thread
            /\ job'.why = "turn"
        BY <1>0, <3>1 DEF Jobs
      <3>3. QED  BY <1>0, <2>0, <3>1, <3>2, Hand DEF InHand, Idle
    <2>3. CASE Requeue \/ RetrySafely
      <3>1. /\ job' = [job EXCEPT !.step = "lookup"] /\ job.step \in {"check", "lookup", "answer"}
            /\ span' = span
        BY <2>3 DEF Requeue, RetrySafely, RetryableAnswer, Lookup, Step, source
      <3>2. /\ job'.step = "lookup" /\ job'.event = job.event /\ job'.thread = job.thread
            /\ job'.why = job.why
        BY <1>0, <3>1 DEF Jobs
      <3>3. QED  BY <1>0, <2>0, <3>1, <3>2, Hand DEF InHand, Idle
    <2>4. CASE LeaseLost
      <3>1. /\ job' = [job EXCEPT !.step = "advance", !.why = "lease"]
            /\ job.step \in {"check", "lookup"} /\ span' = span
        BY <2>4 DEF LeaseLost, Lookup, source
      <3>2. /\ job'.step = "advance" /\ job'.event = job.event /\ job'.thread = job.thread
            /\ job'.why = "lease"
        BY <1>0, <3>1 DEF Jobs
      <3>3. QED  BY <1>0, <2>0, <3>1, <3>2, Hand DEF InHand, Idle
    <2>5. CASE Claim
      <3>1. /\ job' = [job EXCEPT !.step = "call"] /\ job.step \in {"check", "lookup"}
            /\ span' = span /\ state' = [state EXCEPT ![job.event] = "inflight"]
        BY <2>5 DEF Claim, Lookup, Step, SetState, source
      <3>2. /\ job'.step = "call" /\ job'.event = job.event /\ job'.thread = job.thread
            /\ job'.why = job.why
        BY <1>0, <3>1 DEF Jobs
      <3>3. state'[job.event] = "inflight"
        BY <1>0, <3>1, Hand
      <3>4. QED  BY <1>0, <2>0, <3>1, <3>2, <3>3, Hand DEF InHand, Idle
    <2>6. CASE Send
      <3>1. /\ \E h \in BOOLEAN : job' = [job EXCEPT !.step = "answer", !.hit = h]
            /\ job.step = "call" /\ span' = span /\ state' = state
        BY <2>6 DEF Send, source, durable
      <3>2. /\ job'.step = "answer" /\ job'.event = job.event /\ job'.thread = job.thread
            /\ job'.why = job.why
        BY <1>0, <3>1 DEF Jobs
      <3>a. job' # Idle
        BY <3>2 DEF Idle
      <3>b. job.step = "call" /\ state' = state /\ span' = span
        BY <3>1
      <3>3. /\ state'[job.event] = "inflight"
            /\ job.event <= acked' + 1 /\ gone' < job.event /\ (span' # {} => job.event <= acked')
        BY <1>0, <2>0, <3>b, Hand DEF InHand
      <3>4. /\ job.event # 0 /\ job.thread \in Threads /\ job.thread = log'[job.event].thread
            /\ job.why # "heal" /\ (job.why = "turn" => log'[job.event].kind = "turnStart")
        BY <1>0, <2>0, <3>1, Hand DEF InHand
      <3>5. QED  BY <3>2, <3>a, <3>3, <3>4 DEF InHand
    <2>7. CASE RetriesExhausted \/ AnswerUncertain
      <3>1. /\ job' = [job EXCEPT !.step = "advance", !.hit = FALSE] /\ job.step = "answer"
            /\ span' = span
        BY <2>7 DEF RetriesExhausted, AnswerUncertain, RetryableAnswer, SettleAs, source
      <3>2. /\ job'.step = "advance" /\ job'.event = job.event /\ job'.thread = job.thread
            /\ job'.why = job.why
        BY <1>0, <3>1 DEF Jobs
      <3>3. QED  BY <1>0, <2>0, <3>1, <3>2, Hand DEF InHand, Idle
    <2>8. CASE FenceReturnsNull
      <3>1. /\ job.step = "fence" /\ span' = span
            /\ job' = IF job.why = "turn" THEN [job EXCEPT !.step = "advance"] ELSE Idle
        BY <2>8 DEF FenceReturnsNull, NotRecovered
      <3>2. CASE job.why = "turn"
        <4>1. /\ job'.step = "advance" /\ job'.event = job.event /\ job'.thread = job.thread
              /\ job'.why = "turn"
          BY <1>0, <3>1, <3>2 DEF Jobs
        <4>2. QED  BY <1>0, <2>0, <3>1, <3>2, <4>1, Hand DEF InHand, Idle
      <3>3. CASE job.why # "turn"
        BY <1>a, <2>0, <3>1, <3>3
      <3>4. QED  BY <3>2, <3>3
    <2>9. CASE FenceStops
      <3>1. /\ job' = [job EXCEPT !.step = "abandon"] /\ job.step = "fence" /\ span' = span
        BY <2>9 DEF FenceStops, Step, source
      <3>2. /\ job'.step = "abandon" /\ job'.event = job.event /\ job'.thread = job.thread
            /\ job'.why = job.why
        BY <1>0, <3>1 DEF Jobs
      <3>3. /\ job.why \in {"turn", "lease", "heal"} /\ job' # Idle
            /\ job.why = "lease" => job.event <= acked
        BY <1>0, <3>1, <3>2 DEF InHand, Idle
      <3>4. QED  BY <1>0, <2>0, <3>1, <3>2, <3>3, Hand DEF InHand
    <2>10. CASE Abandon
      <3>1. /\ \E n : job' = [job EXCEPT !.first = n]
            /\ job.step = "abandon" /\ span' = span
        BY <2>10 DEF Abandon, source
      <3>2. /\ job'.step = "abandon" /\ job'.event = job.event /\ job'.thread = job.thread
            /\ job'.why = job.why
        BY <1>0, <3>1 DEF Jobs
      <3>3. QED  BY <1>0, <2>0, <3>1, <3>2, Hand DEF InHand, Idle
    <2>11. CASE Recovered
      <3>1. /\ job.step = "abandon"
            /\ job' = IF job.why = "turn" THEN [job EXCEPT !.step = "lookup", !.first = 0] ELSE Idle
            /\ job.why = "turn" => span' = span
        BY <2>11 DEF Recovered
      <3>2. CASE job.why = "turn"
        <4>1. /\ job'.step = "lookup" /\ job'.event = job.event /\ job'.thread = job.thread
              /\ job'.why = "turn"
          BY <1>0, <3>1, <3>2 DEF Jobs
        <4>2. QED  BY <1>0, <2>0, <3>1, <3>2, <4>1, Hand DEF InHand, Idle
      <3>3. CASE job.why # "turn"
        BY <1>a, <2>0, <3>1, <3>3
      <3>4. QED  BY <3>2, <3>3
    <2>12. CASE ReplaySkipped
      <3>1. span \in SUBSET Nat /\ span \subseteq gone + 1 .. acked /\ Pick(Min(span)) /\ span # {}
        BY <1>0, <2>12 DEF ReplaySkipped, RowsReached
      <3>2. Min(span) \in gone + 1 .. acked
        BY <3>1, MinIsMember
      <3>3. QED  BY <1>b, <2>0, <3>1, <3>2
    <2>13. CASE HealThread
      <3>1. PICK t \in Threads : job' = [Idle EXCEPT !.step = "fence", !.thread = t, !.why = "heal"]
        BY <2>13 DEF HealThread, Healable
      <3>2. /\ job'.step = "fence" /\ job'.event = 0 /\ job'.thread \in Threads /\ job'.why = "heal"
        BY <3>1 DEF Idle
      <3>3. QED  BY <1>0, <2>0, <3>2 DEF InHand, Idle
    <2>14. CASE ReplayEvent
      <3>1. Pick(cursor + 1) /\ cursor = acked /\ cursor < goal /\ span' = {}
        BY <2>14 DEF ReplayEvent, AtRest, source
      <3>2. QED  BY <1>b, <2>0, <3>1
    <2>15. CASE LiveEvent
      <3>1. /\ job = Idle /\ span' = {} /\ phase = "live" /\ next <= Len(log) /\ cursor = acked
            /\ job' = job \/ (Pick(next) /\ ~(next <= cursor))
        BY <2>15 DEF LiveEvent, AtRest
      <3>2. next <= acked + 1
        BY <3>1 DEF IInv, QueueMeetsCursor, Idle
      <3>3. QED  BY <1>a, <1>b, <2>0, <3>1, <3>2
    <2>16. CASE OperatorRetries
      <3>1. PICK e \in Shown : Pick(e) /\ span' = {}
        BY <2>16 DEF OperatorRetries, OperatorMay, AtRest
      <3>2. e \in gone + 1 .. Len(log) /\ state[e] # "none"
        BY DEF Shown, Terminal
      <3>3. e \in 1 .. Len(log) /\ e \in Events
        BY <3>2 DEF Events
      <3>4. e <= acked + 1
        BY <1>0, <3>2, <3>3 DEF RowsReached
      <3>5. QED  BY <1>b, <2>0, <3>1, <3>2, <3>3, <3>4
    <2>17. CASE EndHeal \/ AfterResume \/ EndResume \/ EndReplay \/ OperatorReturns \/ OperatorAbandons
      <3>1. job' = Idle
        BY <2>17 DEF EndHeal, AfterResume, EndResume, EndReplay, OperatorReturns, OperatorAbandons,
                     OperatorMay, AtRest
      <3>2. QED  BY <1>a, <2>0, <3>1
    <2>18. CASE UNCHANGED vars
      BY <1>0, <2>18 DEF vars, durable, source, InHand
    <2>19. QED
      BY <1>5, <2>1, <2>2, <2>3, <2>4, <2>5, <2>6, <2>7, <2>8, <2>9, <2>10, <2>11, <2>12, <2>13, <2>14,
         <2>15, <2>16, <2>17, <2>18 DEF Steady, Fence
  <1>6. CASE Boot
    BY <1>a, <1>6 DEF Boot, IInv, Placed, AtRest, durable
  <1>7. CASE ResumeRetry
    <2>1. UNCHANGED <<log, gone, acked>> /\ retries # {}
      BY <1>7 DEF ResumeRetry, durable
    <2>a. retries \in SUBSET Nat /\ retries \subseteq 1 .. acked
      BY <1>0 DEF RowsReached
    <2>2. Vanish \/ (Min(retries) > gone /\ Pick(Min(retries)) /\ span' = {})
      <3>1. CASE Min(retries) <= gone
        BY <1>7, <3>1 DEF ResumeRetry
      <3>2. CASE ~(Min(retries) <= gone)
        <4>1. Pick(Min(retries)) /\ span' = {}
          BY <1>7, <3>2 DEF ResumeRetry, AtRest
        <4>2. Min(retries) \in Nat
          BY <2>1, <2>a, MinIsMember
        <4>3. QED  BY <3>2, <4>1, <4>2
      <3>3. QED  BY <3>1, <3>2
    <2>3. Min(retries) \in 1 .. acked
      BY <2>1, <2>a, MinIsMember
    <2>4. QED  BY <1>a, <1>b, <2>1, <2>2, <2>3 DEF Vanish
  <1>8. QED
    BY <1>1, <1>2, <1>3, <1>4, <1>5, <1>6, <1>7 DEF Next, Reactor, Deliver, Source, Steady

\* The steps within one event, or one fence, that neither acknowledge nor end it.
Within ==
    \/ PassOver \/ Skip \/ RecoverForTurn \/ AlreadySettled \/ Requeue \/ LeaseLost \/ Claim
    \/ Send \/ RetrySafely \/ RetriesExhausted \/ AnswerUncertain \/ FenceStops \/ Abandon

\* A step within an event keeps the event, its thread and the source as they are.
LEMMA WithinFrame ==
    ASSUME IInv, Within
    PROVE  /\ UNCHANGED <<log, gone, acked, cursor, mishaps, cutOff, source>>
           /\ job.step # "idle" /\ job'.step # "idle"
           /\ job'.event = job.event /\ job'.thread = job.thread
  <1>0. job \in Jobs
    BY Zenon DEF IInv, TypeOK
  <1>1. UNCHANGED <<log, gone, acked, cursor, mishaps, cutOff>>
    BY SteadyFrame DEF Within, Steady, Fence
  <1>2. CASE PassOver \/ Skip \/ RecoverForTurn \/ AlreadySettled
    BY <1>0, <1>1, <1>2 DEF PassOver, Skip, RecoverForTurn, AlreadySettled, Step, Lookup, Jobs
  <1>3. CASE Requeue \/ LeaseLost \/ Claim \/ RetrySafely \/ FenceStops
    BY <1>0, <1>1, <1>3 DEF Requeue, LeaseLost, Claim, RetrySafely, FenceStops, RetryableAnswer, Step,
                            Lookup, Jobs
  <1>4. CASE Send
    <2>1. \E h \in BOOLEAN : job' = [job EXCEPT !.step = "answer", !.hit = h]
      BY <1>4 DEF Send
    <2>2. job.step = "call" /\ UNCHANGED source
      BY <1>4 DEF Send
    <2>3. QED  BY <1>0, <1>1, <2>1, <2>2 DEF Jobs
  <1>5. CASE RetriesExhausted \/ AnswerUncertain
    BY <1>0, <1>1, <1>5 DEF RetriesExhausted, AnswerUncertain, RetryableAnswer, SettleAs, Jobs
  <1>6. CASE Abandon
    <2>1. \E n : job' = [job EXCEPT !.first = n]
      BY <1>6 DEF Abandon
    <2>2. job.step = "abandon" /\ UNCHANGED source
      BY <1>6 DEF Abandon
    <2>3. QED  BY <1>0, <1>1, <2>1, <2>2 DEF Jobs
  <1>7. QED  BY <1>2, <1>3, <1>4, <1>5, <1>6 DEF Within

\* Neither replay nor live queue leaves an event out.
LEMMA QueueMeetsCursorStep == ASSUME IInv, [Next]_vars PROVE QueueMeetsCursor'
  <1> USE Numbers
  <1>0. /\ InHand /\ QueueMeetsCursor /\ job \in Jobs /\ operating \in BOOLEAN
        /\ phase # "down" => cursor = acked
    BY Zenon DEF IInv, TypeOK, Placed
  <1>a. job.step = "idle" /\ phase = "live" => next <= acked + 1
    BY <1>0 DEF QueueMeetsCursor
  <1>b. job = Idle => job.step = "idle"
    BY DEF Idle
  <1>1. CASE Within
    BY <1>0, <1>1, WithinFrame DEF QueueMeetsCursor, source
  <1>2. CASE FenceReturnsNull \/ Recovered
    <2>1. /\ job.step \in {"fence", "abandon"} /\ UNCHANGED <<log, gone, acked, phase, next, goal, operating>>
          /\ \/ job.why = "turn" /\ job'.event = job.event /\ job'.step # "idle"
             \/ job.why # "turn" /\ job' = Idle
      <3>1. CASE FenceReturnsNull
        BY <1>0, <3>1 DEF FenceReturnsNull, NotRecovered, durable, Jobs
      <3>2. CASE Recovered
        BY <1>0, <3>2 DEF Recovered, durable, Jobs
      <3>3. QED  BY <1>2, <3>1, <3>2
    <2>2. CASE job.why = "turn"
      BY <1>0, <2>1, <2>2 DEF QueueMeetsCursor
    <2>3. CASE job.why # "turn"
      <3>1. job.event <= acked
        BY <1>0, <2>1, <2>3 DEF InHand
      <3>2. phase = "live" => next <= acked + 1
        BY <1>0, <3>1 DEF QueueMeetsCursor
      <3>3. QED  BY <1>0, <2>1, <3>2 DEF QueueMeetsCursor
    <2>4. QED  BY <2>2, <2>3
  <1>3. CASE Complete \/ Advance
    <2>1. AckMoves
      BY <1>3, CompleteMoves, AdvanceMoves
    <2>2. /\ UNCHANGED <<phase, next, goal>>
          /\ acked' = IF job.event = acked + 1 THEN job.event ELSE acked
      BY <2>1 DEF AckMoves, source
    <2>3. next' <= acked' + 1 \/ phase' # "live"
      BY <1>0, <2>2 DEF QueueMeetsCursor
    <2>4. phase' = "replay" => next' <= goal' + 1
      BY <1>0, <2>2 DEF QueueMeetsCursor
    <2>5. ~(phase' = "live" /\ next' > acked' + 1)
      BY <2>2, <2>3
    <2>6. QED  BY <2>4, <2>5 DEF QueueMeetsCursor
  <1>4. CASE ReplaySkipped \/ HealThread \/ AfterResume \/ OperatorReturns \/ OperatorAbandons
             \/ OperatorRetries \/ ReplayEvent
    <2>1. job.step = "idle" /\ UNCHANGED <<acked, phase, next, goal>>
      BY <1>4, <1>b DEF ReplaySkipped, HealThread, AfterResume, OperatorReturns, OperatorAbandons,
                  OperatorRetries, ReplayEvent, OperatorMay, AtRest, durable, source
    <2>2. QED  BY <1>0, <1>a, <2>1 DEF QueueMeetsCursor
  <1>5. CASE LiveEvent
    <2>1. /\ job.step = "idle" /\ phase = "live" /\ ~operating /\ cursor = acked
          /\ next' = next + 1 /\ UNCHANGED <<acked, phase, goal, operating>>
          /\ next <= cursor \/ Pick(next)
      BY <1>0, <1>5, <1>b DEF LiveEvent, AtRest, durable
    <2>2. CASE next <= cursor
      BY <1>a, <2>1, <2>2 DEF QueueMeetsCursor
    <2>3. CASE ~(next <= cursor)
      <3>1. next = acked + 1
        BY <1>a, <2>1, <2>3
      <3>2. job'.step = "check" /\ job'.event = next
        BY <2>1, <2>3 DEF Pick
      <3>3. QED  BY <2>1, <3>1, <3>2 DEF QueueMeetsCursor
    <2>4. QED  BY <2>2, <2>3
  <1>6. CASE EndReplay
    BY <1>0, <1>6 DEF EndReplay, QueueMeetsCursor, durable
  <1>7. CASE EndHeal \/ Boot
    BY <1>7 DEF EndHeal, Boot, QueueMeetsCursor
  <1>8. CASE EndResume
    BY <1>8 DEF EndResume, QueueMeetsCursor
  <1>9. CASE ResumeRetry
    BY <1>9 DEF ResumeRetry, Vanish, QueueMeetsCursor
  <1>10. CASE Crash \/ Fault
    <2>1. UNCHANGED acked
      BY <1>10, MishapMoves DEF durable
    <2>2. \/ phase' \notin {"replay", "live"}
          \/ operating /\ UNCHANGED <<phase, next, goal>>
      BY <1>10, MishapMoves DEF Vanish
    <2>3. QED  BY <1>0, <2>1, <2>2 DEF QueueMeetsCursor
  <1>11. CASE Commit \/ UNCHANGED vars
    BY <1>0, <1>11 DEF Commit, vars, durable, source, QueueMeetsCursor
  <1>12. QED
    BY <1>1, <1>2, <1>3, <1>4, <1>5, <1>6, <1>7, <1>8, <1>9, <1>10, <1>11
    DEF Next, Reactor, Deliver, Fence, Source, Within

-----------------------------------------------------------------------------
(* Blockers *)

\* Which threads are blocked changes only with the rows that are terminal.
LEMMA BlockersKept ==
    ASSUME IInv, log' = log \/ Commit,
           \A n \in Events : state'[n] \in Terminal <=> state[n] \in Terminal
    PROVE  \A t \in Threads : Blocking(t)' = Blocking(t)
  <1> USE Numbers
  <1>1. 1 .. Len(log) \subseteq Events
    BY DEF Events
  <1>2. CASE log' = log
    BY <1>1, <1>2 DEF Blocking
  <1>3. CASE Commit
    <2>1. /\ Len(log') = Len(log) + 1 /\ Len(log') <= MaxEvents
          /\ \A n \in 1 .. Len(log) : log'[n] = log[n]
      BY <1>3, LogGrows DEF IInv
    <2>2. Len(log) + 1 \in Events
      BY <2>1 DEF Events
    <2>3. state[Len(log) + 1] \notin Terminal
      BY <2>2 DEF IInv, RowsReached, Terminal
    <2>4. \A n \in 1 .. Len(log') : state'[n] \in Terminal => n \in 1 .. Len(log)
      <3>1. SUFFICES ASSUME NEW n \in 1 .. Len(log'), state'[n] \in Terminal, n \notin 1 .. Len(log)
                     PROVE  FALSE
        OBVIOUS
      <3>2. n = Len(log) + 1
        BY <2>1, <3>1
      <3>3. QED  BY <2>2, <2>3, <3>1, <3>2
    <2>5. 1 .. Len(log) \subseteq 1 .. Len(log')
      BY <2>1
    <2>6. QED  BY <1>1, <2>1, <2>4, <2>5 DEF Blocking
  <1>4. QED  BY <1>2, <1>3

\* The steps that make or unmake no blocker.
Unmoving ==
    \/ PassOver \/ Skip \/ RecoverForTurn \/ AlreadySettled \/ Requeue \/ Claim \/ Send
    \/ RetrySafely \/ Complete \/ Advance
    \/ FenceReturnsNull \/ FenceStops \/ Recovered \/ ReplaySkipped
    \/ Source \/ Commit \/ Crash \/ Fault \/ UNCHANGED vars

\* Such a step leaves the blockers of every thread as they are.
LEMMA BlockersUnmoved ==
    ASSUME IInv, Unmoving
    PROVE  \A t \in Threads : Blocking(t)' = Blocking(t)
  <1>0. state \in [Events -> RowStates]
    BY Zenon DEF IInv, TypeOK
  <1>1. \A n \in Events : state'[n] \in Terminal <=> state[n] \in Terminal
    <2>1. CASE Requeue
      <3>1. state[job.event] = "inflight" /\ state' = [state EXCEPT ![job.event] = "retry"]
        BY <2>1 DEF Requeue, SetState
      <3>2. QED  BY <1>0, <3>1 DEF Terminal
    <2>2. CASE Claim
      <3>1. state[job.event] \in {"none", "retry"}
            /\ state' = [state EXCEPT ![job.event] = "inflight"]
        BY <2>2 DEF Claim, SetState
      <3>2. QED  BY <1>0, <3>1 DEF Terminal
    <2>3. CASE RetrySafely
      <3>1. state[job.event] = "inflight" /\ state' = [state EXCEPT ![job.event] = "retry"]
        BY <2>3 DEF RetrySafely, RetryableAnswer, SetState, IInv, InHand
      <3>2. QED  BY <1>0, <3>1 DEF Terminal
    <2>4. CASE Complete \/ Advance
      <3>1. AckMoves
        BY <2>4, CompleteMoves, AdvanceMoves
      <3>2. job.step \in {"call", "answer"} => state[job.event] = "inflight"
        BY DEF IInv, InHand
      <3>3. QED  BY <1>0, <3>1, <3>2 DEF AckMoves, Terminal
    <2>5. CASE PassOver \/ Skip \/ RecoverForTurn \/ AlreadySettled \/ Send \/ Commit \/ UNCHANGED vars
      BY <2>5 DEF PassOver, Skip, RecoverForTurn, AlreadySettled, Send, Commit, durable, vars
    <2>6. CASE FenceReturnsNull \/ FenceStops \/ Recovered \/ ReplaySkipped \/ Boot \/ ResumeRetry
      BY <2>6 DEF FenceReturnsNull, NotRecovered, FenceStops, Recovered, ReplaySkipped, Boot,
                  ResumeRetry, durable
    <2>7. CASE HealThread \/ EndHeal \/ AfterResume \/ EndResume \/ ReplayEvent \/ EndReplay
      BY <2>7 DEF HealThread, EndHeal, AfterResume, EndResume, ReplayEvent, EndReplay, durable
    <2>8. CASE LiveEvent \/ OperatorReturns
      BY <2>8 DEF LiveEvent, OperatorReturns, durable
    <2>9. CASE Crash \/ Fault
      BY <2>9, MishapMoves DEF durable
    <2>10. QED
      BY <2>1, <2>2, <2>3, <2>4, <2>5, <2>6, <2>7, <2>8, <2>9 DEF Unmoving, Source
  <1>2. log' = log \/ Commit
    BY LogStep DEF Unmoving, Next, Reactor, Deliver, Fence
  <1>3. QED  BY <1>1, <1>2, BlockersKept

\* A terminal answer, or a claim whose lease is lost, makes a blocker of the event in hand.
LEMMA BlockersMade ==
    ASSUME IInv, LeaseLost \/ RetriesExhausted \/ AnswerUncertain
    PROVE  /\ \A t \in Threads : Blocking(t) \subseteq Blocking(t)'
           /\ \A t \in Threads : t = job.thread => job.event \in Blocking(t)'
           /\ state'[job.event] \in Terminal /\ job.event # 0 /\ job.thread \in Threads
           /\ cache' = cache \cup {job.thread} /\ job'.step = "advance"
  <1>0. state \in [Events -> RowStates] /\ job \in Jobs
    BY Zenon DEF IInv, TypeOK
  <1>1. Within
    BY DEF Within
  <1>2. log' = log /\ job'.event = job.event
    BY <1>1, WithinFrame
  <1>3. /\ job.step \in {"check", "lookup", "answer"}
        /\ \E s \in Terminal : state' = [state EXCEPT ![job.event] = s]
        /\ cache' = cache \cup {job.thread} /\ job'.step = "advance"
    BY <1>0 DEF LeaseLost, RetriesExhausted, AnswerUncertain, RetryableAnswer, Lookup, SettleAs,
                SetState, Terminal, Jobs
  <1>4. /\ job.event # 0 /\ job.event \in Events /\ job.event \in 1 .. Len(log)
        /\ job.thread \in Threads /\ job.thread = log[job.event].thread
    BY <1>3, Hand
  <1>5. /\ state'[job.event] \in Terminal
        /\ \A n \in Events : state[n] \in Terminal => state'[n] \in Terminal
    BY <1>0, <1>3, <1>4
  <1>6. 1 .. Len(log) \subseteq Events
    BY Numbers DEF Events
  <1>7. \A t \in Threads : Blocking(t) \subseteq Blocking(t)'
    BY <1>2, <1>5, <1>6 DEF Blocking
  <1>8. \A t \in Threads : t = job.thread => job.event \in Blocking(t)'
    BY <1>2, <1>4, <1>5 DEF Blocking
  <1>9. QED  BY <1>3, <1>4, <1>5, <1>7, <1>8

\* Abandoning a blocker, or granting its retry, frees its own thread alone.
LEMMA BlockersUnmade ==
    ASSUME IInv, NEW e \in Events, NEW r \in {"succeeded", "retry"}, log' = log,
           state' = [state EXCEPT ![e] = r]
    PROVE  \A t \in Threads : t # log[e].thread => Blocking(t)' = Blocking(t)
  <1>1. state \in [Events -> RowStates]
    BY Zenon DEF IInv, TypeOK
  <1>2. 1 .. Len(log) \subseteq Events
    BY Numbers DEF Events
  <1>3. QED  BY <1>1, <1>2 DEF Blocking

\* Nothing gets past the check, or back to it, with a blocker.
LEMMA UnblockedStep == ASSUME IInv, [Next]_vars PROVE Unblocked'
  <1> USE Numbers
  <1>0. job \in Jobs
    BY Zenon DEF IInv, TypeOK
  <1>a. job' = Idle => Unblocked'
    BY DEF Idle, Unblocked
  <1>b. ASSUME NEW e, Pick(e) PROVE Unblocked'
    BY <1>b DEF Pick, Unblocked
  <1>1. CASE Requeue \/ Claim \/ RetrySafely \/ Send
    <2>1. /\ log' = log /\ job'.event = job.event /\ job'.thread = job.thread
          /\ \A t \in Threads : Blocking(t)' = Blocking(t)
      BY <1>1, WithinFrame, BlockersUnmoved DEF Within, Unmoving
    <2>2. job.thread \in Threads
      BY <1>1, WithinFrame, Hand DEF Within
    <2>3. log[job.event].kind \in Guarded => Blocking(job.thread) = {}
      BY <1>1 DEF Requeue, Claim, RetrySafely, Send, RetryableAnswer, Lookup, Held, Kind, IInv, Unblocked
    <2>4. QED  BY <2>1, <2>2, <2>3 DEF Unblocked
  <1>2. CASE Recovered
    <2>1. /\ job.step = "abandon" /\ Blocking(job.thread) = {} /\ log' = log
          /\ job' = IF job.why = "turn" THEN [job EXCEPT !.step = "lookup", !.first = 0] ELSE Idle
      BY <1>2 DEF Recovered, durable
    <2>2. job.thread \in Threads /\ \A t \in Threads : Blocking(t)' = Blocking(t)
      BY <1>2, <2>1, Hand, BlockersUnmoved DEF Unmoving
    <2>3. job' = Idle \/ (job'.event = job.event /\ job'.thread = job.thread)
      BY <1>0, <2>1 DEF Jobs
    <2>4. QED  BY <1>a, <2>1, <2>2, <2>3 DEF Unblocked
  <1>3. CASE PassOver \/ Skip \/ RecoverForTurn \/ AlreadySettled \/ FenceStops
    <2>1. job'.step \in {"advance", "fence", "abandon"}
      BY <1>0, <1>3 DEF PassOver, Skip, RecoverForTurn, AlreadySettled, FenceStops, Step, Jobs
    <2>2. QED  BY <2>1 DEF Unblocked
  <1>4. CASE LeaseLost \/ RetriesExhausted \/ AnswerUncertain
    BY <1>4, BlockersMade DEF Unblocked
  <1>5. CASE Abandon \/ FenceReturnsNull
    <2>1. \/ \E n : job' = [job EXCEPT !.first = n] /\ job.step = "abandon"
          \/ job' = [job EXCEPT !.step = "advance"]
          \/ job' = Idle
      BY <1>5 DEF Abandon, FenceReturnsNull, NotRecovered
    <2>2. job'.step \in {"idle", "advance", "abandon"}
      BY <1>0, <2>1 DEF Jobs, Idle
    <2>3. QED  BY <2>2 DEF Unblocked
  <1>6. CASE ReplaySkipped \/ ReplayEvent \/ OperatorRetries
    BY <1>6, <1>b DEF ReplaySkipped, ReplayEvent, OperatorRetries
  <1>7. CASE ResumeRetry \/ LiveEvent
    <2>1. job' = Idle \/ \E e : Pick(e)
      BY <1>7 DEF ResumeRetry, LiveEvent, Vanish, AtRest
    <2>2. QED  BY <1>a, <1>b, <2>1
  <1>8. CASE HealThread
    <2>1. job'.step = "fence"
      BY <1>8 DEF HealThread, Idle
    <2>2. QED  BY <2>1 DEF Unblocked
  <1>9. CASE EndHeal \/ AfterResume \/ EndResume \/ EndReplay \/ OperatorReturns \/ OperatorAbandons
    BY <1>9, <1>a DEF EndHeal, AfterResume, EndResume, EndReplay, OperatorReturns, OperatorAbandons,
                      OperatorMay, AtRest
  <1>10. CASE Boot
    BY <1>10, <1>a DEF Boot, IInv, Placed, AtRest
  <1>11. CASE Crash \/ Fault
    BY <1>11, <1>a, MishapMoves DEF Vanish
  <1>12. CASE Complete \/ Advance
    <2>1. job' = Idle \/ job' = [job EXCEPT !.step = "fence"]
      BY <1>12, CompleteMoves, AdvanceMoves
    <2>2. job' = Idle \/ job'.step = "fence"
      BY <1>0, <2>1 DEF Jobs
    <2>3. QED  BY <1>a, <2>2 DEF Unblocked
  <1>13. CASE Commit \/ UNCHANGED vars
    <2>1. job' = job /\ \A t \in Threads : Blocking(t)' = Blocking(t)
      BY <1>13, BlockersUnmoved DEF Unmoving, Commit, vars
    <2>2. job.event # 0 => log'[job.event] = log[job.event]
      BY <1>13, Hand, LogGrows DEF IInv, vars, durable
    <2>3. job.step \in {"lookup", "call", "answer"} => job.event # 0 /\ job.thread \in Threads
      BY Hand
    <2>4. QED  BY <2>1, <2>2, <2>3 DEF IInv, Unblocked
  <1>14. QED
    BY <1>1, <1>2, <1>3, <1>4, <1>5, <1>6, <1>7, <1>8, <1>9, <1>10, <1>11, <1>12, <1>13
    DEF Next, Reactor, Deliver, Fence, Source

\* No step leaves a thread in the cache for no reason.
LEMMA CacheTrueStep == ASSUME IInv, [Next]_vars PROVE CacheTrue'
  <1> USE Numbers
  <1>0. job \in Jobs /\ cache \subseteq Threads /\ CacheTrue
    BY Zenon DEF IInv, TypeOK
  <1>a. job.thread \in Threads /\ Held =>
           job.thread \in cache \/ Blocking(job.thread) # {}
    BY DEF Held
  <1>1. CASE LeaseLost \/ RetriesExhausted \/ AnswerUncertain
    <2>1. job.step # "abandon" /\ cutOff' = cutOff
      <3>1. cutOff' = cutOff
        BY <1>1, WithinFrame DEF Within
      <3>2. job.step # "abandon"
        BY <1>1 DEF LeaseLost, RetriesExhausted, AnswerUncertain, RetryableAnswer, Lookup
      <3>3. QED  BY <3>1, <3>2
    <2>2. SUFFICES ASSUME NEW t \in Threads, t \in cache'
                   PROVE  Blocking(t)' # {} \/ t \in cutOff'
      <3>1. cache' \subseteq Threads
        BY SourceStep
      <3>2. QED  BY <3>1 DEF CacheTrue
    <2>3. CASE t = job.thread
      BY <1>1, <2>3, BlockersMade
    <2>4. CASE t # job.thread
      BY <1>0, <1>1, <2>1, <2>2, <2>4, BlockersMade DEF CacheTrue
    <2>5. QED  BY <2>3, <2>4
  <1>2. CASE Abandon
    <2>1. /\ job.step = "abandon" /\ Blocking(job.thread) # {} /\ cache' = cache
          /\ state' = [state EXCEPT ![Min(Blocking(job.thread))] = "succeeded"]
      BY <1>2 DEF Abandon, SetState
    <2>2. /\ log' = log /\ cutOff' = cutOff /\ job'.thread = job.thread
      BY <1>2, WithinFrame DEF Within
    <2>3. job.thread \in Threads /\ Min(Blocking(job.thread)) \in Blocking(job.thread)
      BY <2>1, Hand, MinIsMember
    <2>4. Min(Blocking(job.thread)) \in Events /\ log[Min(Blocking(job.thread))].thread = job.thread
      <3>1. \A n \in Blocking(job.thread) : n \in Events /\ log[n].thread = job.thread
        BY <2>3, Hand DEF Blocking
      <3>2. QED  BY <2>3, <3>1
    <2>5. \A t \in Threads : t # job.thread => Blocking(t)' = Blocking(t)
      BY <2>1, <2>2, <2>4, BlockersUnmade
    <2>6. job'.step = "abandon"
      <3>1. \E n : job' = [job EXCEPT !.first = n]
        BY <1>2 DEF Abandon
      <3>2. QED  BY <1>0, <2>1, <3>1 DEF Jobs
    <2>7. QED  BY <1>0, <2>1, <2>2, <2>5, <2>6 DEF CacheTrue
  <1>3. CASE OperatorAbandons \/ OperatorRetries
    <2>1. PICK e \in Shown, r \in {"succeeded", "retry"} :
            state' = [state EXCEPT ![e] = r] /\ cache' = cache \ {log[e].thread}
      BY <1>3 DEF OperatorAbandons, OperatorRetries, SetState
    <2>2. UNCHANGED <<log, cutOff>> /\ job.step = "idle"
      <3>1. UNCHANGED <<log, cutOff>>
        BY <1>3, SteadyFrame DEF Steady
      <3>2. job = Idle
        BY <1>3 DEF OperatorAbandons, OperatorRetries, OperatorMay, AtRest
      <3>3. QED  BY <3>1, <3>2 DEF Idle
    <2>3. e \in Events
      BY DEF Shown, Events
    <2>4. \A t \in Threads : t # log[e].thread => Blocking(t)' = Blocking(t)
      BY <2>1, <2>2, <2>3, BlockersUnmade
    <2>5. QED  BY <1>0, <2>1, <2>2, <2>4 DEF CacheTrue
  <1>4. CASE Crash \/ Fault
    <2>1. CASE Vanish
      BY <2>1 DEF Vanish, CacheTrue
    <2>2. CASE ~Vanish
      <3>1. cache' = cache /\ cutOff' = cutOff \cup CutOff
        BY <1>4, <2>2, MishapMoves
      <3>2. \A t \in Threads : Blocking(t)' = Blocking(t)
        BY <1>4, BlockersUnmoved DEF Unmoving
      <3>3. \A t \in Threads : job.step = "abandon" /\ job.thread = t /\ Blocking(t) = {} => t \in CutOff
        BY DEF CutOff
      <3>4. QED  BY <1>0, <3>1, <3>2, <3>3 DEF CacheTrue
    <2>3. QED  BY <2>1, <2>2
  <1>5. ASSUME Unmoving, cutOff' = cutOff,
               job.step = "abandon" => job'.step = "abandon" /\ job'.thread = job.thread,
               \A t \in cache' : t \in cache \/ Blocking(t) # {}
        PROVE  CacheTrue'
    <2>1. \A t \in Threads : Blocking(t)' = Blocking(t)
      BY <1>5, BlockersUnmoved
    <2>2. cache' \subseteq Threads
      BY SourceStep
    <2>3. QED  BY <1>0, <1>5, <2>1, <2>2 DEF CacheTrue
  <1>6. CASE PassOver \/ Skip \/ RecoverForTurn \/ Requeue \/ Claim \/ Send \/ RetrySafely
    <2>1. Unmoving /\ Within
      BY <1>6 DEF Unmoving, Within
    <2>2. job.step # "abandon"
      BY <1>6 DEF PassOver, Skip, RecoverForTurn, Requeue, Claim, Send, RetrySafely, RetryableAnswer, Lookup
    <2>3. job.thread \in Threads /\ cutOff' = cutOff
      BY <2>1, WithinFrame, Hand
    <2>4. \A t \in cache' : t \in cache \/ Blocking(t) # {}
      BY <1>6, <1>a, <2>3 DEF PassOver, Skip, RecoverForTurn, Requeue, Claim, Send, RetrySafely
    <2>5. QED  BY <1>5, <2>1, <2>2, <2>3, <2>4
  <1>7. CASE AlreadySettled
    <2>1. Unmoving /\ Within /\ job.step # "abandon" /\ job.step \in {"check", "lookup"}
      BY <1>7 DEF Unmoving, Within, AlreadySettled, Lookup
    <2>2. cutOff' = cutOff
      BY <2>1, WithinFrame
    <2>3. job.thread \in Threads /\ job.event \in 1 .. Len(log) /\ job.thread = log[job.event].thread
      BY <2>1, Hand
    <2>4. state[job.event] \in Terminal => Blocking(job.thread) # {}
      BY <2>3 DEF Blocking
    <2>5. \A t \in cache' : t \in cache \/ Blocking(t) # {}
      BY <1>7, <2>4 DEF AlreadySettled
    <2>6. QED  BY <1>5, <2>1, <2>2, <2>5
  <1>8. CASE FenceReturnsNull \/ FenceStops
    <2>1. Unmoving /\ cutOff' = cutOff /\ job.step = "fence"
      BY <1>8 DEF Unmoving, FenceReturnsNull, NotRecovered, FenceStops, past
    <2>2. \A t \in cache' : t \in cache \/ Blocking(t) # {}
      BY <1>8 DEF FenceReturnsNull, FenceStops
    <2>3. QED  BY <1>5, <2>1, <2>2
  <1>9. CASE Recovered
    <2>1. cutOff' = cutOff /\ cache' = cache \ {job.thread} /\ job.step = "abandon"
      BY <1>9 DEF Recovered, past
    <2>2. \A t \in Threads : Blocking(t)' = Blocking(t)
      BY <1>9, BlockersUnmoved DEF Unmoving
    <2>3. QED  BY <1>0, <2>1, <2>2 DEF CacheTrue
  <1>10. CASE Complete \/ Advance
    <2>1. Unmoving /\ job.step # "abandon" /\ UNCHANGED <<cutOff, cache>>
      BY <1>10, CompleteMoves, AdvanceMoves DEF Unmoving, AckMoves, past
    <2>2. QED  BY <1>5, <2>1
  <1>11. CASE ReplaySkipped \/ HealThread \/ EndHeal \/ AfterResume \/ EndResume \/ ReplayEvent \/ EndReplay
    <2>1. Unmoving
      BY <1>11 DEF Unmoving, Source
    <2>2. job = Idle /\ cutOff' = cutOff
      BY <1>11 DEF ReplaySkipped, HealThread, EndHeal, AfterResume, EndResume, ReplayEvent, EndReplay,
                   AtRest, past
    <2>3. cache' \subseteq cache
      <3>1. CASE AfterResume
        BY <3>1 DEF AfterResume
      <3>2. CASE ~AfterResume
        BY <1>11, <3>2 DEF ReplaySkipped, HealThread, EndHeal, EndResume, ReplayEvent, EndReplay
      <3>3. QED  BY <3>1, <3>2
    <2>4. job.step = "idle"
      BY <2>2 DEF Idle
    <2>5. QED  BY <1>5, <2>1, <2>2, <2>3, <2>4
  <1>12. CASE LiveEvent \/ OperatorReturns
    <2>1. /\ Unmoving /\ job.step = "idle" /\ cutOff' = cutOff /\ cache' \subseteq cache
      BY <1>12 DEF Unmoving, Source, LiveEvent, OperatorReturns, AtRest, Idle, past
    <2>2. QED  BY <1>5, <2>1
  <1>13. CASE Boot \/ ResumeRetry
    <2>1. job.step = "idle"
      BY <1>13 DEF Boot, ResumeRetry, IInv, Placed, AtRest, Idle
    <2>2. Unmoving /\ cutOff' = cutOff /\ cache' \subseteq cache
      BY <1>13 DEF Unmoving, Source, Boot, ResumeRetry, Vanish, past
    <2>3. QED  BY <1>5, <2>1, <2>2
  <1>14. CASE Commit \/ UNCHANGED vars
    <2>1. Unmoving /\ UNCHANGED <<cutOff, cache, job>>
      BY <1>14 DEF Unmoving, Commit, vars, past
    <2>2. QED  BY <1>5, <2>1
  <1>15. QED
    BY <1>1, <1>2, <1>3, <1>4, <1>6, <1>7, <1>8, <1>9, <1>10, <1>11, <1>12, <1>13, <1>14
    DEF Next, Reactor, Deliver, Fence, Source

\* No step gives up an event of a thread that is not blocked.
LEMMA HeldBackStep == ASSUME IInv, [Next]_vars PROVE HeldBack'
  <1> USE Numbers
  <1>0. job \in Jobs /\ HeldBack /\ CacheTrue
    BY Zenon DEF IInv, TypeOK
  <1>a. job'.step \notin {"advance", "fence"} => HeldBack'
    BY DEF HeldBack
  <1>b. (job' = Idle \/ \E e : Pick(e)) => HeldBack'
    <2>1. (job' = Idle \/ \E e : Pick(e)) => job'.step \in {"idle", "check"}
      BY DEF Idle, Pick
    <2>2. QED  BY <2>1, <1>a
  <1>1. CASE PassOver
    <2>1. /\ job'.step = "advance" /\ job'.event = job.event /\ log' = log
          /\ log[job.event].kind \notin Claimed
      BY <1>0, <1>1, WithinFrame DEF Within, PassOver, Kind, Step, Jobs
    <2>2. QED  BY <2>1 DEF HeldBack
  <1>2. CASE Skip \/ RecoverForTurn
    <2>1. /\ job'.event = job.event /\ job'.thread = job.thread /\ log' = log /\ cutOff' = cutOff
      BY <1>2, WithinFrame DEF Within
    <2>2. job.step = "check" /\ Held
      BY <1>2 DEF Skip, RecoverForTurn
    <2>3. job.thread \in Threads
      BY <2>2, Hand
    <2>4. \A t \in Threads : Blocking(t)' = Blocking(t)
      BY <1>2, BlockersUnmoved DEF Unmoving
    <2>5. Blocking(job.thread) # {} \/ job.thread \in cutOff
      BY <1>0, <2>2 DEF Held, CacheTrue
    <2>6. log[job.event].kind \in Guarded
      BY <2>2 DEF Held, Kind
    <2>7. QED  BY <2>1, <2>3, <2>4, <2>5, <2>6 DEF HeldBack
  <1>3. CASE AlreadySettled
    <2>1. /\ job'.step = "advance" /\ job'.event = job.event /\ state' = state
          /\ state[job.event] # "none"
      BY <1>0, <1>3, WithinFrame DEF Within, AlreadySettled, Step, Jobs, Terminal, durable
    <2>2. QED  BY <2>1 DEF HeldBack
  <1>4. CASE LeaseLost \/ RetriesExhausted \/ AnswerUncertain
    <2>1. job'.event = job.event
      BY <1>4, WithinFrame DEF Within
    <2>2. QED  BY <1>4, <2>1, BlockersMade DEF HeldBack, Terminal
  <1>5. CASE FenceReturnsNull
    <2>1. /\ job.step = "fence" /\ UNCHANGED <<log, cutOff>>
          /\ job' = IF job.why = "turn" THEN [job EXCEPT !.step = "advance"] ELSE Idle
      BY <1>5 DEF FenceReturnsNull, NotRecovered, durable, past
    <2>2. \A t \in Threads : Blocking(t)' = Blocking(t)
      BY <1>5, BlockersUnmoved DEF Unmoving
    <2>3. CASE job.why = "turn"
      <3>1. job'.event = job.event /\ job'.thread = job.thread /\ job.thread \in Threads
        BY <1>0, <2>1, <2>3, Hand DEF Jobs
      <3>2. log[job.event].kind \in Guarded /\ (Blocking(job.thread) # {} \/ job.thread \in cutOff)
        BY <1>0, <2>1, <2>3 DEF HeldBack
      <3>3. QED  BY <2>1, <2>2, <3>1, <3>2 DEF HeldBack
    <2>4. CASE job.why # "turn"
      BY <1>b, <2>1, <2>4
    <2>5. QED  BY <2>3, <2>4
  <1>6. CASE Requeue \/ Claim \/ RetrySafely \/ FenceStops
    <2>1. job'.step \in {"lookup", "call", "abandon"}
      BY <1>0, <1>6 DEF Requeue, Claim, RetrySafely, FenceStops, Step, Jobs
    <2>2. QED  BY <2>1, <1>a
  <1>7. CASE Send
    <2>1. \E h \in BOOLEAN : job' = [job EXCEPT !.step = "answer", !.hit = h]
      BY <1>7 DEF Send
    <2>2. job'.step = "answer"
      BY <1>0, <2>1 DEF Jobs
    <2>3. QED  BY <2>2, <1>a
  <1>8. CASE Abandon \/ Recovered
    <2>1. \/ \E n : job' = [job EXCEPT !.first = n] /\ job.step = "abandon"
          \/ job' = [job EXCEPT !.step = "lookup", !.first = 0]
          \/ job' = Idle
      BY <1>8 DEF Abandon, Recovered
    <2>2. CASE \E n : job' = [job EXCEPT !.first = n] /\ job.step = "abandon"
      <3>1. job'.step = "abandon"
        BY <1>0, <2>2 DEF Jobs
      <3>2. QED  BY <3>1, <1>a
    <2>3. CASE job' = [job EXCEPT !.step = "lookup", !.first = 0]
      <3>1. job'.step = "lookup"
        BY <1>0, <2>3 DEF Jobs
      <3>2. QED  BY <3>1, <1>a
    <2>4. QED  BY <1>b, <2>1, <2>2, <2>3
  <1>9. CASE Complete
    BY <1>9, <1>b, CompleteMoves
  <1>10. CASE Advance
    <2>1. job' = Idle \/ (job' = [job EXCEPT !.step = "fence"] /\ job.why = "lease")
      BY <1>10, AdvanceMoves
    <2>2. job' = Idle \/ (job'.step = "fence" /\ job'.why = "lease")
      BY <1>0, <2>1 DEF Jobs
    <2>3. QED  BY <1>b, <2>2 DEF HeldBack
  <1>11. CASE HealThread
    <2>1. job'.step = "fence" /\ job'.why = "heal"
      BY <1>11 DEF HealThread, Idle
    <2>2. QED  BY <2>1 DEF HeldBack
  <1>12. CASE ReplaySkipped \/ ReplayEvent \/ OperatorRetries
    BY <1>b, <1>12 DEF ReplaySkipped, ReplayEvent, OperatorRetries
  <1>13. CASE ResumeRetry \/ LiveEvent
    BY <1>b, <1>13 DEF ResumeRetry, LiveEvent, Vanish, AtRest
  <1>14. CASE EndHeal \/ AfterResume \/ EndResume \/ EndReplay \/ OperatorReturns \/ OperatorAbandons
    BY <1>b, <1>14 DEF EndHeal, AfterResume, EndResume, EndReplay, OperatorReturns, OperatorAbandons,
                       OperatorMay, AtRest
  <1>15. CASE Boot
    BY <1>b, <1>15 DEF Boot, IInv, Placed, AtRest
  <1>16. CASE Crash \/ Fault
    BY <1>b, <1>16, MishapMoves DEF Vanish
  <1>17. CASE Commit \/ UNCHANGED vars
    <2>1. /\ job' = job /\ UNCHANGED <<state, cutOff>>
          /\ \A t \in Threads : Blocking(t)' = Blocking(t)
      BY <1>17, BlockersUnmoved DEF Unmoving, Commit, vars, durable, past
    <2>2. job.event # 0 => log'[job.event] = log[job.event]
      BY <1>17, Hand, LogGrows DEF IInv, vars, durable
    <2>3. job.step # "idle" => job.thread \in Threads
      BY Hand
    <2>4. job.step = "advance" \/ job.why = "turn" => job.event # 0
      BY DEF IInv, InHand
    <2>5. QED  BY <1>0, <2>1, <2>2, <2>3, <2>4 DEF HeldBack
  <1>18. QED
    BY <1>1, <1>2, <1>3, <1>4, <1>5, <1>6, <1>7, <1>8, <1>9, <1>10, <1>11, <1>12, <1>13, <1>14, <1>15,
       <1>16, <1>17 DEF Next, Reactor, Deliver, Fence, Source

\* What fits a budget fits a larger one.
LEMMA LargerBudget ==
    ASSUME NEW r \in Nat, NEW g \in Nat, NEW d \in Nat, NEW e \in Nat
    PROVE  /\ r <= 1 + g + d /\ d <= e => r <= 1 + g + e
           /\ r <= 1 + g + d => r <= 1 + g + (d + 1) /\ r <= g + (d + 1) + e
           /\ r <= g + d => r <= 1 + g + d /\ r <= g + d + e /\ r + 1 <= 1 + g + d
           /\ r <= 1 + g + d => r <= 1 + (g + 1) + d /\ r <= (g + 1) + d + e
  OBVIOUS

\* A repetition that has cost an attempt still fits.
LEMMA OneMoreFits ==
    ASSUME NEW x \in Nat, NEW a \in Nat, NEW l \in Nat, x < a, a < l
    PROVE  x + 1 <= a /\ x + 1 < l /\ x <= a /\ x < l
  OBVIOUS

\* The types of what has been spent.
LEMMA Accounts ==
    ASSUME IInv
    PROVE  /\ job \in Jobs /\ Budget /\ Repeats /\ state \in [Events -> RowStates]
           /\ \A n \in Events :
                /\ n \in Nat /\ grants[n] \in Nat /\ received[n] \in Nat /\ redone[n] \in Nat
                /\ attempts[n] \in Nat /\ Owed(n) \in Nat
           /\ 1 .. Len(log) \subseteq Events /\ keys \subseteq 1 .. Len(log)
           /\ SafeRetryLimit \in Nat
  <1>1. /\ job \in Jobs /\ Budget /\ Repeats /\ state \in [Events -> RowStates]
        /\ grants \in [Events -> Nat] /\ received \in [Events -> Nat]
        /\ redone \in [Events -> Nat] /\ attempts \in [Events -> Nat]
        /\ keys \subseteq 1 .. Len(log)
    BY Zenon DEF IInv, TypeOK
  <1>2. 1 .. Len(log) \subseteq Events /\ \A n \in Events : n \in Nat
    BY Numbers DEF Events
  <1>3. QED  BY <1>1, <1>2, DeliveryAssumption DEF Owed

\* A step that sends and grants nothing, and makes nothing sendable again.
LEMMA NothingSpent ==
    ASSUME IInv, log' = log, UNCHANGED <<grants, received, redone, keys>>,
           gone' \in Nat, gone <= gone', job'.step \notin {"call", "answer"},
           \A n \in Events : \/ state'[n] = state[n]
                             \/ state[n] # "none" /\ state'[n] \notin {"none", "retry"}
                             \/ state'[n] = "none" /\ n <= gone',
           \A n \in Events : state'[n] # "none" => attempts'[n] = attempts[n]
    PROVE  Budget' /\ Repeats'
  <1> USE Numbers
  <1>0. /\ job \in Jobs /\ Budget /\ Repeats /\ state \in [Events -> RowStates]
        /\ \A n \in Events :
             /\ n \in Nat /\ grants[n] \in Nat /\ received[n] \in Nat /\ redone[n] \in Nat
             /\ attempts[n] \in Nat /\ Owed(n) \in Nat
        /\ 1 .. Len(log) \subseteq Events /\ keys \subseteq 1 .. Len(log)
        /\ SafeRetryLimit \in Nat
    BY Accounts
  <1>1. ASSUME NEW n \in Events, state'[n] = "none", n > gone'
        PROVE  state[n] = "none" /\ n > gone
    BY <1>0, <1>1
  <1>2. ASSUME NEW n \in 1 .. Len(log), log[n].kind \notin ReplaySafe
        PROVE  /\ received[n] <= 1 + grants[n] + redone[n]
               /\ state'[n] = "retry" => received[n] <= grants[n] + redone[n] + Owed(n)'
    <2>1. n \in Events
      BY <1>0
    <2>2. /\ received[n] <= 1 + grants[n] + redone[n]
          /\ state[n] = "retry" => received[n] <= grants[n] + redone[n] + Owed(n)
      BY <1>0, <1>2 DEF Budget
    <2>3. state'[n] = "retry" => state[n] = "retry" /\ Owed(n)' = Owed(n)
      BY <1>0, <2>1 DEF Owed
    <2>4. QED  BY <1>0, <2>2, <2>3
  <1>3. Budget'
    BY <1>0, <1>1, <1>2 DEF Budget
  <1>4. ASSUME NEW n \in Events
        PROVE  /\ redone[n] < SafeRetryLimit
               /\ state'[n] # "none" => redone[n] <= attempts'[n]
               /\ state'[n] # "none" /\ n \in keys => redone[n] < attempts'[n]
    <2>1. state'[n] # "none" => state[n] # "none" /\ attempts'[n] = attempts[n]
      BY <1>0
    <2>2. QED  BY <1>0, <2>1 DEF Repeats
  <1>5. Repeats'
    BY <1>0, <1>1, <1>4 DEF Repeats
  <1>6. QED  BY <1>0, <1>3, <1>5

\* When the process goes, the turn starts put back are counted, and no key is left.
LEMMA VanishSpends ==
    ASSUME IInv, Vanish, UNCHANGED <<log, gone, state, attempts, grants, received>>
    PROVE  Budget' /\ Repeats'
  <1> USE Numbers
  <1>0. /\ job \in Jobs /\ Budget /\ Repeats /\ state \in [Events -> RowStates]
        /\ \A n \in Events :
             /\ n \in Nat /\ grants[n] \in Nat /\ received[n] \in Nat /\ redone[n] \in Nat
             /\ attempts[n] \in Nat /\ Owed(n) \in Nat
        /\ 1 .. Len(log) \subseteq Events /\ keys \subseteq 1 .. Len(log)
        /\ SafeRetryLimit \in Nat
    BY Accounts
  <1>1. /\ \A n \in Events : redone'[n] = redone[n] + IF PutBack(n) THEN 1 ELSE 0
        /\ keys' = {} /\ job'.step = "idle" /\ job'.event = 0
    BY <1>0 DEF Vanish, Idle
  <1>2. ASSUME NEW n \in Events
        PROVE  /\ redone'[n] \in Nat /\ redone'[n] >= redone[n] /\ redone'[n] < SafeRetryLimit
               /\ state[n] = "none" => redone'[n] = redone[n]
               /\ state[n] # "none" => redone'[n] <= attempts[n]
    <2>1. CASE PutBack(n)
      <3>1. /\ redone'[n] = redone[n] + 1 /\ state[n] = "retry" /\ redone[n] < attempts[n]
            /\ attempts[n] < SafeRetryLimit
        BY <1>0, <1>1, <2>1 DEF PutBack, Repeats
      <3>2. redone[n] \in Nat /\ attempts[n] \in Nat /\ SafeRetryLimit \in Nat
        BY <1>0
      <3>3. redone[n] + 1 <= attempts[n] /\ redone[n] + 1 < SafeRetryLimit
        BY <3>1, <3>2
      <3>4. QED  BY <3>1, <3>2, <3>3
    <2>2. CASE ~PutBack(n)
      <3>1. redone'[n] = redone[n]
        BY <1>0, <1>1, <2>2
      <3>2. QED  BY <1>0, <3>1 DEF Repeats
    <2>3. QED  BY <1>0, <2>1, <2>2
  <1>3. ASSUME NEW n \in 1 .. Len(log), log[n].kind \notin ReplaySafe
        PROVE  /\ received[n] <= 1 + grants[n] + redone'[n]
               /\ state[n] = "retry" => received[n] <= grants[n] + redone'[n] + Owed(n)'
    <2>1. n \in Events /\ redone'[n] \in Nat
      BY <1>0, <1>2
    <2>2. /\ received[n] <= 1 + grants[n] + redone[n]
          /\ state[n] = "retry" => received[n] <= grants[n] + redone[n] + Owed(n)
      BY <1>0, <1>3 DEF Budget
    <2>3. Owed(n)' = 0
      BY <1>0, <1>1 DEF Owed
    <2>a. ASSUME state[n] = "retry"  PROVE redone'[n] = redone[n] + Owed(n)
      <3>1. CASE PutBack(n)
        <4>1. redone'[n] = redone[n] + 1 /\ Owed(n) = 1
          BY <1>0, <1>1, <2>1, <3>1 DEF PutBack, Owed
        <4>2. QED  BY <1>0, <4>1
      <3>2. CASE ~PutBack(n)
        <4>1. redone'[n] = redone[n] + 0 /\ Owed(n) = 0
          BY <1>0, <1>1, <2>1, <2>a, <3>2 DEF PutBack, Owed
        <4>2. QED  BY <1>0, <4>1
      <3>3. QED  BY <1>0, <3>1, <3>2
    <2>b. /\ received[n] \in Nat /\ grants[n] \in Nat /\ redone[n] \in Nat /\ Owed(n) \in Nat
          /\ redone[n] <= redone'[n]
      BY <1>0, <1>2, <2>1
    <2>c. received[n] <= 1 + grants[n] + redone'[n]
      BY <2>1, <2>2, <2>b, LargerBudget
    <2>d. ASSUME state[n] = "retry"  PROVE received[n] <= grants[n] + redone'[n] + 0
      BY <2>1, <2>2, <2>a, <2>b, <2>d
    <2>4. QED  BY <2>3, <2>c, <2>d
  <1>4. Budget'
    BY <1>0, <1>1, <1>3 DEF Budget
  <1>5. Repeats'
    BY <1>0, <1>1, <1>2 DEF Repeats
  <1>6. QED  BY <1>0, <1>4, <1>5

\* A claim spends an attempt on what may be sent.
LEMMA ClaimSpends == ASSUME IInv, Claim PROVE Budget' /\ Repeats'
  <1> USE Numbers
  <1>0. /\ job \in Jobs /\ Budget /\ Repeats /\ state \in [Events -> RowStates]
        /\ \A n \in Events :
             /\ n \in Nat /\ grants[n] \in Nat /\ received[n] \in Nat /\ redone[n] \in Nat
             /\ attempts[n] \in Nat /\ Owed(n) \in Nat
        /\ 1 .. Len(log) \subseteq Events /\ keys \subseteq 1 .. Len(log)
        /\ SafeRetryLimit \in Nat
    BY Accounts
  <1> DEFINE e == job.event
  <1>1. /\ job.step \in {"check", "lookup"} /\ state[e] \in {"none", "retry"}
        /\ state' = [state EXCEPT ![e] = "inflight"]
        /\ attempts' = [attempts EXCEPT ![e] = @ + 1]
        /\ UNCHANGED <<log, gone, grants, received, redone, keys>>
    BY <1>0 DEF Claim, Lookup, SetState
  <1>2. job'.step = "call" /\ job'.event = e
    BY <1>0 DEF Claim, Step, Jobs
  <1>3. e \in Events /\ gone < e
    BY <1>0, <1>1, Hand DEF IInv, InHand
  <1>4. \A n \in Events : /\ state'[n] = IF n = e THEN "inflight" ELSE state[n]
                          /\ attempts'[n] = IF n = e THEN attempts[n] + 1 ELSE attempts[n]
    <2>1. attempts \in [Events -> Nat]
      BY Zenon DEF IInv, TypeOK
    <2>2. QED  BY <1>0, <1>1, <1>3, <2>1
  <1>5. e \in 1 .. Len(log) /\ log[e].kind \notin ReplaySafe /\ e \notin keys
           => received[e] <= grants[e] + redone[e]
    <2>1. CASE state[e] = "none"
      <3>1. received[e] = 0 /\ grants[e] \in Nat /\ redone[e] \in Nat
        BY <1>0, <1>3, <2>1 DEF Budget
      <3>2. QED  BY <3>1
    <2>2. CASE state[e] = "retry"
      <3>1. e \notin keys => Owed(e) = 0
        BY <1>0 DEF Owed
      <3>2. grants[e] \in Nat /\ redone[e] \in Nat
        BY <1>0, <1>3
      <3>3. received[e] <= grants[e] + redone[e] + Owed(e)
            \/ ~(e \in 1 .. Len(log) /\ log[e].kind \notin ReplaySafe)
        BY <1>0, <2>2 DEF Budget
      <3>4. QED  BY <3>1, <3>2, <3>3
    <2>3. QED  BY <1>1, <2>1, <2>2
  <1> HIDE DEF e
  <1>6. ASSUME NEW n \in 1 .. Len(log), log[n].kind \notin ReplaySafe
        PROVE  /\ received[n] <= 1 + grants[n] + redone[n]
               /\ state'[n] = "retry" => received[n] <= grants[n] + redone[n] + Owed(n)'
               /\ e = n /\ n \notin keys => received[n] <= grants[n] + redone[n]
    <2>1. n \in Events
      BY <1>0
    <2>2. /\ received[n] <= 1 + grants[n] + redone[n]
          /\ state[n] = "retry" => received[n] <= grants[n] + redone[n] + Owed(n)
      BY <1>0, <1>6 DEF Budget
    <2>3. state'[n] = "retry" => state[n] = "retry" /\ Owed(n)' = Owed(n)
      BY <1>0, <1>1, <1>4, <2>1 DEF Owed
    <2>4. QED  BY <1>0, <1>5, <1>6, <2>2, <2>3
  <1>7. ASSUME NEW n \in Events, state'[n] = "none"  PROVE state[n] = "none"
    BY <1>0, <1>4, <1>7
  <1>8. Budget'
    BY <1>0, <1>1, <1>2, <1>6, <1>7 DEF Budget
  <1>9. ASSUME NEW n \in Events
        PROVE  /\ redone[n] < SafeRetryLimit
               /\ state'[n] # "none" => redone[n] <= attempts'[n]
               /\ state'[n] # "none" /\ n \in keys => redone[n] < attempts'[n]
               /\ e = n => redone[n] < attempts'[n]
    <2>1. CASE n = e
      <3>1. attempts'[n] = attempts[n] + 1 /\ state[n] \in {"none", "retry"} /\ n > gone
        BY <1>0, <1>1, <1>3, <1>4, <2>1
      <3>2. QED  BY <1>0, <2>1, <3>1 DEF Repeats
    <2>2. CASE n # e
      <3>1. attempts'[n] = attempts[n] /\ state'[n] = state[n]
        BY <1>0, <1>4, <2>2
      <3>2. QED  BY <1>0, <2>2, <3>1 DEF Repeats
    <2>3. QED  BY <1>0, <2>1, <2>2
  <1>10. Repeats'
    BY <1>0, <1>1, <1>2, <1>7, <1>9 DEF Repeats
  <1>11. QED  BY <1>0, <1>8, <1>10

\* What is sent has no key, and a turn start gets one.
LEMMA SendSpends == ASSUME IInv, Send PROVE Budget' /\ Repeats'
  <1> USE Numbers
  <1>0. /\ job \in Jobs /\ Budget /\ Repeats /\ state \in [Events -> RowStates]
        /\ \A n \in Events :
             /\ n \in Nat /\ grants[n] \in Nat /\ received[n] \in Nat /\ redone[n] \in Nat
             /\ attempts[n] \in Nat /\ Owed(n) \in Nat
        /\ 1 .. Len(log) \subseteq Events /\ keys \subseteq 1 .. Len(log)
        /\ SafeRetryLimit \in Nat
    BY Accounts
  <1> DEFINE e == job.event
  <1>1. PICK h \in BOOLEAN :
          /\ job' = [job EXCEPT !.step = "answer", !.hit = h]
          /\ received' = [received EXCEPT ![e] = @ + (IF h THEN 1 ELSE 0)]
    BY <1>0 DEF Send
  <1>2. /\ job.step = "call" /\ e \notin keys
        /\ UNCHANGED <<log, gone, grants, state, attempts, redone>>
        /\ keys' = IF log[e].kind = "turnStart" THEN keys \cup {e} ELSE keys
    BY <1>0 DEF Send, durable, Kind
  <1>3. job'.step = "answer" /\ job'.event = e /\ job'.hit = h
    BY <1>0, <1>1 DEF Jobs
  <1>4. e \in Events /\ state[e] = "inflight" /\ redone[e] < attempts[e]
    BY <1>0, <1>2, Hand DEF IInv, InHand, Repeats
  <1>5. \A n \in Events : received'[n] = IF n = e /\ h THEN received[n] + 1 ELSE received[n]
    <2>1. received \in [Events -> Nat]
      BY Zenon DEF IInv, TypeOK
    <2>2. CASE h
      BY <1>1, <1>4, <2>1, <2>2
    <2>3. CASE ~h
      <3>1. received'[e] = received[e] + 0 /\ \A n \in Events \ {e} : received'[n] = received[n]
        BY <1>1, <1>4, <2>1, <2>3
      <3>2. received[e] + 0 = received[e]
        BY <1>0, <1>4
      <3>3. QED  BY <2>3, <3>1, <3>2
    <2>4. QED  BY <2>2, <2>3
  <1>e. e \in 1 .. Len(log) /\ log[e].kind \notin ReplaySafe => received[e] <= grants[e] + redone[e]
    BY <1>0, <1>2 DEF Budget
  <1> HIDE DEF e
  <1>6. ASSUME NEW n \in Events, state[n] = "none", n > gone  PROVE received'[n] = 0
    BY <1>0, <1>4, <1>5, <1>6 DEF Budget
  <1>7. ASSUME NEW n \in 1 .. Len(log), log[n].kind \notin ReplaySafe
        PROVE  /\ received'[n] <= 1 + grants[n] + redone[n]
               /\ state[n] = "retry" => received'[n] <= grants[n] + redone[n] + Owed(n)'
               /\ e = n /\ ~h => received'[n] <= grants[n] + redone[n]
    <2>1. /\ received[n] <= 1 + grants[n] + redone[n]
          /\ state[n] = "retry" => received[n] <= grants[n] + redone[n] + Owed(n)
      BY <1>0, <1>7 DEF Budget
    <2>2. CASE n = e
      <3>1. received[n] <= grants[n] + redone[n] /\ state[n] # "retry"
        BY <1>0, <1>4, <1>7, <1>e, <2>2
      <3>2. /\ received[n] \in Nat /\ grants[n] \in Nat /\ redone[n] \in Nat
            /\ received'[n] = IF h THEN received[n] + 1 ELSE received[n]
        BY <1>0, <1>4, <1>5, <2>2
      <3>3. received'[n] <= 1 + grants[n] + redone[n]
        <4>1. received'[n] = received[n] + 1 \/ received'[n] = received[n]
          BY <3>2
        <4>2. received[n] + 1 <= 1 + grants[n] + redone[n]
          BY <3>1, <3>2, LargerBudget
        <4>3. received[n] <= 1 + grants[n] + redone[n]
          BY <3>1, <3>2, LargerBudget
        <4>4. QED  BY <4>1, <4>2, <4>3
      <3>4. ~h => received'[n] <= grants[n] + redone[n]
        BY <3>1, <3>2
      <3>5. QED  BY <3>1, <3>3, <3>4
    <2>3. CASE n # e
      <3>1. received'[n] = received[n] /\ Owed(n)' = Owed(n)
        BY <1>0, <1>2, <1>5, <2>3 DEF Owed
      <3>2. QED  BY <1>0, <2>1, <2>3, <3>1
    <2>4. QED  BY <1>0, <2>2, <2>3
  <1>8. Budget'
    BY <1>0, <1>2, <1>3, <1>6, <1>7 DEF Budget
  <1>9. ASSUME NEW n \in Events
        PROVE  /\ redone[n] < SafeRetryLimit
               /\ state[n] = "none" /\ n > gone => redone[n] = 0 /\ n \notin keys'
               /\ state[n] # "none" => redone[n] <= attempts[n]
               /\ state[n] # "none" /\ n \in keys' => redone[n] < attempts[n]
               /\ e = n => redone[n] < attempts[n]
    BY <1>0, <1>2, <1>4 DEF Repeats
  <1>10. /\ \A n \in keys' : log[n].kind = "turnStart"
         /\ log[e].kind = "turnStart" => e \in keys'
    BY <1>0, <1>2 DEF Repeats
  <1>11. Repeats'
    BY <1>0, <1>2, <1>3, <1>9, <1>10 DEF Repeats
  <1>12. QED  BY <1>0, <1>8, <1>11

\* A safe retry puts back what the provider may have: at once, or by its key.
LEMMA RetrySpends == ASSUME IInv, RetrySafely PROVE Budget' /\ Repeats'
  <1> USE Numbers
  <1>0. /\ job \in Jobs /\ Budget /\ Repeats /\ state \in [Events -> RowStates]
        /\ \A n \in Events :
             /\ n \in Nat /\ grants[n] \in Nat /\ received[n] \in Nat /\ redone[n] \in Nat
             /\ attempts[n] \in Nat /\ Owed(n) \in Nat
        /\ 1 .. Len(log) \subseteq Events /\ keys \subseteq 1 .. Len(log)
        /\ SafeRetryLimit \in Nat
    BY Accounts
  <1> DEFINE e == job.event
  <1>1. /\ job.step = "answer" /\ attempts[e] < SafeRetryLimit
        /\ state' = [state EXCEPT ![e] = "retry"]
        /\ UNCHANGED <<log, gone, attempts, grants, received, keys>>
        /\ redone' = [redone EXCEPT ![e] = @ + IF job.hit /\ log[e].kind # "turnStart"
                                               THEN 1 ELSE 0]
    BY <1>0 DEF RetrySafely, RetryableAnswer, SetState, Kind
  <1>2. job'.step = "lookup"
    BY <1>0 DEF RetrySafely, Step, Jobs
  <1>3. e \in Events /\ e \in 1 .. Len(log) /\ redone[e] < attempts[e] /\ state[e] = "inflight"
    BY <1>0, <1>1, Hand DEF IInv, InHand, Repeats
  <1>4. \A n \in Events :
          /\ state'[n] = IF n = e THEN "retry" ELSE state[n]
          /\ redone'[n] = IF n = e /\ job.hit /\ log[e].kind # "turnStart"
                          THEN redone[n] + 1 ELSE redone[n]
    <2>1. redone \in [Events -> Nat]
      BY Zenon DEF IInv, TypeOK
    <2>2. QED  BY <1>0, <1>1, <1>3, <2>1
  <1>5. log[e].kind = "turnStart" <=> e \in keys
    BY <1>0, <1>1 DEF Repeats
  <1>6. /\ log[e].kind \notin ReplaySafe => received[e] <= 1 + grants[e] + redone[e]
        /\ log[e].kind \notin ReplaySafe /\ ~job.hit => received[e] <= grants[e] + redone[e]
    BY <1>0, <1>1, <1>3 DEF Budget
  <1>7. Owed(e) = (IF e \in keys THEN 1 ELSE 0) /\ \A n \in Events : Owed(n)' = Owed(n)
    BY <1>0, <1>1 DEF Owed
  <1> HIDE DEF e
  <1>8. ASSUME NEW n \in Events, state'[n] = "none", n > gone
        PROVE  received[n] = 0 /\ redone'[n] = 0 /\ n \notin keys
    <2>1. n # e /\ state[n] = "none"
      BY <1>0, <1>4, <1>8
    <2>2. QED  BY <1>0, <1>4, <1>8, <2>1 DEF Budget, Repeats
  <1>9. ASSUME NEW n \in 1 .. Len(log), log[n].kind \notin ReplaySafe
        PROVE  /\ received[n] <= 1 + grants[n] + redone'[n]
               /\ state'[n] = "retry" => received[n] <= grants[n] + redone'[n] + Owed(n)'
    <2>1. n \in Events /\ Owed(n)' = Owed(n)
      BY <1>0, <1>7
    <2>a. received[n] \in Nat /\ grants[n] \in Nat /\ redone[n] \in Nat /\ Owed(n) \in Nat
      BY <1>0, <2>1
    <2>2. CASE n = e
      <3>1. CASE job.hit /\ e \notin keys
        <4>1. redone'[n] = redone[n] + 1
          BY <1>0, <1>4, <1>5, <2>1, <2>2, <3>1
        <4>2. received[n] <= 1 + grants[n] + redone[n]
          BY <1>0, <1>6, <1>9, <2>2
        <4>3. /\ received[n] <= 1 + grants[n] + (redone[n] + 1)
              /\ received[n] <= grants[n] + (redone[n] + 1) + Owed(n)
          BY <2>a, <4>2, LargerBudget
        <4>4. QED  BY <2>1, <4>1, <4>3
      <3>2. CASE job.hit /\ e \in keys
        <4>1. redone'[n] = redone[n] /\ Owed(n) = 1
          BY <1>0, <1>4, <1>5, <1>7, <2>1, <2>2, <3>2
        <4>2. QED  BY <1>0, <1>6, <1>9, <2>1, <2>2, <4>1
      <3>3. CASE ~job.hit
        <4>1. redone'[n] = redone[n]
          BY <1>0, <1>4, <2>1, <3>3
        <4>2. received[n] <= grants[n] + redone[n]
          BY <1>0, <1>6, <1>9, <2>2, <3>3
        <4>3. /\ received[n] <= 1 + grants[n] + redone[n]
              /\ received[n] <= grants[n] + redone[n] + Owed(n)
          BY <2>a, <4>2, LargerBudget
        <4>4. QED  BY <2>1, <4>1, <4>3
      <3>4. QED  BY <3>1, <3>2, <3>3
    <2>3. CASE n # e
      <3>1. redone'[n] = redone[n] /\ state'[n] = state[n]
        BY <1>0, <1>4, <2>1, <2>3
      <3>2. /\ received[n] <= 1 + grants[n] + redone[n]
            /\ state[n] = "retry" => received[n] <= grants[n] + redone[n] + Owed(n)
        BY <1>0, <1>9 DEF Budget
      <3>3. QED  BY <1>0, <2>1, <3>1, <3>2
    <2>4. QED  BY <1>0, <2>2, <2>3
  <1>10. Budget'
    BY <1>0, <1>1, <1>2, <1>8, <1>9 DEF Budget
  <1>11. ASSUME NEW n \in Events
         PROVE  /\ redone'[n] < SafeRetryLimit
                /\ state'[n] # "none" => redone'[n] <= attempts[n]
                /\ state'[n] # "none" /\ n \in keys => redone'[n] < attempts[n]
    <2>1. CASE n = e
      <3>1. /\ redone[n] \in Nat /\ attempts[n] \in Nat /\ redone[n] < attempts[n]
            /\ attempts[n] < SafeRetryLimit
        BY <1>0, <1>1, <1>3, <2>1
      <3>2. CASE n \in keys
        <4>1. redone'[n] = redone[n]
          BY <1>0, <1>4, <1>5, <2>1, <3>2
        <4>2. QED  BY <1>0, <3>1, <4>1
      <3>3. CASE n \notin keys
        <4>1. redone'[n] = redone[n] \/ redone'[n] = redone[n] + 1
          BY <1>0, <1>4
        <4>2. /\ redone[n] + 1 <= attempts[n] /\ redone[n] + 1 < SafeRetryLimit
              /\ redone[n] <= attempts[n] /\ redone[n] < SafeRetryLimit
          <5>1. SafeRetryLimit \in Nat
            BY <1>0
          <5>2. QED  BY <3>1, <5>1, OneMoreFits
        <4>3. QED  BY <3>3, <4>1, <4>2
      <3>4. QED  BY <1>0, <3>2, <3>3
    <2>2. CASE n # e
      <3>1. redone'[n] = redone[n] /\ state'[n] = state[n]
        BY <1>0, <1>4, <2>2
      <3>2. /\ redone[n] < SafeRetryLimit
            /\ state[n] # "none" => redone[n] <= attempts[n]
            /\ state[n] # "none" /\ n \in keys => redone[n] < attempts[n]
        BY <1>0 DEF Repeats
      <3>3. QED  BY <3>1, <3>2
    <2>3. QED  BY <1>0, <2>1, <2>2
  <1>12. Repeats'
    BY <1>0, <1>1, <1>2, <1>8, <1>11 DEF Repeats
  <1>13. QED  BY <1>0, <1>10, <1>12

\* A retry the operator grants pays for itself, whether the key is still there or not.
LEMMA GrantSpends == ASSUME IInv, OperatorRetries PROVE Budget' /\ Repeats'
  <1> USE Numbers
  <1>0. /\ job \in Jobs /\ Budget /\ Repeats /\ state \in [Events -> RowStates]
        /\ \A n \in Events :
             /\ n \in Nat /\ grants[n] \in Nat /\ received[n] \in Nat /\ redone[n] \in Nat
             /\ attempts[n] \in Nat /\ Owed(n) \in Nat
        /\ 1 .. Len(log) \subseteq Events /\ keys \subseteq 1 .. Len(log)
        /\ SafeRetryLimit \in Nat
    BY Accounts
  <1>1. PICK e \in Shown : /\ state' = [state EXCEPT ![e] = "retry"] /\ Pick(e)
                           /\ grants' = [grants EXCEPT ![e] = @ + 1]
                           /\ keys' \in {keys, keys \ {e}}
    BY <1>0 DEF OperatorRetries, SetState
  <1>2. UNCHANGED <<log, gone, attempts, received, redone>> /\ job'.step = "check"
    BY <1>0, <1>1 DEF OperatorRetries, Pick
  <1>3. e \in Events /\ state[e] # "none" /\ keys' \subseteq keys
    BY <1>0, <1>1 DEF Shown, Events, Terminal
  <1>4. \A n \in Events : /\ grants'[n] = IF n = e THEN grants[n] + 1 ELSE grants[n]
                          /\ state'[n] = IF n = e THEN "retry" ELSE state[n]
    <2>1. grants \in [Events -> Nat]
      BY Zenon DEF IInv, TypeOK
    <2>2. QED  BY <1>0, <1>1, <1>3, <2>1
  <1>5. ASSUME NEW n \in Events  PROVE state'[n] = "none" <=> state[n] = "none"
    BY <1>0, <1>3, <1>4
  <1>6. ASSUME NEW n \in 1 .. Len(log), log[n].kind \notin ReplaySafe
        PROVE  /\ received[n] <= 1 + grants'[n] + redone[n]
               /\ state'[n] = "retry" => received[n] <= grants'[n] + redone[n] + Owed(n)'
    <2>1. n \in Events
      BY <1>0
    <2>2. /\ received[n] <= 1 + grants[n] + redone[n]
          /\ state[n] = "retry" => received[n] <= grants[n] + redone[n] + Owed(n)
      BY <1>0, <1>6 DEF Budget
    <2>3. CASE n = e
      <3>1. grants'[n] = grants[n] + 1 /\ Owed(n)' \in {0, 1}
        BY <1>0, <1>2, <1>4, <2>1, <2>3 DEF Owed
      <3>2. grants[n] \in Nat /\ received[n] \in Nat /\ redone[n] \in Nat
        BY <1>0, <2>1
      <3>3. received[n] <= 1 + grants[n] + redone[n]
        BY <1>0, <2>2
      <3>4. received[n] <= 1 + (grants[n] + 1) + redone[n]
        BY <3>2, <3>3, LargerBudget
      <3>5. received[n] <= (grants[n] + 1) + redone[n] + Owed(n)'
        <4>1. CASE Owed(n)' = 0
          BY <3>2, <3>3, <4>1
        <4>2. CASE Owed(n)' = 1
          BY <3>2, <3>3, <4>2
        <4>3. QED  BY <3>1, <4>1, <4>2
      <3>6. QED  BY <3>1, <3>4, <3>5
    <2>4. CASE n # e
      <3>1. grants'[n] = grants[n] /\ state'[n] = state[n]
        BY <1>0, <1>4, <2>1, <2>4
      <3>2. Owed(n)' = Owed(n)
        BY <1>0, <1>1, <1>2, <2>4 DEF Owed
      <3>3. QED  BY <1>0, <2>2, <3>1, <3>2
    <2>5. QED  BY <1>0, <2>3, <2>4
  <1>7. Budget'
    BY <1>0, <1>2, <1>5, <1>6 DEF Budget
  <1>8. Repeats'
    BY <1>0, <1>2, <1>3, <1>5 DEF Repeats
  <1>9. QED  BY <1>0, <1>7, <1>8

\* No step makes sendable what has been sent as often as granted or put back.
LEMMA BudgetStep == ASSUME IInv, [Next]_vars PROVE Budget' /\ Repeats'
  <1> USE Numbers
  <1>0. /\ job \in Jobs /\ Budget /\ Repeats /\ state \in [Events -> RowStates]
        /\ \A n \in Events : n \in Nat
    BY Accounts
  <1>c. job' = Idle \/ (\E e : Pick(e)) => job'.step \notin {"call", "answer"}
    BY DEF Idle, Pick
  <1>1. CASE Claim
    BY <1>1, ClaimSpends
  <1>2. CASE Send
    BY <1>2, SendSpends
  <1>3. CASE RetrySafely
    BY <1>3, RetrySpends
  <1>4. CASE Requeue
    <2>1. /\ log[job.event].kind \in ReplaySafe /\ state' = [state EXCEPT ![job.event] = "retry"]
          /\ UNCHANGED <<log, gone, attempts, grants, received, redone, keys>>
          /\ state[job.event] = "inflight"
      BY <1>4 DEF Requeue, Kind, SetState
    <2>2. job'.step = "lookup"
      BY <1>0, <1>4 DEF Requeue, Step, Jobs
    <2>3. \A n \in Events : /\ state'[n] = state[n] \/ (n = job.event /\ state'[n] = "retry")
                            /\ state'[n] = "none" <=> state[n] = "none"
      BY <1>0, <2>1
    <2>4. Budget'
      BY <1>0, <2>1, <2>2, <2>3, Accounts DEF Budget, Owed
    <2>5. Repeats'
      BY <1>0, <2>1, <2>2, <2>3 DEF Repeats
    <2>6. QED  BY <2>4, <2>5
  <1>5. CASE OperatorRetries
    BY <1>5, GrantSpends
  <1>6. CASE LeaseLost \/ RetriesExhausted \/ AnswerUncertain
    <2>1. UNCHANGED <<log, gone>> /\ job'.step = "advance"
      BY <1>6, WithinFrame, BlockersMade DEF Within
    <2>2. /\ \E s \in Terminal : state' = [state EXCEPT ![job.event] = s]
          /\ UNCHANGED <<attempts, grants, received, redone, keys>>
      BY <1>6 DEF LeaseLost, RetriesExhausted, AnswerUncertain, SettleAs, SetState, Terminal
    <2>a. state[job.event] # "none"
      BY <1>6 DEF LeaseLost, RetriesExhausted, AnswerUncertain, RetryableAnswer, IInv, InHand
    <2>3. \A n \in Events : state'[n] = state[n]
                            \/ (state[n] # "none" /\ state'[n] \notin {"none", "retry"})
      BY <1>0, <2>2, <2>a DEF Terminal
    <2>4. QED  BY <2>1, <2>2, <2>3, NothingSpent
  <1>7. CASE Abandon \/ OperatorAbandons
    <2>1. /\ UNCHANGED <<log, gone, attempts, grants, received, redone, keys>>
          /\ \/ job.step = "abandon" /\ \E n : job' = [job EXCEPT !.first = n]
             \/ job' = Idle
      BY <1>7 DEF Abandon, OperatorAbandons, OperatorMay, AtRest
    <2>2. job'.step \notin {"call", "answer"}
      BY <1>0, <1>c, <2>1 DEF Jobs
    <2>3. \E n \in Events : state[n] \in Terminal /\ state' = [state EXCEPT ![n] = "succeeded"]
      <3>1. CASE Abandon
        <4>1. job.step = "abandon" /\ Blocking(job.thread) # {}
          BY <3>1 DEF Abandon
        <4>2. job.thread \in Threads /\ Blocking(job.thread) \in SUBSET Nat
              /\ Blocking(job.thread) \subseteq Events
          BY <4>1, Hand
        <4>3. Min(Blocking(job.thread)) \in Blocking(job.thread)
          BY <4>1, <4>2, MinIsMember
        <4>4. QED  BY <3>1, <4>2, <4>3 DEF Abandon, SetState, Blocking
      <3>2. CASE OperatorAbandons
        <4>1. Shown \subseteq Events /\ \A n \in Shown : state[n] \in Terminal
          BY DEF Shown, Events
        <4>2. QED  BY <3>2, <4>1 DEF OperatorAbandons, SetState
      <3>3. QED  BY <1>7, <3>1, <3>2
    <2>4. \A n \in Events : state'[n] = state[n]
                            \/ (state[n] # "none" /\ state'[n] \notin {"none", "retry"})
      BY <1>0, <2>3 DEF Terminal
    <2>5. QED  BY <2>1, <2>2, <2>4, NothingSpent
  <1>8. CASE Complete \/ Advance
    <2>1. AckMoves
      BY <1>8, CompleteMoves, AdvanceMoves
    <2>2. job' = Idle \/ job' = [job EXCEPT !.step = "fence"]
      BY <1>8, CompleteMoves, AdvanceMoves
    <2>3. job'.step \notin {"call", "answer"}
      BY <1>0, <1>c, <2>2 DEF Jobs
    <2>a. job.step \in {"call", "answer"} => state[job.event] = "inflight"
      BY DEF IInv, InHand
    <2>4. /\ log' = log /\ UNCHANGED <<grants, received, redone, keys>>
          /\ gone' \in Nat /\ gone <= gone'
          /\ \A n \in Events : \/ state'[n] = state[n]
                               \/ state[n] # "none" /\ state'[n] \notin {"none", "retry"}
                               \/ state'[n] = "none" /\ n <= gone'
          /\ \A n \in Events : state'[n] # "none" => attempts'[n] = attempts[n]
      BY <2>1, <2>a DEF AckMoves
    <2>5. QED  BY <2>3, <2>4, NothingSpent
  <1>9. ASSUME UNCHANGED <<log, gone, state, attempts, grants, received, redone, keys>>,
               job'.step \notin {"call", "answer"}
        PROVE  Budget' /\ Repeats'
    BY <1>9, NothingSpent
  <1>10. CASE PassOver \/ Skip \/ RecoverForTurn \/ AlreadySettled \/ FenceStops
    <2>1. job'.step \in {"advance", "fence", "abandon"}
      BY <1>0, <1>10 DEF PassOver, Skip, RecoverForTurn, AlreadySettled, FenceStops, Step, Jobs
    <2>2. UNCHANGED <<log, gone, state, attempts, grants, received, redone, keys>>
      BY <1>10 DEF PassOver, Skip, RecoverForTurn, AlreadySettled, FenceStops, durable
    <2>3. QED  BY <1>9, <2>1, <2>2
  <1>11. CASE FenceReturnsNull \/ Recovered
    <2>1. \/ job' = [job EXCEPT !.step = "advance"]
          \/ job' = [job EXCEPT !.step = "lookup", !.first = 0]
          \/ job' = Idle
      BY <1>11 DEF FenceReturnsNull, NotRecovered, Recovered
    <2>2. job'.step \notin {"call", "answer"}
      BY <1>0, <1>c, <2>1 DEF Jobs
    <2>3. UNCHANGED <<log, gone, state, attempts, grants, received, redone, keys>>
      BY <1>11 DEF FenceReturnsNull, NotRecovered, Recovered, durable
    <2>4. QED  BY <1>9, <2>2, <2>3
  <1>12. CASE ReplaySkipped \/ ReplayEvent \/ LiveEvent
    <2>1. job' = Idle \/ \E e : Pick(e)
      BY <1>12 DEF ReplaySkipped, ReplayEvent, LiveEvent, AtRest
    <2>2. UNCHANGED <<log, gone, state, attempts, grants, received, redone, keys>>
      BY <1>12 DEF ReplaySkipped, ReplayEvent, LiveEvent, durable
    <2>3. QED  BY <1>9, <1>c, <2>1, <2>2
  <1>13. CASE EndHeal \/ AfterResume \/ EndResume \/ EndReplay \/ OperatorReturns
    <2>1. job' = Idle
      BY <1>13 DEF EndHeal, AfterResume, EndResume, EndReplay, OperatorReturns, AtRest
    <2>2. UNCHANGED <<log, gone, state, attempts, grants, received, redone, keys>>
      BY <1>13 DEF EndHeal, AfterResume, EndResume, EndReplay, OperatorReturns, durable
    <2>3. QED  BY <1>9, <1>c, <2>1, <2>2
  <1>14. CASE HealThread \/ Boot
    <2>1. job' = Idle \/ job'.step = "fence"
      BY <1>14 DEF HealThread, Boot, IInv, Placed, AtRest, Idle
    <2>2. UNCHANGED <<log, gone, state, attempts, grants, received, redone, keys>>
      BY <1>14 DEF HealThread, Boot, durable
    <2>3. QED  BY <1>9, <1>c, <2>1, <2>2
  <1>15. CASE Crash \/ Fault \/ ResumeRetry
    <2>1. UNCHANGED <<log, gone, state, attempts, grants, received>>
      BY <1>15, MishapMoves DEF ResumeRetry, durable
    <2>2. \/ Vanish
          \/ (job' = Idle \/ \E e : Pick(e)) /\ UNCHANGED <<redone, keys>>
      BY <1>15, MishapMoves DEF ResumeRetry
    <2>3. CASE Vanish
      BY <2>1, <2>3, VanishSpends
    <2>4. CASE (job' = Idle \/ \E e : Pick(e)) /\ UNCHANGED <<redone, keys>>
      BY <1>9, <1>c, <2>1, <2>4
    <2>5. QED  BY <2>2, <2>3, <2>4
  <1>16. CASE Commit
    <2>1. /\ Len(log') = Len(log) + 1 /\ Len(log') <= MaxEvents
          /\ \A n \in 1 .. Len(log) : log'[n] = log[n]
          /\ UNCHANGED <<gone, state, attempts, grants, received, redone, keys, job>>
      BY <1>16, LogGrows DEF IInv, Commit
    <2>2. Len(log) + 1 \in Events /\ state[Len(log) + 1] = "none"
      <3>1. Len(log) + 1 \in Events
        BY <2>1 DEF Events
      <3>2. QED  BY <3>1 DEF IInv, RowsReached
    <2>3. received[Len(log) + 1] = 0
      BY <1>0, <2>2 DEF Budget
    <2>4. job.event # Len(log) + 1 /\ \A n \in Events : Owed(n)' = Owed(n)
      BY <2>1 DEF Owed
    <2>5. \A n \in 1 .. Len(log') : n \in 1 .. Len(log) \/ n = Len(log) + 1
      BY <2>1
    <2>6. ASSUME NEW n \in 1 .. Len(log'), log'[n].kind \notin ReplaySafe
          PROVE  /\ received[n] <= 1 + grants[n] + redone[n]
                 /\ state[n] = "retry" => received[n] <= grants[n] + redone[n] + Owed(n)'
                 /\ job.event = n /\ \/ job.step = "call" /\ n \notin keys
                                     \/ job.step = "answer" /\ ~job.hit
                        => received[n] <= grants[n] + redone[n]
      <3>1. CASE n \in 1 .. Len(log)
        BY <1>0, <2>1, <2>4, <2>6, <3>1, Accounts DEF Budget
      <3>2. CASE n = Len(log) + 1
        <4>1. /\ received[n] = 0 /\ grants[n] \in Nat /\ redone[n] \in Nat
              /\ state[n] = "none" /\ job.event # n
          BY <2>2, <2>3, <2>4, <3>2, Accounts
        <4>2. 0 <= 1 + grants[n] + redone[n]
          BY <4>1
        <4>3. QED  BY <4>1, <4>2
      <3>3. QED  BY <2>5, <3>1, <3>2
    <2>7. \A n \in Events : state[n] = "none" /\ n > gone => received[n] = 0
      BY <1>0 DEF Budget
    <2>8. Budget'
      BY <2>1, <2>6, <2>7 DEF Budget
    <2>9. /\ \A n \in keys : log'[n].kind = "turnStart"
          /\ job.step = "answer" => log'[job.event] = log[job.event]
      BY <1>0, <2>1, Accounts, Hand DEF Repeats
    <2>10. Repeats'
      BY <1>0, <2>1, <2>9 DEF Repeats
    <2>11. QED  BY <2>8, <2>10
  <1>17. CASE UNCHANGED vars
    <2>1. UNCHANGED <<log, gone, state, attempts, grants, received, redone, keys, job>>
      BY <1>17 DEF vars, durable
    <2>2. QED  BY <1>0, <2>1 DEF Budget, Repeats, Owed
  <1>18. QED
    BY <1>1, <1>2, <1>3, <1>4, <1>5, <1>6, <1>7, <1>8, <1>10, <1>11, <1>12, <1>13, <1>14, <1>15,
       <1>16, <1>17 DEF Next, Reactor, Deliver, Fence, Source

\* The provider receives in a Send alone.
LEMMA OnlySendReceives == ASSUME IInv, [Next]_vars PROVE Send \/ received' = received
  <1>1. CASE \/ PassOver \/ Skip \/ RecoverForTurn \/ AlreadySettled \/ Requeue \/ LeaseLost
             \/ Claim \/ RetrySafely \/ RetriesExhausted \/ AnswerUncertain
    BY <1>1 DEF PassOver, Skip, RecoverForTurn, AlreadySettled, Requeue, LeaseLost, Claim, RetrySafely,
                RetriesExhausted, AnswerUncertain, SettleAs
  <1>2. CASE Fence
    BY <1>2 DEF Fence, FenceReturnsNull, NotRecovered, FenceStops, Abandon, Recovered, ReplaySkipped
  <1>3. CASE HealThread \/ EndHeal \/ AfterResume \/ EndResume \/ ReplayEvent \/ EndReplay \/ Boot
    BY <1>3 DEF HealThread, EndHeal, AfterResume, EndResume, ReplayEvent, EndReplay, Boot
  <1>4. CASE ResumeRetry \/ LiveEvent \/ OperatorReturns \/ OperatorAbandons \/ OperatorRetries
    BY <1>4 DEF ResumeRetry, LiveEvent, OperatorReturns, OperatorAbandons, OperatorRetries
  <1>5. CASE Complete \/ Advance
    BY <1>5, CompleteMoves, AdvanceMoves DEF AckMoves
  <1>6. CASE Crash \/ Fault \/ Commit \/ UNCHANGED vars
    BY <1>6, MishapMoves DEF Commit, vars
  <1>7. QED
    BY <1>1, <1>2, <1>3, <1>4, <1>5, <1>6 DEF Next, Reactor, Deliver, Source

\* The cursor moves in the two acknowledging steps alone.
LEMMA OnlyAcksAcknowledge ==
    ASSUME IInv, [Next]_vars PROVE Complete \/ Advance \/ acked' = acked
  <1>1. CASE Steady
    BY <1>1, SteadyFrame
  <1>2. CASE Crash \/ Fault
    BY <1>2, MishapMoves DEF durable
  <1>3. CASE Commit \/ Boot \/ ResumeRetry
    BY <1>3 DEF Commit, Boot, ResumeRetry, durable
  <1>4. QED  BY <1>1, <1>2, <1>3 DEF Next, Reactor, Deliver, Source, Steady

-----------------------------------------------------------------------------
(* The theorems *)

\* The invariant holds of every behaviour.
LEMMA IInvAlways == Spec => []IInv
  <1>1. IInv /\ [Next]_vars => IInv'
    BY TypeStep, PlacedStep, RowsReachedStep, InHandStep, QueueMeetsCursorStep, UnblockedStep,
       CacheTrueStep, HeldBackStep, BudgetStep DEF IInv
  <1>2. QED  BY InitHolds, <1>1, PTL DEF Spec

\* The delivery rows, the cursor, the live queue and the job always have their types,
\* and what is collected is acknowledged.
THEOREM PositionsFit == Spec => []TypeOK
  <1>1. IInv => TypeOK
    BY DEF IInv
  <1>2. QED  BY IInvAlways, <1>1, PTL

\* requireCursorAdvance never refuses: replay, live queue, resumption and operator
\* hand over events without a gap.
THEOREM CursorMeetsNoGap == Spec => []CursorContiguous
  <1>1. IInv => CursorContiguous
    BY DEF IInv, InHand, CursorContiguous
  <1>2. QED  BY IInvAlways, <1>1, PTL

\* No command whose replay is unsafe reaches the provider more often than once, once
\* more per retry an operator granted, and once more per safe retry that put it back
\* after the provider had it; and of those there are fewer than the retry limit.
THEOREM CommandsSentForCause == Spec => []SentAgainForCause
  <1>1. IInv => SentAgainForCause
    BY Numbers DEF IInv, Budget, Repeats, SentAgainForCause, Events
  <1>2. QED  BY IInvAlways, <1>1, PTL

\* A thread with a durable blocker sends the provider nothing but interrupts.
THEOREM BlockedThreadsAreSilent == Spec => QuarantineSilences
  <1>1. IInv /\ [Next]_vars
           => (\A n \in 1 .. Len(log) :
                 received'[n] # received[n] /\ log[n].kind \in Guarded => Blocking(log[n].thread) = {})
    <2>1. SUFFICES ASSUME IInv, [Next]_vars, NEW n \in 1 .. Len(log), received'[n] # received[n],
                          log[n].kind \in Guarded
                   PROVE  Blocking(log[n].thread) = {}
      OBVIOUS
    <2>2. Send
      BY <2>1, OnlySendReceives
    <2>3. job.step = "call" /\ \E i : received' = [received EXCEPT ![job.event] = i]
      BY <2>2 DEF Send
    <2>4. n = job.event
      <3>1. received \in [Events -> Nat]
        BY <2>1, Zenon DEF IInv, TypeOK
      <3>2. n \in Events
        BY <2>1, Numbers DEF Events
      <3>3. QED  BY <2>1, <2>3, <3>1, <3>2
    <2>5. job.thread = log[job.event].thread
      BY <2>1, <2>3, Hand
    <2>6. QED  BY <2>1, <2>3, <2>4, <2>5 DEF IInv, Unblocked
  <1>2. QED  BY IInvAlways, <1>1, PTL DEF Spec, QuarantineSilences

\* A claimed intent acknowledged without a delivery is a guarded one of a thread that
\* has a blocker, or whose fence a mishap cut off.
THEOREM OnlyBlockedWorkIsSkipped == Spec => SkipsOnlyQuarantined
  <1>1. ASSUME IInv, [Next]_vars, NEW n \in acked + 1 .. acked',
               log[n].kind \in Claimed, state[n] = "none", job.step = "advance"
        PROVE  /\ log[n].kind \in Guarded
               /\ Blocking(log[n].thread) # {} \/ log[n].thread \in cutOff
    <2>1. AckMoves
      <3>1. acked' # acked
        <4>1. acked \in Nat
          BY <1>1, Numbers
        <4>2. QED  BY <1>1, <4>1
      <3>2. QED  BY <1>1, <3>1, OnlyAcksAcknowledge, CompleteMoves, AdvanceMoves
    <2>2. n = job.event
      BY <1>1, <2>1, Numbers DEF AckMoves
    <2>3. job.thread = log[job.event].thread
      BY <1>1, Hand
    <2>4. QED  BY <1>1, <2>2, <2>3 DEF IInv, HeldBack
  <1>2. IInv /\ [Next]_vars
           => \A n \in acked + 1 .. acked' :
                /\ log[n].kind \in Claimed /\ state[n] = "none" /\ job.step = "advance"
                => log[n].kind \in Guarded /\ (Blocking(log[n].thread) # {} \/ log[n].thread \in cutOff)
    BY <1>1
  <1>3. QED  BY IInvAlways, <1>2, PTL DEF Spec, SkipsOnlyQuarantined

=============================================================================
