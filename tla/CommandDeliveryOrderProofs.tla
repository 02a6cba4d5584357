--------------------- MODULE CommandDeliveryOrderProofs ---------------------
(***************************************************************************)
(* The order in which CommandDelivery sends a thread's commands, for any   *)
(* threads, histories and bounds.  What was skipped is sent by a replay    *)
(* that starts from a blocker, from a granted retry or from an event in    *)
(* hand; the invariant says that none of these has anything behind it      *)
(* which a later command of its thread has overtaken.                      *)
(***************************************************************************)
EXTENDS CommandDeliveryProofs

-----------------------------------------------------------------------------
(* The invariant *)

Open == {"none", "inflight", "retry"}

\* A guarded command that may still be sent for the first time.
Pending(n) ==
    /\ n > gone /\ state[n] \in Open
    /\ log[n].kind \in Guarded /\ received[n] = 0 /\ grants[n] = 0
    /\ log[n].thread \notin putOff

\* A later command of the thread has reached the provider.
Overtaken(n) ==
    \E m \in n + 1 .. Len(log) :
        log[m].thread = log[n].thread /\ log[m].kind \in Guarded /\ received[m] > 0

\* From e on nothing of its thread is pending and overtaken.
Clear(e) ==
    \A n \in e .. Len(log) :
        log[n].thread = log[e].thread /\ Pending(n) => ~Overtaken(n)

\* Where a replay may start, now or later.
Root(e) ==
    \/ state[e] \in Terminal
    \/ e \in span
    \/ e \in {resuming, job.event, job.first}

RootsClear == \A e \in 1 .. Len(log) : Root(e) => Clear(e)

\* What is left to replay follows the event in hand.
SpanAhead == \A s \in span : job.event < s

\* While a delivery is resumed, nothing else is in hand.
ResumeAlone == resuming # 0 => span = {} /\ (job = Idle \/ job.event = resuming)

\* A fence that has abandoned a blocker remembers the first one, of its own thread.
FirstKept ==
    /\ job.first # 0 => job.step = "abandon" /\ log[job.first].thread = job.thread
    /\ job.step = "abandon" /\ job.first = 0 => Blocking(job.thread) # {}

\* A granted retry is being resumed, or the retry is known to be put off.
GrantsKept ==
    /\ \A n \in Events : grants[n] > 0 =>
          /\ n <= Len(log)
          /\ state[n] = "none" => n <= gone
          /\ state[n] \in {"retry", "inflight"} => n = resuming \/ log[n].thread \in putOff
    /\ \A n \in retries : log[n].thread \in putOff

OrderInv == RootsClear /\ SpanAhead /\ ResumeAlone /\ FirstKept /\ GrantsKept

-----------------------------------------------------------------------------
(* What a step does *)

\* A prefix of the log never changes.
LEMMA LogKept ==
    ASSUME IInv, [Next]_vars
    PROVE  /\ Len(log') \in Nat /\ Len(log) <= Len(log')
           /\ \A n \in 1 .. Len(log) : log'[n] = log[n]
  <1>1. CASE Commit
    <2>1. Len(log') = Len(log) + 1 /\ \A n \in 1 .. Len(log) : log'[n] = log[n]
      BY <1>1, LogGrows DEF IInv
    <2>2. QED  BY <2>1, Numbers
  <1>2. CASE ~Commit
    BY <1>2, LogStep, Numbers
  <1>3. QED  BY <1>1, <1>2

\* Only an operator grants.
LEMMA GrantsMove ==
    ASSUME IInv, [Next]_vars
    PROVE  \/ grants' = grants
           \/ \E e \in Shown : OperatorRetries /\ resuming' = e
                               /\ grants' = [grants EXCEPT ![e] = @ + 1]
  <1>1. CASE PassOver \/ Skip \/ RecoverForTurn \/ AlreadySettled \/ Requeue \/ LeaseLost
    BY <1>1 DEF PassOver, Skip, RecoverForTurn, AlreadySettled, Requeue, LeaseLost, durable
  <1>2. CASE Claim \/ Send \/ RetrySafely \/ RetriesExhausted \/ AnswerUncertain
    BY <1>2 DEF Claim, Send, RetrySafely, RetriesExhausted, AnswerUncertain, SettleAs, durable
  <1>3. CASE Complete \/ Advance
    BY <1>3, CompleteMoves, AdvanceMoves DEF AckMoves
  <1>4. CASE Fence
    BY <1>4 DEF Fence, FenceReturnsNull, NotRecovered, FenceStops, Abandon, Recovered,
                ReplaySkipped, durable
  <1>5. CASE Boot \/ HealThread \/ EndHeal \/ ResumeRetry \/ AfterResume \/ EndResume \/ ReplayEvent
    BY <1>5 DEF Boot, HealThread, EndHeal, ResumeRetry, AfterResume, EndResume, ReplayEvent, durable
  <1>6. CASE EndReplay \/ LiveEvent \/ OperatorReturns \/ OperatorAbandons
    BY <1>6 DEF EndReplay, LiveEvent, OperatorReturns, OperatorAbandons, durable
  <1>7. CASE OperatorRetries
    BY <1>7 DEF OperatorRetries
  <1>8. CASE Commit \/ Crash \/ Fault \/ UNCHANGED vars
    BY <1>8 DEF Commit, Crash, Fault, vars, durable
  <1>9. QED
    BY <1>1, <1>2, <1>3, <1>4, <1>5, <1>6, <1>7, <1>8 DEF Next, Reactor, Deliver, Source

\* Collected, granted, received, cut off and put off only ever grow.
LEMMA OnlyGrow ==
    ASSUME IInv, [Next]_vars
    PROVE  /\ gone' \in Nat /\ gone <= gone'
           /\ putOff \subseteq putOff'
           /\ \A n \in Events : grants'[n] \in Nat /\ grants[n] <= grants'[n]
           /\ \A n \in Events : received'[n] \in Nat /\ received[n] <= received'[n]
  <1> USE Numbers
  <1>0. grants \in [Events -> Nat] /\ received \in [Events -> Nat]
    BY Zenon DEF IInv, TypeOK
  <1>1. gone' \in Nat /\ gone <= gone'
    <2>1. CASE Steady
      BY <2>1, SteadyFrame
    <2>2. CASE Complete \/ Advance
      <3>1. AckMoves
        BY <2>2, CompleteMoves, AdvanceMoves
      <3>2. gone' \in gone .. acked' /\ acked' \in Nat
        BY <3>1 DEF AckMoves
      <3>3. QED  BY <3>2
    <2>3. CASE Commit \/ Boot \/ ResumeRetry \/ Crash \/ Fault
      BY <2>3 DEF Commit, Boot, ResumeRetry, Crash, Fault, durable
    <2>4. QED  BY <2>1, <2>2, <2>3 DEF Next, Reactor, Deliver, Source, Steady
  <1>2. putOff \subseteq putOff'
    <2>1. CASE AfterResume
      BY <2>1 DEF AfterResume
    <2>2. CASE Crash \/ Fault
      BY <2>2, MishapMoves
    <2>3. QED  BY <2>1, <2>2, PutOffMoves
  <1>3. \A n \in Events : grants'[n] \in Nat /\ grants[n] <= grants'[n]
    <2>1. CASE grants' = grants
      BY <1>0, <2>1
    <2>2. ASSUME NEW e \in Shown, grants' = [grants EXCEPT ![e] = @ + 1]
          PROVE  \A n \in Events : grants'[n] \in Nat /\ grants[n] <= grants'[n]
      BY <1>0, <2>2
    <2>3. QED  BY <2>1, <2>2, GrantsMove
  <1>4. \A n \in Events : received'[n] \in Nat /\ received[n] <= received'[n]
    <2>1. CASE Send
      <3>1. PICK hit \in BOOLEAN :
                received' = [received EXCEPT ![job.event] = @ + (IF hit THEN 1 ELSE 0)]
        BY <2>1 DEF Send
      <3>2. QED  BY <1>0, <3>1
    <2>2. CASE ~Send
      BY <1>0, <2>2, OnlySendReceives
    <2>3. QED  BY <2>1, <2>2
  <1>5. QED  BY <1>1, <1>2, <1>3, <1>4

\* How one row moves: settled and collected, by the event in hand, or by the operator.
RowMove(n) ==
    \/ state'[n] = state[n]
    \/ state'[n] = "none" /\ n <= gone'
    \/ state'[n] = "succeeded"
    \/ state'[n] \in Terminal /\ n = job.event
    \/ state'[n] \in {"retry", "inflight"} /\ n = job.event /\ gone < n /\ state[n] \in Open
    \/ OperatorRetries /\ state[n] \in Terminal /\ state'[n] = "retry" /\ n = resuming'
       /\ grants'[n] > 0

\* Every step moves every row in one of these ways.
LEMMA RowMovesOne == ASSUME IInv, [Next]_vars PROVE \A n \in Events : RowMove(n)
  <1> USE Numbers
  <1>0. state \in [Events -> RowStates] /\ grants \in [Events -> Nat]
    BY Zenon DEF IInv, TypeOK
  <1>1. CASE Requeue \/ Claim
    <2>1. /\ job.step \in {"check", "lookup"} /\ state[job.event] \in Open
          /\ \E r \in {"retry", "inflight"} : state' = [state EXCEPT ![job.event] = r]
      BY <1>1 DEF Requeue, Claim, Lookup, SetState, Open
    <2>2. gone < job.event
      BY <2>1, Hand DEF IInv, InHand
    <2>3. QED  BY <1>0, <2>1, <2>2 DEF RowMove
  <1>2. CASE RetrySafely
    <2>1. job.step = "answer" /\ state' = [state EXCEPT ![job.event] = "retry"]
      BY <1>2 DEF RetrySafely, RetryableAnswer, SetState
    <2>2. gone < job.event /\ state[job.event] = "inflight"
      BY <2>1, Hand DEF IInv, InHand
    <2>3. QED  BY <1>0, <2>1, <2>2 DEF RowMove, Open
  <1>3. CASE LeaseLost \/ RetriesExhausted \/ AnswerUncertain
    <2>1. \E r \in Terminal : state' = [state EXCEPT ![job.event] = r]
      BY <1>3 DEF LeaseLost, RetriesExhausted, AnswerUncertain, SettleAs, SetState, Terminal
    <2>2. QED  BY <1>0, <2>1 DEF RowMove
  <1>4. CASE Complete \/ Advance
    <2>1. AckMoves
      BY <1>4, CompleteMoves, AdvanceMoves
    <2>2. QED  BY <2>1 DEF AckMoves, RowMove
  <1>5. CASE Abandon
    <2>1. \E n : state' = [state EXCEPT ![n] = "succeeded"]
      BY <1>5 DEF Abandon, SetState
    <2>2. QED  BY <1>0, <2>1 DEF RowMove
  <1>6. CASE OperatorAbandons
    <2>1. \E n : state' = [state EXCEPT ![n] = "succeeded"]
      BY <1>6 DEF OperatorAbandons, SetState
    <2>2. QED  BY <1>0, <2>1 DEF RowMove
  <1>7. CASE OperatorRetries
    <2>1. PICK e \in Shown : /\ state' = [state EXCEPT ![e] = "retry"] /\ resuming' = e
                             /\ grants' = [grants EXCEPT ![e] = @ + 1]
      BY <1>7 DEF OperatorRetries, SetState
    <2>2. e \in Events /\ state[e] \in Terminal
      BY <2>1 DEF Shown, Events
    <2>3. grants'[e] > 0
      BY <1>0, <2>1, <2>2
    <2>4. QED  BY <1>0, <1>7, <2>1, <2>2, <2>3 DEF RowMove
  <1>8. CASE UNCHANGED state
    BY <1>8 DEF RowMove
  <1>9. CASE PassOver \/ Skip \/ RecoverForTurn \/ AlreadySettled \/ Send \/ Commit \/ UNCHANGED vars
    BY <1>9, <1>8 DEF PassOver, Skip, RecoverForTurn, AlreadySettled, Send, Commit, durable, vars
  <1>10. CASE FenceReturnsNull \/ FenceStops \/ Recovered \/ ReplaySkipped
    BY <1>10, <1>8 DEF FenceReturnsNull, NotRecovered, FenceStops, Recovered, ReplaySkipped, durable
  <1>11. CASE Boot \/ HealThread \/ EndHeal \/ ResumeRetry \/ AfterResume \/ EndResume \/ ReplayEvent
    BY <1>11, <1>8 DEF Boot, HealThread, EndHeal, ResumeRetry, AfterResume, EndResume, ReplayEvent,
                       durable
  <1>12. CASE EndReplay \/ LiveEvent \/ OperatorReturns \/ Crash \/ Fault
    BY <1>12, <1>8, MishapMoves DEF EndReplay, LiveEvent, OperatorReturns, durable
  <1>13. QED
    BY <1>1, <1>2, <1>3, <1>4, <1>5, <1>6, <1>7, <1>9, <1>10, <1>11, <1>12
    DEF Next, Reactor, Deliver, Fence, Source

-----------------------------------------------------------------------------
(* What stays clear                                                        *)

\* Nothing past the next event has been sent.
LEMMA AheadUnsent ==
    ASSUME IInv, NEW m \in Events, m > acked + 1
    PROVE  received[m] = 0
  <1> USE Numbers
  <1>1. state[m] = "none"
    BY DEF IInv, RowsReached, Events
  <1>2. m > gone
    BY DEF Events
  <1>3. QED  BY <1>1, <1>2 DEF IInv, Budget

\* Hence the next event, and those after it, are clear.
LEMMA AheadClear ==
    ASSUME IInv, NEW e \in 1 .. Len(log), e > acked
    PROVE  Clear(e)
  <1> USE Numbers
  <1>1. SUFFICES ASSUME NEW n \in e .. Len(log), NEW m \in n + 1 .. Len(log), received[m] > 0
                 PROVE  FALSE
    BY DEF Clear, Overtaken
  <1>2. m \in Events /\ m > acked + 1
    BY DEF Events
  <1>3. QED  BY <1>1, <1>2, AheadUnsent

\* What follows a clear event of the same thread is clear.
LEMMA ClearAbove ==
    ASSUME NEW e \in Nat, NEW s \in Nat, e <= s, log[s].thread = log[e].thread, Clear(e),
           Len(log) \in Nat
    PROVE  Clear(s)
  <1>1. s .. Len(log) \subseteq e .. Len(log)
    OBVIOUS
  <1>2. QED  BY <1>1 DEF Clear

\* In a thread of which a retry was put off nothing is pending.
LEMMA PutOffClear ==
    ASSUME NEW e, log[e].thread \in putOff
    PROVE  Clear(e)
  BY DEF Clear, Pending

\* A step makes no stored command pending.
LEMMA PendingFades ==
    ASSUME IInv, [Next]_vars, NEW n \in 1 .. Len(log), Pending(n)'
    PROVE  Pending(n)
  <1> USE Numbers
  <1>1. n \in Events /\ log'[n] = log[n]
    BY LogKept DEF Events
  <1>2. /\ n > gone' /\ state'[n] \in Open /\ log'[n].kind \in Guarded
        /\ received'[n] = 0 /\ grants'[n] = 0 /\ log'[n].thread \notin putOff'
    BY DEF Pending
  <1>3. /\ gone' \in Nat /\ gone <= gone' /\ putOff \subseteq putOff'
        /\ grants[n] <= grants'[n] /\ received[n] <= received'[n]
    BY <1>1, OnlyGrow
  <1>4. received[n] = 0 /\ grants[n] = 0
    <2>1. received \in [Events -> Nat] /\ grants \in [Events -> Nat]
      BY Zenon DEF IInv, TypeOK
    <2>2. received[n] \in Nat /\ grants[n] \in Nat
      BY <1>1, <2>1
    <2>3. QED  BY <1>2, <1>3, <2>2
  <1>5. state[n] \in Open
    <2>1. RowMove(n)
      BY <1>1, RowMovesOne
    <2>2. CASE state'[n] = "none" /\ n <= gone'
      BY <1>2, <1>3, <2>2
    <2>3. CASE OperatorRetries /\ grants'[n] > 0
      BY <1>2, <2>3
    <2>4. QED  BY <1>2, <2>1, <2>2, <2>3 DEF RowMove, Open, Terminal
  <1>6. QED  BY <1>1, <1>2, <1>3, <1>4, <1>5 DEF Pending

\* As long as nothing is sent, what is clear stays clear.
LEMMA ClearKept ==
    ASSUME IInv, [Next]_vars, received' = received, NEW e \in 1 .. Len(log), Clear(e)
    PROVE  Clear(e)'
  <1> USE Numbers
  <1>0. /\ Len(log') \in Nat /\ Len(log) <= Len(log')
        /\ \A n \in 1 .. Len(log) : log'[n] = log[n]
    BY LogKept
  <1>1. SUFFICES ASSUME NEW n \in e .. Len(log'), log'[n].thread = log'[e].thread, Pending(n)',
                        NEW m \in n + 1 .. Len(log'), log'[m].thread = log'[n].thread,
                        log'[m].kind \in Guarded, received'[m] > 0
                 PROVE  FALSE
    BY DEF Clear, Overtaken
  <1>2. Len(log') <= MaxEvents
    BY NumbersStep DEF NumbersOK
  <1>3. m \in Events /\ n \in Nat /\ m \in Nat
    BY <1>0, <1>2 DEF Events
  <1>4. m \in 1 .. Len(log)
    <2>1. SUFFICES ASSUME ~(m <= Len(log))  PROVE FALSE
      BY <1>3 DEF Events
    <2>2. Commit
      BY <1>0, <1>1, <2>1, LogStep
    <2>3. Len(log') = Len(log) + 1
      BY <2>2, LogGrows DEF IInv
    <2>4. state[m] = "none" /\ m > gone
      <3>1. m > Len(log)
        BY <1>3, <2>1
      <3>2. QED  BY <1>3, <3>1 DEF IInv, RowsReached
    <2>5. received[m] = 0
      BY <1>3, <2>4 DEF IInv, Budget
    <2>6. QED  BY <1>1, <2>5
  <1>5. n \in 1 .. Len(log) /\ n \in e .. Len(log) /\ m \in n + 1 .. Len(log)
    BY <1>3, <1>4
  <1>6. Pending(n)
    BY <1>1, <1>5, PendingFades
  <1>7. log[n].thread = log[e].thread /\ Overtaken(n)
    BY <1>0, <1>1, <1>4, <1>5 DEF Overtaken
  <1>8. QED  BY <1>5, <1>6, <1>7 DEF Clear

\* A command that is sent overtakes nothing from which a replay may start.
LEMMA ClearWhenSent ==
    ASSUME IInv, OrderInv, Send, NEW e \in 1 .. Len(log), Root(e)
    PROVE  Clear(e)'
  <1> USE Numbers
  <1>0. log' = log /\ job.step = "call"
    BY DEF Send, durable
  <1>1. SUFFICES ASSUME NEW n \in e .. Len(log), log[n].thread = log[e].thread, Pending(n)',
                        NEW m \in n + 1 .. Len(log), log[m].thread = log[n].thread,
                        log[m].kind \in Guarded, received'[m] > 0
                 PROVE  FALSE
    BY <1>0 DEF Clear, Overtaken
  <1>2. n \in 1 .. Len(log) /\ m \in 1 .. Len(log) /\ m \in Events /\ e < m
    BY DEF Events
  <1>3. Pending(n)
    BY <1>1, <1>2, PendingFades DEF Next, Reactor, Deliver
  <1>4. ~Overtaken(n)
    BY <1>1, <1>3 DEF OrderInv, RootsClear, Clear
  <1>5. received[m] = 0
    <2>1. received \in [Events -> Nat]
      BY Zenon DEF IInv, TypeOK
    <2>2. received[m] \in Nat /\ ~(received[m] > 0)
      BY <1>1, <1>2, <1>4, <2>1 DEF Overtaken
    <2>3. QED  BY <2>2
  <1>6. m = job.event
    <2>1. received \in [Events -> Nat]
      BY Zenon DEF IInv, TypeOK
    <2>2. \E i : received' = [received EXCEPT ![job.event] = i]
      BY DEF Send
    <2>3. QED  BY <1>1, <1>2, <1>5, <2>1, <2>2
  <1>7. Blocking(job.thread) = {} /\ job.thread = log[m].thread
    BY <1>0, <1>1, <1>6, Hand DEF IInv, Unblocked
  <1>8. CASE state[e] \in Terminal
    BY <1>1, <1>7, <1>8 DEF Blocking
  <1>9. CASE e \in span
    BY <1>2, <1>6, <1>9 DEF OrderInv, SpanAhead
  <1>10. CASE e = resuming
    <2>1. job = Idle \/ job.event = resuming
      BY <1>10 DEF OrderInv, ResumeAlone
    <2>2. QED  BY <1>0, <1>2, <1>6, <1>10, <2>1 DEF Idle
  <1>11. CASE e = job.event
    BY <1>2, <1>6, <1>11
  <1>12. CASE e = job.first
    BY <1>0, <1>12 DEF OrderInv, FirstKept
  <1>13. QED  BY <1>8, <1>9, <1>10, <1>11, <1>12 DEF Root

-----------------------------------------------------------------------------
(* Where a replay may start                                                *)

\* A new blocker is the event in hand.
LEMMA TerminalRoots ==
    ASSUME IInv, [Next]_vars, NEW e \in 1 .. Len(log), state'[e] \in Terminal
    PROVE  state[e] \in Terminal \/ e = job.event
  <1>1. e \in Events
    BY Numbers DEF Events
  <1>2. QED  BY <1>1, RowMovesOne DEF RowMove, Terminal

\* The steps that leave what is replayed, resumed and in hand alone, or drop it.
Narrows ==
    /\ span' \subseteq span
    /\ resuming' \in {resuming, 0}
    /\ job'.event \in {job.event, 0}
    /\ job'.first \in {job.first, 0}

\* Everything within an event narrows, but for the fence's first blocker.
LEMMA WithinNarrows ==
    ASSUME IInv, Within, ~Abandon
    PROVE  UNCHANGED <<span, resuming>> /\ job'.event = job.event /\ job'.first = job.first
  <1>0. job \in Jobs
    BY Zenon DEF IInv, TypeOK
  <1>1. UNCHANGED <<span, resuming>> /\ job'.event = job.event
    BY WithinFrame DEF source
  <1>2. CASE PassOver \/ Skip \/ RecoverForTurn \/ AlreadySettled
    BY <1>0, <1>1, <1>2 DEF PassOver, Skip, RecoverForTurn, AlreadySettled, Step, Jobs
  <1>3. CASE Requeue \/ LeaseLost \/ Claim \/ RetrySafely \/ FenceStops
    BY <1>0, <1>1, <1>3 DEF Requeue, LeaseLost, Claim, RetrySafely, FenceStops, Step, Jobs
  <1>4. CASE Send
    <2>1. \E h \in BOOLEAN : job' = [job EXCEPT !.step = "answer", !.hit = h]
      BY <1>4 DEF Send
    <2>2. QED  BY <1>0, <1>1, <2>1 DEF Jobs
  <1>5. CASE RetriesExhausted \/ AnswerUncertain
    BY <1>0, <1>1, <1>5 DEF RetriesExhausted, AnswerUncertain, SettleAs, Jobs
  <1>6. QED  BY <1>1, <1>2, <1>3, <1>4, <1>5 DEF Within

\* The steps other than those that start or continue a replay, or pick an event.
Plain ==
    \/ Within /\ ~Abandon
    \/ FenceReturnsNull \/ (Recovered /\ job.why # "heal") \/ Complete \/ Advance
    \/ HealThread \/ EndHeal \/ EndResume \/ EndReplay \/ OperatorReturns \/ Boot
    \/ Commit \/ Crash \/ Fault \/ UNCHANGED vars

\* They narrow.
LEMMA PlainNarrows == ASSUME IInv, Plain PROVE Narrows
  <1>0. job \in Jobs
    BY Zenon DEF IInv, TypeOK
  <1>i. Idle.event = 0 /\ Idle.first = 0
    BY DEF Idle
  <1>1. CASE Within /\ ~Abandon
    BY <1>1, WithinNarrows DEF Narrows
  <1>2. CASE FenceReturnsNull
    <2>1. UNCHANGED <<span, resuming>>
      BY <1>2 DEF FenceReturnsNull, NotRecovered
    <2>2. job' = [job EXCEPT !.step = "advance"] \/ job' = Idle
      BY <1>2 DEF FenceReturnsNull, NotRecovered
    <2>3. QED  BY <1>0, <1>i, <2>1, <2>2 DEF Narrows, Jobs
  <1>3. CASE Recovered /\ job.why # "heal"
    <2>1. UNCHANGED <<span, resuming>>
      BY <1>3 DEF Recovered
    <2>2. job' = [job EXCEPT !.step = "lookup", !.first = 0] \/ job' = Idle
      BY <1>3 DEF Recovered
    <2>3. QED  BY <1>0, <1>i, <2>1, <2>2 DEF Narrows, Jobs
  <1>4. CASE Complete \/ Advance
    <2>1. UNCHANGED <<span, resuming>>
      BY <1>4, CompleteMoves, AdvanceMoves DEF AckMoves, source
    <2>2. job' = [job EXCEPT !.step = "fence"] \/ job' = Idle
      BY <1>4, CompleteMoves, AdvanceMoves
    <2>3. QED  BY <1>0, <1>i, <2>1, <2>2 DEF Narrows, Jobs
  <1>5. CASE HealThread
    <2>1. UNCHANGED <<span, resuming>>
      BY <1>5 DEF HealThread, source
    <2>2. \E t \in Threads : job' = [Idle EXCEPT !.step = "fence", !.thread = t, !.why = "heal"]
      BY <1>5 DEF HealThread, Healable
    <2>3. QED  BY <2>1, <2>2 DEF Narrows, Idle
  <1>6. CASE EndHeal \/ EndResume \/ EndReplay \/ OperatorReturns \/ Boot
    BY <1>6 DEF EndHeal, EndResume, EndReplay, OperatorReturns, Boot, Narrows
  <1>7. CASE Commit \/ UNCHANGED vars
    BY <1>7 DEF Commit, vars, source, Narrows
  <1>8. CASE Crash \/ Fault
    <2>1. span' = {} /\ resuming' = 0 /\ job' = Idle
      BY <1>8, MishapMoves DEF Vanish
    <2>2. QED  BY <1>i, <2>1 DEF Narrows
  <1>9. QED
    BY <1>1, <1>2, <1>3, <1>4, <1>5, <1>6, <1>7, <1>8 DEF Plain

\* The others, one by one.
LEMMA StepKinds ==
    ASSUME [Next]_vars
    PROVE  \/ Plain \/ Abandon \/ (Recovered /\ job.why = "heal") \/ ReplaySkipped \/ AfterResume
           \/ ResumeRetry \/ ReplayEvent \/ LiveEvent \/ OperatorAbandons \/ OperatorRetries
  BY DEF Next, Reactor, Deliver, Fence, Source, Plain, Within

\* The skipped work of a thread lies behind the event it starts from.
LEMMA SkippedBehind ==
    ASSUME IInv, NEW e \in 1 .. Len(log), NEW t, log[e].thread = t, Clear(e),
           NEW s \in SkippedAfter(t, e)
    PROVE  s \in 1 .. Len(log) /\ Clear(s)
  <1> USE Numbers
  <1>1. s \in (e + 1) .. cursor /\ log[s].thread = t
    BY DEF SkippedAfter
  <1>2. s \in 1 .. Len(log) /\ s \in Nat /\ e <= s
    BY <1>1
  <1>3. QED  BY <1>1, <1>2, ClearAbove

\* An event that is picked has its number in hand, and nothing else.
LEMMA Picked == ASSUME NEW e, Pick(e) PROVE job'.event = e /\ job'.first = 0
  BY DEF Pick

\* After every step, where a replay may start was clear before it.
LEMMA RootsWereClear ==
    ASSUME IInv, OrderInv, [Next]_vars, NEW e \in 1 .. Len(log), Root(e)'
    PROVE  Clear(e)
  <1> USE Numbers
  <1>0. e # 0 /\ job \in Jobs
    <2>1. job \in Jobs
      BY Zenon DEF IInv, TypeOK
    <2>2. QED  BY <2>1
  <1>a. \A r \in 1 .. Len(log) : Root(r) => Clear(r)
    BY DEF OrderInv, RootsClear
  <1>1. CASE state'[e] \in Terminal
    BY <1>1, <1>a, TerminalRoots DEF Root
  <1>b. SUFFICES ASSUME ~(state'[e] \in Terminal)  PROVE Clear(e)
    BY <1>1
  <1>c. e \in span' \/ e \in {resuming', job'.event, job'.first}
    BY <1>b DEF Root
  <1>2. CASE Plain
    BY <1>0, <1>2, <1>a, <1>c, PlainNarrows DEF Narrows, Root
  <1>3. CASE Abandon
    <2>1. UNCHANGED <<span, resuming>> /\ job.step = "abandon" /\ Blocking(job.thread) # {}
      BY <1>3 DEF Abandon, source
    <2>2. job' = [job EXCEPT !.first = IF @ = 0 THEN Min(Blocking(job.thread)) ELSE @]
      BY <1>3 DEF Abandon
    <2>3. Min(Blocking(job.thread)) \in Blocking(job.thread)
      <3>1. Blocking(job.thread) \in SUBSET Nat
        BY <2>1, Hand
      <3>2. QED  BY <2>1, <3>1, MinIsMember
    <2>4. job'.event = job.event /\ job'.first \in {job.first} \cup Blocking(job.thread)
      BY <1>0, <2>2, <2>3 DEF Jobs
    <2>5. CASE e \in Blocking(job.thread)
      BY <1>a, <2>5 DEF Blocking, Root
    <2>6. QED  BY <1>a, <1>c, <2>1, <2>4, <2>5 DEF Root
  <1>4. CASE Recovered /\ job.why = "heal"
    <2>1. /\ job.step = "abandon" /\ Blocking(job.thread) = {} /\ resuming' = resuming
          /\ job' = Idle /\ span' = SkippedAfter(job.thread, job.first)
      BY <1>4 DEF Recovered
    <2>2. job.first # 0 /\ log[job.first].thread = job.thread
      BY <2>1 DEF OrderInv, FirstKept
    <2>3. job.first \in 1 .. Len(log)
      <3>1. job.first \in 0 .. Len(log)
        BY <1>0 DEF Jobs
      <3>2. QED  BY <2>2, <3>1
    <2>4. Clear(job.first)
      BY <1>a, <2>3 DEF Root
    <2>5. CASE e \in span'
      BY <2>1, <2>2, <2>3, <2>4, <2>5, SkippedBehind
    <2>6. CASE e = resuming'
      BY <1>a, <2>1, <2>6 DEF Root
    <2>7. QED  BY <1>0, <1>c, <2>1, <2>5, <2>6 DEF Idle
  <1>5. CASE ReplaySkipped
    <2>1. /\ span # {} /\ Pick(Min(span)) /\ span' = span \ {Min(span)} /\ resuming' = resuming
      BY <1>5 DEF ReplaySkipped
    <2>2. Min(span) \in span
      <3>1. span \in SUBSET Nat
        BY DEF IInv, RowsReached
      <3>2. QED  BY <2>1, <3>1, MinIsMember
    <2>3. QED  BY <1>0, <1>a, <1>c, <2>1, <2>2, Picked DEF Root
  <1>6. CASE AfterResume
    <2>1. /\ resuming # 0 /\ job' = job /\ resuming' = 0
          /\ span' = span \/ span' = SkippedAfter(log[resuming].thread, resuming)
      BY <1>6 DEF AfterResume
    <2>2. resuming \in 1 .. Len(log)
      BY <2>1
    <2>3. Clear(resuming)
      BY <1>a, <2>2 DEF Root
    <2>4. CASE e \in SkippedAfter(log[resuming].thread, resuming)
      BY <2>2, <2>3, <2>4, SkippedBehind
    <2>5. QED  BY <1>0, <1>a, <1>c, <2>1, <2>4 DEF Root
  <1>7. CASE ResumeRetry
    <2>1. AtRest /\ retries # {}
      BY <1>7 DEF ResumeRetry
    <2>2. CASE Vanish
      BY <1>0, <1>c, <2>2 DEF Vanish, Idle
    <2>3. CASE ~Vanish
      <3>1. resuming' = Min(retries) /\ Pick(Min(retries)) /\ span' = span
        BY <1>7, <2>3 DEF ResumeRetry
      <3>2. Min(retries) \in retries
        <4>1. retries \in SUBSET Nat
          BY DEF IInv, RowsReached
        <4>2. QED  BY <2>1, <4>1, MinIsMember
      <3>3. log[Min(retries)].thread \in putOff
        BY <3>2 DEF OrderInv, GrantsKept
      <3>4. Clear(Min(retries))
        BY <3>3, PutOffClear
      <3>5. QED  BY <1>0, <1>a, <1>c, <3>1, <3>4, Picked DEF Root
    <2>4. QED  BY <2>2, <2>3
  <1>8. CASE ReplayEvent
    <2>1. Pick(cursor + 1) /\ UNCHANGED <<span, resuming>> /\ phase = "replay"
      BY <1>8 DEF ReplayEvent, source
    <2>2. cursor = acked
      BY <2>1
    <2>3. CASE e = cursor + 1
      BY <2>2, <2>3, AheadClear
    <2>4. QED  BY <1>0, <1>a, <1>c, <2>1, <2>3, Picked DEF Root
  <1>9. CASE LiveEvent
    <2>1. /\ UNCHANGED <<span, resuming>> /\ phase = "live"
          /\ job' = job \/ (Pick(next) /\ ~(next <= cursor))
      BY <1>9 DEF LiveEvent
    <2>2. cursor = acked
      BY <2>1
    <2>3. CASE e = next /\ ~(next <= cursor)
      BY <2>2, <2>3, AheadClear
    <2>4. QED  BY <1>0, <1>a, <1>c, <2>1, <2>3, Picked DEF Root
  <1>10. CASE OperatorAbandons
    <2>1. PICK r \in Shown : span' = SkippedAfter(log[r].thread, r)
      BY <1>10 DEF OperatorAbandons
    <2>2. job' = job /\ resuming' = resuming
      BY <1>10 DEF OperatorAbandons
    <2>3. r \in 1 .. Len(log) /\ state[r] \in Terminal
      BY DEF Shown
    <2>4. Clear(r)
      BY <1>a, <2>3 DEF Root
    <2>5. CASE e \in span'
      BY <2>1, <2>3, <2>4, <2>5, SkippedBehind
    <2>6. QED  BY <1>a, <1>c, <2>2, <2>5 DEF Root
  <1>11. CASE OperatorRetries
    <2>1. PICK r \in Shown : resuming' = r /\ Pick(r)
      BY <1>11 DEF OperatorRetries
    <2>2. span' = span
      BY <1>11 DEF OperatorRetries
    <2>3. r \in 1 .. Len(log) /\ state[r] \in Terminal
      BY DEF Shown
    <2>4. QED  BY <1>0, <1>a, <1>c, <2>1, <2>2, <2>3, Picked DEF Root
  <1>12. QED
    BY <1>2, <1>3, <1>4, <1>5, <1>6, <1>7, <1>8, <1>9, <1>10, <1>11, StepKinds

\* No step leaves an overtaken command where a replay may start.
LEMMA RootsClearStep == ASSUME IInv, OrderInv, [Next]_vars PROVE RootsClear'
  <1> USE Numbers
  <1>1. SUFFICES ASSUME NEW e \in 1 .. Len(log'), Root(e)'  PROVE Clear(e)'
    BY DEF RootsClear
  <1>2. e \in 1 .. Len(log)
    <2>1. CASE Commit
      <3>1. Len(log') = Len(log) + 1 /\ UNCHANGED <<state, span, resuming, job>>
        BY <2>1, LogGrows DEF Commit, IInv, source
      <3>2. e \in Events
        BY <1>1, <3>1, NumbersStep DEF NumbersOK, Events
      <3>3. state[e] # "none" => e <= Len(log)
        BY <3>2 DEF IInv, RowsReached
      <3>4. span \subseteq 1 .. Len(log)
        BY Zenon DEF IInv, TypeOK
      <3>5. resuming <= Len(log) /\ job.event <= Len(log) /\ job.first <= Len(log)
        <4>1. job \in Jobs
          BY Zenon DEF IInv, TypeOK
        <4>2. QED  BY <4>1 DEF Jobs
      <3>6. QED  BY <1>1, <3>1, <3>3, <3>4, <3>5 DEF Root, Terminal
    <2>2. CASE ~Commit
      BY <2>2, <1>1, LogStep
    <2>3. QED  BY <2>1, <2>2
  <1>3. CASE Send
    <2>1. Root(e)
      <3>1. Within /\ ~Abandon /\ UNCHANGED state
        BY <1>3 DEF Within, Abandon, Send, durable
      <3>2. QED  BY <1>1, <3>1, WithinNarrows DEF Root
    <2>2. QED  BY <1>2, <1>3, <2>1, ClearWhenSent
  <1>4. CASE ~Send
    <2>1. received' = received
      BY <1>4, OnlySendReceives
    <2>2. Clear(e)
      BY <1>1, <1>2, RootsWereClear
    <2>3. QED  BY <1>2, <2>1, <2>2, ClearKept
  <1>5. QED  BY <1>3, <1>4

-----------------------------------------------------------------------------
(* What is in hand                                                         *)

\* The replay goes through the skipped events in their order.
LEMMA SpanAheadStep == ASSUME IInv, OrderInv, [Next]_vars PROVE SpanAhead'
  <1> USE Numbers
  <1>0. SpanAhead /\ span' \subseteq Nat \ {0}
    <2>1. SpanAhead /\ span' \subseteq gone' + 1 .. acked'
      BY RowsReachedStep DEF RowsReached, OrderInv
    <2>2. gone' \in Nat
      BY OnlyGrow
    <2>3. acked' \in Nat
      BY NumbersStep, LogKept DEF NumbersOK
    <2>4. \A a, b \in Nat : a + 1 .. b \subseteq Nat \ {0}
      OBVIOUS
    <2>5. QED  BY <2>1, <2>2, <2>3, <2>4
  <1>1. CASE Narrows
    BY <1>0, <1>1 DEF Narrows, SpanAhead
  <1>2. CASE job'.event = 0
    BY <1>0, <1>2 DEF SpanAhead
  <1>3. CASE span' = {}
    BY <1>3 DEF SpanAhead
  <1>4. CASE ReplaySkipped
    <2>1. span # {} /\ Pick(Min(span)) /\ span' = span \ {Min(span)}
      BY <1>4 DEF ReplaySkipped
    <2>2. span \in SUBSET Nat
      BY DEF IInv, RowsReached
    <2>3. Min(span) \in span /\ \A s \in span : Min(span) <= s
      BY <2>1, <2>2, MinIsMember
    <2>4. PICK k \in span : k = Min(span)
      BY <2>3
    <2>5. \A s \in span \ {k} : k < s
      BY <2>2, <2>3, <2>4
    <2>6. job'.event = k /\ span' = span \ {k}
      BY <2>1, <2>4, Picked
    <2>7. QED  BY <2>5, <2>6 DEF SpanAhead
  <1>5. CASE Abandon
    <2>1. span' = span /\ job'.event = job.event
      BY <1>5, WithinFrame DEF Within, source
    <2>2. QED  BY <1>0, <2>1 DEF SpanAhead
  <1>6. CASE (Recovered /\ job.why = "heal") \/ AfterResume \/ OperatorAbandons
    <2>1. job' = Idle
      BY <1>6 DEF Recovered, AfterResume, OperatorAbandons, OperatorMay, AtRest
    <2>2. QED  BY <1>2, <2>1 DEF Idle
  <1>7. CASE ResumeRetry \/ ReplayEvent \/ LiveEvent \/ OperatorRetries
    <2>1. span = {} /\ (Vanish \/ span' = span)
      BY <1>7 DEF ResumeRetry, ReplayEvent, LiveEvent, OperatorRetries, OperatorMay, AtRest, source
    <2>2. QED  BY <1>3, <2>1 DEF Vanish
  <1>8. QED  BY <1>1, <1>4, <1>5, <1>6, <1>7, PlainNarrows, StepKinds

\* A resumed delivery is alone until it is over.
LEMMA ResumeAloneStep == ASSUME IInv, OrderInv, [Next]_vars PROVE ResumeAlone'
  <1>0. ResumeAlone /\ job \in Jobs /\ resuming \in Nat
    BY Numbers, Zenon DEF IInv, TypeOK, OrderInv
  <1>1. CASE resuming' = 0
    BY <1>1 DEF ResumeAlone
  <1>2. CASE Within
    <2>1. UNCHANGED <<span, resuming>> /\ job.step # "idle" /\ job'.event = job.event
      BY <1>2, WithinFrame DEF source
    <2>2. job # Idle
      BY <2>1 DEF Idle
    <2>3. QED  BY <1>0, <2>1, <2>2 DEF ResumeAlone
  <1>3. CASE FenceReturnsNull \/ (Recovered /\ job.why # "heal") \/ Complete \/ Advance
    <2>1. UNCHANGED <<span, resuming>>
      BY <1>3, CompleteMoves, AdvanceMoves
      DEF FenceReturnsNull, NotRecovered, Recovered, AckMoves, source
    <2>2. job.step # "idle"
      BY <1>3, CompleteMoves, AdvanceMoves DEF FenceReturnsNull, Recovered, AckMoves
    <2>3. \/ job' = Idle
          \/ job' = [job EXCEPT !.step = "advance"] \/ job' = [job EXCEPT !.step = "fence"]
          \/ job' = [job EXCEPT !.step = "lookup", !.first = 0]
      BY <1>3, CompleteMoves, AdvanceMoves DEF FenceReturnsNull, NotRecovered, Recovered
    <2>4. job' = Idle \/ job'.event = job.event
      BY <1>0, <2>3 DEF Jobs
    <2>5. job # Idle
      BY <2>2 DEF Idle
    <2>6. QED  BY <1>0, <2>1, <2>4, <2>5 DEF ResumeAlone
  <1>4. CASE Recovered /\ job.why = "heal"
    <2>1. job.step = "abandon" /\ resuming' = resuming
      BY <1>4 DEF Recovered
    <2>2. job.event = 0 /\ job # Idle
      BY <1>4, <2>1 DEF IInv, InHand, Idle
    <2>3. QED  BY <1>0, <1>1, <2>1, <2>2 DEF ResumeAlone
  <1>5. CASE ReplaySkipped
    <2>1. span # {} /\ resuming' = resuming
      BY <1>5 DEF ReplaySkipped
    <2>2. QED  BY <1>0, <1>1, <2>1 DEF ResumeAlone
  <1>6. CASE AfterResume \/ HealThread \/ EndHeal \/ EndResume \/ EndReplay \/ ReplayEvent
             \/ LiveEvent \/ OperatorReturns \/ OperatorAbandons
    <2>1. resuming' = 0
      BY <1>6 DEF AfterResume, HealThread, EndHeal, EndResume, EndReplay, ReplayEvent, LiveEvent,
                  OperatorReturns, OperatorAbandons, OperatorMay, AtRest, source
    <2>2. QED  BY <1>1, <2>1
  <1>7. CASE ResumeRetry
    <2>1. AtRest /\ (Vanish \/ (Pick(Min(retries)) /\ resuming' = Min(retries) /\ span' = span))
      BY <1>7 DEF ResumeRetry
    <2>2. QED  BY <1>1, <2>1, Picked DEF Vanish, AtRest, ResumeAlone
  <1>8. CASE OperatorRetries
    <2>1. AtRest /\ span' = span /\ \E e \in Shown : resuming' = e /\ Pick(e)
      BY <1>8 DEF OperatorRetries, OperatorMay
    <2>2. QED  BY <2>1, Picked DEF AtRest, ResumeAlone
  <1>9. CASE Boot \/ Commit \/ UNCHANGED vars
    BY <1>0, <1>9 DEF Boot, Commit, vars, source, ResumeAlone
  <1>10. CASE Crash \/ Fault
    <2>1. resuming' = 0
      BY <1>10, MishapMoves DEF Vanish
    <2>2. QED  BY <1>1, <2>1
  <1>11. QED
    BY <1>2, <1>3, <1>4, <1>5, <1>6, <1>7, <1>8, <1>9, <1>10, StepKinds DEF Plain, Within

\* A fence abandons at least one blocker before it returns, and knows the first.
LEMMA FirstKeptStep == ASSUME IInv, OrderInv, [Next]_vars PROVE FirstKept'
  <1> USE Numbers
  <1>0. FirstKept /\ job \in Jobs
    BY Zenon DEF IInv, TypeOK, OrderInv
  <1>a. /\ job.first \in 0 .. Len(log)
        /\ \A n \in 1 .. Len(log) : log'[n] = log[n]
    BY <1>0, LogKept DEF Jobs
  <1>b. job.first # 0 => log'[job.first].thread = job.thread
    BY <1>0, <1>a DEF FirstKept
  <1>1. CASE job'.first = 0 /\ job'.step # "abandon"
    BY <1>1 DEF FirstKept
  <1>9. CASE job' = Idle \/ \E e : Pick(e)
    BY <1>1, <1>9 DEF Idle, Pick
  <1>2. CASE Within /\ ~Abandon /\ ~FenceStops
    <2>1. job'.first = job.first
      BY <1>2, WithinNarrows
    <2>2. job.step # "abandon" /\ job'.step # "abandon"
      <3>1. CASE PassOver \/ Skip \/ RecoverForTurn \/ AlreadySettled
        BY <1>0, <3>1 DEF PassOver, Skip, RecoverForTurn, AlreadySettled, Step, Lookup, Jobs
      <3>2. CASE Requeue \/ LeaseLost \/ Claim \/ RetrySafely
        BY <1>0, <3>2 DEF Requeue, LeaseLost, Claim, RetrySafely, RetryableAnswer, Step, Lookup, Jobs
      <3>3. CASE Send
        <4>1. job.step = "call" /\ \E h \in BOOLEAN : job' = [job EXCEPT !.step = "answer", !.hit = h]
          BY <3>3 DEF Send
        <4>2. QED  BY <1>0, <4>1 DEF Jobs
      <3>4. CASE RetriesExhausted \/ AnswerUncertain
        BY <1>0, <3>4 DEF RetriesExhausted, AnswerUncertain, RetryableAnswer, SettleAs, Jobs
      <3>5. QED  BY <1>2, <3>1, <3>2, <3>3, <3>4 DEF Within
    <2>3. QED  BY <1>0, <1>1, <2>1, <2>2 DEF FirstKept
  <1>3. CASE FenceStops
    <2>1. /\ job.step = "fence" /\ Blocking(job.thread) # {} /\ UNCHANGED <<log, state>>
          /\ job' = [job EXCEPT !.step = "abandon"]
      BY <1>3 DEF FenceStops, Step, durable
    <2>2. job'.first = job.first /\ job'.thread = job.thread /\ job.first = 0
      BY <1>0, <2>1 DEF FirstKept, Jobs
    <2>3. Blocking(job.thread)' # {}
      BY <2>1, <2>2 DEF Blocking
    <2>4. QED  BY <2>2, <2>3 DEF FirstKept
  <1>4. CASE Abandon
    <2>1. /\ job.step = "abandon" /\ Blocking(job.thread) # {} /\ log' = log
          /\ job' = [job EXCEPT !.first = IF @ = 0 THEN Min(Blocking(job.thread)) ELSE @]
      BY <1>4 DEF Abandon
    <2>2. Min(Blocking(job.thread)) \in Blocking(job.thread)
      <3>1. Blocking(job.thread) \in SUBSET Nat
        BY <2>1, Hand
      <3>2. QED  BY <2>1, <3>1, MinIsMember
    <2>3. Min(Blocking(job.thread)) # 0 /\ log[Min(Blocking(job.thread))].thread = job.thread
      BY <2>2 DEF Blocking
    <2>4. /\ job'.step = "abandon" /\ job'.thread = job.thread
          /\ job'.first = IF job.first = 0 THEN Min(Blocking(job.thread)) ELSE job.first
      BY <1>0, <2>1 DEF Jobs
    <2>5. job'.first # 0 /\ log'[job'.first].thread = job'.thread
      BY <1>b, <2>1, <2>3, <2>4
    <2>6. QED  BY <2>4, <2>5 DEF FirstKept
  <1>5. CASE FenceReturnsNull
    <2>1. job.step = "fence" /\ (job' = [job EXCEPT !.step = "advance"] \/ job' = Idle)
      BY <1>5 DEF FenceReturnsNull, NotRecovered
    <2>2. job'.first = 0 /\ job'.step # "abandon"
      BY <1>0, <2>1 DEF FirstKept, Jobs, Idle
    <2>3. QED  BY <1>1, <2>2
  <1>6. CASE Recovered
    <2>1. job' = [job EXCEPT !.step = "lookup", !.first = 0] \/ job' = Idle
      BY <1>6 DEF Recovered
    <2>2. CASE job' = [job EXCEPT !.step = "lookup", !.first = 0]
      <3>1. job'.first = 0 /\ job'.step = "lookup"
        BY <1>0, <2>2 DEF Jobs
      <3>2. QED  BY <1>1, <3>1
    <2>3. QED  BY <1>9, <2>1, <2>2
  <1>7. CASE Complete \/ Advance
    <2>1. /\ job.step \in {"call", "answer", "advance"}
          /\ job' = [job EXCEPT !.step = "fence"] \/ job' = Idle
      BY <1>7, CompleteMoves, AdvanceMoves DEF AckMoves
    <2>2. job'.first = 0 /\ job'.step # "abandon"
      BY <1>0, <2>1 DEF FirstKept, Jobs, Idle
    <2>3. QED  BY <1>1, <2>2
  <1>8. CASE HealThread
    <2>1. \E t \in Threads : job' = [Idle EXCEPT !.step = "fence", !.thread = t, !.why = "heal"]
      BY <1>8 DEF HealThread, Healable
    <2>2. QED  BY <1>1, <2>1 DEF Idle
  <1>10. CASE ReplaySkipped \/ ReplayEvent \/ OperatorRetries
    BY <1>9, <1>10 DEF ReplaySkipped, ReplayEvent, OperatorRetries
  <1>11. CASE LiveEvent \/ ResumeRetry
    <2>1. job' = Idle \/ \E e : Pick(e)
      BY <1>11 DEF LiveEvent, ResumeRetry, Vanish, AtRest
    <2>2. QED  BY <1>9, <2>1
  <1>12. CASE EndHeal \/ AfterResume \/ EndResume \/ EndReplay \/ OperatorReturns \/ OperatorAbandons
    <2>1. job' = Idle
      BY <1>12 DEF EndHeal, AfterResume, EndResume, EndReplay, OperatorReturns, OperatorAbandons,
                   OperatorMay, AtRest
    <2>2. QED  BY <1>9, <2>1
  <1>13. CASE Boot
    <2>1. job' = Idle
      BY <1>13 DEF Boot, IInv, Placed, AtRest
    <2>2. QED  BY <1>9, <2>1
  <1>14. CASE Crash \/ Fault
    <2>1. job' = Idle
      BY <1>14, MishapMoves DEF Vanish
    <2>2. QED  BY <1>9, <2>1
  <1>15. CASE Commit \/ UNCHANGED vars
    <2>1. job' = job
      BY <1>15 DEF Commit, vars
    <2>2. job.step = "abandon" /\ Blocking(job.thread) # {} => Blocking(job.thread)' # {}
      <3>1. SUFFICES ASSUME job.step = "abandon", Blocking(job.thread) # {}
                     PROVE  Blocking(job.thread)' # {}
        OBVIOUS
      <3>2. PICK n \in Blocking(job.thread) : TRUE
        BY <3>1
      <3>3. state' = state
        BY <1>15 DEF Commit, vars, durable
      <3>4. n \in 1 .. Len(log') /\ log'[n] = log[n]
        BY <3>2, LogKept DEF Blocking
      <3>5. QED  BY <2>1, <3>2, <3>3, <3>4 DEF Blocking
    <2>3. job.step = "abandon" /\ job.first = 0 => Blocking(job.thread)' # {}
      BY <1>0, <2>2 DEF FirstKept
    <2>4. QED  BY <1>0, <1>b, <2>1, <2>3 DEF FirstKept
  <1>16. QED
    BY <1>2, <1>3, <1>4, <1>5, <1>6, <1>7, <1>8, <1>10, <1>11, <1>12, <1>13, <1>14, <1>15, StepKinds
    DEF Plain

-----------------------------------------------------------------------------
(* Grants                                                                  *)

\* The granted retries that a startup finds are put off already.
LEMMA RetriesPutOff ==
    ASSUME IInv, OrderInv, [Next]_vars
    PROVE  \A n \in retries' : log'[n].thread \in putOff'
  <1> USE Numbers
  <1>0. /\ \A n \in retries : log[n].thread \in putOff /\ log'[n] = log[n]
        /\ putOff \subseteq putOff' /\ grants \in [Events -> Nat]
    <2>1. retries \subseteq 1 .. Len(log) /\ grants \in [Events -> Nat]
      BY Zenon DEF IInv, TypeOK
    <2>2. QED  BY <2>1, LogKept, OnlyGrow DEF OrderInv, GrantsKept
  <1>1. CASE retries' \subseteq retries
    BY <1>0, <1>1
  <1>2. ASSUME NEW n \in Retryable
        PROVE  /\ n \in 1 .. Len(log) /\ log'[n] = log[n]
               /\ n = resuming \/ log[n].thread \in putOff
    <2>1. /\ n \in 1 .. Len(log) /\ n \in Events
          /\ state[n] \in {"retry", "inflight"} /\ grants[n] > 0
      BY DEF Retryable, Events
    <2>2. QED  BY <2>1, LogKept DEF OrderInv, GrantsKept
  <1>3. CASE EndHeal
    <2>1. retries' = Retryable /\ resuming = 0
      BY <1>3 DEF EndHeal, AtRest
    <2>2. QED  BY <1>0, <1>2, <2>1
  <1>4. CASE Crash \/ Fault
    <2>1. PutOff \subseteq putOff' /\ (retries' = {} \/ retries' \in {retries, Retryable})
      BY <1>4, MishapMoves DEF Vanish
    <2>2. resuming # 0 => log[resuming].thread \in putOff'
      BY <2>1 DEF PutOff
    <2>3. \A n \in Retryable : log'[n].thread \in putOff'
      <3>1. SUFFICES ASSUME NEW n \in Retryable  PROVE log'[n].thread \in putOff'
        OBVIOUS
      <3>2. n # 0
        BY <1>2
      <3>3. QED  BY <1>0, <1>2, <2>2, <3>2
    <2>4. QED  BY <1>1, <2>1, <2>3
  <1>5. CASE \/ PassOver \/ Skip \/ RecoverForTurn \/ AlreadySettled \/ Requeue \/ LeaseLost
             \/ Claim \/ Send \/ RetrySafely \/ RetriesExhausted \/ AnswerUncertain
    BY <1>1, <1>5 DEF PassOver, Skip, RecoverForTurn, AlreadySettled, Requeue, LeaseLost, Claim, Send,
                      RetrySafely, RetriesExhausted, AnswerUncertain, SettleAs, source
  <1>6. CASE Complete \/ Advance
    BY <1>1, <1>6, CompleteMoves, AdvanceMoves DEF AckMoves, source
  <1>7. CASE Fence
    BY <1>1, <1>7 DEF Fence, FenceReturnsNull, NotRecovered, FenceStops, Abandon, Recovered,
                      ReplaySkipped, source
  <1>8. CASE Boot \/ HealThread \/ ResumeRetry \/ AfterResume \/ EndResume \/ ReplayEvent
    BY <1>1, <1>8 DEF Boot, HealThread, ResumeRetry, Vanish, AfterResume, EndResume, ReplayEvent, source
  <1>9. CASE EndReplay \/ LiveEvent \/ OperatorReturns \/ OperatorAbandons \/ OperatorRetries
    BY <1>1, <1>9 DEF EndReplay, LiveEvent, OperatorReturns, OperatorAbandons, OperatorRetries
  <1>10. CASE Commit \/ UNCHANGED vars
    BY <1>1, <1>10 DEF Commit, vars, source
  <1>11. QED
    BY <1>3, <1>4, <1>5, <1>6, <1>7, <1>8, <1>9, <1>10 DEF Next, Reactor, Deliver, Source

\* A delivery that is no longer being resumed is settled, or its retry is put off.
LEMMA ResumptionEnds ==
    ASSUME IInv, OrderInv, [Next]_vars, resuming # 0, resuming' # resuming
    PROVE  \/ log[resuming].thread \in putOff'
           \/ AfterResume /\ state[resuming] \notin {"retry", "inflight"}
  <1> USE Numbers
  <1>1. CASE AfterResume
    BY <1>1 DEF AfterResume
  <1>2. CASE Crash \/ Fault
    <2>1. PutOff \subseteq putOff'
      BY <1>2, MishapMoves
    <2>2. QED  BY <2>1 DEF PutOff
  <1>3. CASE Within
    BY <1>3, WithinFrame DEF source
  <1>4. CASE Complete \/ Advance
    BY <1>4, CompleteMoves, AdvanceMoves DEF AckMoves, source
  <1>5. CASE FenceReturnsNull \/ Recovered \/ ReplaySkipped
    BY <1>5 DEF FenceReturnsNull, NotRecovered, Recovered, ReplaySkipped
  <1>6. CASE HealThread \/ EndHeal \/ ResumeRetry \/ EndResume \/ ReplayEvent \/ EndReplay
    BY <1>6 DEF HealThread, EndHeal, ResumeRetry, EndResume, ReplayEvent, EndReplay, AtRest
  <1>7. CASE LiveEvent \/ OperatorReturns \/ OperatorAbandons \/ OperatorRetries
    BY <1>7 DEF LiveEvent, OperatorReturns, OperatorAbandons, OperatorRetries, OperatorMay, AtRest
  <1>8. CASE Boot \/ Commit \/ UNCHANGED vars
    BY <1>8 DEF Boot, Commit, vars, source
  <1>9. QED
    BY <1>1, <1>2, <1>3, <1>4, <1>5, <1>6, <1>7, <1>8
    DEF Next, Reactor, Deliver, Fence, Source, Within

\* No step leaves a granted retry behind unnoticed.
LEMMA GrantsKeptStep == ASSUME IInv, OrderInv, [Next]_vars PROVE GrantsKept'
  <1> USE Numbers
  <1>0. /\ Len(log') \in Nat /\ Len(log) <= Len(log')
        /\ gone' \in Nat /\ gone <= gone' /\ putOff \subseteq putOff'
        /\ grants \in [Events -> Nat]
        /\ \A n \in 1 .. Len(log) : log'[n] = log[n]
    <2>1. grants \in [Events -> Nat]
      BY Zenon DEF IInv, TypeOK
    <2>2. QED  BY <2>1, LogKept, OnlyGrow
  <1>1. SUFFICES ASSUME NEW n \in Events, grants'[n] > 0
                 PROVE  /\ n <= Len(log')
                        /\ state'[n] = "none" => n <= gone'
                        /\ state'[n] \in {"retry", "inflight"} => n = resuming' \/ log'[n].thread \in putOff'
    BY RetriesPutOff DEF GrantsKept
  <1>2. CASE grants[n] = 0
    <2>1. PICK e \in Shown : OperatorRetries /\ resuming' = e /\ grants' = [grants EXCEPT ![e] = @ + 1]
      BY <1>1, <1>2, GrantsMove
    <2>2. n = e
      BY <1>0, <1>1, <1>2, <2>1
    <2>3. n <= Len(log) /\ state[n] \in Terminal
      BY <2>2 DEF Shown
    <2>4. state'[n] # "none"
      <3>1. state \in [Events -> RowStates]
        BY Zenon DEF IInv, TypeOK
      <3>2. PICK f \in Shown : state' = [state EXCEPT ![f] = "retry"]
        BY <2>1 DEF OperatorRetries, SetState
      <3>3. QED  BY <2>3, <3>1, <3>2 DEF Terminal
    <2>5. n <= Len(log')
      <3>1. n \in Nat
        BY DEF Events
      <3>2. QED  BY <1>0, <2>3, <3>1
    <2>6. QED  BY <2>1, <2>2, <2>4, <2>5
  <1>3. CASE grants[n] # 0
    <2>1. grants[n] > 0 /\ n \in Nat /\ n > 0
      <3>1. grants[n] \in Nat
        BY <1>0
      <3>2. n \in Nat /\ n > 0
        BY DEF Events
      <3>3. QED  BY <1>3, <3>1, <3>2
    <2>2. /\ n <= Len(log)
          /\ state[n] = "none" => n <= gone
          /\ state[n] \in {"retry", "inflight"} => n = resuming \/ log[n].thread \in putOff
      BY <2>1 DEF OrderInv, GrantsKept
    <2>3. n \in 1 .. Len(log) /\ log'[n] = log[n] /\ n <= Len(log')
      BY <1>0, <2>1, <2>2
    <2>4. RowMove(n)
      BY RowMovesOne
    <2>5. state'[n] = "none" => n <= gone'
      BY <1>0, <2>1, <2>2, <2>4 DEF RowMove, Terminal
    <2>6. SUFFICES ASSUME state'[n] \in {"retry", "inflight"}
                   PROVE  n = resuming' \/ log'[n].thread \in putOff'
      BY <2>3, <2>5
    <2>7. CASE OperatorRetries /\ n = resuming'
      BY <2>7
    <2>8. CASE ~(OperatorRetries /\ n = resuming')
      <3>1. state[n] \in {"retry", "inflight"}
        <4>1. state[n] \in Open
          <5>1. \/ state'[n] = state[n]
                \/ state[n] \in Open
            BY <2>4, <2>6, <2>8 DEF RowMove, Terminal
          <5>2. QED  BY <2>6, <5>1 DEF Open
        <4>2. state[n] # "none"
          <5>1. SUFFICES ASSUME state[n] = "none"  PROVE FALSE
            OBVIOUS
          <5>2. n <= gone
            BY <2>2, <5>1
          <5>3. n = job.event /\ gone < n
            BY <2>4, <2>6, <2>8, <5>1 DEF RowMove, Terminal
          <5>4. QED  BY <2>1, <5>2, <5>3
        <4>3. QED  BY <4>1, <4>2 DEF Open
      <3>2. CASE log[n].thread \in putOff
        BY <1>0, <2>3, <3>2
      <3>3. CASE n = resuming
        BY <2>1, <2>3, <3>1, <3>3, ResumptionEnds
      <3>4. QED  BY <2>2, <3>1, <3>2, <3>3
    <2>9. QED  BY <2>7, <2>8
  <1>4. QED  BY <1>2, <1>3

-----------------------------------------------------------------------------
(* The theorem *)

\* A process that is down, with an empty log, satisfies it.
LEMMA OrderInit == ASSUME Init PROVE OrderInv
  <1>1. Len(log) = 0 /\ span = {} /\ resuming = 0 /\ job = Idle /\ retries = {}
        /\ grants = [n \in Events |-> 0]
    BY DEF Init
  <1>2. RootsClear
    BY <1>1 DEF RootsClear
  <1>3. QED
    BY <1>1, <1>2 DEF OrderInv, SpanAhead, ResumeAlone, FirstKept, GrantsKept, Idle

\* The invariant holds of every behaviour.
LEMMA OrderInvAlways == Spec => [](IInv /\ OrderInv)
  <1>1. IInv /\ OrderInv /\ [Next]_vars => OrderInv'
    BY RootsClearStep, SpanAheadStep, ResumeAloneStep, FirstKeptStep, GrantsKeptStep DEF OrderInv
  <1>2. QED  BY IInvAlways, OrderInit, <1>1, PTL DEF Spec

\* A guarded command reaches the provider for the first time before every later one of
\* its thread, through any skipping, recovering and replaying, unless it was granted a
\* retry, or a granted retry of its thread was not carried out.
THEOREM CommandsKeepOrder == Spec => OrderKept
  <1>1. ASSUME IInv, OrderInv, [Next]_vars, NEW n \in 1 .. Len(log),
               received[n] = 0, received'[n] > 0, log[n].kind \in Guarded, grants[n] = 0,
               log[n].thread \notin putOff,
               NEW m \in n + 1 .. Len(log), log[m].thread = log[n].thread, log[m].kind \in Guarded
        PROVE  received[m] = 0
    <2> USE Numbers
    <2>1. n \in Events /\ m \in Events
      BY <1>1 DEF Events
    <2>2. received \in [Events -> Nat]
      BY <1>1, Zenon DEF IInv, TypeOK
    <2>3. Send
      BY <1>1, OnlySendReceives
    <2>4. job.step = "call" /\ \E i : received' = [received EXCEPT ![job.event] = i]
      BY <2>3 DEF Send
    <2>5. n = job.event
      BY <1>1, <2>1, <2>2, <2>4
    <2>6. gone < n /\ state[n] = "inflight"
      BY <1>1, <2>4, <2>5 DEF IInv, InHand
    <2>7. Pending(n)
      BY <1>1, <2>6 DEF Pending, Open
    <2>8. Clear(n)
      BY <1>1, <2>5 DEF OrderInv, RootsClear, Root
    <2>9. ~Overtaken(n)
      BY <1>1, <2>7, <2>8 DEF Clear
    <2>10. ~(received[m] > 0)
      BY <1>1, <2>9 DEF Overtaken
    <2>11. QED  BY <2>1, <2>2, <2>10
  <1>2. IInv /\ OrderInv /\ [Next]_vars
           => \A n \in 1 .. Len(log) :
                /\ received[n] = 0 /\ received'[n] > 0
                /\ log[n].kind \in Guarded /\ grants[n] = 0 /\ log[n].thread \notin putOff
                => \A m \in n + 1 .. Len(log) :
                     log[m].thread = log[n].thread /\ log[m].kind \in Guarded => received[m] = 0
    BY <1>1
  <1>3. QED  BY OrderInvAlways, <1>2, PTL DEF Spec, OrderKept

=============================================================================
