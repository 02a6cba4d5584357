------------------------- MODULE TurnPromotionProofs -------------------------
(***************************************************************************)
(* What TurnPromotion promises, for any threads, messages and scenarios    *)
(* that satisfy PromotionAssumption, as long as the log stays within       *)
(* MaxLog: the queue's rows are numbered up to it.                         *)
(***************************************************************************)
EXTENDS TurnPromotion, WellFoundedInduction, SequenceTheorems, FiniteSetTheorems, TLAPS

Fits == Len(log) <= MaxLog

-----------------------------------------------------------------------------
(* The invariant *)

DrainPlaces == {"dispatch", "mark", "fail"}
Failing     == {"release", "orphan", "finish", "retry"}
SourceSteps == {"idle", "send", "requeue", "bind", "act", "refuse", "stop"} \cup Failing
Fates       == {"none"} \cup Ended \cup OnRecord \cup Silent
TextKinds   == {"queued", "start"}
RowStates   == {"none", "promoted", "cancelled"} \cup Active
Entries     == [kind : TextKinds \cup {"cancel", "steer"}, message : Messages, thread : {"none"},
                mode : {"queue", "steer"}]
               \cup [kind : {"stop", "deleted", "recover"}, message : {"none"}, thread : Threads,
                     mode : {"queue"}]
Drains      == [at : DrainPlaces \cup {"none", "open"}, todo : SUBSET Threads,
                ready : SUBSET Threads, allow : BOOLEAN, thread : Threads, row : Nat]

\* The shapes of what the fibers and the histories hold.
Shapes ==
    /\ log \in Seq(Entries) /\ handled \in 0 .. Len(log)
    /\ drain \in [Fibers -> Drains] /\ draining \subseteq Threads
    /\ fate \in [Messages -> Fates] /\ sent \in [Messages -> Nat]
    /\ DOMAIN hand = {"source", "terminal"} /\ DOMAIN Me = {"step", "mine", "turn", "retry"}

\* The source's event in hand fits what it is doing with it.
InHand ==
    /\ Me.step \in SourceSteps /\ Me.retry \in BOOLEAN
    /\ Me.step # "idle" => handled < Len(log)
    /\ Me.step \in {"send", "requeue", "bind", "release", "orphan"} => Event.kind = "start"
    /\ Me.step = "finish" => Event.kind \in TextKinds \cup {"recover"}
    /\ Me.step = "act" => Event.kind \in {"cancel", "steer"}
    /\ Me.step = "refuse" => Event.kind = "steer"
    /\ Me.step = "stop" => Event.kind = "stop"
    /\ Me.step = "retry" => Me.retry
    /\ Me.retry => Event.kind = "start" /\ Me.step \in Failing

\* A turn is bound after the provider has accepted its message.
BoundSent == Me.step = "bind" => sent[Event.message] > 0

\* A drain at work has its thread's guard, unless a session stop cleared it.
Guarding ==
    \A f \in Fibers : drain[f].at \in DrainPlaces => drain[f].thread \in draining \/ Cleared

\* A withdrawn message is lost to the source before it could be sent.
Withdrawn ==
    \A m \in Messages :
        /\ fate[m] = "cancelled" =>
              Lost(m) \/ (Me.step = "act" /\ Event.kind = "cancel" /\ Event.message = m)
        /\ fate[m] = "deleted" => ThreadOf[m] \in Deleted
        /\ Me.step = "send" /\ Event.message = m => fate[m] \notin {"cancelled", "deleted"}

\* The start in hand has had its effect, and is not to be run again for it.
Spent(n) == /\ n = handled + 1 /\ Me.step \in {"bind"} \cup Failing
            /\ Me.retry => sent[Message(n)] > 0

\* The start in hand may have gone back to the queue.
GoneBack == Me.step \in {"release", "orphan", "finish"} /\ ~Me.retry

\* Rows exist for text events the source has reached; one it has not finished with is
\* cancelled by the sweep only.
RowsReached ==
    \A n \in Numbers : state[n] # "none" =>
        /\ n <= handled + 1
        /\ n = handled + 1 /\ log[n].kind = "start" => GoneBack
        /\ n > handled /\ state[n] = "cancelled" => ThreadAt(n) \in Deleted

\* A dispatched row has a start further up the log.
StartsFollow ==
    \A n \in dispatched :
        /\ state[n] # "none"
        /\ \E k \in n + 1 .. Len(log) : log[k].kind = "start" /\ Message(k) = Message(n)

\* A drain at work holds a row of its thread.
DrainRows ==
    \A f \in Fibers :
        IF drain[f].at \in DrainPlaces
        THEN /\ drain[f].row \in 1 .. Len(log)
             /\ state[drain[f].row] # "none"
             /\ ThreadAt(drain[f].row) = drain[f].thread
             /\ drain[f].at = "mark" => drain[f].row \in dispatched
        ELSE drain[f].row = 0

OneWaiting     == \A m \in Messages : \A a, b \in Waiting(m) : a = b
OneReservation == \A a, b \in reservation : a = b

\* The sequences from which a message may still be started.
Ahead(n) == n > handled /\ state[n] = "none" /\ ~(Spent(n) /\ log[n].kind = "start")
Held(n)  == \E f \in Fibers : drain[f].at = "dispatch" /\ drain[f].row = n
Chances(m) ==
    {n \in 1 .. Len(log) :
        /\ log[n].kind \in TextKinds /\ Message(n) = m /\ n \notin dispatched
        /\ Ahead(n) \/ state[n] \in Active \/ Held(n)}

\* A message has one chance at most, and none once it has been sent, or while a steer
\* has taken it from the queue.
OneChance ==
    \A m \in Messages :
        /\ sent[m] > 0 \/ Steered(m) => Sent(m)
        /\ m \notin raced =>
              /\ sent[m] <= 1
              /\ Chances(m) # {} => sent[m] = 0
              /\ \A a, b \in Chances(m) : a = b
              /\ Steered(m) /\ Event.kind = "steer" => (Chances(m) = {} /\ sent[m] = 0)

\* What a drain is about to dispatch was first in its queue, and still is.
FirstInQueue ==
    \A f \in Fibers :
        drain[f].at = "dispatch" /\ log[drain[f].row].mode # "steer" /\ ~Cleared
        => ~\E o \in RowsOf(drain[f].thread) : o < drain[f].row /\ state[o] = "queued"

\* Where a message is: still to come, waiting, being steered, or answered for; one whose
\* row is dispatched is answered for by its start.
Coming(m, kinds) ==
    \E n \in handled + 1 .. Len(log) : log[n].kind \in kinds /\ Message(n) = m /\ ~Spent(n)
Answered(m) == Lost(m) \/ sent[m] > 0 \/ fate[m] # "none" \/ Coming(m, {"start"})
Kept ==
    \A m \in Messages :
        /\ Sent(m) => Answered(m) \/ Waiting(m) # {} \/ Steered(m) \/ Coming(m, TextKinds)
        /\ \A n \in Waiting(m) \cap dispatched : Answered(m)

IInv == /\ TypeOK /\ Shapes /\ InHand /\ BoundSent /\ Guarding /\ OneDrain /\ Withdrawn
        /\ RowsReached /\ StartsFollow /\ DrainRows /\ OneWaiting /\ OneReservation
        /\ OneChance /\ FirstInQueue /\ Kept

-----------------------------------------------------------------------------
(* Numbers, entries and the smallest and largest of a set *)

\* A nonempty set of numbers has a smallest one.
LEMMA SmallestExists ==
    ASSUME NEW S \in SUBSET Nat, S # {}
    PROVE  \E m \in S : \A n \in S : m <= n
  <1> DEFINE R == {ss \in Nat \X Nat : ss[1] < ss[2]}
  <1>0. IsWellFoundedOn(R, Nat)
    BY NatLessThanWellFounded DEF OpToRel
  <1>1. \E m \in S : \A n \in S : ~(<<n, m>> \in R)
    <2> HIDE DEF R
    <2> QED  BY <1>0, WFMin
  <1>2. PICK m \in S : \A n \in S : <<n, m>> \notin R
    BY <1>1
  <1>3. \A n \in S : ~(n < m)
    <2>1. SUFFICES ASSUME NEW n \in S, n < m  PROVE <<n, m>> \in R
      BY <1>2
    <2>2. n \in Nat /\ m \in Nat
      OBVIOUS
    <2>3. QED  BY <2>1, <2>2, Zenon
  <1>4. QED  BY <1>3

\* Min and Max of a nonempty set of sequences of the log are members at its ends.
LEMMA EndsAreMembers ==
    ASSUME NEW S, NEW L \in Nat, S \subseteq 1 .. L, S # {}
    PROVE  /\ Min(S) \in S /\ \A n \in S : Min(S) <= n
           /\ Max(S) \in S
  <1>1. \E m \in S : \A n \in S : m <= n
    BY SmallestExists
  <1>2. \E m \in S : \A n \in S : m >= n
    <2> DEFINE T == {L - n : n \in S}
    <2>0. \A n \in S : n \in Nat /\ L - n \in Nat
      OBVIOUS
    <2>1. T \in SUBSET Nat /\ T # {}
      BY <2>0
    <2>2. PICK m \in T : \A n \in T : m <= n
      BY <2>1, SmallestExists
    <2>3. PICK x \in S : m = L - x
      BY <2>2
    <2>4. \A n \in S : L - x <= L - n
      BY <2>2, <2>3
    <2>5. QED  BY <2>4
  <1>3. QED  BY <1>1, <1>2 DEF Min, Max

\* What an action may read of the invariant, without the types around it.
LEMMA Typed ==
    ASSUME IInv
    PROVE  /\ MaxLog \in Nat /\ Len(log) \in Nat /\ Len(log) <= MaxLog
           /\ handled \in Nat /\ handled <= Len(log)
           /\ state \in [Numbers -> RowStates]
           /\ \A n \in 1 .. Len(log) : n \in Numbers
           /\ \A n \in Numbers : state[n] # "none" =>
                 /\ n \in 1 .. Len(log) /\ n \in Nat /\ n <= Len(log)
                 /\ log[n].kind \in TextKinds /\ n <= handled + 1
           /\ live \in Nat /\ live <= Len(log) /\ barrier \in Nat /\ barrier <= Len(log)
           /\ dispatched \subseteq 1 .. Len(log)
  <1>1. MaxLog \in Nat
    BY PromotionAssumption
  <1>2. log \in Seq(Entries) /\ handled \in 0 .. Len(log)
    BY DEF IInv, Shapes
  <1>3. Len(log) \in Nat
    BY <1>2
  <1>4. /\ Len(log) <= MaxLog /\ state \in [Numbers -> RowStates]
        /\ \A n \in Numbers : state[n] # "none" => n <= Len(log) /\ log[n].kind \in TextKinds
        /\ live \in 0 .. Len(log) /\ barrier \in 0 .. Len(log) /\ dispatched \subseteq 1 .. Len(log)
    BY Zenon DEF IInv, TypeOK, RowStates, TextKinds
  <1>5. \A n \in Numbers : state[n] # "none" => n <= handled + 1
    BY Zenon DEF IInv, RowsReached
  <1>6. QED  BY <1>1, <1>2, <1>3, <1>4, <1>5 DEF Numbers

\* An entry of the log names what its kind needs.
LEMMA EntryOf ==
    ASSUME IInv, NEW n \in 1 .. Len(log)
    PROVE  /\ log[n] \in Entries
           /\ log[n].kind \in TextKinds \cup {"cancel", "steer", "stop", "deleted", "recover"}
           /\ log[n].mode \in {"queue", "steer"}
           /\ log[n].kind \in TextKinds \cup {"cancel", "steer"} =>
                 Message(n) \in Messages /\ ThreadAt(n) \in Threads
           /\ log[n].kind \in {"stop", "deleted", "recover"} => log[n].thread \in Threads
  <1>1. log \in Seq(Entries)
    BY DEF IInv, Shapes
  <1>2. log[n] \in Entries
    BY <1>1, ElementOfSeq
  <1>3. ThreadOf \in [Messages -> Threads]
    BY PromotionAssumption
  <1>4. QED  BY <1>2, <1>3 DEF Entries, TextKinds, Message, ThreadAt

-----------------------------------------------------------------------------
(* What the groups of steps leave alone *)

\* Users, the provider and the start of a drain.
Outer == \/ Ask \/ ContinueTurn \/ TurnEnds \/ Sweep \/ TerminalEvent \/ IdlessTerminal
         \/ UNCHANGED vars

\* The steps of a fiber's drain.
DrainSteps == \E f \in Fibers : Draining(f) \/ Fault(f)

\* The steps of the source that handle an intent as it is meant.
Core == \/ TurnQueued \/ FinishDrained \/ TurnStart \/ Requeue \/ Accept \/ Reject
        \/ Bind \/ Release \/ ReleaseOrphan
        \/ ClaimAction \/ ActCancel \/ ActSteer \/ StopQueues \/ StopSession \/ ThreadDeleted

\* Those that skip it, give it up or continue an interrupted turn.
Aside == \/ SkipAction \/ RecoverThread \/ SkipStart \/ StoreFails \/ RetryReturns
         \/ TurnContinued \/ ContinuationFails \/ SteerRefused \/ ActionDies

LEMMA Groups == ASSUME [Next]_vars PROVE Outer \/ DrainSteps \/ Core \/ Aside \/ Crash
  BY DEF Next, Source, Mishaps, Outer, DrainSteps, Core, Aside

LEMMA OuterFrame ==
    ASSUME IInv, Outer
    PROVE  /\ UNCHANGED <<handled, rows, dispatched, removed, draining, ghosts>>
           /\ Me' = Me /\ DOMAIN hand' = DOMAIN hand
  <1>1. CASE Ask \/ ContinueTurn \/ TurnEnds \/ Sweep \/ UNCHANGED vars
    BY <1>1 DEF Ask, ContinueTurn, TurnEnds, Sweep, vars, store, rows, memory, ghosts, Me
  <1>2. CASE TerminalEvent \/ IdlessTerminal
    <2>1. UNCHANGED <<handled, rows, dispatched, removed, draining, ghosts>>
      BY <1>2 DEF TerminalEvent, IdlessTerminal, store, rows, ghosts
    <2>2. \/ hand' = hand
          \/ hand' = [hand EXCEPT !["terminal"].step = "idless"]
          \/ hand' = [hand EXCEPT !["terminal"] = AtRest]
      BY <1>2 DEF TerminalEvent, IdlessTerminal
    <2>3. DOMAIN hand = {"source", "terminal"}
      BY DEF IInv, Shapes
    <2>4. QED  BY <2>1, <2>2, <2>3 DEF Me
  <1>3. QED  BY <1>1, <1>2 DEF Outer

LEMMA DrainFrame ==
    ASSUME DrainSteps
    PROVE  /\ UNCHANGED <<handled, replayed, removed, live, quarantined, barrier, hand, ghosts>>
           /\ Me' = Me
  <1>1. PICK f \in Fibers : Draining(f) \/ Fault(f)
    BY DEF DrainSteps
  <1>2. QED
    BY <1>1 DEF Draining, Fault, Look, Claim, Dispatch, Mark, GiveBack, Me, store, world, memory,
                ghosts

\* The source never takes part in a drain itself, and commits a text by a steer only.
LEMMA CoreFrame ==
    ASSUME Core
    PROVE  /\ UNCHANGED <<replayed, dispatched>>
           /\ \/ UNCHANGED log
              \/ ActSteer
  BY DEF Core, TurnQueued, FinishDrained, TurnStart, Requeue, Accept, Bind, Release, ReleaseOrphan,
         ClaimAction, ActCancel, ActSteer, StopQueues, StopSession, ThreadDeleted, Reject, store

LEMMA AsideFrame ==
    ASSUME Aside
    PROVE  /\ UNCHANGED <<log, replayed, rows, dispatched, removed, memory, sent, raced>>
           /\ drain' = drain \/ (ContinuationFails /\ DrainsBy("source", On, FALSE))
           /\ live' \in {live, 0, handled + 1}
  <1>1. CASE SkipAction \/ RecoverThread \/ SkipStart \/ StoreFails
    BY <1>1 DEF SkipAction, RecoverThread, SkipStart, StoreFails, store, world, ghosts
  <1>2. CASE RetryReturns \/ TurnContinued \/ ContinuationFails
    BY <1>2 DEF RetryReturns, TurnContinued, ContinuationFails, store, world, ghosts
  <1>3. CASE SteerRefused \/ ActionDies
    BY <1>3 DEF SteerRefused, ActionDies, ActionFails
  <1>4. QED  BY <1>1, <1>2, <1>3 DEF Aside

-----------------------------------------------------------------------------
(* The log grows at its end *)

LEMMA AskAppends ==
    ASSUME IInv, Ask
    PROVE  \E k \in Entries : log' = Append(log, k) /\ (k.kind \in TextKinds => ~Sent(k.message))
  <1>0. PICK c \in UNION {Asked(s) : s \in Open} :
          /\ ~Made(c)
          /\ \/ c.kind = "send" /\ Placed(c.message, "queue")
             \/ /\ c.kind \in {"cancel", "steer"}
                /\ log' = Append(log, Intent(c.kind, c.message, "none", "queue"))
             \/ /\ c.kind \in {"stop", "deleted"}
                /\ log' = Append(log, Intent(c.kind, "none", c.thread, "queue"))
    BY Zenon DEF Ask
  <1>1. PICK s \in Open : c \in Asked(s)
    BY <1>0
  <1>2. c \in Requests
    <2>1. s \in Scenarios /\ s.asks \in Seq(Requests)
      BY PromotionAssumption DEF Open
    <2>2. PICK i \in DOMAIN s.asks : c = s.asks[i]
      BY <1>1 DEF Asked
    <2>3. QED  BY <2>1, <2>2, ElementOfSeq
  <1>3. CASE c.kind = "send"
    <2>1. c.message \in Messages
      BY <1>2, <1>3 DEF Requests
    <2>2. PICK kind \in TextKinds : log' = Append(log, Intent(kind, c.message, "none", "queue"))
      BY <1>0, <1>3 DEF Placed, TextKinds
    <2>3. Intent(kind, c.message, "none", "queue") \in Entries
      BY <2>1 DEF Intent, Entries
    <2>4. ~Sent(c.message)
      BY <1>0, <1>3 DEF Made
    <2>5. QED  BY <2>2, <2>3, <2>4 DEF Intent
  <1>4. CASE c.kind \in {"cancel", "steer"}
    <2>1. c.message \in Messages
      BY <1>2, <1>4 DEF Requests
    <2>2. log' = Append(log, Intent(c.kind, c.message, "none", "queue"))
      BY <1>0, <1>4
    <2>3. Intent(c.kind, c.message, "none", "queue") \in Entries
      BY <1>4, <2>1 DEF Intent, Entries
    <2>4. QED  BY <1>4, <2>2, <2>3 DEF Intent, TextKinds
  <1>5. CASE c.kind \in {"stop", "deleted"}
    <2>1. c.thread \in Threads
      BY <1>2, <1>5 DEF Requests
    <2>2. log' = Append(log, Intent(c.kind, "none", c.thread, "queue"))
      BY <1>0, <1>5
    <2>3. Intent(c.kind, "none", c.thread, "queue") \in Entries
      BY <1>5, <2>1 DEF Intent, Entries
    <2>4. QED  BY <1>5, <2>2, <2>3 DEF Intent, TextKinds
  <1>6. QED  BY <1>0, <1>3, <1>4, <1>5

\* A dispatch appends the start of the row it holds, once.
LEMMA DispatchAppends ==
    ASSUME IInv, NEW f \in Fibers, Dispatch(f), NEW n, n = drain[f].row
    PROVE  /\ drain[f].at = "dispatch" /\ n \in 1 .. Len(log) /\ n \in Numbers
           /\ log[n].kind \in TextKinds /\ StartOf(n) \in Entries
           /\ \/ UNCHANGED <<log, dispatched>> /\ At(f, "fail")
              \/ n \in dispatched /\ UNCHANGED <<log, dispatched>> /\ At(f, "mark")
              \/ /\ n \notin dispatched /\ log' = Append(log, StartOf(n))
                 /\ dispatched' = dispatched \cup {n} /\ At(f, "mark")
  <1>1. drain[f].at = "dispatch"
    BY DEF Dispatch
  <1>2. n \in 1 .. Len(log) /\ state[n] # "none"
    BY <1>1 DEF IInv, DrainRows, DrainPlaces
  <1>3. n \in Numbers /\ log[n].kind \in TextKinds
    BY <1>2, Typed
  <1>4. StartOf(n) \in Entries
    <2>1. Message(n) \in Messages /\ log[n].mode \in {"queue", "steer"}
      BY <1>2, <1>3, EntryOf
    <2>2. QED  BY <2>1 DEF StartOf, Intent, Entries, TextKinds
  <1>5. \/ UNCHANGED <<log, dispatched>> /\ At(f, "fail")
        \/ n \in dispatched /\ UNCHANGED <<log, dispatched>> /\ At(f, "mark")
        \/ /\ n \notin dispatched /\ log' = Append(log, StartOf(n))
           /\ dispatched' = dispatched \cup {n} /\ At(f, "mark")
    BY DEF Dispatch
  <1>6. QED  BY <1>1, <1>2, <1>3, <1>4, <1>5

\* A continuation names a thread and no message.
LEMMA ContinueAppends ==
    ASSUME IInv, ContinueTurn
    PROVE  \E k \in Entries : log' = Append(log, k) /\ k.kind = "recover"
  <1>1. PICK t \in held : log' = Append(log, Intent("recover", "none", t, "queue"))
    BY DEF ContinueTurn
  <1>2. t \in Threads
    BY Zenon DEF IInv, TypeOK
  <1>3. /\ Intent("recover", "none", t, "queue") \in Entries
        /\ Intent("recover", "none", t, "queue").kind = "recover"
    BY <1>2 DEF Intent, Entries
  <1>4. QED  BY <1>1, <1>3

LEMMA SteerAppends ==
    ASSUME IInv, ActSteer
    PROVE  /\ handled + 1 \in 1 .. Len(log) /\ Event.kind = "steer" /\ Event.message \in Messages
           /\ \/ Lost(Event.message) /\ log' = log /\ barrier' = barrier
              \/ /\ barrier' \in {barrier, live}
                 /\ \E k \in Entries : /\ log' = Append(log, k) /\ k.kind \in TextKinds
                                        /\ k.message = Event.message
  <1>1. handled + 1 \in 1 .. Len(log)
    BY Typed DEF IInv, InHand, ActSteer
  <1>2. Event.message \in Messages /\ Event.kind = "steer"
    BY <1>1, EntryOf DEF ActSteer, Event, Message
  <1>3. CASE Lost(Event.message)
    BY <1>1, <1>2, <1>3 DEF ActSteer
  <1>4. CASE ~Lost(Event.message)
    <2>1. Placed(Event.message, "steer") /\ barrier' \in {barrier, live}
      BY <1>4 DEF ActSteer
    <2>2. PICK kind \in TextKinds : log' = Append(log, Intent(kind, Event.message, "none", "steer"))
      BY <2>1 DEF Placed, TextKinds
    <2>3. Intent(kind, Event.message, "none", "steer") \in Entries
      BY <1>2 DEF Intent, Entries
    <2>4. QED  BY <1>1, <1>2, <2>1, <2>2, <2>3 DEF Intent
  <1>5. QED  BY <1>3, <1>4

LEMMA LogStep ==
    ASSUME IInv, [Next]_vars
    PROVE  log' = log \/ \E k \in Entries : log' = Append(log, k)
  <1>1. CASE Outer
    <2>1. CASE Ask
      BY <2>1, AskAppends
    <2>2. CASE ContinueTurn
      BY <2>2, ContinueAppends
    <2>3. CASE ~(Ask \/ ContinueTurn)
      BY <1>1, <2>3 DEF Outer, TurnEnds, Sweep, TerminalEvent, IdlessTerminal, vars, store
    <2>4. QED  BY <2>1, <2>2, <2>3
  <1>2. CASE DrainSteps
    <2>1. PICK f \in Fibers : Draining(f) \/ Fault(f)
      BY <1>2 DEF DrainSteps
    <2>2. CASE Dispatch(f)
      BY <2>2, DispatchAppends
    <2>3. CASE ~Dispatch(f)
      BY <2>1, <2>3 DEF Draining, Fault, Look, Claim, Mark, GiveBack, store
    <2>4. QED  BY <2>2, <2>3
  <1>3. CASE Core
    BY <1>3, CoreFrame, SteerAppends
  <1>4. CASE Aside \/ Crash
    BY <1>4, AsideFrame DEF Crash
  <1>5. QED  BY <1>1, <1>2, <1>3, <1>4, Groups

LEMMA LogGrows ==
    ASSUME IInv, [Next]_vars
    PROVE  /\ log' \in Seq(Entries) /\ Len(log') \in Nat /\ Len(log) <= Len(log')
           /\ Len(log') <= Len(log) + 1
           /\ \A n \in 1 .. Len(log) : n \in 1 .. Len(log') /\ log'[n] = log[n]
  <1>1. log \in Seq(Entries)
    BY DEF IInv, Shapes
  <1>2. QED  BY <1>1, LogStep

-----------------------------------------------------------------------------
(* The source's hand *)

LEMMA HandMoves ==
    ASSUME IInv
    PROVE  /\ \A s : To(s) => /\ Me' = [Me EXCEPT !.step = s] /\ Me'.step = s /\ Me'.retry = Me.retry
                              /\ DOMAIN hand' = DOMAIN hand /\ DOMAIN Me' = DOMAIN Me
           /\ Finish => /\ Me' = AtRest /\ Me'.step = "idle" /\ Me'.retry = FALSE /\ handled' = handled + 1
                        /\ DOMAIN hand' = DOMAIN hand /\ DOMAIN Me' = DOMAIN Me
           /\ DOMAIN hand = {"source", "terminal"} /\ DOMAIN Me = {"step", "mine", "turn", "retry"}
  <1>1. DOMAIN hand = {"source", "terminal"} /\ DOMAIN Me = {"step", "mine", "turn", "retry"}
    BY DEF IInv, Shapes
  <1>2. \A h : hand' = [hand EXCEPT !["source"] = h] => Me' = h /\ DOMAIN hand' = DOMAIN hand
    BY <1>1 DEF Me
  <1>3. \A s : hand' = [hand EXCEPT !["source"].step = s]
               => Me' = [Me EXCEPT !.step = s] /\ DOMAIN hand' = DOMAIN hand
    BY <1>1 DEF Me
  <1>4. \A s : /\ [Me EXCEPT !.step = s].step = s /\ [Me EXCEPT !.step = s].retry = Me.retry
               /\ DOMAIN [Me EXCEPT !.step = s] = {"step", "mine", "turn", "retry"}
    BY <1>1
  <1>5. AtRest.step = "idle" /\ AtRest.retry = FALSE /\ DOMAIN AtRest = {"step", "mine", "turn", "retry"}
    BY DEF AtRest
  <1>6. QED  BY <1>1, <1>2, <1>3, <1>4, <1>5 DEF To, Finish

\* The event in hand suits a step of the source.
Suits(step) ==
    /\ step \in SourceSteps \ {"idle"}
    /\ step \in {"send", "requeue", "bind", "release", "orphan"} => Event.kind = "start"
    /\ step = "finish" => Event.kind \in TextKinds \cup {"recover"}
    /\ step = "act" => Event.kind \in {"cancel", "steer"}
    /\ step = "refuse" => Event.kind = "steer"
    /\ step = "stop" => Event.kind = "stop"

\* Where a start finds its message, it is sent or requeued.
LEMMA StartHands ==
    ASSUME IInv, TurnStart
    PROVE  /\ Me'.step = IF Lost(Event.message) THEN "release"
                         ELSE IF live # 0 THEN "requeue" ELSE "send"
           /\ Me'.retry = FALSE /\ DOMAIN hand' = DOMAIN hand /\ DOMAIN Me' = DOMAIN Me
           /\ UNCHANGED <<handled, log, fate, sent>> /\ handled < Len(log)
           /\ Event.kind = "start" /\ Me.step = "idle"
  <1>1. PICK go : go = IF Lost(Event.message) THEN "release"
                       ELSE IF live # 0 THEN "requeue" ELSE "send"
    OBVIOUS
  <1>2. hand' = [hand EXCEPT !["source"] = [step |-> go, mine |-> Mine, turn |-> live, retry |-> FALSE]]
    BY <1>1 DEF TurnStart
  <1>3. /\ Me' = [step |-> go, mine |-> Mine, turn |-> live, retry |-> FALSE]
        /\ DOMAIN hand' = DOMAIN hand
    BY <1>2, HandMoves DEF Me
  <1>4. Me'.step = go /\ Me'.retry = FALSE /\ DOMAIN Me' = {"step", "mine", "turn", "retry"}
    BY <1>3
  <1>5. /\ UNCHANGED <<handled, log, fate, sent>> /\ handled < Len(log)
        /\ Event.kind = "start" /\ Me.step = "idle"
    BY DEF TurnStart, Ready, Permitted, store, ghosts
  <1>6. QED  BY <1>1, <1>3, <1>4, <1>5, HandMoves

\* The source goes on with its event or finishes it.
Goes ==
    \/ /\ handled' = handled /\ Suits(Me'.step) /\ Me'.retry = Me.retry
       /\ Me.retry => Me'.step \in Failing
       /\ Me'.step = "retry" => Me.retry
    \/ handled' = handled + 1 /\ Me'.step = "idle" /\ Me'.retry = FALSE

LEMMA CoreHands ==
    ASSUME IInv, Core
    PROVE  /\ DOMAIN hand' = DOMAIN hand /\ DOMAIN Me' = DOMAIN Me /\ handled < Len(log)
           /\ Goes
  <1> USE HandMoves
  <1>0. /\ Me.step \in SourceSteps /\ (Me.step # "idle" => handled < Len(log) /\ Suits(Me.step))
        /\ Me.retry \in BOOLEAN /\ (Me.retry => Me.step \in Failing)
    BY DEF IInv, InHand, Suits
  <1>1. CASE TurnQueued
    <2>1. To("finish") /\ UNCHANGED handled /\ handled < Len(log) /\ Event.kind = "queued" /\ Me.step = "idle"
      BY <1>1 DEF TurnQueued, Ready
    <2>2. QED  BY <1>0, <2>1 DEF Goes, Suits, SourceSteps, TextKinds, Failing
  <1>2. CASE FinishDrained \/ Release
    <2>1. /\ Me.step \in {"finish", "release"}
          /\ \/ Me.retry /\ To("retry") /\ UNCHANGED handled
             \/ Finish
             \/ Me.step = "release" /\ To("orphan") /\ UNCHANGED handled
      BY <1>2 DEF FinishDrained, Release, Settle
    <2>2. CASE Me.retry /\ To("retry") /\ UNCHANGED handled
      BY <1>0, <2>1, <2>2 DEF Goes, Suits, SourceSteps, Failing
    <2>3. CASE Finish
      BY <1>0, <2>1, <2>3 DEF Goes
    <2>4. CASE Me.step = "release" /\ To("orphan") /\ UNCHANGED handled
      BY <1>0, <2>1, <2>4 DEF Goes, Suits, SourceSteps, Failing
    <2>5. QED  BY <2>1, <2>2, <2>3, <2>4
  <1>3. CASE TurnStart
    <2>1. Me.retry = FALSE
      BY <1>0, <1>3, StartHands DEF Failing
    <2>2. Me'.step \in {"release", "requeue", "send"}
      BY <1>3, StartHands
    <2>3. QED  BY <1>3, <2>1, <2>2, StartHands DEF Goes, Suits, SourceSteps, Failing
  <1>4. CASE Requeue \/ Bind
    <2>1. To("release") /\ UNCHANGED handled /\ Me.step \in {"requeue", "bind"}
      BY <1>4 DEF Requeue, Bind, store
    <2>2. QED  BY <1>0, <2>1 DEF Goes, Suits, SourceSteps, Failing
  <1>5. CASE Accept \/ Reject
    <2>1. (To("release") \/ To("bind")) /\ UNCHANGED handled /\ Me.step = "send"
      BY <1>5 DEF Accept, Reject, store
    <2>2. ~Me.retry
      BY <1>0, <2>1 DEF Failing
    <2>3. QED  BY <1>0, <2>1, <2>2 DEF Goes, Suits, SourceSteps, Failing
  <1>6. CASE ReleaseOrphan
    <2>1. To("finish") /\ UNCHANGED handled /\ Me.step = "orphan"
      BY <1>6 DEF ReleaseOrphan, store
    <2>2. QED  BY <1>0, <2>1 DEF Goes, Suits, SourceSteps, TextKinds, Failing
  <1>7. CASE ClaimAction
    <2>1. /\ \/ UNCHANGED handled /\ (To("act") \/ (To("refuse") /\ Event.kind = "steer"))
             \/ Finish
          /\ handled < Len(log) /\ Event.kind \in {"cancel", "steer"} /\ Me.step = "idle"
      BY <1>7 DEF ClaimAction, Ready, Permitted
    <2>2. Me.retry = FALSE
      BY <1>0, <2>1 DEF Failing
    <2>3. CASE Finish
      BY <2>1, <2>3 DEF Goes
    <2>4. CASE UNCHANGED handled /\ (To("act") \/ (To("refuse") /\ Event.kind = "steer"))
      <3>1. PICK step \in {"act", "refuse"} : To(step) /\ (step = "refuse" => Event.kind = "steer")
        BY <2>4
      <3>2. Me'.step = step /\ Me'.retry = FALSE
        BY <2>2, <3>1
      <3>3. QED  BY <2>1, <2>2, <2>4, <3>1, <3>2 DEF Goes, Suits, SourceSteps, Failing
    <2>5. QED  BY <2>1, <2>3, <2>4
  <1>8. CASE ActCancel \/ ActSteer \/ StopSession
    BY <1>0, <1>8 DEF ActCancel, ActSteer, StopSession, Goes
  <1>9. CASE StopQueues
    <2>1. /\ (To("stop") /\ UNCHANGED handled) \/ Finish
          /\ handled < Len(log) /\ Event.kind = "stop" /\ Me.step = "idle"
      BY <1>9 DEF StopQueues, Ready, Permitted
    <2>2. QED  BY <1>0, <2>1 DEF Goes, Suits, SourceSteps, Failing
  <1>10. CASE ThreadDeleted
    BY <1>10 DEF ThreadDeleted, Ready, Goes
  <1>11. QED
    BY <1>1, <1>2, <1>3, <1>4, <1>5, <1>6, <1>7, <1>8, <1>9, <1>10 DEF Core

\* What is skipped or given up is finished; a store failure marks a start for a retry.
LEMMA AsideHands ==
    ASSUME IInv, Aside
    PROVE  /\ DOMAIN hand' = DOMAIN hand /\ DOMAIN Me' = DOMAIN Me /\ handled < Len(log)
           /\ \/ handled' = handled + 1 /\ Me'.step = "idle" /\ Me'.retry = FALSE
              \/ RecoverThread /\ Me' = Me /\ handled' = handled /\ Me.step = "idle"
              \/ /\ ContinuationFails /\ Me'.step = "finish" /\ Me'.retry = Me.retry
                 /\ Event.kind = "recover" /\ handled' = handled /\ Me.step = "idle"
              \/ /\ StoreFails /\ Me.step \in {"requeue", "send", "bind"} /\ Event.kind = "start"
                 /\ Me'.step = "release" /\ Me'.retry = TRUE /\ handled' = handled
  <1> USE HandMoves
  <1>0. Me.step # "idle" => handled < Len(log)
    BY DEF IInv, InHand
  <1>1. CASE SkipAction \/ SkipStart \/ TurnContinued
    BY <1>1 DEF SkipAction, SkipStart, TurnContinued, Ready, Permitted
  <1>2. CASE RetryReturns \/ SteerRefused \/ ActionDies
    BY <1>0, <1>2 DEF RetryReturns, SteerRefused, ActionDies, ActionFails
  <1>3. CASE RecoverThread
    BY <1>3 DEF RecoverThread, Ready, Me, store
  <1>4. CASE ContinuationFails
    BY <1>4 DEF ContinuationFails, Ready, Permitted, store
  <1>5. CASE StoreFails
    <2>1. Me.step \in {"requeue", "send", "bind"} /\ UNCHANGED handled
      BY <1>5 DEF StoreFails, store
    <2>2. handled < Len(log) /\ Event.kind = "start"
      BY <2>1 DEF IInv, InHand
    <2>3. hand' = [hand EXCEPT !["source"] = [Me EXCEPT !.step = "release", !.retry = TRUE]]
      BY <1>5 DEF StoreFails, Me
    <2>4. /\ Me' = [Me EXCEPT !.step = "release", !.retry = TRUE]
          /\ DOMAIN hand' = DOMAIN hand
      BY <2>3 DEF Me
    <2>5. Me'.step = "release" /\ Me'.retry = TRUE /\ DOMAIN Me' = DOMAIN Me
      BY <2>4
    <2>6. QED  BY <1>5, <2>1, <2>2, <2>4, <2>5
  <1>6. QED  BY <1>1, <1>2, <1>3, <1>4, <1>5 DEF Aside

\* A crash drops whatever is in hand, and skips an intent that is claimed.
LEMMA CrashHands ==
    ASSUME IInv, Crash
    PROVE  /\ Me' = AtRest /\ Me'.step = "idle" /\ hand' = [f \in {"source", "terminal"} |-> AtRest]
           /\ DOMAIN Me' = {"step", "mine", "turn", "retry"}
           /\ IF Claimed THEN handled < Len(log) /\ handled' = handled + 1 ELSE UNCHANGED handled
           /\ Me'.retry = FALSE
           /\ UNCHANGED <<log, tries, dispatched, removed, sent>>
           /\ raced \subseteq raced'
           /\ Me.step = "retry" /\ sent[Event.message] > 0 => Event.message \in raced'
  <1>1. hand' = [f \in {"source", "terminal"} |-> AtRest]
    BY DEF Crash
  <1>2. Me' = AtRest
    BY <1>1 DEF Me
  <1>3. QED  BY <1>1, <1>2 DEF Crash, Claimed, AtRest

LEMMA HandledStep ==
    ASSUME IInv, [Next]_vars
    PROVE  /\ handled' \in {handled, handled + 1} /\ handled' <= Len(log)
           /\ handled' \in 0 .. Len(log')
           /\ handled' = handled /\ handled < Len(log) => Event' = Event
  <1>1. handled' \in {handled, handled + 1} /\ handled' <= Len(log)
    <2> USE Typed
    <2>1. CASE Outer
      BY <2>1, OuterFrame
    <2>2. CASE DrainSteps
      BY <2>2, DrainFrame
    <2>3. CASE Core
      <3>1. handled < Len(log) /\ handled' \in {handled, handled + 1}
        BY <2>3, CoreHands DEF Goes
      <3>2. QED  BY <3>1
    <2>4. CASE Aside
      <3>1. handled < Len(log) /\ handled' \in {handled, handled + 1}
        BY <2>4, AsideHands
      <3>2. QED  BY <3>1
    <2>5. CASE Crash
      BY <2>5, CrashHands
    <2>6. QED  BY <2>1, <2>2, <2>3, <2>4, <2>5, Groups
  <1>2. handled' \in 0 .. Len(log')
    BY <1>1, LogGrows, Typed
  <1>3. handled' = handled /\ handled < Len(log) => Event' = Event
    BY LogGrows, Typed DEF Event
  <1>4. QED  BY <1>1, <1>2, <1>3

LEMMA InHandStep == ASSUME IInv, [Next]_vars PROVE InHand'
  <1>0. /\ Len(log) <= Len(log') /\ Len(log) \in Nat /\ Len(log') \in Nat /\ handled \in Nat
        /\ handled' = handled /\ handled < Len(log) => Event' = Event
    BY Typed, LogGrows, HandledStep
  <1>1. CASE Outer \/ DrainSteps
    <2>1. Me' = Me /\ handled' = handled
      BY <1>1, OuterFrame, DrainFrame
    <2>2. QED  BY <1>0, <2>1 DEF IInv, InHand, Failing
  <1>2. CASE Core
    <2>1. Goes /\ handled < Len(log)
      BY <1>2, CoreHands
    <2>2. Me.retry \in BOOLEAN /\ (Me.retry => Event.kind = "start")
      BY DEF IInv, InHand
    <2>3. CASE handled' = handled + 1 /\ Me'.step = "idle" /\ Me'.retry = FALSE
      BY <2>3 DEF InHand, SourceSteps, Failing
    <2>4. CASE handled' = handled /\ Suits(Me'.step)
      BY <1>0, <2>1, <2>2, <2>4 DEF Goes, Suits, InHand
    <2>5. QED  BY <2>1, <2>3, <2>4 DEF Goes
  <1>3. CASE Aside
    <2>1. handled < Len(log) /\ Me.retry \in BOOLEAN /\ (Me.retry => Me.step \in Failing)
      BY <1>3, AsideHands DEF IInv, InHand
    <2>2. CASE handled' = handled + 1 /\ Me'.step = "idle" /\ Me'.retry = FALSE
      BY <2>2 DEF InHand, SourceSteps, Failing
    <2>3. CASE Me' = Me /\ handled' = handled
      BY <1>0, <2>1, <2>3 DEF IInv, InHand
    <2>4. CASE /\ Me'.step = "finish" /\ Me'.retry = Me.retry /\ handled' = handled
               /\ Event.kind = "recover" /\ Me.step = "idle"
      <3>1. Me.retry = FALSE
        BY <2>1, <2>4 DEF Failing
      <3>2. QED  BY <1>0, <2>1, <2>4, <3>1 DEF InHand, SourceSteps, Failing
    <2>5. CASE Me'.step = "release" /\ Me'.retry = TRUE /\ handled' = handled /\ Event.kind = "start"
      <3>1. Event' = Event /\ handled' < Len(log')
        BY <1>0, <2>1, <2>5
      <3>2. QED  BY <2>5, <3>1 DEF InHand, SourceSteps, Failing
    <2>6. QED  BY <1>3, <2>2, <2>3, <2>4, <2>5, AsideHands
  <1>4. CASE Crash
    BY <1>4, CrashHands DEF InHand, SourceSteps, Failing
  <1>5. QED  BY <1>1, <1>2, <1>3, <1>4, Groups

-----------------------------------------------------------------------------
(* The drains *)

\* A drain that begins or goes on to its next thread is at no row.
LEMMA NewDrain ==
    ASSUME NEW todo \in SUBSET Threads, NEW ready \in SUBSET Threads, NEW allow \in BOOLEAN
    PROVE  /\ Drain(todo, ready, allow) \in Drains
           /\ Drain(todo, ready, allow).at \in {"none", "open"} /\ Drain(todo, ready, allow).row = 0
           /\ NoDrain \in Drains /\ NoDrain.at = "none" /\ NoDrain.row = 0
  <1>1. Parent \in Threads
    BY PromotionAssumption
  <1>2. NoDrain \in Drains /\ NoDrain.at = "none" /\ NoDrain.row = 0
    BY <1>1 DEF NoDrain, Drains, DrainPlaces
  <1>3. CASE todo \cup ready = {}
    BY <1>2, <1>3 DEF Drain
  <1>4. CASE todo \cup ready # {}
    <2>1. Drain(todo, ready, allow)
          = [at |-> "open", todo |-> todo, ready |-> ready, allow |-> allow, thread |-> Parent,
             row |-> 0]
      BY <1>4 DEF Drain, NoDrain
    <2>2. QED  BY <1>1, <1>2, <2>1 DEF Drains, DrainPlaces
  <1>5. QED  BY <1>3, <1>4

\* A drain that is not at a row.
Rested(d) == d \in Drains /\ d.at \in {"none", "open"} /\ d.row = 0

LEMMA NextRests ==
    ASSUME IInv, NEW f \in Fibers
    PROVE  Rested(Drain(drain[f].todo, drain[f].ready, drain[f].allow))
  <1>1. drain[f] \in Drains
    BY DEF IInv, Shapes
  <1>2. /\ drain[f].todo \in SUBSET Threads /\ drain[f].ready \in SUBSET Threads
        /\ drain[f].allow \in BOOLEAN
    BY <1>1 DEF Drains
  <1>3. QED  BY <1>2, NewDrain DEF Rested

LEMMA DrainsByRests ==
    ASSUME IInv, NEW f \in Fibers, NEW t \in Threads, NEW allow \in BOOLEAN, DrainsBy(f, t, allow)
    PROVE  \A g \in Fibers : Rested(drain'[g]) \/ drain'[g] = drain[g]
  <1>1. {t} \cup Pending \in SUBSET Threads
    BY DEF Pending
  <1>2. Rested(Drain({}, {t} \cup Pending, allow))
    BY <1>1, NewDrain DEF Rested
  <1>3. QED  BY <1>2 DEF DrainsBy, IInv, Shapes

\* The rows a claim takes are rows of its thread.
LEMMA ClaimTakes ==
    ASSUME IInv, NEW t, NEW free \in SUBSET RowsOf(t), free # {}
    PROVE  /\ First(free) \in free /\ First(free) \in RowsOf(t)
           /\ First(free) \in 1 .. Len(log) /\ First(free) \in Nat /\ First(free) \in Numbers
           /\ ThreadAt(First(free)) = t
           /\ log[First(free)].mode = "steer" \/ \A o \in free : First(free) <= o
  <1>1. free \subseteq RowsOf(t) /\ RowsOf(t) \subseteq 1 .. Len(log)
    BY DEF RowsOf
  <1>2. Len(log) \in Nat
    BY Typed
  <1> DEFINE steers == {n \in free : log[n].mode = "steer"}
  <1>3. /\ First(free) \in free
        /\ log[First(free)].mode = "steer" \/ \A o \in free : First(free) <= o
    <2>1. CASE steers # {}
      <3>1. steers \subseteq 1 .. Len(log) /\ First(free) = Max(steers)
        BY <1>1, <2>1 DEF First
      <3>2. Max(steers) \in steers
        BY <1>2, <2>1, <3>1, EndsAreMembers
      <3>3. QED  BY <3>1, <3>2
    <2>2. CASE steers = {}
      <3>1. First(free) = Min(free)
        BY <2>2 DEF First
      <3>2. Min(free) \in free /\ \A o \in free : Min(free) <= o
        BY <1>1, <1>2, EndsAreMembers
      <3>3. QED  BY <3>1, <3>2
    <2>3. QED  BY <2>1, <2>2
  <1> HIDE DEF steers
  <1>4. First(free) \in RowsOf(t) /\ First(free) \in 1 .. Len(log)
    BY <1>1, <1>3
  <1>5. QED  BY <1>1, <1>3, <1>4, Typed DEF RowsOf

\* Either the claim of a row that is first in an unguarded thread's queue, or the end of
\* a look at a thread.
LEMMA ClaimMoves ==
    ASSUME IInv, NEW f \in Fibers, Claim(f)
    PROVE  /\ drain[f].at = "open" /\ drain' \in [Fibers -> Drains]
           /\ \A g \in Fibers \ {f} : drain'[g] = drain[g]
           /\ UNCHANGED <<log, dispatched, reservation>>
           /\ \/ Rested(drain'[f]) /\ UNCHANGED <<rows, draining>>
              \/ \E t \in Threads, late \in BOOLEAN, n \in Numbers :
                   LET back == Reclaimed(t, late)
                       free == back \cup {o \in RowsOf(t) : state[o] = "queued"}
                   IN  /\ t \notin draining /\ draining' = draining \cup {t}
                       /\ back \subseteq RowsOf(t) /\ n \in free /\ n \in RowsOf(t)
                       /\ n \in 1 .. Len(log) /\ ThreadAt(n) = t
                       /\ log[n].mode = "steer" \/ \A o \in free : n <= o
                       /\ state' = [o \in Numbers |-> IF o = n THEN "promoting"
                                                      ELSE IF o \in back THEN "queued" ELSE state[o]]
                       /\ drain'[f].at = "dispatch" /\ drain'[f].row = n /\ drain'[f].thread = t
  <1>0. drain \in [Fibers -> Drains] /\ drain[f] \in Drains
    BY DEF IInv, Shapes
  <1>a. UNCHANGED <<log, dispatched, reservation>> /\ drain[f].at = "open"
    BY DEF Claim
  <1>1. PICK t \in drain[f].ready, late \in BOOLEAN :
          LET back == Reclaimed(t, late)
              free == back \cup {n \in RowsOf(t) : state[n] = "queued"}
              d    == [drain[f] EXCEPT !.ready = @ \ {t}, !.thread = t]
          IN  IF Blocked(f, t) \/ free = {}
              THEN /\ drain' = [drain EXCEPT ![f] = Drain(d.todo, d.ready, d.allow)]
                   /\ UNCHANGED <<rows, draining>>
              ELSE /\ state' = [n \in Numbers |-> IF n = First(free) THEN "promoting"
                                                    ELSE IF n \in back THEN "queued" ELSE state[n]]
                   /\ tries' = [tries EXCEPT ![First(free)] = @ + 1]
                   /\ drain' = [drain EXCEPT ![f] = [d EXCEPT !.at = "dispatch", !.row = First(free)]]
                   /\ draining' = draining \cup {t}
    BY Zenon DEF Claim
  <1> DEFINE back == Reclaimed(t, late)
             free == back \cup {n \in RowsOf(t) : state[n] = "queued"}
             d    == [drain[f] EXCEPT !.ready = @ \ {t}, !.thread = t]
  <1>2. t \in Threads
    BY <1>0 DEF Drains
  <1>3. /\ d \in Drains /\ d.thread = t /\ d.todo \in SUBSET Threads /\ d.ready \in SUBSET Threads
        /\ d.allow \in BOOLEAN
    BY <1>0, <1>2 DEF Drains
  <1>4. CASE Blocked(f, t) \/ free = {}
    <2>1. drain' = [drain EXCEPT ![f] = Drain(d.todo, d.ready, d.allow)] /\ UNCHANGED <<rows, draining>>
      BY <1>1, <1>4
    <2>2. Rested(Drain(d.todo, d.ready, d.allow))
      BY <1>3, NewDrain DEF Rested
    <2> HIDE DEF d
    <2>3. QED  BY <1>0, <1>a, <2>1, <2>2 DEF Rested
  <1>5. CASE ~(Blocked(f, t) \/ free = {})
    <2>1. /\ state' = [n \in Numbers |-> IF n = First(free) THEN "promoting"
                                           ELSE IF n \in back THEN "queued" ELSE state[n]]
          /\ drain' = [drain EXCEPT ![f] = [d EXCEPT !.at = "dispatch", !.row = First(free)]]
          /\ draining' = draining \cup {t}
      BY <1>1, <1>5
    <2>2. /\ back \subseteq RowsOf(t) /\ First(free) \in free /\ First(free) \in RowsOf(t)
          /\ First(free) \in 1 .. Len(log) /\ First(free) \in Nat /\ First(free) \in Numbers
          /\ ThreadAt(First(free)) = t
          /\ log[First(free)].mode = "steer" \/ \A o \in free : First(free) <= o
      <3>1. back \subseteq RowsOf(t)
        BY DEF Reclaimed
      <3>2. free \in SUBSET RowsOf(t) /\ free # {}
        BY <1>5, <3>1
      <3> HIDE DEF back, free
      <3>3. QED  BY <3>1, <3>2, ClaimTakes
    <2>3. t \notin draining
      BY <1>5 DEF Blocked
    <2>4. PICK n : n = First(free)
      OBVIOUS
    <2>5. /\ [d EXCEPT !.at = "dispatch", !.row = n] \in Drains
          /\ [d EXCEPT !.at = "dispatch", !.row = n].at = "dispatch"
          /\ [d EXCEPT !.at = "dispatch", !.row = n].row = n
          /\ [d EXCEPT !.at = "dispatch", !.row = n].thread = t
      <3> HIDE DEF free
      <3>1. n \in Nat
        BY <2>2, <2>4
      <3> HIDE DEF d
      <3>2. QED  BY <1>3, <3>1 DEF Drains, DrainPlaces
    <2>6. /\ drain' \in [Fibers -> Drains] /\ drain'[f].at = "dispatch"
          /\ drain'[f].row = n /\ drain'[f].thread = t
          /\ \A g \in Fibers \ {f} : drain'[g] = drain[g]
      <3> HIDE DEF d, free
      <3>1. QED  BY <1>0, <2>1, <2>4, <2>5
    <2> HIDE DEF d
    <2>7. QED  BY <1>a, <1>2, <2>1, <2>2, <2>3, <2>4, <2>6
  <1>6. QED  BY <1>4, <1>5

\* The step of a drain within its promotion.
LEMMA AtMoves ==
    ASSUME IInv, NEW f \in Fibers, NEW place \in DrainPlaces, At(f, place)
    PROVE  /\ drain' \in [Fibers -> Drains] /\ drain'[f].at = place
           /\ drain'[f].row = drain[f].row /\ drain'[f].thread = drain[f].thread
           /\ \A g \in Fibers \ {f} : drain'[g] = drain[g]
  <1>1. drain \in [Fibers -> Drains] /\ drain[f] \in Drains
    BY DEF IInv, Shapes
  <1>2. PICK d : d = [drain[f] EXCEPT !.at = place]
    OBVIOUS
  <1>3. d \in Drains /\ d.at = place /\ d.row = drain[f].row /\ d.thread = drain[f].thread
    BY <1>1, <1>2 DEF Drains
  <1>4. drain' = [drain EXCEPT ![f] = d]
    BY <1>2 DEF At
  <1>5. QED  BY <1>1, <1>3, <1>4

\* A drain stays, rests, claims a row, or goes on with the row it holds.
DrainMove(g) ==
    \/ drain'[g] = drain[g]
    \/ Rested(drain'[g])
    \/ Claim(g) /\ drain'[g].at = "dispatch"
    \/ /\ drain[g].at \in {"dispatch", "mark"} /\ drain'[g].at \in {"mark", "fail"}
       /\ drain'[g].row = drain[g].row /\ drain'[g].thread = drain[g].thread
       /\ drain'[g].at = "mark" => drain[g].row \in dispatched'

LEMMA DrainMoves ==
    ASSUME IInv, [Next]_vars
    PROVE  drain' \in [Fibers -> Drains] /\ \A g \in Fibers : DrainMove(g)
  <1>0. drain \in [Fibers -> Drains] /\ \A g \in Fibers : drain[g] \in Drains
    BY DEF IInv, Shapes
  <1>a. UNCHANGED drain => drain' \in [Fibers -> Drains] /\ \A g \in Fibers : DrainMove(g)
    BY <1>0 DEF DrainMove
  <1>b. ASSUME NEW f \in Fibers, NEW t \in Threads, NEW allow \in BOOLEAN, DrainsBy(f, t, allow)
        PROVE  drain' \in [Fibers -> Drains] /\ \A g \in Fibers : DrainMove(g)
    <2>1. \A g \in Fibers : Rested(drain'[g]) \/ drain'[g] = drain[g]
      BY <1>b, DrainsByRests
    <2>2. drain' = [g \in Fibers |-> drain'[g]]
      BY <1>0, <1>b DEF DrainsBy
    <2>3. \A g \in Fibers : drain'[g] \in Drains
      BY <1>0, <2>1 DEF Rested
    <2>4. QED  BY <2>1, <2>2, <2>3 DEF DrainMove
  <1>c. ASSUME NEW f \in Fibers, NEW d, Rested(d), drain' = [drain EXCEPT ![f] = d]
        PROVE  drain' \in [Fibers -> Drains] /\ \A g \in Fibers : DrainMove(g)
    BY <1>0, <1>c DEF DrainMove, Rested
  <1>1. CASE Outer
    <2>1. CASE Ask \/ ContinueTurn \/ TurnEnds \/ UNCHANGED vars
      BY <1>a, <2>1 DEF Ask, ContinueTurn, TurnEnds, vars
    <2>2. CASE Sweep
      <3>1. Pending \in SUBSET Threads /\ {} \in SUBSET Threads /\ FALSE \in BOOLEAN
        BY DEF Pending
      <3>2. Rested(Drain(Pending, {}, FALSE))
        BY <3>1, NewDrain DEF Rested
      <3>3. drain' = [drain EXCEPT !["sweep"] = Drain(Pending, {}, FALSE)]
        BY <2>2 DEF Sweep
      <3>4. QED  BY <1>c, <3>2, <3>3 DEF Fibers
    <2>3. CASE TerminalEvent \/ IdlessTerminal
      <3>1. UNCHANGED drain \/ DrainsBy("terminal", Parent, TRUE)
        BY <2>3 DEF TerminalEvent, IdlessTerminal
      <3>2. "terminal" \in Fibers /\ Parent \in Threads /\ TRUE \in BOOLEAN
        BY PromotionAssumption DEF Fibers
      <3>3. QED  BY <1>a, <1>b, <3>1, <3>2
    <2>4. QED  BY <1>1, <2>1, <2>2, <2>3 DEF Outer
  <1>2. CASE DrainSteps
    <2>1. PICK f \in Fibers : Draining(f) \/ Fault(f)
      BY <1>2 DEF DrainSteps
    <2>2. CASE Look(f)
      <3>1. PICK t \in drain[f].todo, ready \in SUBSET Threads :
              drain' = [drain EXCEPT ![f] = Drain(drain[f].todo \ {t}, ready, drain[f].allow)]
        <4>1. PICK t \in drain[f].todo :
                \/ drain' = [drain EXCEPT ![f] = Drain(drain[f].todo \ {t}, {}, drain[f].allow)]
                \/ drain' = [drain EXCEPT ![f] = Drain(drain[f].todo \ {t}, {t}, drain[f].allow)]
          BY <2>2, Zenon DEF Look
        <4>2. {} \in SUBSET Threads /\ {t} \in SUBSET Threads
          BY <1>0 DEF Drains
        <4>3. QED  BY <4>1, <4>2
      <3>2. /\ drain[f].todo \ {t} \in SUBSET Threads /\ drain[f].allow \in BOOLEAN
            /\ ready \in SUBSET Threads
        BY <1>0 DEF Drains
      <3>3. Rested(Drain(drain[f].todo \ {t}, ready, drain[f].allow))
        BY <3>2, NewDrain DEF Rested
      <3>4. QED  BY <1>c, <3>1, <3>3
    <2>3. CASE Claim(f)
      <3>1. /\ drain' \in [Fibers -> Drains] /\ \A g \in Fibers \ {f} : drain'[g] = drain[g]
            /\ Rested(drain'[f]) \/ drain'[f].at = "dispatch"
        BY <2>3, ClaimMoves
      <3>2. QED  BY <2>3, <3>1 DEF DrainMove
    <2>4. CASE Dispatch(f)
      <3>1. /\ drain[f].at = "dispatch"
            /\ At(f, "fail") \/ (At(f, "mark") /\ drain[f].row \in dispatched')
        BY <2>4, DispatchAppends
      <3>2. QED  BY <3>1, AtMoves DEF DrainMove, DrainPlaces
    <2>5. CASE Mark(f) \/ Fault(f)
      <3>1. /\ drain[f].at \in {"dispatch", "mark"}
            /\ At(f, "fail") \/ NextThread(f)
        BY <2>5 DEF Mark, Fault
      <3>2. CASE At(f, "fail")
        BY <3>1, <3>2, AtMoves DEF DrainMove, DrainPlaces
      <3>3. CASE NextThread(f)
        <4>1. Rested(Drain(drain[f].todo, drain[f].ready, drain[f].allow))
          BY NextRests
        <4>2. QED  BY <1>c, <3>3, <4>1 DEF NextThread
      <3>4. QED  BY <3>1, <3>2, <3>3
    <2>6. CASE GiveBack(f)
      <3>1. Rested(NoDrain)
        BY NewDrain DEF Rested
      <3>2. QED  BY <1>c, <2>6, <3>1 DEF GiveBack
    <2>7. QED  BY <2>1, <2>2, <2>3, <2>4, <2>5, <2>6 DEF Draining
  <1>3. CASE Core
    <2>0. "source" \in Fibers
      BY DEF Fibers
    <2>1. CASE TurnQueued
      <3>1. handled + 1 \in 1 .. Len(log) /\ Event.kind = "queued"
        BY <2>1, Typed DEF TurnQueued, Ready
      <3>2. ThreadOf[Event.message] \in Threads
        BY <3>1, EntryOf DEF Event, ThreadAt, Message, TextKinds
      <3>3. Rested(Drain({ThreadOf[Event.message]}, {}, FALSE))
        BY <3>2, NewDrain DEF Rested
      <3>4. QED  BY <1>c, <2>0, <2>1, <3>3 DEF TurnQueued
    <2>2. CASE Requeue \/ Reject \/ Bind \/ ReleaseOrphan
      <3>1. UNCHANGED drain \/ DrainsBy("source", ThreadOf[Event.message], FALSE)
        BY <2>2 DEF Requeue, Reject, Bind, ReleaseOrphan, BindToTurn
      <3>2. handled + 1 \in 1 .. Len(log) /\ Event.kind = "start"
        <4>1. Me.step \in {"requeue", "send", "bind", "orphan"}
          BY <2>2 DEF Requeue, Reject, Bind, ReleaseOrphan
        <4>2. QED  BY <4>1, Typed DEF IInv, InHand
      <3>3. ThreadOf[Event.message] \in Threads /\ FALSE \in BOOLEAN
        BY <3>2, EntryOf DEF Event, ThreadAt, Message, TextKinds
      <3>4. QED  BY <1>a, <1>b, <2>0, <3>1, <3>3
    <2>3. CASE \/ FinishDrained \/ TurnStart \/ Accept \/ Release \/ ClaimAction \/ ActCancel
               \/ ActSteer \/ StopQueues \/ StopSession \/ ThreadDeleted
      BY <1>a, <2>3 DEF FinishDrained, TurnStart, Accept, Release, ClaimAction, ActCancel, ActSteer,
                        StopQueues, StopSession, ThreadDeleted
    <2>4. QED  BY <1>3, <2>1, <2>2, <2>3 DEF Core
  <1>4. CASE Crash
    <2>1. drain' = [f \in Fibers |-> NoDrain] /\ NoDrain \in Drains /\ Rested(NoDrain)
      BY <1>4, NewDrain DEF Crash, Rested
    <2>2. QED  BY <2>1 DEF DrainMove
  <1>5. CASE Aside
    <2>1. CASE UNCHANGED drain
      BY <1>a, <2>1
    <2>2. CASE ContinuationFails /\ DrainsBy("source", On, FALSE)
      <3>1. handled + 1 \in 1 .. Len(log) /\ Event.kind = "recover"
        BY <2>2, Typed DEF ContinuationFails, Permitted, Ready
      <3>2. On \in Threads /\ "source" \in Fibers /\ FALSE \in BOOLEAN
        BY <3>1, EntryOf DEF On, Event, Fibers
      <3>3. QED  BY <1>b, <2>2, <3>2
    <2>3. QED  BY <1>5, <2>1, <2>2, AsideFrame
  <1>6. QED  BY <1>1, <1>2, <1>3, <1>4, <1>5, Groups

\* Which fibers' guards a step can take away.
LEMMA GuardMoves ==
    ASSUME IInv, [Next]_vars
    PROVE  /\ draining' \subseteq Threads
           /\ \/ draining \subseteq draining'
              \/ \E f \in Fibers : /\ drain[f].at \in DrainPlaces /\ Rested(drain'[f])
                                   /\ draining' = draining \ {drain[f].thread}
              \/ Cleared
              \/ \A g \in Fibers : drain'[g] = NoDrain
  <1>0. /\ draining \subseteq Threads /\ drain \in [Fibers -> Drains]
        /\ \A f \in Fibers : drain[f] \in Drains
    BY DEF IInv, Shapes
  <1>1. CASE Outer
    BY <1>0, <1>1, OuterFrame
  <1>2. CASE DrainSteps
    <2>1. PICK f \in Fibers : Draining(f) \/ Fault(f)
      BY <1>2 DEF DrainSteps
    <2>2. CASE Look(f) \/ Dispatch(f) \/ Fault(f)
      BY <1>0, <2>2 DEF Look, Dispatch, Fault, memory
    <2>3. CASE Claim(f)
      BY <1>0, <2>3, ClaimMoves
    <2>4. CASE Mark(f)
      <3>1. drain[f].at = "mark"
        BY <2>4 DEF Mark
      <3>2. CASE state[drain[f].row] = "promoting"
        <4>1. draining' = draining \ {drain[f].thread} /\ NextThread(f)
          BY <2>4, <3>2 DEF Mark
        <4>2. Rested(Drain(drain[f].todo, drain[f].ready, drain[f].allow))
          BY NextRests
        <4>3. QED  BY <1>0, <3>1, <4>1, <4>2 DEF NextThread, DrainPlaces
      <3>3. CASE state[drain[f].row] # "promoting"
        BY <1>0, <2>4, <3>3 DEF Mark
      <3>4. QED  BY <3>2, <3>3
    <2>5. CASE GiveBack(f)
      <3>1. Rested(NoDrain)
        BY NewDrain DEF Rested
      <3>2. QED  BY <1>0, <2>5, <3>1 DEF GiveBack, DrainPlaces
    <2>6. QED  BY <2>1, <2>2, <2>3, <2>4, <2>5 DEF Draining
  <1>3. CASE Core
    <2>1. CASE StopQueues
      <3>1. handled + 1 \in 1 .. Len(log) /\ log[handled + 1].kind = "stop"
        BY <2>1, Typed DEF StopQueues, Ready, Permitted, Event
      <3>2. Cleared
        BY <3>1, Typed DEF Cleared
      <3>3. draining' \subseteq draining
        BY <2>1 DEF StopQueues
      <3>4. QED  BY <1>0, <3>2, <3>3
    <2>2. CASE ~StopQueues
      <3>1. UNCHANGED draining
        BY <1>3, <2>2 DEF Core, TurnQueued, FinishDrained, TurnStart, Requeue, Accept, Bind,
             Release, ReleaseOrphan, ClaimAction, ActCancel, ActSteer, StopSession, ThreadDeleted,
             Reject, memory
      <3>2. QED  BY <1>0, <3>1
    <2>3. QED  BY <2>1, <2>2
  <1>4. CASE Aside
    BY <1>0, <1>4, AsideFrame DEF memory
  <1>5. CASE Crash
    BY <1>5 DEF Crash
  <1>6. QED  BY <1>1, <1>2, <1>3, <1>4, <1>5, Groups

-----------------------------------------------------------------------------
(* Guards *)

\* What is deleted, stopped or lost stays so.
LEMMA Lasting ==
    ASSUME IInv, [Next]_vars
    PROVE  /\ Deleted \subseteq Deleted' /\ removed \subseteq removed'
           /\ \A m : Lost(m) => Lost(m)'
           /\ Cleared => Cleared'
           /\ \A m : Sent(m) => Sent(m)'
  <1>1. \A n \in 1 .. Len(log) : n \in 1 .. Len(log') /\ log'[n] = log[n]
    BY LogGrows
  <1>2. Deleted \subseteq Deleted'
    BY <1>1 DEF Deleted
  <1>3. removed \subseteq removed'
    <2>1. CASE Outer \/ DrainSteps \/ Aside \/ Crash
      BY <2>1, OuterFrame, DrainFrame, AsideFrame, CrashHands
    <2>2. CASE Core
      BY <2>2 DEF Core, TurnQueued, FinishDrained, TurnStart, Requeue, Accept, Bind, Release,
             ReleaseOrphan, ClaimAction, ActCancel, ActSteer, StopQueues, StopSession, ThreadDeleted,
             Reject, store
    <2>3. QED  BY <2>1, <2>2, Groups
  <1>4. Cleared => Cleared'
    <2>1. /\ handled' >= handled /\ handled \in Nat /\ handled' \in Nat
          /\ \A n \in 1 .. Len(log) : n \in Nat
      BY HandledStep, Typed
    <2>2. \A n \in 1 .. Len(log) : n <= handled + 1 => n <= handled' + 1
      <3>1. \A n, a, b \in Nat : a <= b /\ n <= a + 1 => n <= b + 1
        OBVIOUS
      <3>2. QED  BY <2>1, <3>1
    <2>3. QED  BY <1>1, <2>2 DEF Cleared
  <1>5. \A m : Sent(m) => Sent(m)'
    BY <1>1 DEF Sent
  <1>6. QED  BY <1>2, <1>3, <1>4, <1>5 DEF Lost

\* A guard is set before a drain works, and only its own drain takes it away.
LEMMA GuardingStep == ASSUME IInv, [Next]_vars PROVE Guarding' /\ OneDrain'
  <1>0. /\ Guarding /\ OneDrain /\ (Cleared => Cleared')
        /\ \A g \in Fibers : DrainMove(g)
    BY Lasting, DrainMoves DEF IInv
  <1>1. SUFFICES ASSUME ~Cleared'  PROVE Guarding' /\ OneDrain'
    BY DEF Guarding, OneDrain
  <1>2. ~Cleared
    BY <1>0, <1>1
  <1>3. \A g \in Fibers : drain[g].at \in DrainPlaces => drain[g].thread \in draining
    BY <1>0, <1>2 DEF Guarding
  <1>4. \A f, g \in Fibers : f # g /\ drain[f].at \in DrainPlaces /\ drain[g].at \in DrainPlaces
                             => drain[f].thread # drain[g].thread
    <2>1. SUFFICES ASSUME NEW f \in Fibers, NEW g \in Fibers, f # g, drain[f].at \in DrainPlaces,
                          drain[g].at \in DrainPlaces, drain[f].thread = drain[g].thread
                   PROVE  FALSE
      OBVIOUS
    <2>2. drain[f].thread \in Threads
      BY DEF IInv, Shapes, Drains
    <2>3. Promoting(f, drain[f].thread) /\ Promoting(g, drain[f].thread)
      BY <2>1 DEF Promoting, DrainPlaces
    <2>4. QED  BY <1>0, <1>2, <2>1, <2>2, <2>3 DEF OneDrain
  <1>5. \A g \in Fibers : drain'[g].at \in DrainPlaces =>
           \/ drain[g].at \in DrainPlaces /\ drain'[g].thread = drain[g].thread
           \/ Claim(g) /\ drain'[g].at = "dispatch"
    <2>1. SUFFICES ASSUME NEW g \in Fibers, drain'[g].at \in DrainPlaces
                   PROVE  \/ drain[g].at \in DrainPlaces /\ drain'[g].thread = drain[g].thread
                          \/ Claim(g) /\ drain'[g].at = "dispatch"
      OBVIOUS
    <2>2. DrainMove(g)
      BY <1>0
    <2>3. QED  BY <2>1, <2>2 DEF DrainMove, Rested, DrainPlaces
  <1>6. CASE \E f \in Fibers : Claim(f) /\ drain'[f].at = "dispatch"
    <2>1. PICK f \in Fibers : Claim(f) /\ drain'[f].at = "dispatch"
      BY <1>6
    <2>2. /\ \A g \in Fibers \ {f} : drain'[g] = drain[g]
          /\ drain[f].at = "open"
          /\ drain'[f].thread \notin draining /\ draining' = draining \cup {drain'[f].thread}
      BY <2>1, ClaimMoves DEF Rested
    <2>3. \A g \in Fibers \ {f} : drain'[g].at \in DrainPlaces
                                  => drain'[g].thread \in draining /\ drain[g].at \in DrainPlaces
      BY <1>3, <2>2
    <2>4. Guarding'
      BY <2>2, <2>3 DEF Guarding
    <2>5. \A h, g \in Fibers : h # g /\ drain'[h].at \in DrainPlaces /\ drain'[g].at \in DrainPlaces
                               => drain'[h].thread # drain'[g].thread
      BY <1>4, <2>2, <2>3
    <2>6. OneDrain'
      BY <2>5 DEF OneDrain, Promoting, DrainPlaces
    <2>7. QED  BY <2>4, <2>6
  <1>7. CASE ~\E f \in Fibers : Claim(f) /\ drain'[f].at = "dispatch"
    <2>1. \A g \in Fibers : drain'[g].at \in DrainPlaces =>
             drain[g].at \in DrainPlaces /\ drain'[g].thread = drain[g].thread
      BY <1>5, <1>7
    <2>2. OneDrain'
      BY <1>4, <2>1 DEF OneDrain, Promoting, DrainPlaces
    <2>3. CASE draining \subseteq draining'
      BY <1>3, <2>1, <2>2, <2>3 DEF Guarding
    <2>4. CASE \E f \in Fibers : /\ drain[f].at \in DrainPlaces /\ Rested(drain'[f])
                                 /\ draining' = draining \ {drain[f].thread}
      <3>1. PICK f \in Fibers : /\ drain[f].at \in DrainPlaces /\ Rested(drain'[f])
                                /\ draining' = draining \ {drain[f].thread}
        BY <2>4
      <3>2. drain'[f].at \notin DrainPlaces
        BY <3>1 DEF Rested, DrainPlaces
      <3>3. \A g \in Fibers : drain'[g].at \in DrainPlaces => drain'[g].thread \in draining'
        BY <1>3, <1>4, <2>1, <3>1, <3>2
      <3>4. QED  BY <2>2, <3>3 DEF Guarding
    <2>5. CASE \A g \in Fibers : drain'[g] = NoDrain
      BY <2>2, <2>5 DEF Guarding, NoDrain, DrainPlaces
    <2>6. QED  BY <1>2, <2>2, <2>3, <2>4, <2>5, GuardMoves
  <1>8. QED  BY <1>6, <1>7

-----------------------------------------------------------------------------
(* What becomes of a message *)

\* Only two steps of the source withdraw a message.
LEMMA FateMoves ==
    ASSUME IInv, [Next]_vars
    PROVE  /\ fate' \in [Messages -> Fates]
           /\ \A m \in Messages :
                \/ fate'[m] = fate[m]
                \/ fate'[m] \in {"stopped"} \cup OnRecord \cup Silent
                \/ /\ ClaimAction /\ fate'[m] = "cancelled" /\ Event.kind = "cancel"
                   /\ Event.message = m /\ To("act") /\ UNCHANGED <<handled, log>>
                \/ ThreadDeleted /\ fate'[m] = "deleted" /\ Event.thread = ThreadOf[m]
  <1>0. fate \in [Messages -> Fates]
    BY DEF IInv, Shapes
  <1>a. ASSUME NEW ts, NEW how \in Fates
        PROVE  /\ Forgets(ts, how) \in [Messages -> Fates]
               /\ \A m \in Messages : \/ Forgets(ts, how)[m] = fate[m]
                                      \/ Forgets(ts, how)[m] = how /\ ThreadOf[m] \in ts
    BY <1>0 DEF Forgets
  <1>1. CASE Outer \/ DrainSteps
    BY <1>0, <1>1, OuterFrame, DrainFrame DEF ghosts
  <1>2. CASE Core
    <2>1. CASE Requeue \/ Reject
      <3>1. fate' = fate \/ \E m, x : /\ fate' = [fate EXCEPT ![m] = x]
                                      /\ x \in {"failed", "swallowed", fate[m]}
        BY <2>1 DEF Requeue, Reject
      <3>2. QED  BY <1>0, <3>1 DEF Fates, Ended, OnRecord, Silent
    <2>2. CASE ClaimAction
      <3>1. CASE fate' = fate
        BY <1>0, <3>1
      <3>2. CASE fate' # fate
        <4>1. /\ Event.kind = "cancel" => To("act")
              /\ UNCHANGED <<handled, log>> /\ Event.kind \in {"cancel", "steer"}
              /\ fate' = [fate EXCEPT ![Event.message] =
                            IF Event.kind = "cancel" THEN "cancelled" ELSE @]
          BY <2>2, <3>2 DEF ClaimAction, Ready, Permitted
        <4>2. CASE Event.kind = "cancel"
          <5>1. fate' = [fate EXCEPT ![Event.message] = "cancelled"]
            BY <4>1, <4>2
          <5>2. QED  BY <1>0, <2>2, <4>1, <4>2, <5>1 DEF Fates, Ended, OnRecord, Silent
        <4>3. CASE Event.kind # "cancel"
          BY <1>0, <4>1, <4>3
        <4>4. QED  BY <4>2, <4>3
      <3>3. QED  BY <3>1, <3>2
    <2>3. CASE StopQueues
      <3>1. fate' = fate \/ fate' = Forgets(Stopped, "stopped")
        BY <2>3 DEF StopQueues
      <3>2. QED  BY <1>0, <1>a, <3>1 DEF Fates, Ended, OnRecord, Silent
    <2>4. CASE ThreadDeleted
      <3>1. fate' = Forgets({Event.thread}, "deleted")
        BY <2>4 DEF ThreadDeleted
      <3>2. QED  BY <1>a, <2>4, <3>1 DEF Fates, Ended, OnRecord, Silent
    <2>5. CASE \/ TurnQueued \/ FinishDrained \/ TurnStart \/ Accept \/ Bind \/ Release
               \/ ReleaseOrphan \/ ActCancel \/ ActSteer \/ StopSession
      BY <1>0, <2>5 DEF TurnQueued, FinishDrained, TurnStart, Accept, Bind, Release, ReleaseOrphan,
                        ActCancel, ActSteer, StopSession, ghosts
    <2>6. QED  BY <1>2, <2>1, <2>2, <2>3, <2>4, <2>5 DEF Core
  <1>3. CASE Crash
    <2>1. \/ fate' = fate
          \/ fate' = [fate EXCEPT ![Event.message] = "uncertain"]
          \/ fate' = [fate EXCEPT ![Event.message] = "interrupted"]
      BY <1>3 DEF Crash
    <2>2. QED  BY <1>0, <2>1 DEF Fates, Ended, OnRecord, Silent
  <1>4. CASE Aside
    <2>1. fate' = fate \/ \E m : \E x \in OnRecord \cup Silent : fate' = [fate EXCEPT ![m] = x]
      <3>1. CASE RetryReturns
        <4>1. \E x \in {"dropped", fate[Event.message]} : fate' = [fate EXCEPT ![Event.message] = x]
          BY <3>1 DEF RetryReturns
        <4>2. [fate EXCEPT ![Event.message] = fate[Event.message]] = fate
          BY <1>0
        <4>3. QED  BY <4>1, <4>2 DEF Silent
      <3>2. CASE SteerRefused \/ ActionDies
        BY <3>2 DEF SteerRefused, ActionDies, ActionFails, OnRecord
      <3>3. CASE SkipStart
        BY <3>3 DEF SkipStart, OnRecord
      <3>4. CASE SkipAction \/ RecoverThread \/ StoreFails \/ TurnContinued \/ ContinuationFails
        BY <3>4 DEF SkipAction, RecoverThread, StoreFails, TurnContinued, ContinuationFails, ghosts
      <3>5. QED  BY <1>4, <3>1, <3>2, <3>3, <3>4 DEF Aside
    <2>2. QED  BY <1>0, <2>1 DEF Fates
  <1>5. QED  BY <1>1, <1>2, <1>3, <1>4, Groups

LEMMA SentMoves ==
    ASSUME IInv, [Next]_vars
    PROVE  /\ sent' \in [Messages -> Nat]
           /\ \A m \in Messages : \/ sent'[m] = sent[m]
                                  \/ /\ Accept /\ Event.message = m /\ sent'[m] = sent[m] + 1
                                     /\ Me.step = "send"
  <1>0. sent \in [Messages -> Nat]
    BY DEF IInv, Shapes
  <1>1. CASE Outer \/ DrainSteps \/ Aside \/ Crash
    BY <1>0, <1>1, OuterFrame, DrainFrame, AsideFrame, CrashHands DEF ghosts
  <1>2. CASE Core
    <2>1. CASE Accept
      <3>1. sent' = [sent EXCEPT ![Event.message] = @ + 1] /\ Me.step = "send"
        BY <2>1 DEF Accept
      <3>2. PICK e : e = Event.message
        OBVIOUS
      <3>3. sent' = [sent EXCEPT ![e] = sent[e] + 1]
        BY <3>1, <3>2
      <3>4. \A m \in Messages : sent'[m] = IF m = e THEN sent[m] + 1 ELSE sent[m]
        BY <1>0, <3>3
      <3>5. sent' \in [Messages -> Nat]
        <4>1. \A m \in Messages : sent'[m] \in Nat
          BY <1>0, <3>4
        <4>2. QED  BY <1>0, <3>3, <4>1
      <3>6. QED  BY <2>1, <3>1, <3>2, <3>4, <3>5
    <2>2. CASE ~Accept
      BY <1>0, <1>2, <2>2 DEF Core, TurnQueued, FinishDrained, TurnStart, Requeue, Bind, Release,
             ReleaseOrphan, ClaimAction, ActCancel, ActSteer, StopQueues, StopSession, ThreadDeleted,
             Reject, ghosts
    <2>3. QED  BY <2>1, <2>2
  <1>3. QED  BY <1>1, <1>2, Groups

LEMMA ShapesStep == ASSUME IInv, [Next]_vars PROVE Shapes'
  <1>1. /\ log' \in Seq(Entries) /\ handled' \in 0 .. Len(log')
        /\ drain' \in [Fibers -> Drains] /\ draining' \subseteq Threads
        /\ fate' \in [Messages -> Fates] /\ sent' \in [Messages -> Nat]
    BY LogGrows, HandledStep, DrainMoves, GuardMoves, FateMoves, SentMoves
  <1>2. DOMAIN hand' = {"source", "terminal"} /\ DOMAIN Me' = {"step", "mine", "turn", "retry"}
    <2>1. DOMAIN hand = {"source", "terminal"} /\ DOMAIN Me = {"step", "mine", "turn", "retry"}
      BY DEF IInv, Shapes
    <2>2. QED  BY <2>1, OuterFrame, DrainFrame, CoreHands, AsideHands, CrashHands, Groups
  <1>3. QED  BY <1>1, <1>2 DEF Shapes

\* What the source has in hand at a step of a start is one of its messages.
LEMMA InHandMessage ==
    ASSUME IInv, handled < Len(log), Event.kind \in TextKinds \cup {"cancel", "steer"}
    PROVE  Event.message \in Messages /\ handled + 1 \in 1 .. Len(log)
  <1>1. handled + 1 \in 1 .. Len(log)
    BY Typed
  <1>2. QED  BY <1>1, EntryOf DEF Event, Message

LEMMA BoundSentStep == ASSUME IInv, [Next]_vars PROVE BoundSent'
  <1>1. SUFFICES ASSUME Me'.step = "bind"  PROVE sent'[Event'.message] > 0
    BY DEF BoundSent
  <1>2. CASE Me.step = "bind" /\ handled' = handled
    <2>1. Event.kind = "start" /\ handled < Len(log) /\ Event' = Event /\ sent[Event.message] > 0
      BY <1>2, HandledStep DEF IInv, InHand, BoundSent
    <2>2. Event.message \in Messages
      BY <2>1, InHandMessage DEF TextKinds
    <2>3. sent[Event.message] \in Nat /\ sent'[Event.message] \in {sent[Event.message], sent[Event.message] + 1}
      BY <2>2, SentMoves DEF IInv, Shapes
    <2>4. QED  BY <2>1, <2>3
  <1>3. CASE Accept
    <2>1. /\ Event.kind = "start" /\ handled < Len(log) /\ UNCHANGED <<handled, log>>
          /\ sent' = [sent EXCEPT ![Event.message] = @ + 1]
      BY <1>3 DEF Accept, IInv, InHand, store
    <2>2. Event.message \in Messages /\ Event' = Event
      BY <2>1, InHandMessage DEF TextKinds, Event
    <2>3. QED  BY <2>1, <2>2 DEF IInv, Shapes
  <1>4. CASE Outer \/ DrainSteps
    BY <1>1, <1>2, <1>4, OuterFrame, DrainFrame
  <1>5. CASE Core /\ ~Accept
    <2> USE HandMoves
    <2>1. CASE TurnStart
      BY <1>1, <2>1, StartHands
    <2>2. CASE TurnQueued \/ Requeue \/ Bind \/ Reject \/ ReleaseOrphan
      <3>1. To("finish") \/ To("release")
        BY <2>2 DEF TurnQueued, Requeue, Bind, Reject, ReleaseOrphan
      <3>2. QED  BY <1>1, <3>1
    <2>3. CASE \/ FinishDrained \/ Release \/ ActCancel \/ ActSteer \/ StopSession \/ ThreadDeleted
               \/ ClaimAction \/ StopQueues
      <3>1. Finish \/ \E step \in {"retry", "orphan", "act", "refuse", "stop"} : To(step)
        BY <2>3 DEF FinishDrained, Release, Settle, ActCancel, ActSteer, StopSession, ThreadDeleted,
                    ClaimAction, StopQueues
      <3>2. QED  BY <1>1, <3>1
    <2>4. QED  BY <1>5, <2>1, <2>2, <2>3 DEF Core
  <1>6. CASE Aside
    BY <1>1, <1>6, AsideHands
  <1>7. CASE Crash
    BY <1>1, <1>7, CrashHands
  <1>8. QED  BY <1>3, <1>4, <1>5, <1>6, <1>7, Groups

\* The source is about to send a message only after it has found it still wanted.
LEMMA SendStarts ==
    ASSUME IInv, Core, Me'.step = "send"
    PROVE  /\ Me.step = "idle" /\ ~Lost(Event.message) /\ UNCHANGED <<fate, handled, log>>
           /\ Event.kind = "start" /\ handled < Len(log)
  <1> USE HandMoves
  <1>1. CASE TurnStart
    BY <1>1, StartHands
  <1>2. CASE TurnQueued \/ Requeue \/ Accept \/ Bind \/ Reject \/ ReleaseOrphan
    <2>1. To("finish") \/ To("release") \/ To("bind")
      BY <1>2 DEF TurnQueued, Requeue, Accept, Bind, Reject, ReleaseOrphan
    <2>2. QED  BY <2>1
  <1>3. CASE \/ FinishDrained \/ Release \/ ActCancel \/ ActSteer \/ StopSession \/ ThreadDeleted
             \/ ClaimAction \/ StopQueues
    <2>1. Finish \/ \E step \in {"retry", "orphan", "act", "refuse", "stop"} : To(step)
      BY <1>3 DEF FinishDrained, Release, Settle, ActCancel, ActSteer, StopSession, ThreadDeleted,
                  ClaimAction, StopQueues
    <2>2. QED  BY <2>1
  <1>4. QED  BY <1>1, <1>2, <1>3 DEF Core

\* A cancellation or a steer in hand is acted upon, or given up on record.
LEMMA ActingMoves ==
    ASSUME IInv, [Next]_vars, Me.step \in {"act", "refuse"}
    PROVE  \/ Me'.step = Me.step /\ Event' = Event
           \/ ActCancel \/ ActSteer
           \/ /\ SteerRefused \/ ActionDies \/ Crash
              /\ fate'[Event.message] \in {"refused", "interrupted"} /\ Me'.step = "idle"
  <1>0. handled < Len(log) /\ Event.kind \in {"cancel", "steer"}
    BY DEF IInv, InHand
  <1>a. Event.message \in Messages /\ fate \in [Messages -> Fates]
    BY <1>0, InHandMessage DEF IInv, Shapes
  <1>1. CASE Outer \/ DrainSteps
    <2>1. Me' = Me /\ handled' = handled
      BY <1>1, OuterFrame, DrainFrame
    <2>2. QED  BY <1>0, <2>1, HandledStep
  <1>2. CASE Core
    <2>1. ~\/ TurnQueued \/ TurnStart \/ ClaimAction \/ StopQueues \/ ThreadDeleted
      BY DEF TurnQueued, TurnStart, ClaimAction, StopQueues, ThreadDeleted, Ready, Permitted
    <2>2. ~(\/ FinishDrained \/ Requeue \/ Accept \/ Reject \/ Bind \/ Release \/ ReleaseOrphan
            \/ StopSession)
      BY DEF FinishDrained, Requeue, Accept, Reject, Bind, Release, ReleaseOrphan, StopSession
    <2>3. QED  BY <1>2, <2>1, <2>2 DEF Core
  <1>3. CASE Aside
    <2>1. ~\/ SkipAction \/ RecoverThread \/ SkipStart \/ TurnContinued \/ ContinuationFails
      BY DEF SkipAction, RecoverThread, SkipStart, TurnContinued, ContinuationFails, Ready, Permitted
    <2>2. ~(StoreFails \/ RetryReturns)
      BY DEF StoreFails, RetryReturns
    <2>3. CASE SteerRefused \/ ActionDies
      <3>1. \E why \in {"refused", "interrupted"} : fate' = [fate EXCEPT ![Event.message] = why]
        BY <2>3 DEF SteerRefused, ActionDies, ActionFails
      <3>2. Me'.step = "idle"
        BY <2>3, HandMoves DEF SteerRefused, ActionDies, ActionFails
      <3>3. QED  BY <1>a, <2>3, <3>1, <3>2
    <2>4. QED  BY <1>3, <2>1, <2>2, <2>3 DEF Aside
  <1>4. CASE Crash
    <2>1. Claimed
      BY <1>0 DEF Claimed
    <2>2. fate' = [fate EXCEPT ![Event.message] = "interrupted"]
      BY <1>0, <1>4, <2>1 DEF Crash
    <2>3. QED  BY <1>a, <1>4, <2>2, CrashHands
  <1>5. QED  BY <1>1, <1>2, <1>3, <1>4, Groups

LEMMA WithdrawnStep == ASSUME IInv, [Next]_vars PROVE Withdrawn'
  <1>0. Withdrawn /\ ThreadOf \in [Messages -> Threads]
    BY PromotionAssumption DEF IInv
  <1>1. SUFFICES ASSUME NEW m \in Messages
                 PROVE  /\ fate'[m] = "cancelled" =>
                             \/ Lost(m)'
                             \/ Me'.step = "act" /\ Event'.kind = "cancel" /\ Event'.message = m
                        /\ fate'[m] = "deleted" => ThreadOf[m] \in Deleted'
                        /\ Me'.step = "send" /\ Event'.message = m
                             => fate'[m] \notin {"cancelled", "deleted"}
    BY DEF Withdrawn
  <1>2. ASSUME fate'[m] = "cancelled"
        PROVE  \/ Lost(m)'
               \/ Me'.step = "act" /\ Event'.kind = "cancel" /\ Event'.message = m
    <2>1. CASE fate[m] = "cancelled" /\ Lost(m)
      BY <2>1, Lasting
    <2>2. CASE fate[m] = "cancelled" /\ ~Lost(m)
      <3>1. Me.step = "act" /\ Event.kind = "cancel" /\ Event.message = m
        BY <1>0, <2>2 DEF Withdrawn
      <3>2. CASE ActCancel
        BY <3>1, <3>2, Lasting DEF ActCancel, Lost
      <3>3. CASE ~ActCancel
        <4>1. ~ActSteer
          BY <3>1 DEF ActSteer
        <4>2. QED  BY <1>2, <3>1, <3>3, <4>1, ActingMoves
      <3>4. QED  BY <3>2, <3>3
    <2>3. CASE fate[m] # "cancelled"
      <3>1. /\ ClaimAction /\ Event.kind = "cancel" /\ Event.message = m /\ To("act")
            /\ UNCHANGED <<handled, log>>
        BY <1>2, <2>3, FateMoves DEF OnRecord, Silent
      <3>2. Me'.step = "act" /\ Event' = Event
        BY <3>1, HandMoves DEF Event
      <3>3. QED  BY <3>1, <3>2
    <2>4. QED  BY <2>1, <2>2, <2>3
  <1>3. ASSUME fate'[m] = "deleted"  PROVE ThreadOf[m] \in Deleted'
    <2>1. CASE fate[m] = "deleted"
      BY <1>0, <2>1, Lasting DEF Withdrawn
    <2>2. CASE fate[m] # "deleted"
      <3>1. ThreadDeleted /\ Event.thread = ThreadOf[m]
        BY <1>3, <2>2, FateMoves DEF OnRecord, Silent
      <3>2. handled + 1 \in 1 .. Len(log) /\ log[handled + 1].kind = "deleted"
            /\ log[handled + 1].thread = ThreadOf[m]
        BY <3>1, Typed DEF ThreadDeleted, Ready, Event
      <3>3. ThreadOf[m] \in Deleted
        BY <1>0, <3>2 DEF Deleted
      <3>4. QED  BY <3>3, Lasting
    <2>3. QED  BY <2>1, <2>2
  <1>4. ASSUME Me'.step = "send", Event'.message = m
        PROVE  fate'[m] \notin {"cancelled", "deleted"}
    <2>1. CASE Outer \/ DrainSteps
      <3>1. Me' = Me /\ handled' = handled /\ fate' = fate
        BY <2>1, OuterFrame, DrainFrame DEF ghosts
      <3>2. Event' = Event
        BY <1>4, <3>1, HandledStep DEF IInv, InHand
      <3>3. QED  BY <1>0, <1>4, <3>1, <3>2 DEF Withdrawn
    <2>2. CASE Core
      <3>1. /\ Me.step = "idle" /\ ~Lost(Event.message) /\ UNCHANGED <<fate, handled, log>>
        BY <1>4, <2>2, SendStarts
      <3>2. Event.message = m
        BY <1>4, <3>1 DEF Event
      <3>3. QED  BY <1>0, <3>1, <3>2 DEF Withdrawn, Lost
    <2>3. CASE Aside \/ Crash
      BY <1>4, <2>3, AsideHands, CrashHands
    <2>4. QED  BY <2>1, <2>2, <2>3, Groups
  <1>5. QED  BY <1>2, <1>3, <1>4

-----------------------------------------------------------------------------
(* The rows *)

\* The source withdraws messages or the threads they are in.
Withdrawing ==
    /\ handled < Len(log) /\ Event.kind \in {"cancel", "steer", "stop", "deleted"}
    /\ ClaimAction \/ StopQueues \/ ThreadDeleted

\* A row is made for the text in hand, changes hands, is promoted by the drain that holds
\* it, or is cancelled.
RowMove(n) ==
    \/ state'[n] = state[n]
    \/ /\ state[n] = "none" /\ state'[n] = "queued" /\ n = handled + 1
       /\ Waiting(Message(n)) = {} /\ (TurnQueued \/ Requeue)
    \/ /\ state[n] \in Active /\ state'[n] \in Active
       /\ state'[n] = "queued" => \E f \in Fibers : \/ Claim(f) /\ drain'[f].at = "dispatch"
                                                    \/ GiveBack(f) /\ drain[f].row = n
    \/ /\ state[n] = "promoting" /\ state'[n] = "promoted"
       /\ \E f \in Fibers : drain[f].at = "mark" /\ drain[f].row = n
    \/ /\ state[n] \in Active /\ state'[n] = "cancelled"
       /\ ThreadAt(n) \in Deleted \/ Withdrawing

LEMMA RowMoves ==
    ASSUME IInv, [Next]_vars
    PROVE  state' \in [Numbers -> RowStates] /\ \A n \in Numbers : RowMove(n)
  <1>0. state \in [Numbers -> RowStates]
    BY Typed
  <1>a. UNCHANGED state => state' \in [Numbers -> RowStates] /\ \A n \in Numbers : RowMove(n)
    BY <1>0 DEF RowMove
  <1>b. ASSUME NEW set, state' = Cancels(set),
               \A n \in set : n \in Numbers => /\ state[n] \in Active
                                               /\ ThreadAt(n) \in Deleted \/ Withdrawing
        PROVE  state' \in [Numbers -> RowStates] /\ \A n \in Numbers : RowMove(n)
    <2>1. state' = [n \in Numbers |-> IF n \in set THEN "cancelled" ELSE state[n]]
      BY <1>b DEF Cancels
    <2>2. state' \in [Numbers -> RowStates]
      BY <1>0, <2>1 DEF RowStates
    <2>3. \A n \in Numbers : IF n \in set THEN state'[n] = "cancelled" ELSE state'[n] = state[n]
      BY <2>1
    <2>4. QED  BY <1>b, <2>2, <2>3 DEF RowMove
  <1>c. ASSUME state' = Enqueued(handled + 1), TurnQueued \/ Requeue
        PROVE  state' \in [Numbers -> RowStates] /\ \A n \in Numbers : RowMove(n)
    <2>1. PICK e : e = handled + 1
      OBVIOUS
    <2>2. state' = [state EXCEPT ![e] = IF state[e] = "none" /\ Waiting(Message(e)) = {}
                                        THEN "queued" ELSE state[e]]
      BY <1>c, <2>1 DEF Enqueued
    <2>3. CASE state[e] = "none" /\ Waiting(Message(e)) = {}
      <3>1. state' = [state EXCEPT ![e] = "queued"]
        BY <2>2, <2>3
      <3>2. QED  BY <1>0, <1>c, <2>1, <2>3, <3>1 DEF RowMove, RowStates, Active
    <2>4. CASE ~(state[e] = "none" /\ Waiting(Message(e)) = {})
      <3>1. state' = [state EXCEPT ![e] = state[e]]
        BY <2>2, <2>4
      <3>2. state' = state
        BY <1>0, <3>1
      <3>3. QED  BY <1>a, <3>2
    <2>5. QED  BY <2>3, <2>4
  <1>1. CASE Outer
    BY <1>a, <1>1, OuterFrame DEF rows
  <1>2. CASE DrainSteps
    <2>1. PICK f \in Fibers : Draining(f) \/ Fault(f)
      BY <1>2 DEF DrainSteps
    <2>2. CASE Look(f)
      <3>1. state' = state \/ \E t \in Deleted : state' = Cancels(RowsOf(t))
        BY <2>2 DEF Look
      <3>2. CASE \E t \in Deleted : state' = Cancels(RowsOf(t))
        <4>1. PICK t \in Deleted : state' = Cancels(RowsOf(t))
          BY <3>2
        <4>2. \A n \in RowsOf(t) : state[n] \in Active /\ ThreadAt(n) \in Deleted
          BY DEF RowsOf
        <4>3. QED  BY <1>b, <4>1, <4>2
      <3>3. QED  BY <1>a, <3>1, <3>2
    <2>3. CASE Claim(f)
      <3>1. CASE Rested(drain'[f]) /\ UNCHANGED <<rows, draining>>
        BY <1>a, <3>1 DEF rows
      <3>2. CASE ~(Rested(drain'[f]) /\ UNCHANGED <<rows, draining>>)
        <4>1. PICK t \in Threads, late \in BOOLEAN, n \in Numbers :
                LET back == Reclaimed(t, late)
                    free == back \cup {o \in RowsOf(t) : state[o] = "queued"}
                IN  /\ t \notin draining /\ draining' = draining \cup {t}
                    /\ back \subseteq RowsOf(t) /\ n \in free /\ n \in RowsOf(t)
                    /\ n \in 1 .. Len(log) /\ ThreadAt(n) = t
                    /\ log[n].mode = "steer" \/ \A o \in free : n <= o
                    /\ state' = [o \in Numbers |-> IF o = n THEN "promoting"
                                                   ELSE IF o \in back THEN "queued" ELSE state[o]]
                    /\ drain'[f].at = "dispatch" /\ drain'[f].row = n /\ drain'[f].thread = t
          BY <2>3, <3>2, ClaimMoves, Zenon
        <4>2. \A o \in RowsOf(t) : state[o] \in Active
          BY DEF RowsOf
        <4>3. PICK back \in SUBSET RowsOf(t) :
                state' = [o \in Numbers |-> IF o = n THEN "promoting"
                                            ELSE IF o \in back THEN "queued" ELSE state[o]]
          BY <4>1
        <4>4. state' \in [Numbers -> RowStates]
          BY <1>0, <4>3 DEF RowStates, Active
        <4>5. drain'[f].at = "dispatch" /\ n \in RowsOf(t)
          BY <4>1
        <4>6. \A o \in Numbers : IF o = n THEN state'[o] = "promoting"
                                 ELSE IF o \in back THEN state'[o] = "queued" ELSE state'[o] = state[o]
          BY <4>3
        <4>7. QED  BY <2>3, <4>2, <4>4, <4>5, <4>6 DEF RowMove, Active
      <3>3. QED  BY <3>1, <3>2
    <2>4. CASE Dispatch(f) \/ Fault(f)
      BY <1>a, <2>4 DEF Dispatch, Fault, store, rows
    <2>5. CASE Mark(f)
      <3>1. CASE state[drain[f].row] = "promoting"
        <4>1. state' = [state EXCEPT ![drain[f].row] = "promoted"] /\ drain[f].at = "mark"
          BY <2>5, <3>1 DEF Mark
        <4>2. QED  BY <1>0, <3>1, <4>1 DEF RowMove, RowStates
      <3>2. CASE state[drain[f].row] # "promoting"
        BY <1>a, <2>5, <3>2 DEF Mark
      <3>3. QED  BY <3>1, <3>2
    <2>6. CASE GiveBack(f)
      <3>1. CASE state[drain[f].row] = "promoting"
        <4>1. state' = [state EXCEPT ![drain[f].row] = "queued"]
          BY <2>6, <3>1 DEF GiveBack
        <4>2. QED  BY <1>0, <2>6, <3>1, <4>1 DEF RowMove, RowStates, Active
      <3>2. CASE state[drain[f].row] # "promoting"
        <4>1. state' = state
          BY <1>0, <2>6, <3>2 DEF GiveBack
        <4>2. QED  BY <1>a, <4>1
      <3>3. QED  BY <3>1, <3>2
    <2>7. QED  BY <2>1, <2>2, <2>3, <2>4, <2>5, <2>6 DEF Draining
  <1>3. CASE Core
    <2>1. CASE TurnQueued \/ Requeue
      BY <1>c, <2>1 DEF TurnQueued, Requeue
    <2>2. CASE ClaimAction
      <3>1. state' = Cancels(Waiting(Event.message)) /\ Withdrawing
        BY <2>2 DEF ClaimAction, Ready, Permitted, Withdrawing
      <3>2. \A n \in Waiting(Event.message) : state[n] \in Active
        BY DEF Waiting
      <3>3. QED  BY <1>b, <3>1, <3>2
    <2>3. CASE StopQueues
      <3>1. state' = state \/ state' = Cancels(UNION {RowsOf(t) : t \in Stopped})
        BY <2>3 DEF StopQueues
      <3>2. \A n \in UNION {RowsOf(t) : t \in Stopped} : state[n] \in Active
        BY DEF RowsOf
      <3>3. Withdrawing
        BY <2>3 DEF StopQueues, Ready, Permitted, Withdrawing
      <3>4. QED  BY <1>a, <1>b, <3>1, <3>2, <3>3
    <2>4. CASE ThreadDeleted
      <3>1. state' = Cancels(RowsOf(Event.thread)) /\ Withdrawing
        BY <2>4 DEF ThreadDeleted, Ready, Withdrawing
      <3>2. \A n \in RowsOf(Event.thread) : state[n] \in Active
        BY DEF RowsOf
      <3>3. QED  BY <1>b, <3>1, <3>2
    <2>5. CASE ~(TurnQueued \/ Requeue \/ ClaimAction \/ StopQueues \/ ThreadDeleted)
      BY <1>a, <1>3, <2>5 DEF Core, FinishDrained, TurnStart, Accept, Bind, Release, ReleaseOrphan,
                              ActCancel, ActSteer, StopSession, Reject, store, rows
    <2>6. QED  BY <2>1, <2>2, <2>3, <2>4, <2>5
  <1>4. CASE Crash
    <2>1. state' = [n \in Numbers |-> IF state[n] = "promoting" THEN "orphaned" ELSE state[n]]
      BY <1>4 DEF Crash
    <2>2. QED  BY <1>0, <2>1 DEF RowMove, RowStates, Active
  <1>5. CASE Aside
    BY <1>a, <1>5, AsideFrame DEF rows
  <1>6. QED  BY <1>1, <1>2, <1>3, <1>4, <1>5, Groups

\* The rows that wait for a message: those that waited, or the one made for its text.
LEMMA WaitingMoves ==
    ASSUME IInv, [Next]_vars, Fits', NEW m, NEW n \in Waiting(m)'
    PROVE  /\ n \in 1 .. Len(log) /\ n \in Numbers /\ Message(n)' = Message(n) /\ Message(n) = m
           /\ \/ n \in Waiting(m)
              \/ /\ Waiting(m) = {} /\ n = handled + 1 /\ state[n] = "none"
                 /\ TurnQueued \/ Requeue
  <1>1. n \in 1 .. Len(log') /\ state'[n] \in Active /\ log'[n].message = m
    BY DEF Waiting, Message
  <1>2. n \in Numbers
    BY <1>1, LogGrows, Typed DEF Fits, Numbers
  <1>3. RowMove(n)
    BY <1>2, RowMoves
  <1>4. n \in 1 .. Len(log)
    <2>1. CASE state[n] = "none"
      <3>1. n = handled + 1 /\ (TurnQueued \/ Requeue)
        BY <1>1, <1>3, <2>1 DEF RowMove, Active
      <3>2. handled < Len(log)
        BY <3>1, CoreHands DEF Core
      <3>3. QED  BY <3>1, <3>2, Typed
    <2>2. CASE state[n] # "none"
      BY <1>2, <2>2, Typed
    <2>3. QED  BY <2>1, <2>2
  <1>5. log'[n] = log[n]
    BY <1>4, LogGrows
  <1>6. state[n] \in Active \/ (/\ state[n] = "none" /\ n = handled + 1
                                /\ Waiting(Message(n)) = {} /\ (TurnQueued \/ Requeue))
    BY <1>1, <1>3 DEF RowMove, Active
  <1>7. QED  BY <1>1, <1>2, <1>4, <1>5, <1>6 DEF Waiting, Message

LEMMA OneWaitingStep == ASSUME IInv, [Next]_vars, Fits' PROVE OneWaiting'
  <1>1. SUFFICES ASSUME NEW m \in Messages, NEW a \in Waiting(m)', NEW b \in Waiting(m)'
                 PROVE  a = b
    BY DEF OneWaiting
  <1>2. (a \in Waiting(m) \/ (Waiting(m) = {} /\ a = handled + 1))
        /\ (b \in Waiting(m) \/ (Waiting(m) = {} /\ b = handled + 1))
    BY WaitingMoves
  <1>3. QED  BY <1>2 DEF IInv, OneWaiting

\* A start in hand at one of its last steps goes on to another, or a crash drops it.
LEMMA LastSteps ==
    ASSUME IInv, [Next]_vars, handled' = handled, handled < Len(log),
           Me.step \in {"bind"} \cup Failing
    PROVE  \/ Me' = Me
           \/ /\ Me.step # "bind" /\ Me'.retry = Me.retry
              /\ Me'.step \in Failing /\ (Me'.step = "retry" => Me.retry)
           \/ Me.step = "bind" /\ Me'.step = "release" /\ Me'.retry = Me.retry
           \/ StoreFails /\ Me.step = "bind" /\ Me'.step = "release" /\ Me'.retry = TRUE
           \/ Crash /\ (Me.step = "retry" \/ Event.kind \notin {"start", "recover"})
  <1>0. handled \in Nat /\ Me.step # "idle"
    BY Typed DEF Failing
  <1>1. CASE Outer \/ DrainSteps
    BY <1>1, OuterFrame, DrainFrame
  <1>2. CASE Core
    <2>1. ~(TurnQueued \/ TurnStart \/ ClaimAction \/ StopQueues \/ ThreadDeleted)
      BY <1>0 DEF TurnQueued, TurnStart, ClaimAction, StopQueues, ThreadDeleted, Ready, Permitted
    <2>2. ~(Requeue \/ Accept \/ Reject \/ ActCancel \/ ActSteer \/ StopSession)
      BY DEF Requeue, Accept, Reject, ActCancel, ActSteer, StopSession, Failing
    <2>3. \/ Bind /\ Me.step = "bind" /\ To("release")
          \/ Release /\ Me.step = "release" /\ To("orphan")
          \/ ReleaseOrphan /\ Me.step = "orphan" /\ To("finish")
          \/ Me.retry /\ Me.step \in {"release", "finish"} /\ To("retry")
          \/ Finish
      BY <1>2, <2>1, <2>2 DEF Core, Bind, Release, ReleaseOrphan, FinishDrained, Settle
    <2>4. ~Finish
      BY <1>0 DEF Finish
    <2>5. QED  BY <2>3, <2>4, HandMoves DEF Failing
  <1>3. CASE Aside
    <2>1. handled' # handled + 1
      BY <1>0
    <2>2. QED  BY <1>0, <1>3, <2>1, AsideHands DEF Failing
  <1>4. CASE Crash
    <2>1. ~Claimed
      BY <1>0, <1>4, CrashHands
    <2>2. QED  BY <1>0, <1>4, <2>1 DEF Claimed
  <1>5. QED  BY <1>1, <1>2, <1>3, <1>4, Groups

\* A start that has had its effect stays so while it is in hand, or its message is one that
\* a crash may have started again.
LEMMA SpentStays ==
    ASSUME IInv, [Next]_vars, handled' = handled, Spent(handled + 1), Event.kind = "start"
    PROVE  \/ Spent(handled + 1)'
           \/ sent[Event.message] > 0 /\ Event.message \in raced'
  <1>1. /\ Me.step \in {"bind"} \cup Failing /\ handled < Len(log) /\ handled \in Nat
        /\ Me.retry => sent[Event.message] > 0
        /\ Me.step = "retry" => Me.retry
        /\ Me.step = "bind" => sent[Event.message] > 0
        /\ Event' = Event
    <2>1. Me.step \in {"bind"} \cup Failing /\ (Me.retry => sent[Event.message] > 0)
      BY DEF Spent, Message, Event
    <2>2. handled < Len(log) /\ (Me.step = "retry" => Me.retry)
          /\ (Me.step = "bind" => sent[Event.message] > 0)
      BY <2>1 DEF IInv, InHand, BoundSent, Failing
    <2>3. QED  BY <2>1, <2>2, Typed, HandledStep
  <1>2. sent'[Event.message] \in Nat /\ sent[Event.message] \in Nat
        /\ sent'[Event.message] >= sent[Event.message]
    <2>1. Event.message \in Messages
      BY <1>1, InHandMessage DEF TextKinds
    <2>2. PICK e \in Messages : e = Event.message
      BY <2>1
    <2>3. sent[e] \in Nat /\ (sent'[e] = sent[e] \/ sent'[e] = sent[e] + 1)
      BY SentMoves DEF IInv, Shapes
    <2>4. QED  BY <2>2, <2>3
  <1>3. ASSUME Me'.step \in {"bind"} \cup Failing, Me'.retry => sent'[Event.message] > 0
        PROVE  Spent(handled + 1)'
    <2>1. Message(handled + 1)' = Event.message
      BY <1>1 DEF Message, Event
    <2>2. QED  BY <1>3, <2>1 DEF Spent
  <1>4. CASE Crash /\ Me.step = "retry"
    BY <1>1, <1>4, CrashHands
  <1>5. CASE ~(Crash /\ Me.step = "retry")
    <2>1. \/ Me' = Me
          \/ Me'.step \in Failing /\ Me'.retry = Me.retry
          \/ Me'.step \in Failing /\ Me.step = "bind"
      BY <1>1, <1>5, LastSteps DEF Failing
    <2>2. QED  BY <1>1, <1>2, <1>3, <2>1
  <1>6. QED  BY <1>4, <1>5

\* So does one that may have gone back to the queue.
LEMMA GoneBackStays ==
    ASSUME IInv, [Next]_vars, handled' = handled, handled < Len(log), GoneBack, Event.kind = "start"
    PROVE  GoneBack'
  <1>1. Me.step \in {"release", "orphan", "finish"} /\ ~Me.retry
    BY DEF GoneBack
  <1>2. \/ Me' = Me
        \/ Me'.step \in Failing /\ Me'.retry = Me.retry /\ (Me'.step = "retry" => Me.retry)
    BY <1>1, LastSteps DEF Failing
  <1>3. QED  BY <1>1, <1>2 DEF GoneBack, Failing

\* A row stays a row, and is made for the event in hand only.
LEMMA RowsReachedStep ==
    ASSUME IInv, [Next]_vars, Fits'
    PROVE  /\ RowsReached'
           /\ \A n \in Numbers : state'[n] # "none" => n <= Len(log') /\ log'[n].kind \in TextKinds
  <1>1. SUFFICES ASSUME NEW n \in Numbers, state'[n] # "none"
                 PROVE  /\ n <= handled' + 1 /\ n <= Len(log') /\ log'[n].kind \in TextKinds
                        /\ n = handled' + 1 /\ log'[n].kind = "start" => GoneBack'
                        /\ n > handled' /\ state'[n] = "cancelled" => ThreadAt(n)' \in Deleted'
    BY DEF RowsReached
  <1>2. RowMove(n) /\ RowsReached /\ handled \in Nat /\ handled' \in {handled, handled + 1}
        /\ Len(log) \in Nat /\ Len(log') \in Nat /\ n \in Nat
    BY RowMoves, HandledStep, LogGrows, Typed DEF IInv, Numbers
  <1>3. CASE state[n] = "none"
    <2>1. /\ n = handled + 1 /\ (TurnQueued \/ Requeue) /\ state'[n] = "queued"
      BY <1>1, <1>2, <1>3 DEF RowMove, Active
    <2>2. handled < Len(log) /\ UNCHANGED <<log, handled>>
      BY <2>1, CoreHands DEF Core, TurnQueued, Requeue
    <2>3. Event.kind \in TextKinds /\ (Event.kind = "start" => GoneBack')
      <3>1. CASE TurnQueued
        BY <3>1 DEF TurnQueued, Ready, TextKinds
      <3>2. CASE Requeue
        <4>1. Me.step = "requeue" /\ To("release")
          BY <3>2 DEF Requeue
        <4>2. ~Me.retry /\ Event.kind = "start"
          BY <4>1 DEF IInv, InHand, Failing
        <4>3. QED  BY <4>1, <4>2, HandMoves DEF GoneBack, TextKinds
      <3>3. QED  BY <2>1, <3>1, <3>2
    <2>4. QED  BY <1>2, <2>1, <2>2, <2>3 DEF Event
  <1>4. CASE state[n] # "none"
    <2>1. n \in 1 .. Len(log) /\ n <= handled + 1 /\ log[n].kind \in TextKinds
      BY <1>4, Typed
    <2>2. log'[n] = log[n] /\ n <= Len(log')
      BY <1>2, <2>1, LogGrows
    <2>3. ASSUME n = handled' + 1, log'[n].kind = "start"  PROVE GoneBack'
      <3>1. handled' = handled /\ n = handled + 1
        <4>1. n = handled' + 1
          BY <2>3
        <4>2. /\ handled' \in Nat /\ handled \in Nat /\ n \in Nat
              /\ handled' \in {handled, handled + 1}
          BY <1>2
        <4>3. n <= handled + 1
          BY <2>1
        <4>4. \A a, b, c \in Nat : c \in {b, b + 1} /\ a <= b + 1 /\ a = c + 1 => c = b /\ a = b + 1
          OBVIOUS
        <4>5. QED  BY <4>1, <4>2, <4>3, <4>4
      <3>2. GoneBack
        BY <1>2, <1>4, <2>2, <2>3, <3>1 DEF RowsReached
      <3>3. Event.kind = "start" /\ handled < Len(log)
        BY <1>2, <2>1, <2>2, <2>3, <3>1 DEF Event
      <3>4. QED  BY <3>1, <3>2, <3>3, GoneBackStays
    <2>4. ASSUME n > handled', state'[n] = "cancelled"  PROVE ThreadAt(n)' \in Deleted'
      <3>1. n = handled + 1 /\ handled' = handled
        BY <1>2, <2>1, <2>4
      <3>2. ThreadAt(n) \in Deleted
        <4>1. CASE state[n] = "cancelled"
          BY <1>2, <3>1, <4>1 DEF RowsReached
        <4>2. CASE state[n] # "cancelled"
          <5>1. ThreadAt(n) \in Deleted \/ Withdrawing
            BY <1>2, <2>4, <4>2 DEF RowMove, Active
          <5>2. ~Withdrawing
            BY <2>1, <3>1 DEF Withdrawing, Event, TextKinds
          <5>3. QED  BY <5>1, <5>2
        <4>3. QED  BY <4>1, <4>2
      <3>3. QED  BY <2>2, <3>2, Lasting DEF ThreadAt, Message
    <2>5. QED  BY <1>2, <2>1, <2>2, <2>3, <2>4
  <1>5. QED  BY <1>3, <1>4

LEMMA RowsStay ==
    ASSUME IInv, [Next]_vars, NEW n \in Numbers, state[n] # "none"
    PROVE  state'[n] # "none" /\ n \in 1 .. Len(log) /\ n \in 1 .. Len(log')
           /\ log'[n] = log[n] /\ Message(n)' = Message(n) /\ ThreadAt(n)' = ThreadAt(n)
  <1>1. RowMove(n) /\ n \in 1 .. Len(log)
    BY RowMoves, Typed
  <1>2. n \in 1 .. Len(log') /\ log'[n] = log[n]
    BY <1>1, LogGrows
  <1>3. QED  BY <1>1, <1>2 DEF RowMove, Active, Message, ThreadAt

\* Only a dispatch makes a row a dispatched one, and then its start is committed.
LEMMA DispatchedMoves ==
    ASSUME IInv, [Next]_vars
    PROVE  \/ dispatched' = dispatched
           \/ \E f \in Fibers : /\ Dispatch(f) /\ drain[f].row \notin dispatched
                                /\ log' = Append(log, StartOf(drain[f].row))
                                /\ dispatched' = dispatched \cup {drain[f].row}
  <1>1. CASE Outer \/ Core \/ Aside \/ Crash
    BY <1>1, OuterFrame, CoreFrame, AsideFrame, CrashHands
  <1>2. CASE DrainSteps
    <2>1. PICK f \in Fibers : Draining(f) \/ Fault(f)
      BY <1>2 DEF DrainSteps
    <2>2. CASE Dispatch(f)
      BY <2>2, DispatchAppends
    <2>3. CASE ~Dispatch(f)
      BY <2>1, <2>3 DEF Draining, Fault, Look, Claim, Mark, GiveBack, store
    <2>4. QED  BY <2>2, <2>3
  <1>3. QED  BY <1>1, <1>2, Groups

LEMMA StartsFollowStep == ASSUME IInv, [Next]_vars, Fits' PROVE StartsFollow'
  <1>1. SUFFICES ASSUME NEW n \in dispatched'
                 PROVE  /\ state'[n] # "none"
                        /\ \E k \in n + 1 .. Len(log') :
                             log'[k].kind = "start" /\ Message(k)' = Message(n)'
    BY DEF StartsFollow
  <1>2. CASE n \in dispatched
    <2>1. n \in Numbers /\ n \in 1 .. Len(log) /\ n \in Nat
      BY <1>2, Typed DEF Numbers
    <2>2. state[n] # "none"
      BY <1>2 DEF IInv, StartsFollow
    <2>3. PICK k \in n + 1 .. Len(log) : log[k].kind = "start" /\ Message(k) = Message(n)
      BY <1>2 DEF IInv, StartsFollow
    <2>4. k \in 1 .. Len(log)
      BY <2>1, <2>3
    <2>5. Len(log) <= Len(log') /\ Len(log) \in Nat /\ Len(log') \in Nat /\ log'[k] = log[k]
      BY <2>4, LogGrows, Typed
    <2>6. k \in n + 1 .. Len(log')
      BY <2>1, <2>3, <2>5
    <2>7. QED  BY <2>1, <2>2, <2>3, <2>5, <2>6, RowsStay DEF Message
  <1>3. CASE n \notin dispatched
    <2>1. PICK f \in Fibers : Dispatch(f) /\ n = drain[f].row /\ log' = Append(log, StartOf(n))
      BY <1>1, <1>3, DispatchedMoves
    <2>2. n \in 1 .. Len(log) /\ n \in Numbers /\ drain[f].at = "dispatch"
      BY <2>1, DispatchAppends
    <2>3. state[n] # "none"
      BY <2>1, <2>2 DEF IInv, DrainRows, DrainPlaces
    <2>4. /\ Len(log) + 1 \in n + 1 .. Len(log') /\ log'[Len(log) + 1] = StartOf(n)
          /\ log'[n] = log[n]
      BY <2>1, <2>2 DEF IInv, Shapes
    <2>5. StartOf(n).kind = "start" /\ StartOf(n).message = Message(n)
      BY DEF StartOf, Intent
    <2>6. QED  BY <2>2, <2>3, <2>4, <2>5, RowsStay DEF Message
  <1>4. QED  BY <1>2, <1>3

LEMMA DrainRowsStep == ASSUME IInv, [Next]_vars PROVE DrainRows'
  <1>1. SUFFICES ASSUME NEW g \in Fibers
                 PROVE  IF drain'[g].at \in DrainPlaces
                        THEN \E n \in 1 .. Len(log') :
                               /\ drain'[g].row = n /\ state'[n] # "none"
                               /\ ThreadOf[log'[n].message] = drain'[g].thread
                               /\ drain'[g].at = "mark" => n \in dispatched'
                        ELSE drain'[g].row = 0
    BY DEF DrainRows, DrainPlaces, ThreadAt, Message
  <1>2. DrainMove(g) /\ dispatched \subseteq dispatched'
    BY DrainMoves, DispatchedMoves
  <1>3. ASSUME NEW n \in Numbers, state[n] # "none"
        PROVE  n \in 1 .. Len(log') /\ state'[n] # "none" /\ ThreadOf[log'[n].message] = ThreadAt(n)
    BY <1>3, RowsStay DEF ThreadAt, Message
  <1>4. CASE drain[g].at \in DrainPlaces
    <2>1. PICK n \in 1 .. Len(log) : drain[g].row = n
      BY <1>4 DEF IInv, DrainRows
    <2>2. /\ n \in Numbers /\ state[n] # "none" /\ ThreadAt(n) = drain[g].thread
          /\ drain[g].at = "mark" => n \in dispatched
      BY <1>4, <2>1, Typed DEF IInv, DrainRows
    <2>3. /\ n \in 1 .. Len(log') /\ state'[n] # "none"
          /\ ThreadOf[log'[n].message] = drain[g].thread
      BY <1>3, <2>2
    <2>4. ~(Claim(g) /\ drain'[g].at = "dispatch")
      BY <1>4 DEF Claim, DrainPlaces
    <2>5. CASE drain'[g] = drain[g]
      <3>1. /\ drain'[g].row = n /\ drain'[g].thread = drain[g].thread
            /\ drain'[g].at = "mark" => n \in dispatched'
        BY <1>2, <2>1, <2>2, <2>5
      <3>2. QED  BY <1>4, <2>3, <2>5, <3>1
    <2>6. CASE Rested(drain'[g])
      BY <2>6 DEF Rested, DrainPlaces
    <2>7. CASE /\ drain'[g].row = drain[g].row /\ drain'[g].thread = drain[g].thread
               /\ drain'[g].at \in {"mark", "fail"}
               /\ drain'[g].at = "mark" => drain[g].row \in dispatched'
      BY <2>1, <2>3, <2>7 DEF DrainPlaces
    <2>8. QED  BY <1>2, <2>4, <2>5, <2>6, <2>7 DEF DrainMove
  <1>5. CASE drain[g].at \notin DrainPlaces
    <2>1. drain[g].row = 0
      BY <1>5 DEF IInv, DrainRows
    <2>2. CASE drain'[g] = drain[g]
      BY <1>5, <2>1, <2>2
    <2>3. CASE Rested(drain'[g])
      BY <2>3 DEF Rested, DrainPlaces
    <2>4. CASE Claim(g) /\ drain'[g].at = "dispatch"
      <3>1. PICK t \in Threads, n \in Numbers :
              n \in RowsOf(t) /\ drain'[g].row = n /\ drain'[g].thread = t
        BY <2>4, ClaimMoves DEF Rested
      <3>2. state[n] # "none" /\ ThreadAt(n) = t
        BY <3>1 DEF RowsOf, Active
      <3>3. QED  BY <1>3, <2>4, <3>1, <3>2 DEF DrainPlaces
    <2>5. QED  BY <1>2, <1>5, <2>2, <2>3, <2>4 DEF DrainMove, DrainPlaces
  <1>6. QED  BY <1>4, <1>5

\* There is one reservation at most, whoever makes, binds or releases it.
LEMMA OneReservationStep == ASSUME IInv, [Next]_vars PROVE OneReservation'
  <1>0. \A a, b \in reservation : a = b
    BY DEF IInv, OneReservation
  <1>a. reservation' \subseteq reservation => OneReservation'
    BY <1>0 DEF OneReservation
  <1>c. ASSUME NEW turn, BindToTurn(turn)  PROVE OneReservation'
    <2>1. CASE reservation' = {}
      BY <2>1 DEF OneReservation
    <2>2. CASE reservation' # {}
      <3>1. reservation' = {IF r \in Owned THEN [r EXCEPT !.bound = turn, !.early = {}] ELSE r
                              : r \in reservation}
        BY <1>c, <2>2 DEF BindToTurn
      <3>2. SUFFICES ASSUME NEW x \in reservation', NEW y \in reservation'  PROVE x = y
        BY DEF OneReservation
      <3>3. PICK a \in reservation :
              x = IF a \in Owned THEN [a EXCEPT !.bound = turn, !.early = {}] ELSE a
        BY <3>1, Zenon
      <3>4. PICK b \in reservation :
              y = IF b \in Owned THEN [b EXCEPT !.bound = turn, !.early = {}] ELSE b
        BY <3>1, Zenon
      <3>5. a = b
        BY <1>0
      <3>6. QED  BY <3>3, <3>4, <3>5, Zenon
    <2>3. QED  BY <2>1, <2>2
  <1>1. CASE Ask \/ ContinueTurn \/ TurnEnds \/ Sweep \/ UNCHANGED vars
    BY <1>a, <1>1 DEF Ask, ContinueTurn, TurnEnds, Sweep, vars, memory
  <1>2. CASE TerminalEvent
    <2>1. CASE UNCHANGED reservation
      BY <1>a, <2>1
    <2>2. CASE ~UNCHANGED reservation
      <3>1. PICK id : reservation' = {IF r.bound = 0 THEN [r EXCEPT !.early = @ \cup {id}] ELSE r
                                        : r \in {x \in reservation : x.bound # id}}
        BY <1>2, <2>2 DEF TerminalEvent
      <3>2. QED  BY <1>0, <3>1 DEF OneReservation
    <2>3. QED  BY <2>1, <2>2
  <1>3. CASE IdlessTerminal \/ Crash
    BY <1>a, <1>3 DEF IdlessTerminal, Crash
  <1>4. CASE DrainSteps
    <2>1. PICK f \in Fibers : Draining(f) \/ Fault(f)
      BY <1>4 DEF DrainSteps
    <2>2. CASE Dispatch(f)
      BY <2>2 DEF Dispatch, Reserve, OneReservation
    <2>3. CASE ~Dispatch(f)
      BY <1>a, <2>1, <2>3 DEF Draining, Fault, Look, Claim, Mark, GiveBack, memory
    <2>4. QED  BY <2>2, <2>3
  <1>5. CASE Core
    <2>1. CASE Requeue \/ Bind \/ ReleaseOrphan
      <3>1. (\E turn : BindToTurn(turn)) \/ reservation' \subseteq reservation
        BY <2>1 DEF Requeue, Bind, ReleaseOrphan
      <3>2. QED  BY <1>a, <1>c, <3>1
    <2>2. CASE ~(Requeue \/ Bind \/ ReleaseOrphan)
      BY <1>a, <1>5, <2>2 DEF Core, TurnQueued, FinishDrained, TurnStart, Accept, Release,
           ClaimAction, ActCancel, ActSteer, StopQueues, StopSession, ThreadDeleted, Reject, memory
    <2>3. QED  BY <2>1, <2>2
  <1>6. CASE Aside
    BY <1>a, <1>6, AsideFrame DEF memory
  <1>7. QED  BY <1>1, <1>2, <1>3, <1>4, <1>5, <1>6, Groups DEF Outer

LEMMA AtMostOne ==
    ASSUME NEW S, \A a, b \in S : a = b
    PROVE  Cardinality(S) <= 1
  <1>1. CASE S = {}
    BY <1>1, FS_EmptySet
  <1>2. CASE S # {}
    <2>1. PICK x \in S : TRUE
      BY <1>2
    <2>2. S = {x}
      BY <2>1
    <2>3. QED  BY <2>2, FS_Singleton
  <1>3. QED  BY <1>1, <1>2

\* The projected and the provider's turn are numbered by the log.
LEMMA TurnsStep ==
    ASSUME IInv, [Next]_vars
    PROVE  /\ live' \in 0 .. Len(log') /\ barrier' \in 0 .. Len(log')
           /\ replayed' \in 0 .. Len(log') /\ removed' \subseteq Messages
  <1>0. /\ live \in 0 .. Len(log) /\ barrier \in 0 .. Len(log) /\ replayed \in 0 .. Len(log)
        /\ removed \subseteq Messages /\ Len(log) \in Nat
    BY Typed, Zenon DEF IInv, TypeOK
  <1>1. SUFFICES /\ live' \in 0 .. Len(log) /\ barrier' \in 0 .. Len(log)
                 /\ replayed' \in 0 .. Len(log) /\ removed' \subseteq Messages
    <2>1. Len(log) <= Len(log') /\ Len(log') \in Nat
      BY LogGrows
    <2>2. \A x \in 0 .. Len(log) : x \in 0 .. Len(log')
      BY <1>0, <2>1
    <2>3. QED  BY <2>2
  <1>2. CASE Ask \/ ContinueTurn \/ Sweep \/ UNCHANGED vars
    BY <1>0, <1>2 DEF Ask, ContinueTurn, Sweep, vars, store, world, memory
  <1>3. CASE TurnEnds \/ Crash
    <2>1. live' = 0 /\ removed' = removed /\ replayed' \in {replayed, Len(log)}
          /\ barrier' \in {barrier, 0}
      BY <1>3 DEF TurnEnds, Crash, store, memory
    <2>2. QED  BY <1>0, <2>1
  <1>4. CASE TerminalEvent \/ IdlessTerminal
    <2>1. UNCHANGED <<live, removed, replayed>> /\ barrier' \in {barrier, 0}
      BY <1>4 DEF TerminalEvent, IdlessTerminal, store, world
    <2>2. QED  BY <1>0, <2>1
  <1>5. CASE DrainSteps
    BY <1>0, <1>5, DrainFrame
  <1>6. CASE Core
    <2>1. CASE Accept
      <3>1. handled + 1 \in 0 .. Len(log)
        BY <2>1, CoreHands, Typed DEF Core
      <3>2. QED  BY <1>0, <2>1, <3>1 DEF Accept, store, memory
    <2>2. CASE ActCancel
      <3>1. Event.message \in Messages
        <4>1. handled + 1 \in 1 .. Len(log)
          BY <2>2, CoreHands, Typed DEF Core
        <4>2. QED  BY <2>2, <4>1, EntryOf DEF ActCancel, Event, Message
      <3>2. QED  BY <1>0, <2>2, <3>1 DEF ActCancel, store, world, memory
    <2>3. CASE ActSteer
      <3>1. barrier' \in {barrier, live}
        BY <2>3, SteerAppends
      <3>2. QED  BY <1>0, <2>3, <3>1 DEF ActSteer, store, world, memory
    <2>4. CASE \/ TurnQueued \/ FinishDrained \/ TurnStart \/ Requeue \/ Bind \/ Release
               \/ ReleaseOrphan
      BY <1>0, <2>4 DEF TurnQueued, FinishDrained, TurnStart, Requeue, Bind, Release, ReleaseOrphan,
                        store, world, memory
    <2>5. CASE ClaimAction \/ StopQueues \/ StopSession \/ ThreadDeleted \/ Reject
      <3>1. UNCHANGED <<removed, replayed>> /\ live' \in {live, 0} /\ barrier' \in {barrier, 0}
        BY <2>5 DEF ClaimAction, StopQueues, StopSession, ThreadDeleted, Reject, store, world,
                    memory
      <3>2. QED  BY <1>0, <3>1
    <2>6. QED  BY <1>6, <2>1, <2>2, <2>3, <2>4, <2>5 DEF Core
  <1>7. CASE Aside
    <2>1. handled + 1 \in 0 .. Len(log)
      BY <1>7, AsideHands, Typed
    <2>2. UNCHANGED <<removed, replayed, barrier>> /\ live' \in {live, 0, handled + 1}
      BY <1>7, AsideFrame DEF memory
    <2>3. QED  BY <1>0, <2>1, <2>2
  <1>8. QED  BY <1>2, <1>3, <1>4, <1>5, <1>6, <1>7, Groups DEF Outer

\* Only threads are held, and only threads are quarantined.
LEMMA ThreadsStep ==
    ASSUME IInv, [Next]_vars
    PROVE  held' \subseteq Threads /\ quarantined' \subseteq Threads
  <1>0. held \subseteq Threads /\ quarantined \subseteq Threads
    BY Zenon DEF IInv, TypeOK
  <1>a. handled < Len(log) => On \in Threads
    <2>1. SUFFICES ASSUME handled < Len(log)  PROVE On \in Threads
      OBVIOUS
    <2>2. handled + 1 \in 1 .. Len(log)
      BY <2>1, Typed
    <2>3. QED  BY <2>2, EntryOf DEF On, Event, ThreadAt, Message
  <1>b. \A t : Admitted(t) => held' \subseteq held
    BY DEF Admitted
  <1>c. \A m, mode : Placed(m, mode) => held' \subseteq held
    BY <1>b DEF Placed
  <1>1. CASE Outer
    <2>1. held' \subseteq held /\ quarantined' = quarantined
      BY <1>1, <1>b, <1>c DEF Outer, Ask, ContinueTurn, TurnEnds, Sweep, TerminalEvent,
                              IdlessTerminal, vars, world
    <2>2. QED  BY <1>0, <2>1
  <1>2. CASE DrainSteps
    <2>1. quarantined' = quarantined
      BY <1>2, DrainFrame
    <2>2. PICK f \in Fibers : Draining(f) \/ Fault(f)
      BY <1>2 DEF DrainSteps
    <2>3. held' \subseteq held
      BY <2>2, <1>b DEF Draining, Fault, Look, Claim, Dispatch, DispatchAnew, Mark, GiveBack, world
    <2>4. QED  BY <1>0, <2>1, <2>3
  <1>3. CASE Core
    <2>1. CASE Reject
      <3>1. handled < Len(log)
        BY <1>3, CoreHands
      <3>2. QED  BY <1>0, <1>a, <2>1, <3>1 DEF Reject, MayBlock
    <2>2. CASE TurnStart \/ Accept \/ ActCancel \/ ActSteer
      <3>1. held' \subseteq held /\ quarantined' = quarantined
        BY <2>2, <1>c DEF TurnStart, Accept, ActCancel, ActSteer
      <3>2. QED  BY <1>0, <3>1
    <2>5. CASE StopSession
      <3>1. handled < Len(log)
        BY <1>3, CoreHands
      <3>2. held' \subseteq held \cup {On} /\ quarantined' = quarantined
        BY <2>5 DEF StopSession
      <3>3. QED  BY <1>0, <1>a, <3>1, <3>2
    <2>3. CASE \/ TurnQueued \/ FinishDrained \/ Requeue \/ Bind \/ Release \/ ReleaseOrphan
               \/ ClaimAction \/ StopQueues \/ ThreadDeleted
      BY <1>0, <2>3 DEF TurnQueued, FinishDrained, Requeue, Bind, Release, ReleaseOrphan,
                        ClaimAction, StopQueues, ThreadDeleted, world
    <2>4. QED  BY <1>3, <2>1, <2>2, <2>3, <2>5 DEF Core
  <1>4. CASE Aside
    <2>1. On \in Threads
      BY <1>4, <1>a, AsideHands
    <2>2. CASE SkipAction \/ RecoverThread \/ SkipStart \/ StoreFails
      BY <1>0, <2>1, <2>2 DEF SkipAction, RecoverThread, SkipStart, StoreFails, world
    <2>3. CASE RetryReturns \/ TurnContinued \/ ContinuationFails
      BY <1>0, <2>1, <2>3 DEF RetryReturns, TurnContinued, ContinuationFails, MayBlock, world
    <2>4. CASE SteerRefused \/ ActionDies
      BY <1>0, <2>1, <2>4 DEF SteerRefused, ActionDies, ActionFails, Blocks
    <2>5. QED  BY <1>4, <2>2, <2>3, <2>4 DEF Aside
  <1>5. CASE Crash
    <2>1. held' \subseteq Threads
      BY <1>5 DEF Crash
    <2>2. quarantined' \subseteq quarantined \/ (Claimed /\ quarantined' \subseteq quarantined \cup {On})
      BY <1>5 DEF Crash
    <2>3. QED  BY <1>0, <1>a, <2>1, <2>2 DEF Claimed
  <1>6. QED  BY <1>1, <1>2, <1>3, <1>4, <1>5, Groups

LEMMA TypeStep == ASSUME IInv, [Next]_vars, Fits' PROVE TypeOK'
  <1>1. /\ Len(log') <= MaxLog /\ handled' \in 0 .. Len(log') /\ draining' \subseteq Threads
    BY HandledStep, GuardMoves DEF Fits
  <1>2. state' \in [Numbers -> RowStates]
    BY RowMoves
  <1>3. \A n \in Numbers : state'[n] # "none" => n <= Len(log') /\ log'[n].kind \in TextKinds
    BY RowsReachedStep
  <1>4. \A n \in Numbers : state'[n] = "promoted" => n \in dispatched'
    <2>1. SUFFICES ASSUME NEW n \in Numbers, state'[n] = "promoted"  PROVE n \in dispatched
      BY DispatchedMoves
    <2>2. CASE state[n] = "promoted"
      BY <2>2, Zenon DEF IInv, TypeOK
    <2>3. CASE state[n] # "promoted"
      <3>1. \E f \in Fibers : drain[f].at = "mark" /\ drain[f].row = n
        BY <2>1, <2>3, RowMoves DEF RowMove, Active
      <3>2. QED  BY <3>1 DEF IInv, DrainRows, DrainPlaces
    <2>4. QED  BY <2>2, <2>3
  <1>5. \A m \in Messages : Cardinality(Waiting(m)') <= 1
    BY OneWaitingStep, AtMostOne DEF OneWaiting
  <1>6. Cardinality(reservation') <= 1
    BY OneReservationStep, AtMostOne DEF OneReservation
  <1>7. dispatched' \subseteq 1 .. Len(log')
    <2>1. /\ dispatched \subseteq 1 .. Len(log)
          /\ \A n \in 1 .. Len(log) : n \in 1 .. Len(log')
      BY Typed, LogGrows
    <2>2. \A f \in Fibers : Dispatch(f) => drain[f].row \in 1 .. Len(log)
      BY DispatchAppends
    <2>3. CASE dispatched' = dispatched
      BY <2>1, <2>3
    <2>4. CASE \E f \in Fibers : Dispatch(f) /\ dispatched' = dispatched \cup {drain[f].row}
      <3>1. PICK f \in Fibers : Dispatch(f) /\ dispatched' = dispatched \cup {drain[f].row}
        BY <2>4
      <3>2. QED  BY <2>1, <2>2, <3>1
    <2>5. QED  BY <2>3, <2>4, DispatchedMoves
  <1>8. QED
    BY <1>1, <1>2, <1>3, <1>4, <1>5, <1>6, <1>7, TurnsStep, ThreadsStep
       DEF TypeOK, RowStates, TextKinds

\* Only what came first is dispatched: a claim takes the first row of its thread, and no
\* other drain gives a row of that thread back meanwhile.
LEMMA FirstInQueueStep == ASSUME IInv, [Next]_vars PROVE FirstInQueue'
  <1>1. SUFFICES ASSUME NEW g \in Fibers, NEW o \in 1 .. Len(log'), NEW n \in Nat, NEW t,
                        drain'[g].at = "dispatch", drain'[g].row = n, drain'[g].thread = t,
                        log'[n].mode # "steer", ~Cleared', o < n, state'[o] = "queued",
                        ThreadOf[log'[o].message] = t
                 PROVE  FALSE
    <2>1. \A g \in Fibers : drain'[g].row \in Nat
      BY DrainMoves DEF Drains
    <2>2. QED  BY <1>1, <2>1 DEF FirstInQueue, RowsOf, ThreadAt, Message
  <1>2. ~Cleared /\ DrainMove(g)
    BY <1>1, Lasting, DrainMoves
  <1>3. ~Rested(drain'[g])
    BY <1>1 DEF Rested
  <1>4. CASE Claim(g)
    <2>1. PICK late \in BOOLEAN, p \in Numbers, th \in Threads :
            LET back == Reclaimed(th, late)
                free == back \cup {x \in RowsOf(th) : state[x] = "queued"}
            IN  /\ p \in 1 .. Len(log) /\ drain'[g].row = p /\ drain'[g].thread = th
                /\ log[p].mode = "steer" \/ \A x \in free : p <= x
                /\ state' = [x \in Numbers |-> IF x = p THEN "promoting"
                                               ELSE IF x \in back THEN "queued" ELSE state[x]]
      BY <1>3, <1>4, ClaimMoves
    <2>2. /\ p = n /\ th = t /\ n \in 1 .. Len(log) /\ UNCHANGED log
      BY <1>1, <1>4, <2>1, ClaimMoves
    <2>3. o \in 1 .. Len(log) /\ o \in Numbers /\ ThreadAt(o) = t /\ ~(n <= o)
      BY <1>1, <2>2, Typed DEF ThreadAt, Message
    <2>4. CASE o \in Reclaimed(t, late)
      BY <1>1, <2>1, <2>2, <2>3, <2>4
    <2>5. CASE o \notin Reclaimed(t, late)
      <3>1. state[o] = "queued"
        BY <1>1, <2>1, <2>2, <2>3, <2>5
      <3>2. o \in RowsOf(t)
        BY <2>3, <3>1 DEF RowsOf, Active
      <3>3. QED  BY <1>1, <2>1, <2>2, <2>3, <3>1, <3>2
    <2>6. QED  BY <2>4, <2>5
  <1>5. CASE drain'[g] = drain[g]
    <2>1. /\ n \in 1 .. Len(log) /\ state[n] # "none" /\ drain[g].at = "dispatch"
          /\ drain[g].thread = t /\ drain[g].row = n
      BY <1>1, <1>5 DEF IInv, DrainRows, DrainPlaces
    <2>2. n \in Numbers /\ n <= handled + 1 /\ handled \in Nat /\ log'[n] = log[n]
      BY <2>1, Typed, LogGrows
    <2>3. o \in 1 .. Len(log) /\ o \in Nat
      BY <1>1, <2>1, Typed
    <2>4. o \in Numbers /\ log'[o] = log[o] /\ ThreadAt(o) = t
      BY <1>1, <2>3, Typed, LogGrows DEF ThreadAt, Message
    <2>5. state[o] # "queued"
      <3>1. SUFFICES ASSUME state[o] = "queued"  PROVE FALSE
        OBVIOUS
      <3>2. o \in RowsOf(t)
        BY <2>3, <2>4, <3>1 DEF RowsOf, Active
      <3>3. QED  BY <1>1, <1>2, <2>1, <2>2, <3>1, <3>2, Zenon DEF IInv, FirstInQueue
    <2>6. o # handled + 1
      BY <1>1, <2>2, <2>3
    <2>7. state[o] \in Active
      BY <1>1, <2>4, <2>5, <2>6, RowMoves DEF RowMove, Active
    <2>8. t \in draining /\ Promoting(g, t)
      BY <1>2, <2>1 DEF IInv, Guarding, DrainPlaces, Promoting
    <2>9. PICK f \in Fibers : \/ Claim(f) /\ drain'[f].at = "dispatch"
                              \/ GiveBack(f) /\ drain[f].row = o
      BY <1>1, <2>4, <2>5, <2>6, RowMoves DEF RowMove, Active
    <2>10. CASE Claim(f) /\ drain'[f].at = "dispatch"
      <3>1. PICK th \in Threads, late \in BOOLEAN, p \in Numbers :
              /\ th \notin draining /\ Reclaimed(th, late) \subseteq RowsOf(th)
              /\ state' = [x \in Numbers |-> IF x = p THEN "promoting"
                                             ELSE IF x \in Reclaimed(th, late) THEN "queued"
                                             ELSE state[x]]
        <4>1. ~Rested(drain'[f])
          BY <2>10 DEF Rested
        <4>2. QED  BY <2>10, <4>1, ClaimMoves
      <3>2. o \in RowsOf(th)
        BY <1>1, <2>4, <2>5, <3>1
      <3>3. QED  BY <2>4, <2>8, <3>1, <3>2 DEF RowsOf
    <2>11. CASE GiveBack(f) /\ drain[f].row = o
      <3>1. drain[f].at = "fail" /\ drain[f].thread = ThreadAt(o)
        BY <2>11 DEF GiveBack, IInv, DrainRows, DrainPlaces
      <3>2. Promoting(f, t) /\ f # g
        BY <2>1, <2>4, <3>1 DEF Promoting
      <3>3. OneDrain /\ t \in Threads
        BY <2>1, <2>8, Zenon DEF IInv, Shapes
      <3>4. QED  BY <1>2, <2>8, <3>2, <3>3 DEF OneDrain
    <2>12. QED  BY <2>9, <2>10, <2>11
  <1>6. QED  BY <1>1, <1>2, <1>3, <1>4, <1>5 DEF DrainMove

\* What has been started is not a row while it is about to be sent.
LEMMA SendingNoRow ==
    ASSUME IInv, Me.step \in {"send", "requeue"}
    PROVE  /\ handled + 1 \in 1 .. Len(log) /\ handled + 1 \in Numbers /\ Event.kind = "start"
           /\ state[handled + 1] = "none" /\ handled + 1 \notin dispatched
           /\ ~Spent(handled + 1) /\ ~Me.retry
  <1>1. Event.kind = "start" /\ handled < Len(log)
    BY DEF IInv, InHand
  <1>2. handled + 1 \in 1 .. Len(log) /\ handled + 1 \in Numbers
    BY <1>1, Typed
  <1>3. ~Spent(handled + 1) /\ ~GoneBack /\ ~Me.retry
    BY DEF Spent, GoneBack, Failing, IInv, InHand
  <1>4. state[handled + 1] = "none"
    BY <1>1, <1>2, <1>3, Zenon DEF IInv, RowsReached, Event
  <1>5. handled + 1 \notin dispatched
    BY <1>4 DEF IInv, StartsFollow
  <1>6. QED  BY <1>1, <1>2, <1>3, <1>4, <1>5

\* A sequence is a chance only if it was one before.
LEMMA OldChances ==
    ASSUME IInv, [Next]_vars, Fits', NEW m, m \notin raced',
           NEW n \in Chances(m)', n \in 1 .. Len(log)
    PROVE  n \in Chances(m)
  <1>1. /\ log'[n].kind \in TextKinds /\ log'[n].message = m /\ n \notin dispatched'
        /\ \/ n > handled' /\ state'[n] = "none" /\ ~(Spent(n)' /\ log'[n].kind = "start")
           \/ state'[n] \in Active
           \/ \E f \in Fibers : drain'[f].at = "dispatch" /\ drain'[f].row = n
    BY DEF Chances, Ahead, Held, Message, Active
  <1>2. /\ log'[n] = log[n] /\ n \in Numbers /\ n \in Nat /\ handled \in Nat
        /\ handled' \in {handled, handled + 1} /\ state \in [Numbers -> RowStates]
    BY LogGrows, Typed, HandledStep
  <1>3. log[n].kind \in TextKinds /\ Message(n) = m /\ n \notin dispatched
    BY <1>1, <1>2, DispatchedMoves DEF Message
  <1>4. CASE n > handled' /\ state'[n] = "none" /\ ~(Spent(n)' /\ log'[n].kind = "start")
    <2>1. state[n] = "none"
      BY <1>2, <1>4, RowsStay
    <2>2. n > handled
      BY <1>2, <1>4
    <2>3. ASSUME Spent(n), log[n].kind = "start"  PROVE FALSE
      <3>1. n = handled + 1
        BY <2>3 DEF Spent
      <3>2. handled' = handled
        BY <1>2, <1>4, <3>1
      <3>3. Event.kind = "start" /\ Spent(handled + 1)
        BY <2>3, <3>1 DEF Event
      <3>4. Event.message = m
        BY <1>3, <3>1 DEF Message, Event
      <3>5. Spent(n)'
        <4>1. Spent(handled + 1)'
          BY <3>2, <3>3, <3>4, SpentStays
        <4>2. QED  BY <3>1, <3>2, <4>1 DEF Spent
      <3>6. QED  BY <1>2, <1>4, <2>3, <3>5
    <2>4. QED  BY <1>3, <2>1, <2>2, <2>3 DEF Chances, Ahead
  <1>5. CASE state'[n] \in Active
    <2>1. CASE state[n] \in Active
      BY <1>3, <2>1 DEF Chances
    <2>2. CASE state[n] \notin Active
      <3>1. state[n] = "none" /\ n = handled + 1 /\ (TurnQueued \/ Requeue)
        BY <1>2, <1>5, <2>2, RowMoves DEF RowMove, Active
      <3>2. ~Spent(n)
        <4>1. Me.step \in {"idle", "requeue"}
          BY <3>1 DEF TurnQueued, Requeue, Ready
        <4>2. QED  BY <4>1 DEF Spent, Failing
      <3>3. n > handled
        BY <1>2, <3>1
      <3>4. QED  BY <1>3, <3>1, <3>2, <3>3 DEF Chances, Ahead
    <2>3. QED  BY <2>1, <2>2
  <1>6. CASE \E f \in Fibers : drain'[f].at = "dispatch" /\ drain'[f].row = n
    <2>1. PICK f \in Fibers : drain'[f].at = "dispatch" /\ drain'[f].row = n
      BY <1>6
    <2>2. DrainMove(f)
      BY DrainMoves
    <2>3. CASE drain'[f] = drain[f]
      BY <1>3, <2>1, <2>3 DEF Chances, Held
    <2>4. CASE Claim(f)
      <3>1. CASE Rested(drain'[f])
        BY <2>1, <3>1 DEF Rested
      <3>2. CASE ~Rested(drain'[f])
        <4>1. \E t \in Threads : n \in RowsOf(t)
          BY <2>1, <2>4, <3>2, ClaimMoves
        <4>2. state[n] \in Active
          BY <4>1 DEF RowsOf
        <4>3. QED  BY <1>3, <4>2 DEF Chances
      <3>3. QED  BY <3>1, <3>2
    <2>5. QED  BY <2>1, <2>2, <2>3, <2>4 DEF DrainMove, Rested
  <1>7. QED  BY <1>1, <1>4, <1>5, <1>6

\* Whatever becomes a chance has just been committed.
LEMMA NewChances ==
    ASSUME IInv, [Next]_vars, Fits', NEW m, m \notin raced',
           NEW n \in Chances(m)', n \notin Chances(m)
    PROVE  /\ n = Len(log) + 1 /\ Len(log') = Len(log) + 1
           /\ log'[n].kind \in TextKinds /\ log'[n].message = m
  <1>1. n \in 1 .. Len(log') /\ log'[n].kind \in TextKinds /\ log'[n].message = m
    BY DEF Chances, Message
  <1>2. n \notin 1 .. Len(log)
    BY OldChances
  <1>3. Len(log) \in Nat /\ Len(log') \in Nat /\ Len(log') <= Len(log) + 1
    BY Typed, LogGrows
  <1>4. QED  BY <1>1, <1>2, <1>3

\* A steer or a cancellation comes into hand when its message is found in the queue.
LEMMA SteeredMoves ==
    ASSUME IInv, [Next]_vars, NEW m, Steered(m)'
    PROVE  /\ Event' = Event /\ Event.message = m
           /\ \/ Steered(m)
              \/ ClaimAction /\ Waiting(m) # {} /\ UNCHANGED <<log, handled>>
  <1>1. Me'.step \in {"act", "refuse"} /\ Event'.message = m
    BY DEF Steered
  <1>2. CASE Me.step \in {"act", "refuse"}
    <2>1. ASSUME ActCancel \/ ActSteer  PROVE FALSE
      <3>1. Finish
        BY <2>1 DEF ActCancel, ActSteer
      <3>2. QED  BY <1>1, <3>1, HandMoves
    <2>2. Event' = Event
      BY <1>1, <1>2, <2>1, ActingMoves
    <2>3. QED  BY <1>1, <1>2, <2>2 DEF Steered
  <1>3. CASE Me.step \notin {"act", "refuse"}
    <2>1. Core
      BY <1>1, <1>3, Groups, OuterFrame, DrainFrame, CrashHands, AsideHands
    <2>2. ASSUME ~ClaimAction  PROVE FALSE
      <3>1. CASE TurnStart
        BY <1>1, <3>1, StartHands
      <3>2. CASE \/ TurnQueued \/ FinishDrained \/ Requeue \/ Accept \/ Bind \/ Release \/ ReleaseOrphan
                 \/ StopQueues \/ StopSession \/ ThreadDeleted \/ Reject \/ ActCancel \/ ActSteer
        <4>1. Finish \/ \E s \in {"finish", "retry", "release", "bind", "orphan", "stop"} : To(s)
          BY <3>2 DEF TurnQueued, FinishDrained, Requeue, Accept, Bind, Release, ReleaseOrphan, Settle,
                      StopQueues, StopSession, ThreadDeleted, Reject, ActCancel, ActSteer
        <4>2. QED  BY <1>1, <4>1, HandMoves
      <3>3. QED  BY <2>1, <2>2, <3>1, <3>2 DEF Core
    <2>3. ~Finish
      BY <1>1, HandMoves
    <2>4. Waiting(Event.message) # {} /\ UNCHANGED <<log, handled>>
      BY <2>2, <2>3 DEF ClaimAction
    <2>5. QED  BY <1>1, <2>2, <2>4 DEF Event
  <1>4. QED  BY <1>2, <1>3

\* Four steps commit an intent, one of them the continuation of a turn.
LEMMA Committing ==
    ASSUME IInv, [Next]_vars, log' # log
    PROVE  Ask \/ ContinueTurn \/ ActSteer \/ \E f \in Fibers : Dispatch(f)
  <1>1. CASE Outer /\ ~Ask /\ ~ContinueTurn
    BY <1>1 DEF Outer, TurnEnds, Sweep, TerminalEvent, IdlessTerminal, vars, store
  <1>2. CASE DrainSteps
    BY <1>2 DEF DrainSteps, Draining, Fault, Look, Claim, Mark, GiveBack, store
  <1>3. CASE Core \/ Aside \/ Crash
    BY <1>3, CoreFrame, AsideFrame, CrashHands
  <1>4. QED  BY <1>1, <1>2, <1>3, Groups

\* What races stays recorded.
LEMMA RacedMoves == ASSUME IInv, [Next]_vars PROVE raced \subseteq raced'
  <1>1. CASE Outer \/ DrainSteps \/ Aside \/ Crash
    BY <1>1, OuterFrame, DrainFrame, AsideFrame, CrashHands DEF ghosts
  <1>2. CASE Core
    BY <1>2 DEF Core, TurnQueued, FinishDrained, TurnStart, Requeue, Accept, Bind, Release,
         ReleaseOrphan, ClaimAction, ActCancel, ActSteer, StopQueues, StopSession, ThreadDeleted,
         Reject, ghosts
  <1>3. QED  BY <1>1, <1>2, Groups

\* A message with a chance, or one that is sent or waits, has been asked for.
LEMMA ChancesAreSent ==
    ASSUME IInv, NEW m, NEW n, n \in Chances(m) \cup Waiting(m)
    PROVE  Sent(m)
  <1>1. CASE n \in Chances(m)
    BY <1>1 DEF Chances, Sent, TextKinds, Message
  <1>2. CASE n \in Waiting(m)
    <2>1. n \in 1 .. Len(log) /\ state[n] # "none" /\ Message(n) = m
      BY <1>2 DEF Waiting, Active
    <2>2. log[n].kind \in TextKinds
      BY <2>1, Typed
    <2>3. QED  BY <2>1, <2>2 DEF Sent, TextKinds, Message
  <1>3. QED  BY <1>1, <1>2

\* The provider takes the one chance of the message it accepts.
LEMMA AcceptTakes ==
    ASSUME IInv, [Next]_vars, Fits', Accept, NEW m \in Messages \ raced, m \notin raced',
           Event.message = m
    PROVE  sent[m] = 0 /\ sent'[m] = 1 /\ Chances(m)' = {} /\ ~Steered(m)'
  <1>1. /\ Me.step = "send" /\ UNCHANGED <<handled, state, log, dispatched, drain>>
        /\ To("bind") \/ To("release")
    BY DEF Accept, store, rows
  <1>2. /\ handled + 1 \in 1 .. Len(log) /\ handled + 1 \in Numbers /\ Event.kind = "start"
        /\ state[handled + 1] = "none" /\ handled + 1 \notin dispatched /\ ~Spent(handled + 1)
        /\ ~Me.retry
    BY <1>1, SendingNoRow
  <1>3. handled + 1 \in Chances(m)
    <2>1. handled + 1 > handled
      BY Typed
    <2>2. QED  BY <1>2, <2>1 DEF Chances, Ahead, Event, Message, TextKinds
  <1>4. sent[m] = 0 /\ \A n \in Chances(m) : n = handled + 1
    BY <1>3, Zenon DEF IInv, OneChance
  <1>5. sent'[m] = 1
    <2>1. sent \in [Messages -> Nat] /\ sent' = [sent EXCEPT ![m] = @ + 1]
      BY DEF IInv, Shapes, Accept
    <2>2. QED  BY <1>4, <2>1
  <1>6. Me'.step \in {"bind", "release"} /\ ~Me'.retry
    BY <1>1, <1>2, HandMoves
  <1>7. ASSUME NEW n \in Chances(m)'  PROVE FALSE
    <2>1. n = handled + 1
      <3>1. n \in 1 .. Len(log)
        BY <1>1 DEF Chances
      <3>2. QED  BY <1>4, <3>1, OldChances
    <2>2. Spent(n)'
      BY <1>1, <1>6, <2>1 DEF Spent, Failing
    <2>3. state'[n] = "none" /\ log'[n].kind = "start"
      BY <1>1, <1>2, <2>1 DEF Event
    <2>4. PICK f \in Fibers : drain[f].at = "dispatch" /\ drain[f].row = n
      BY <1>1, <2>2, <2>3 DEF Chances, Ahead, Held, Active
    <2>5. state[n] # "none"
      BY <2>4 DEF IInv, DrainRows, DrainPlaces
    <2>6. QED  BY <1>1, <2>3, <2>5
  <1>8. QED  BY <1>4, <1>5, <1>6, <1>7 DEF Steered

\* A steer that finds no start of its message under way takes the one chance it has.
LEMMA SteerTakes ==
    ASSUME IInv, [Next]_vars, Fits', ClaimAction, NEW m \in Messages \ raced', m \notin raced,
           Event.message = m, Event.kind = "steer", Waiting(m) # {}
    PROVE  sent[m] = 0 /\ sent'[m] = 0 /\ Chances(m)' = {}
  <1>1. UNCHANGED <<log, dispatched, drain, sent>> /\ state' = Cancels(Waiting(m))
    BY DEF ClaimAction
  <1>2. PICK w \in Waiting(m) : TRUE
    OBVIOUS
  <1>3. ~UnderWay(w)
    BY <1>2 DEF ClaimAction
  <1>4. /\ state[w] = "queued" /\ w \notin dispatched
        /\ \A f \in Fibers : drain[f].row # w
    BY <1>3 DEF UnderWay
  <1>5. w \in 1 .. Len(log) /\ w \in Numbers /\ Message(w) = m /\ log[w].kind \in TextKinds
    BY <1>2, <1>4, Typed DEF Waiting
  <1>6. w \in Chances(m)
    BY <1>4, <1>5 DEF Chances, Active
  <1>7. sent[m] = 0 /\ \A n \in Chances(m) : n = w
    BY <1>6, Zenon DEF IInv, OneChance
  <1>8. ASSUME NEW n \in Chances(m)'  PROVE FALSE
    <2>1. n = w
      <3>1. n \in 1 .. Len(log)
        BY <1>1 DEF Chances
      <3>2. QED  BY <1>7, <3>1, OldChances
    <2>2. state'[n] = "cancelled"
      BY <1>1, <1>2, <1>5, <2>1 DEF Cancels
    <2>3. QED  BY <1>1, <1>4, <2>1, <2>2 DEF Chances, Ahead, Held, Active
  <1>9. QED  BY <1>1, <1>7, <1>8

\* What is committed for a message is its only chance.
LEMMA CommitTakes ==
    ASSUME IInv, [Next]_vars, Fits', NEW m \in Messages \ raced, m \notin raced',
           NEW x \in Chances(m)', x \notin Chances(m)
    PROVE  /\ sent[m] = 0 /\ \A n \in Chances(m)' : n = x
           /\ ~(Steered(m)' /\ Event'.kind = "steer")
  <1>1. /\ x = Len(log) + 1 /\ Len(log') = Len(log) + 1
        /\ log'[x].kind \in TextKinds /\ log'[x].message = m
    BY NewChances
  <1>2. \A n \in Chances(m)' : n \in Chances(m) \/ n = x
    BY <1>1, NewChances
  <1>3. Len(log) \in Nat /\ log \in Seq(Entries)
    BY DEF IInv, Shapes
  <1>4. ASSUME NEW k, log' = Append(log, k)  PROVE log'[x] = k
    BY <1>1, <1>3, <1>4
  <1>5. log' # log
    BY <1>1, <1>3
  <1>6. CASE Ask
    <2>1. ~Sent(m)
      BY <1>1, <1>4, <1>6, AskAppends
    <2>2. Chances(m) = {} /\ ~Steered(m) /\ ~(sent[m] > 0)
      BY <2>1, ChancesAreSent, Zenon DEF IInv, OneChance
    <2>3. sent[m] = 0
      BY <2>2 DEF IInv, Shapes
    <2>4. ~Steered(m)'
      <3>1. Waiting(m) = {}
        BY <2>1, ChancesAreSent
      <3>2. QED  BY <2>2, <3>1, SteeredMoves
    <2>5. QED  BY <1>2, <2>2, <2>3, <2>4
  <1>7. CASE ActSteer
    <2>1. Me.step = "act" /\ Event.kind = "steer" /\ Finish
      BY <1>7 DEF ActSteer
    <2>2. Event.message = m
      <3>1. PICK k : log' = Append(log, k) /\ k.message = Event.message
        BY <1>5, <1>7, SteerAppends
      <3>2. QED  BY <1>1, <1>4, <3>1
    <2>3. Chances(m) = {} /\ sent[m] = 0
      BY <2>1, <2>2, Zenon DEF IInv, OneChance, Steered
    <2>4. ~Steered(m)'
      BY <2>1, HandMoves DEF Steered
    <2>5. QED  BY <1>2, <2>3, <2>4
  <1>8. CASE \E f \in Fibers : Dispatch(f)
    <2>1. PICK f \in Fibers : Dispatch(f)
      BY <1>8
    <2>2. PICK n : n = drain[f].row
      OBVIOUS
    <2>3. /\ drain[f].at = "dispatch" /\ n \in 1 .. Len(log) /\ log[n].kind \in TextKinds
          /\ n \notin dispatched /\ log' = Append(log, StartOf(n))
          /\ dispatched' = dispatched \cup {n}
      BY <1>5, <2>1, <2>2, DispatchAppends
    <2>4. Message(n) = m
      BY <1>1, <1>4, <2>3 DEF StartOf, Intent
    <2>5. n \in Chances(m)
      BY <2>2, <2>3, <2>4 DEF Chances, Held
    <2>6. /\ sent[m] = 0 /\ \A y \in Chances(m) : y = n
          /\ ~(Steered(m) /\ Event.kind = "steer")
      BY <2>5, Zenon DEF IInv, OneChance
    <2>7. n \notin Chances(m)'
      BY <2>3 DEF Chances
    <2>8. ~(Steered(m)' /\ Event'.kind = "steer")
      <3>1. SUFFICES ASSUME Steered(m)', Event'.kind = "steer"  PROVE FALSE
        OBVIOUS
      <3>2. Event' = Event /\ UNCHANGED hand /\ Event.message = m
        BY <2>1, <3>1, SteeredMoves DEF Dispatch
      <3>3. QED  BY <2>6, <3>1, <3>2 DEF Steered, Me
    <2>9. QED  BY <1>2, <2>6, <2>7, <2>8
  <1>9. CASE ContinueTurn
    BY <1>1, <1>4, <1>9, ContinueAppends DEF TextKinds
  <1>10. QED  BY <1>5, <1>6, <1>7, <1>8, <1>9, Committing

LEMMA OneChanceStep == ASSUME IInv, [Next]_vars, Fits' PROVE OneChance'
  <1>1. SUFFICES ASSUME NEW m \in Messages
                 PROVE  /\ sent'[m] > 0 \/ Steered(m)' => Sent(m)'
                        /\ m \notin raced' =>
                              /\ sent'[m] <= 1
                              /\ Chances(m)' # {} => sent'[m] = 0
                              /\ \A a, b \in Chances(m)' : a = b
                              /\ Steered(m)' /\ Event'.kind = "steer"
                                    => Chances(m)' = {} /\ sent'[m] = 0
    BY DEF OneChance, Steered
  <1>2. \/ sent'[m] = sent[m]
        \/ Accept /\ Event.message = m
    BY SentMoves
  <1>3. sent'[m] > 0 \/ Steered(m)' => Sent(m)'
    <2>1. sent[m] > 0 \/ Steered(m) => Sent(m)
      BY Zenon DEF IInv, OneChance
    <2>2. Accept /\ Event.message = m => Sent(m)
      BY SendingNoRow DEF Accept, Sent, Event
    <2>3. Steered(m)' => Steered(m) \/ Waiting(m) # {}
      BY SteeredMoves
    <2>4. Waiting(m) # {} => Sent(m)
      BY ChancesAreSent
    <2>5. QED  BY <1>2, <2>1, <2>2, <2>3, <2>4, Lasting
  <1>4. ASSUME m \notin raced'
        PROVE  /\ sent'[m] <= 1
               /\ Chances(m)' # {} => sent'[m] = 0
               /\ \A a, b \in Chances(m)' : a = b
               /\ Steered(m)' /\ Event'.kind = "steer" => Chances(m)' = {} /\ sent'[m] = 0
    <2>0. m \notin raced
      BY <1>4, RacedMoves
    <2>1. /\ sent[m] <= 1
          /\ Chances(m) # {} => sent[m] = 0
          /\ \A a, b \in Chances(m) : a = b
          /\ Steered(m) /\ Event.kind = "steer" => Chances(m) = {} /\ sent[m] = 0
      BY <2>0, Zenon DEF IInv, OneChance, Steered
    <2>2. CASE Accept /\ Event.message = m
      <3>1. sent'[m] = 1 /\ Chances(m)' = {} /\ ~Steered(m)'
        BY <1>4, <2>0, <2>2, AcceptTakes
      <3>2. QED  BY <3>1
    <2>3. CASE ClaimAction /\ Event.message = m /\ Event.kind = "steer" /\ Waiting(m) # {}
      <3>1. sent'[m] = 0 /\ Chances(m)' = {}
        BY <1>4, <2>0, <2>3, SteerTakes
      <3>2. QED  BY <3>1
    <2>4. CASE /\ ~(Accept /\ Event.message = m)
               /\ ~(ClaimAction /\ Event.message = m /\ Event.kind = "steer" /\ Waiting(m) # {})
      <3>1. sent'[m] = sent[m]
        BY <1>2, <2>4
      <3>2. Steered(m)' /\ Event'.kind = "steer" => Steered(m) /\ Event.kind = "steer"
        BY <2>4, SteeredMoves
      <3>3. CASE \A x \in Chances(m)' : x \in Chances(m)
        BY <2>1, <3>1, <3>2, <3>3
      <3>4. CASE \E x \in Chances(m)' : x \notin Chances(m)
        <4>1. PICK x \in Chances(m)' : x \notin Chances(m)
          BY <3>4
        <4>2. /\ sent[m] = 0 /\ \A n \in Chances(m)' : n = x
              /\ ~(Steered(m)' /\ Event'.kind = "steer")
          BY <1>4, <2>0, <4>1, CommitTakes
        <4>3. QED  BY <3>1, <4>2
      <3>5. QED  BY <3>3, <3>4
    <2>5. QED  BY <2>2, <2>3, <2>4
  <1>5. QED  BY <1>3, <1>4

\* An intent that is still to come is still to come, its message was sent before, or it has
\* its effect now.
LEMMA ComingMoves ==
    ASSUME IInv, [Next]_vars, NEW m, NEW n \in handled + 1 .. Len(log), log[n].kind \in TextKinds,
           Message(n) = m, ~Spent(n)
    PROVE  \/ n \in handled' + 1 .. Len(log') /\ log'[n] = log[n] /\ ~Spent(n)'
           \/ sent[m] > 0
           \/ /\ n = handled + 1 /\ Event.message = m
              /\ \/ TurnQueued /\ Event.kind = "queued"
                 \/ /\ Event.kind = "start"
                    /\ \/ Requeue \/ Accept \/ Reject \/ (TurnStart /\ Lost(m)) \/ (Crash /\ Claimed)
                       \/ RetryReturns \/ SkipStart
  <1>1. /\ n \in 1 .. Len(log) /\ n \in Nat /\ handled \in Nat /\ Len(log) \in Nat
        /\ n > handled /\ n <= Len(log)
    BY Typed
  <1>2. /\ handled' \in {handled, handled + 1} /\ log'[n] = log[n] /\ Len(log') \in Nat
        /\ Len(log) <= Len(log')
    BY <1>1, HandledStep, LogGrows
  <1>3. CASE n # handled + 1
    <2>1. n \in handled' + 1 .. Len(log')
      <3>1. \A a, b, c, d, e \in Nat :
              a > b /\ a # b + 1 /\ a <= d /\ d <= e /\ c \in {b, b + 1} => a \in c + 1 .. e
        OBVIOUS
      <3>2. handled' \in Nat
        BY <1>1, <1>2
      <3>3. QED  BY <1>1, <1>2, <1>3, <3>1, <3>2
    <2>2. ASSUME Spent(n)'  PROVE FALSE
      <3>1. n = handled' + 1 /\ Me'.step # "idle"
        BY <2>2 DEF Spent, Failing
      <3>2. handled' # handled
        BY <1>3, <3>1
      <3>3. Core \/ Aside \/ Crash
        BY <3>2, Groups, OuterFrame, DrainFrame
      <3>4. QED  BY <3>1, <3>2, <3>3, CoreHands, AsideHands, CrashHands DEF Goes
    <2>3. QED  BY <1>2, <2>1, <2>2
  <1>4. CASE n = handled + 1
    <2>1. Event.kind \in TextKinds /\ Event.message = m /\ handled < Len(log)
      BY <1>1, <1>4 DEF Event, Message
    <2>2. \/ Me.step \in {"idle", "send", "requeue"}
          \/ Me.step \in Failing /\ Me.retry /\ ~(sent[m] > 0)
      <3>1. Me.step \in {"idle", "send", "requeue"} \/ Me.step \in {"bind"} \cup Failing
        BY <2>1, Zenon DEF IInv, InHand, SourceSteps, TextKinds
      <3>2. CASE Me.step \in {"bind"} \cup Failing
        <4>1. Me.retry /\ ~(sent[m] > 0)
          BY <1>4, <3>2 DEF Spent
        <4>2. Me.step # "bind"
          BY <2>1, <4>1 DEF IInv, BoundSent
        <4>3. QED  BY <3>2, <4>1, <4>2
      <3>3. QED  BY <3>1, <3>2
    <2>3. ASSUME handled' = handled,
                 Me'.step \in {"idle", "send", "requeue"} \/ (Me'.retry /\ ~(sent'[m] > 0))
          PROVE  n \in handled' + 1 .. Len(log') /\ log'[n] = log[n] /\ ~Spent(n)'
      <3>1. Message(n)' = m
        BY <1>2 DEF Message
      <3>2. n \in handled' + 1 .. Len(log')
        BY <1>1, <1>2, <2>3
      <3>3. ~Spent(n)'
        BY <2>3, <3>1 DEF Spent, Failing
      <3>4. QED  BY <1>2, <3>2, <3>3
    <2>a. m \in Messages
      BY <2>1, InHandMessage
    <2>4. CASE Outer \/ DrainSteps
      BY <2>2, <2>3, <2>4, OuterFrame, DrainFrame DEF ghosts
    <2>5. CASE Crash
      <3>1. CASE Claimed
        <4>1. Event.kind = "start"
          BY <2>1, <3>1 DEF Claimed, TextKinds
        <4>2. QED  BY <1>4, <2>1, <2>5, <3>1, <4>1
      <3>2. CASE ~Claimed
        BY <2>3, <2>5, <3>2, CrashHands
      <3>3. QED  BY <3>1, <3>2
    <2>6. CASE Core /\ Me.step \in {"idle", "send", "requeue"}
      <3>1. ~(FinishDrained \/ Bind \/ Release \/ ReleaseOrphan \/ ActCancel \/ ActSteer \/ StopSession)
        BY <2>6 DEF FinishDrained, Bind, Release, ReleaseOrphan, ActCancel, ActSteer, StopSession
      <3>2. ~(ClaimAction \/ StopQueues \/ ThreadDeleted)
        BY <2>1 DEF ClaimAction, StopQueues, ThreadDeleted, Ready, Permitted, TextKinds
      <3>3. CASE TurnQueued
        BY <1>4, <2>1, <3>3 DEF TurnQueued, Ready
      <3>4. CASE Requeue \/ Accept \/ Reject
        <4>1. Me.step \in {"send", "requeue"}
          BY <3>4 DEF Requeue, Accept, Reject
        <4>2. QED  BY <1>4, <2>1, <3>4, <4>1, SendingNoRow
      <3>5. CASE TurnStart
        <4>1. CASE Lost(m)
          BY <1>4, <2>1, <3>5, <4>1, StartHands
        <4>2. CASE ~Lost(m)
          BY <2>1, <2>3, <3>5, <4>2, StartHands
        <4>3. QED  BY <4>1, <4>2
      <3>6. QED  BY <2>6, <3>1, <3>2, <3>3, <3>4, <3>5 DEF Core
    <2>7. CASE Aside /\ Me.step \in {"idle", "send", "requeue"}
      <3>1. ~(SkipAction \/ TurnContinued \/ ContinuationFails)
        BY <2>1 DEF SkipAction, TurnContinued, ContinuationFails, Ready, Permitted, TextKinds
      <3>2. ~(RetryReturns \/ SteerRefused \/ ActionDies)
        BY <2>7 DEF RetryReturns, SteerRefused, ActionDies
      <3>3. CASE RecoverThread
        <4>1. Me' = Me /\ handled' = handled
          BY <3>3 DEF RecoverThread, Me, store
        <4>2. QED  BY <2>3, <2>7, <4>1
      <3>4. CASE SkipStart
        <4>1. Event.kind = "start"
          BY <2>1, <3>4 DEF SkipStart, Ready, TextKinds
        <4>2. QED  BY <1>4, <2>1, <3>4, <4>1
      <3>5. CASE StoreFails
        <4>1. Me'.step = "release" /\ Me'.retry = TRUE /\ handled' = handled
          <5>1. Me.step \in {"send", "requeue"}
            BY <2>7, <3>5 DEF StoreFails
          <5>2. handled' # handled + 1
            BY <1>1, <3>5 DEF StoreFails, store
          <5>3. Aside
            BY <3>5 DEF Aside
          <5>4. QED  BY <5>1, <5>2, <5>3, AsideHands
        <4>2. sent' = sent
          BY <3>5 DEF StoreFails, ghosts
        <4>3. QED  BY <2>3, <4>1, <4>2
      <3>6. QED  BY <2>7, <3>1, <3>2, <3>3, <3>4, <3>5 DEF Aside
    <2>8. CASE (Core \/ Aside) /\ Me.step \in Failing /\ Me.retry /\ ~(sent[m] > 0)
      <3>1. ~(sent'[m] > 0)
        BY <2>a, <2>8, SentMoves DEF Failing
      <3>2. CASE handled' = handled
        <4>1. Me'.retry \/ Me'.step = "idle"
          BY <2>1, <2>8, <3>2, LastSteps, CrashHands
        <4>2. QED  BY <2>3, <3>1, <3>2, <4>1
      <3>3. CASE handled' = handled + 1 /\ Aside
        <4>1. ~(SkipAction \/ TurnContinued \/ ContinuationFails \/ RecoverThread \/ SkipStart)
          BY <2>8 DEF SkipAction, TurnContinued, ContinuationFails, RecoverThread, SkipStart, Ready,
                      Permitted, Failing
        <4>2. ~(SteerRefused \/ ActionDies \/ StoreFails)
          BY <2>8 DEF SteerRefused, ActionDies, StoreFails, Failing
        <4>3. RetryReturns
          BY <3>3, <4>1, <4>2 DEF Aside
        <4>4. Event.kind = "start"
          BY <2>8 DEF IInv, InHand
        <4>5. QED  BY <1>4, <2>1, <4>3, <4>4
      <3>4. ASSUME handled' = handled + 1, Core  PROVE FALSE
        <4>1. ~(TurnQueued \/ TurnStart \/ ClaimAction \/ StopQueues \/ ThreadDeleted)
          BY <2>8 DEF TurnQueued, TurnStart, ClaimAction, StopQueues, ThreadDeleted, Ready, Permitted,
                      Failing
        <4>2. ~(Requeue \/ Accept \/ Reject \/ Bind \/ ActCancel \/ ActSteer \/ StopSession)
          BY <2>8 DEF Requeue, Accept, Reject, Bind, ActCancel, ActSteer, StopSession, Failing
        <4>3. UNCHANGED handled
          BY <2>8, <3>4, <4>1, <4>2 DEF Core, FinishDrained, Release, ReleaseOrphan, Settle, store
        <4>4. QED  BY <1>1, <3>4, <4>3
      <3>5. QED  BY <1>2, <2>8, <3>2, <3>3, <3>4
    <2>9. QED  BY <2>2, <2>4, <2>5, <2>6, <2>7, <2>8, Groups
  <1>5. QED  BY <1>3, <1>4

\* A text that has just been committed is still to come.
LEMMA CommittedComes ==
    ASSUME IInv, [Next]_vars, NEW k, log' = Append(log, k), NEW m, k.message = m,
           NEW kinds, k.kind \in kinds
    PROVE  Coming(m, kinds)'
  <1>1. log \in Seq(Entries) /\ Len(log) \in Nat /\ handled \in Nat /\ handled <= Len(log)
    BY Typed DEF IInv, Shapes
  <1>2. PICK x \in Nat : x = Len(log) + 1
    BY <1>1
  <1>3. Len(log') = x /\ log'[x] = k /\ log' # log
    BY <1>1, <1>2
  <1>4. handled' <= Len(log) /\ handled' \in Nat
    BY <1>1, HandledStep
  <1>5. x \in handled' + 1 .. Len(log')
    BY <1>1, <1>2, <1>3, <1>4
  <1>6. ASSUME handled' + 1 = x, Me'.step # "idle"  PROVE FALSE
    <2>1. handled' = Len(log)
      BY <1>1, <1>2, <1>4, <1>6
    <2>2. CASE ActSteer
      BY <1>6, <2>2, HandMoves DEF ActSteer
    <2>3. CASE Ask \/ ContinueTurn \/ \E f \in Fibers : Dispatch(f)
      <3>1. Me' = Me /\ handled' = handled
        BY <2>3 DEF Ask, ContinueTurn, Dispatch, Me
      <3>2. handled < Len(log)
        BY <1>6, <3>1 DEF IInv, InHand
      <3>3. QED  BY <1>1, <2>1, <3>1, <3>2
    <2>4. QED  BY <1>3, <2>2, <2>3, Committing
  <1>7. ~Spent(x)'
    BY <1>6 DEF Spent, Failing
  <1>8. QED  BY <1>3, <1>5, <1>7 DEF Coming, Message

\* What is answered for stays so, unless the start in hand goes back to the queue.
LEMMA AnsweredMoves ==
    ASSUME IInv, [Next]_vars, NEW m \in Messages, Answered(m)
    PROVE  Answered(m)' \/ (Requeue /\ Event.message = m /\ Waiting(m) = {})
  <1>1. CASE Lost(m)
    BY <1>1, Lasting DEF Answered
  <1>2. CASE sent[m] > 0
    <2>1. sent \in [Messages -> Nat] /\ (sent'[m] = sent[m] \/ sent'[m] = sent[m] + 1)
      BY SentMoves DEF IInv, Shapes
    <2>2. QED  BY <1>2, <2>1 DEF Answered
  <1>3. CASE fate[m] # "none"
    <2>1. fate'[m] # "none"
      BY <1>3, FateMoves DEF OnRecord, Silent
    <2>2. QED  BY <2>1 DEF Answered
  <1>4. CASE Coming(m, {"start"})
    <2>1. PICK n \in handled + 1 .. Len(log) :
            log[n].kind = "start" /\ Message(n) = m /\ ~Spent(n)
      BY <1>4 DEF Coming
    <2>2. CASE n \in handled' + 1 .. Len(log') /\ log'[n] = log[n] /\ ~Spent(n)'
      BY <2>1, <2>2 DEF Answered, Coming, Message
    <2>3. CASE Event.message = m /\ Accept
      <3>1. sent'[m] > 0
        BY <2>3 DEF Accept, IInv, Shapes
      <3>2. QED  BY <3>1 DEF Answered
    <2>4. CASE Event.message = m /\ Reject
      <3>1. fate'[m] = "failed"
        BY <2>4 DEF Reject, IInv, Shapes
      <3>2. QED  BY <3>1 DEF Answered
    <2>5. CASE Event.message = m /\ Requeue /\ Waiting(m) # {}
      <3>1. fate'[m] = "swallowed"
        BY <2>5 DEF Requeue, IInv, Shapes
      <3>2. QED  BY <3>1 DEF Answered
    <2>6. CASE Event.message = m /\ Event.kind = "start" /\ Crash /\ Claimed
      <3>1. CASE sent[m] = 0
        <4>1. fate' = [fate EXCEPT ![m] = "uncertain"]
          <5>1. Me.step \notin {"act", "refuse"}
            BY <2>6 DEF IInv, InHand
          <5>2. QED  BY <2>6, <3>1, <5>1 DEF Crash
        <4>2. fate'[m] = "uncertain"
          BY <4>1 DEF IInv, Shapes
        <4>3. QED  BY <4>2 DEF Answered
      <3>2. CASE sent[m] # 0
        <4>1. sent'[m] = sent[m] /\ sent[m] \in Nat
          BY <2>6, CrashHands DEF IInv, Shapes
        <4>2. QED  BY <3>2, <4>1 DEF Answered
      <3>3. QED  BY <3>1, <3>2
    <2>7. CASE Lost(m)
      BY <2>7, Lasting DEF Answered
    <2>8. \/ n \in handled' + 1 .. Len(log') /\ log'[n] = log[n] /\ ~Spent(n)'
          \/ /\ Event.message = m /\ Event.kind = "start"
             /\ \/ Requeue \/ Accept \/ Reject \/ (TurnStart /\ Lost(m)) \/ (Crash /\ Claimed)
                \/ RetryReturns \/ SkipStart
          \/ sent[m] > 0
      <3>1. log[n].kind \in TextKinds
        BY <2>1 DEF TextKinds
      <3>2. n = handled + 1 => Event.kind = "start"
        BY <2>1 DEF Event
      <3>3. QED  BY <2>1, <3>1, <3>2, ComingMoves
    <2>9. CASE Event.message = m /\ RetryReturns
      <3>1. fate' = [fate EXCEPT ![m] = IF @ = "none" /\ sent[m] = 0 THEN "dropped" ELSE @]
            /\ sent' = sent
        BY <2>9 DEF RetryReturns
      <3>2. fate'[m] # "none" \/ sent[m] # 0
        BY <3>1 DEF IInv, Shapes
      <3>3. QED  BY <3>1, <3>2 DEF Answered, IInv, Shapes
    <2>10. CASE Event.message = m /\ Event.kind = "start" /\ SkipStart
      <3>1. fate'[m] = "skipped"
        BY <2>10 DEF SkipStart, IInv, Shapes
      <3>2. QED  BY <3>1 DEF Answered
    <2>11. QED
      BY <1>2, <2>2, <2>3, <2>4, <2>5, <2>6, <2>7, <2>8, <2>9, <2>10
  <1>5. QED  BY <1>1, <1>2, <1>3, <1>4 DEF Answered

\* What a cancelled row's message is answered with.
LEMMA CancelAnswers ==
    ASSUME IInv, [Next]_vars, NEW m \in Messages, NEW w \in Waiting(m), state'[w] = "cancelled"
    PROVE  Answered(m)' \/ Steered(m)'
  <1>1. /\ w \in 1 .. Len(log) /\ w \in Numbers /\ state[w] \in Active /\ Message(w) = m
        /\ Waiting(m) # {} /\ ThreadAt(w) = ThreadOf[m]
    BY Typed DEF Waiting, ThreadAt
  <1>2. CASE ThreadAt(w) \in Deleted
    <2>1. Lost(m)'
      BY <1>1, <1>2, Lasting DEF Lost
    <2>2. QED  BY <2>1 DEF Answered
  <1>3. fate \in [Messages -> Fates]
    BY DEF IInv, Shapes
  <1>4. CASE ClaimAction
    <2>1. state' = Cancels(Waiting(Event.message)) /\ handled < Len(log)
      BY <1>4 DEF ClaimAction, Ready, Permitted
    <2>2. w \in Waiting(Event.message)
      BY <1>1, <2>1 DEF Cancels, Active
    <2>3. Event.message = m /\ Waiting(Event.message) # {}
      BY <1>1, <2>2 DEF Waiting
    <2>4. CASE Event.kind = "cancel"
      <3>1. fate'[m] = "cancelled"
        BY <1>3, <1>4, <2>3, <2>4 DEF ClaimAction
      <3>2. QED  BY <3>1 DEF Answered
    <2>5. CASE Event.kind # "cancel"
      <3>1. (\E step \in {"act", "refuse"} : To(step)) /\ UNCHANGED <<log, handled>>
        BY <1>4, <2>3 DEF ClaimAction
      <3>2. Me'.step \in {"act", "refuse"} /\ Event'.message = m
        BY <2>3, <3>1, HandMoves DEF Event
      <3>3. QED  BY <3>2 DEF Steered
    <2>6. QED  BY <2>4, <2>5
  <1>5. CASE StopQueues
    <2>1. PICK ts : ts = Stopped
      OBVIOUS
    <2>2. state' # state
      BY <1>1 DEF Active
    <2>3. /\ state' = Cancels(UNION {RowsOf(t) : t \in ts})
          /\ fate' = Forgets(ts, "stopped")
      BY <1>5, <2>1, <2>2 DEF StopQueues
    <2>4. ThreadOf[m] \in ts
      <3>1. PICK t \in ts : w \in RowsOf(t)
        BY <1>1, <2>3 DEF Cancels, Active
      <3>2. QED  BY <1>1, <3>1 DEF RowsOf
    <2>5. fate'[m] = "stopped"
      BY <1>1, <2>3, <2>4 DEF Forgets
    <2>6. QED  BY <2>5 DEF Answered
  <1>6. CASE ThreadDeleted
    <2>1. state' = Cancels(RowsOf(Event.thread)) /\ fate' = Forgets({Event.thread}, "deleted")
      BY <1>6 DEF ThreadDeleted
    <2>2. w \in RowsOf(Event.thread)
      BY <1>1, <2>1 DEF Cancels, Active
    <2>3. ThreadOf[m] = Event.thread
      BY <1>1, <2>2 DEF RowsOf
    <2>4. fate'[m] = "deleted"
      BY <1>1, <2>1, <2>3 DEF Forgets
    <2>5. QED  BY <2>4 DEF Answered
  <1>7. ThreadAt(w) \in Deleted \/ ClaimAction \/ StopQueues \/ ThreadDeleted
    BY <1>1, RowMoves DEF RowMove, Withdrawing, Active
  <1>8. QED  BY <1>2, <1>4, <1>5, <1>6, <1>7

\* A waiting message waits on, or something answers for it.
LEMMA WaitingKept ==
    ASSUME IInv, [Next]_vars, NEW m \in Messages, Waiting(m) # {}
    PROVE  Waiting(m)' # {} \/ Answered(m)' \/ Steered(m)'
  <1>1. PICK w \in Waiting(m) : TRUE
    OBVIOUS
  <1>2. w \in 1 .. Len(log) /\ w \in Numbers /\ state[w] \in Active /\ Message(w) = m
    BY <1>1, Typed DEF Waiting
  <1>3. w \in 1 .. Len(log') /\ log'[w] = log[w]
    BY <1>2, LogGrows
  <1>4. CASE state'[w] \in Active
    <2>1. w \in Waiting(m)'
      BY <1>2, <1>3, <1>4 DEF Waiting, Message
    <2>2. QED  BY <2>1
  <1>5. CASE state'[w] = "cancelled"
    BY <1>1, <1>5, CancelAnswers
  <1>6. CASE state'[w] \notin Active \cup {"cancelled"}
    <2>1. \E f \in Fibers : drain[f].at = "mark" /\ drain[f].row = w
      BY <1>2, <1>6, RowMoves DEF RowMove, Active
    <2>2. w \in dispatched
      BY <2>1 DEF IInv, DrainRows, DrainPlaces
    <2>3. Answered(m)
      BY <1>1, <2>2 DEF IInv, Kept
    <2>4. QED  BY <2>3, AnsweredMoves
  <1>7. QED  BY <1>4, <1>5, <1>6

\* A text that comes back to the queue waits there, or has a row already.
LEMMA ReachedKept ==
    ASSUME IInv, [Next]_vars, NEW m \in Messages, Event.message = m, TurnQueued \/ Requeue,
           Waiting(m) = {}
    PROVE  Waiting(m)' # {} \/ Answered(m)
  <1>1. /\ handled < Len(log) /\ Event.kind \in TextKinds
        /\ state' = Enqueued(handled + 1) /\ UNCHANGED log
    <2>1. CASE TurnQueued
      BY <2>1 DEF TurnQueued, Ready, TextKinds
    <2>2. CASE Requeue
      BY <2>2, SendingNoRow DEF Requeue, IInv, InHand, TextKinds
    <2>3. QED  BY <2>1, <2>2
  <1>2. PICK n \in Nat : n = handled + 1
    BY Typed
  <1>3. n \in 1 .. Len(log) /\ n \in Numbers /\ Message(n) = m /\ n > handled
        /\ state \in [Numbers -> RowStates] /\ handled \in Nat
    BY <1>1, <1>2, Typed DEF Event, Message
  <1>4. CASE state[n] = "none"
    <2>1. state'[n] = "queued"
      BY <1>1, <1>2, <1>3, <1>4 DEF Enqueued
    <2>2. n \in Waiting(m)'
      BY <1>1, <1>3, <2>1 DEF Waiting, Message, Active
    <2>3. QED  BY <2>2
  <1>5. CASE state[n] = "promoted"
    <2>1. n \in dispatched
      BY <1>3, <1>5, Zenon DEF IInv, TypeOK
    <2>2. PICK k \in n + 1 .. Len(log) : log[k].kind = "start" /\ Message(k) = m
      BY <1>3, <2>1 DEF IInv, StartsFollow
    <2>3. k \in handled + 1 .. Len(log) /\ k # handled + 1
      BY <1>2, <1>3, <2>2
    <2>4. ~Spent(k)
      BY <2>3 DEF Spent
    <2>5. QED  BY <2>2, <2>3, <2>4 DEF Answered, Coming
  <1>6. CASE state[n] = "cancelled"
    <2>1. ThreadAt(n) \in Deleted
      BY <1>3, <1>6 DEF IInv, RowsReached
    <2>2. QED  BY <1>3, <2>1 DEF Answered, Lost, ThreadAt
  <1>7. CASE state[n] \in Active
    <2>1. n \in Waiting(m)
      BY <1>3, <1>7 DEF Waiting
    <2>2. QED  BY <2>1
  <1>8. QED  BY <1>3, <1>4, <1>5, <1>6, <1>7 DEF RowStates

\* A steer or a cancellation in hand is carried out, or answered for.
LEMMA SteeredKept ==
    ASSUME IInv, [Next]_vars, NEW m \in Messages, Steered(m)
    PROVE  Steered(m)' \/ Answered(m)' \/ Coming(m, TextKinds)'
  <1>1. Me.step \in {"act", "refuse"} /\ Event.message = m
    BY DEF Steered
  <1>2. CASE Me'.step = Me.step /\ Event' = Event
    BY <1>1, <1>2 DEF Steered
  <1>3. CASE ActCancel
    <2>1. removed' = IF ThreadOf[m] \in Deleted THEN removed ELSE removed \cup {m}
      BY <1>1, <1>3 DEF ActCancel
    <2>2. m \in removed' \/ ThreadOf[m] \in Deleted'
      BY <2>1, Lasting
    <2>3. QED  BY <2>2 DEF Answered, Lost
  <1>4. CASE ActSteer
    <2>1. CASE Lost(m)
      BY <2>1, Lasting DEF Answered
    <2>2. CASE ~Lost(m)
      <3>1. PICK k \in Entries : log' = Append(log, k) /\ k.kind \in TextKinds /\ k.message = m
        BY <1>1, <1>4, <2>2, SteerAppends
      <3>2. QED  BY <3>1, CommittedComes
    <2>3. QED  BY <2>1, <2>2
  <1>5. CASE fate'[m] \in {"refused", "interrupted"}
    BY <1>5 DEF Answered
  <1>6. QED  BY <1>1, <1>2, <1>3, <1>4, <1>5, ActingMoves

\* A text that is still to come comes on, or has its effect.
LEMMA ComingKept ==
    ASSUME IInv, [Next]_vars, NEW m \in Messages, Coming(m, TextKinds)
    PROVE  Coming(m, TextKinds)' \/ Waiting(m)' # {} \/ Answered(m)' \/ Steered(m)' \/ Answered(m)
  <1>1. PICK n \in handled + 1 .. Len(log) :
          log[n].kind \in TextKinds /\ Message(n) = m /\ ~Spent(n)
    BY DEF Coming
  <1>2. CASE log[n].kind = "start"
    BY <1>1, <1>2 DEF Answered, Coming
  <1>3. CASE log[n].kind # "start"
    <2>1. CASE n \in handled' + 1 .. Len(log') /\ log'[n] = log[n] /\ ~Spent(n)'
      BY <1>1, <2>1 DEF Coming, Message
    <2>2. CASE TurnQueued /\ Event.message = m
      <3>1. CASE Waiting(m) = {}
        BY <2>2, <3>1, ReachedKept
      <3>2. CASE Waiting(m) # {}
        BY <3>2, WaitingKept
      <3>3. QED  BY <3>1, <3>2
    <2>3. n = handled + 1 => Event.kind # "start"
      BY <1>3 DEF Event
    <2>4. CASE sent[m] > 0
      BY <2>4 DEF Answered
    <2>5. QED  BY <1>1, <2>1, <2>2, <2>3, <2>4, ComingMoves
  <1>4. QED  BY <1>2, <1>3

\* A message whose row is dispatched is answered for by the start that follows.
LEMMA DispatchedKept ==
    ASSUME IInv, [Next]_vars, Fits', NEW m \in Messages, NEW n \in Waiting(m)', n \in dispatched'
    PROVE  Answered(m)'
  <1>1. /\ n \in 1 .. Len(log) /\ n \in Numbers /\ Message(n) = m
        /\ n \in Waiting(m) \/ (Waiting(m) = {} /\ state[n] = "none")
    BY WaitingMoves
  <1>2. CASE n \in dispatched
    <2>1. n \in Waiting(m)
      BY <1>1, <1>2 DEF IInv, StartsFollow
    <2>2. Answered(m)
      BY <1>2, <2>1 DEF IInv, Kept
    <2>3. QED  BY <2>1, <2>2, AnsweredMoves
  <1>3. CASE n \notin dispatched
    <2>1. PICK f \in Fibers : Dispatch(f) /\ drain[f].row = n /\ log' = Append(log, StartOf(n))
      BY <1>3, DispatchedMoves
    <2>2. StartOf(n).kind = "start" /\ StartOf(n).message = m
      BY <1>1 DEF StartOf, Intent
    <2>3. Coming(m, {"start"})'
      BY <2>1, <2>2, CommittedComes
    <2>4. QED  BY <2>3 DEF Answered
  <1>4. QED  BY <1>2, <1>3

LEMMA KeptStep == ASSUME IInv, [Next]_vars, Fits' PROVE Kept'
  <1>1. SUFFICES ASSUME NEW m \in Messages, Sent(m)'
                 PROVE  Answered(m)' \/ Waiting(m)' # {} \/ Steered(m)' \/ Coming(m, TextKinds)'
    BY DispatchedKept DEF Kept
  <1>2. CASE Answered(m)
    <2>1. CASE Requeue /\ Event.message = m /\ Waiting(m) = {}
      <3>1. PICK n \in Nat : n = handled + 1
        BY Typed
      <3>2. /\ n \in 1 .. Len(log) /\ n \in Numbers /\ state[n] = "none" /\ Message(n) = m
            /\ state \in [Numbers -> RowStates]
        BY <2>1, <3>1, SendingNoRow, Typed DEF Requeue, Event, Message
      <3>3. state' = Enqueued(n) /\ UNCHANGED log
        BY <2>1, <3>1 DEF Requeue
      <3>4. state'[n] = "queued"
        BY <2>1, <3>2, <3>3 DEF Enqueued
      <3>5. n \in Waiting(m)'
        BY <3>2, <3>3, <3>4 DEF Waiting, Active, Message
      <3>6. QED  BY <3>5
    <2>2. QED  BY <1>2, <2>1, AnsweredMoves
  <1>3. CASE Waiting(m) # {}
    BY <1>3, WaitingKept
  <1>4. CASE Steered(m)
    BY <1>4, SteeredKept
  <1>5. CASE Coming(m, TextKinds)
    BY <1>2, <1>5, ComingKept
  <1>6. CASE ~Sent(m)
    <2>1. PICK n \in 1 .. Len(log') : log'[n].message = m /\ log'[n].kind \in TextKinds
      BY <1>1 DEF Sent, TextKinds
    <2>2. PICK k \in Entries : log' = Append(log, k)
      <3>1. log' # log
        BY <1>1, <1>6 DEF Sent
      <3>2. QED  BY <3>1, LogStep
    <2>3. n \notin 1 .. Len(log)
      <3>1. SUFFICES ASSUME n \in 1 .. Len(log)  PROVE FALSE
        OBVIOUS
      <3>2. log'[n] = log[n]
        BY <3>1, LogGrows
      <3>3. QED  BY <1>6, <2>1, <3>1, <3>2 DEF Sent, TextKinds
    <2>4. log \in Seq(Entries) /\ Len(log) \in Nat
      BY DEF IInv, Shapes
    <2>5. n = Len(log) + 1 /\ log'[n] = k
      BY <2>2, <2>3, <2>4
    <2>6. QED  BY <2>1, <2>2, <2>5, CommittedComes
  <1>7. CASE Sent(m)
    BY <1>2, <1>3, <1>4, <1>5, <1>7 DEF IInv, Kept
  <1>8. QED  BY <1>6, <1>7

-----------------------------------------------------------------------------
(* The theorems *)

LEMMA InitHolds == ASSUME Init, Fits PROVE IInv
  <1>0. MaxLog \in Nat /\ Parent \in Threads /\ ThreadOf \in [Messages -> Threads]
    BY PromotionAssumption
  <1>1. /\ log = <<>> /\ Len(log) = 0 /\ handled = 0 /\ replayed = 0 /\ live = 0 /\ barrier = 0
        /\ held = {} /\ quarantined = {}
        /\ state = [n \in Numbers |-> "none"] /\ dispatched = {} /\ removed = {}
        /\ reservation = {} /\ draining = {} /\ raced = {}
        /\ hand = [f \in {"source", "terminal"} |-> AtRest] /\ drain = [f \in Fibers |-> NoDrain]
        /\ sent = [m \in Messages |-> 0] /\ fate = [m \in Messages |-> "none"]
    BY DEF Init
  <1>2. 1 .. Len(log) = {} /\ \A n : ~(n \in 1 .. Len(log))
    BY <1>1
  <1>3. Me = AtRest /\ Me.step = "idle" /\ Me.retry = FALSE /\ DOMAIN Me = {"step", "mine", "turn", "retry"}
    BY <1>1 DEF Me, AtRest
  <1>4. \A f \in Fibers : drain[f] = NoDrain /\ drain[f].at = "none" /\ drain[f].row = 0
    BY <1>1 DEF NoDrain
  <1>5. \A m : Waiting(m) = {} /\ Chances(m) = {} /\ ~Sent(m) /\ RowsOf(m) = {} /\ ~Steered(m)
    BY <1>2, <1>3 DEF Waiting, Chances, Sent, RowsOf, Steered
  <1>6. TypeOK
    <2>1. \A m \in Messages : Cardinality(Waiting(m)) <= 1
      BY <1>5, AtMostOne
    <2>2. Cardinality(reservation) <= 1
      BY <1>1, AtMostOne
    <2>3. state \in [Numbers -> {"none", "promoted", "cancelled"} \cup Active]
      BY <1>1
    <2>4. \A n \in Numbers : state[n] = "none"
      BY <1>1
    <2>5. QED  BY <1>0, <1>1, <2>1, <2>2, <2>3, <2>4 DEF TypeOK
  <1>7. Shapes
    <2>1. log \in Seq(Entries)
      BY <1>1
    <2>2. NoDrain \in Drains
      BY <1>0 DEF NoDrain, Drains
    <2>3. drain \in [Fibers -> Drains]
      BY <1>1, <2>2
    <2>4. fate \in [Messages -> Fates] /\ sent \in [Messages -> Nat]
      BY <1>1 DEF Fates, Ended, OnRecord, Silent
    <2>5. QED  BY <1>1, <1>3, <2>1, <2>3, <2>4 DEF Shapes
  <1>8. InHand /\ BoundSent /\ Guarding /\ OneDrain
    BY <1>3, <1>4 DEF InHand, BoundSent, Guarding, OneDrain, Promoting, SourceSteps, DrainPlaces
  <1>9. Withdrawn /\ RowsReached /\ StartsFollow /\ DrainRows
    BY <1>1, <1>3, <1>4 DEF Withdrawn, RowsReached, StartsFollow, DrainRows, DrainPlaces
  <1>10. OneWaiting /\ OneReservation /\ FirstInQueue
    BY <1>1, <1>4, <1>5 DEF OneWaiting, OneReservation, FirstInQueue
  <1>11. OneChance
    BY <1>1, <1>3, <1>5 DEF OneChance
  <1>12. Kept
    BY <1>5 DEF Kept
  <1>13. QED  BY <1>6, <1>7, <1>8, <1>9, <1>10, <1>11, <1>12 DEF IInv

LEMMA StepHolds == ASSUME IInv, [Next]_vars, Fits' PROVE IInv'
  BY TypeStep, ShapesStep, InHandStep, BoundSentStep, GuardingStep, WithdrawnStep, RowsReachedStep, StartsFollowStep,
     DrainRowsStep, OneWaitingStep, OneReservationStep, OneChanceStep, FirstInQueueStep, KeptStep
  DEF IInv

\* The invariant holds as long as the log fits the numbers of the rows.
LEMMA IInvAlways == Spec /\ []Fits => []IInv
  <1>1. Init /\ Fits => IInv
    BY InitHolds
  <1>2. IInv /\ [Next]_vars /\ Fits' => IInv'
    BY StepHolds
  <1>3. QED  BY <1>1, <1>2, PTL DEF Spec

\* The rows, the claims, the reservation and the turns keep their types: a message waits in
\* one row at most, and a row counts as promoted only after its start has been committed.
THEOREM TypesHold == Spec /\ []Fits => []TypeOK
  <1>1. IInv => TypeOK
    BY DEF IInv
  <1>2. QED  BY <1>1, IInvAlways, PTL

\* The provider receives a message once, whatever promotions overlap, fail and are repeated.
THEOREM StartsOnce == Spec /\ []Fits => []StartedOnce
  <1>1. IInv => StartedOnce
    BY DEF IInv, OneChance, StartedOnce
  <1>2. QED  BY <1>1, IInvAlways, PTL

\* Two fibers never promote for one thread at once, unless a session stop cleared the guard.
THEOREM DrainsExclude == Spec /\ []Fits => []OneDrain
  <1>1. IInv => OneDrain
    BY DEF IInv
  <1>2. QED  BY <1>1, IInvAlways, PTL

\* Every message that was asked for is still to be handled, waits, was sent or is answered for.
THEOREM NoneLost == Spec /\ []Fits => []NothingLost
  <1>1. ASSUME IInv  PROVE NothingLost
    <2>1. SUFFICES ASSUME NEW m \in Messages, Sent(m)
                   PROVE  \/ Lost(m) \/ Unhandled(m) \/ Steered(m) \/ Waiting(m) # {} \/ sent[m] > 0
                          \/ fate[m] # "none"
      BY <1>1, Zenon DEF NothingLost, Accounted, IInv, Shapes, Fates
    <2>2. \A kinds \in {{"start"}, TextKinds} : Coming(m, kinds) => Unhandled(m)
      BY DEF Coming, Unhandled, TextKinds
    <2>3. QED  BY <1>1, <2>1, <2>2 DEF IInv, Kept, Answered
  <1>2. QED  BY <1>1, IInvAlways, PTL

\* A cancellation or a deletion that finds the message waiting keeps it from the provider.
THEOREM WithdrawnIsFinal == Spec /\ []Fits => WithdrawnStaysUnsent
  <1>1. ASSUME IInv, [Next]_vars
        PROVE  [\A m \in Messages : sent'[m] # sent[m] => fate[m] \notin {"cancelled", "deleted"}]_vars
    BY <1>1, SentMoves DEF IInv, Withdrawn
  <1>2. QED  BY <1>1, IInvAlways, PTL DEF Spec, WithdrawnStaysUnsent

\* When a row is dispatched no older row of its thread waits in the queue.
THEOREM DispatchesInOrder == Spec /\ []Fits => OldestFirst
  <1>1. ASSUME IInv, [Next]_vars
        PROVE  [\A n \in dispatched' \ dispatched :
                  \/ log[n].mode = "steer" \/ Cleared
                  \/ ~\E o \in RowsOf(ThreadAt(n)) : o < n /\ state[o] = "queued"]_vars
    <2>1. SUFFICES ASSUME NEW n \in dispatched' \ dispatched
                   PROVE  \/ log[n].mode = "steer" \/ Cleared
                          \/ ~\E o \in RowsOf(ThreadAt(n)) : o < n /\ state[o] = "queued"
      OBVIOUS
    <2>2. PICK f \in Fibers : Dispatch(f) /\ drain[f].row = n
      BY <1>1, <2>1, DispatchedMoves
    <2>3. drain[f].at = "dispatch" /\ ThreadAt(n) = drain[f].thread
      BY <1>1, <2>2 DEF Dispatch, IInv, DrainRows, DrainPlaces
    <2>4. QED  BY <1>1, <2>2, <2>3 DEF IInv, FirstInQueue
  <1>2. QED  BY <1>1, IInvAlways, PTL DEF Spec, OldestFirst

=============================================================================
