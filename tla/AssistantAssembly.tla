------------------------- MODULE AssistantAssembly -------------------------
(***************************************************************************)
(* How ingestion assembles the assistant messages of one provider turn.    *)
(*                                                                         *)
(* Deltas are either dispatched one by one (streaming) or collected in a   *)
(* process-local cache and dispatched when the item or the turn ends       *)
(* (buffered).  Processing an event is a series of separately committed    *)
(* commands, deduplicated by receipt, and then the cursor transaction of   *)
(* RuntimeJournal; a failure in between retries the whole event, and a     *)
(* restart rebuilds the caches from the accepted events of the open turn.  *)
(*                                                                         *)
(* The text of the delta at sequence s is the token s; a completion that   *)
(* carries the accumulated text of its item replaces the message by its    *)
(* own token.  Ingestion never looks past the head of a thread, so an      *)
(* event arrives here only when every earlier one is accepted.             *)
(***************************************************************************)
EXTENDS Naturals, Sequences, FiniteSets

CONSTANTS
    Messages,     (* assistant message ids, one per provider item          *)
    Scenarios,    (* see Scenario                                          *)
    BufferLimit,  (* MAX_BUFFERED_ASSISTANT_CHARS, in deltas               *)
    MaxEvents     (* bound: events of the turn                             *)

Modes == {"streaming", "buffered"}

\* What a behaviour may contain: the requested delivery mode; whether completed
\* items carry their accumulated text; whether the provider completes one item
\* before it begins the next, and all of them before the turn ends; and bounds
\* on crashes and transient failures.
Scenario == [mode : Modes, snapshots : BOOLEAN, oneByOne : BOOLEAN,
             crashes : Nat, failures : Nat]

ASSUME AssemblyAssumption ==
    /\ Scenarios \subseteq Scenario
    /\ BufferLimit \in Nat /\ MaxEvents \in Nat

VARIABLES
    scenario,
    (* durable *)
    log,       (* the provider events of the turn                          *)
    cursor,    (* the last accepted one                                    *)
    receipts,  (* ids of the accepted commands                             *)
    text,      (* projection_thread_messages.text                          *)
    (* process-local caches *)
    up,
    mode,      (* assistantDeliveryModeByTurnKey, "none" when absent       *)
    buffer,    (* bufferedAssistantTextByMessageId                         *)
    known,     (* turnMessageIdsByTurnKey                                  *)
    (* the event being processed *)
    busy,
    todo,      (* messages it has still to finalize                        *)
    commands,  (* commands it has still to dispatch                        *)
    forget,    (* messages it forgets before the transaction               *)
    (* faults so far *)
    crashes, failures

durable == <<log, cursor, receipts, text>>
caches  == <<up, mode, buffer, known>>
working == <<busy, todo, commands, forget>>
faults  == <<crashes, failures>>
vars    == <<scenario, durable, caches, working, faults>>

Event == [kind : {"delta", "completed", "turnEnd"}, message : Messages]

\* The head of the thread.
NextSequence == cursor + 1
NextEvent == log[NextSequence]
Ended == \E s \in 1..cursor : log[s].kind = "turnEnd"

\* The deltas of message m among the first n events, in order: the i-th of them is
\* the one with i of them up to it.
DeltasAmong(m, n) == {s \in 1..n : log[s].kind = "delta" /\ log[s].message = m}
Ranked(m, n, i) == {s \in DeltasAmong(m, n) : Cardinality(DeltasAmong(m, s)) = i}
DeltasOf(m, n) ==
    [i \in 1..Cardinality(DeltasAmong(m, n)) |-> CHOOSE s \in Ranked(m, n, i) : TRUE]

Started(m) == \E s \in 1..Len(log) : log[s].kind = "delta" /\ log[s].message = m
Finished(m) == \E s \in 1..Len(log) : log[s].kind = "completed" /\ log[s].message = m

-----------------------------------------------------------------------------
(* Provider events *)

Init ==
    /\ scenario \in Scenarios
    /\ log = <<>> /\ cursor = 0 /\ receipts = {}
    /\ text = [m \in Messages |-> <<>>]
    /\ up = TRUE /\ mode = scenario.mode
    /\ buffer = [m \in Messages |-> <<>>] /\ known = {}
    /\ busy = FALSE /\ todo = {} /\ commands = <<>> /\ forget = {}
    /\ crashes = 0 /\ failures = 0

\* A provider sends no delta of a completed item, completes an item once, and
\* begins nothing after the end of the turn.
Sensible(kind, m) ==
    /\ ~Ended
    /\ kind \in {"delta", "completed"} => ~Finished(m)
    /\ kind = "completed" => Started(m)
    /\ scenario.oneByOne =>
          IF kind = "turnEnd" THEN \A x \in Messages : Started(x) => Finished(x)
          ELSE \A x \in Messages \ {m} : Started(x) => Finished(x)

Receive(kind, m) ==
    /\ cursor = Len(log) /\ Len(log) < MaxEvents
    /\ Sensible(kind, m)
    /\ log' = Append(log, [kind |-> kind, message |-> m])
    /\ UNCHANGED <<scenario, cursor, receipts, text, caches, working, faults>>

-----------------------------------------------------------------------------
(* processRuntimeEvent on the head of the thread *)

Command(tag, m, tokens) == [id |-> <<NextSequence, tag, m>>, message |-> m, tokens |-> tokens]

Begin(kind) ==
    /\ up /\ ~busy
    /\ cursor < Len(log)
    /\ NextEvent.kind = kind
    /\ busy' = TRUE

\* getAssistantDeliveryMode
DeliveryMode == IF mode = "none" THEN "buffered" ELSE mode

\* appendBufferedAssistantText: text beyond the limit leaves the buffer whole.
Spills(m) == Len(buffer[m]) >= BufferLimit

KeepAfterSpill(m, delta) == [buffer EXCEPT ![m] = Append(@, delta)]

appendBufferedAssistantText(m, delta) ==
    [buffer EXCEPT ![m] = IF Spills(m) THEN <<>> ELSE Append(@, delta)]

BeginDelta ==
    /\ Begin("delta")
    /\ LET m == NextEvent.message IN
       /\ known' = known \cup {m}
       /\ IF DeliveryMode = "buffered"
          THEN /\ buffer' = appendBufferedAssistantText(m, NextSequence)
               /\ commands' = IF Spills(m)
                              THEN <<Command("spill", m, Append(buffer[m], NextSequence))>> ELSE <<>>
          ELSE /\ commands' = <<Command("delta", m, <<NextSequence>>)>>
               /\ UNCHANGED buffer
    /\ UNCHANGED <<scenario, durable, up, mode, todo, forget, faults>>

\* resolveAssistantCompletionMessageId: the item's own message when it is known,
\* else the only known message, else some known message already projected.
ResolvedIds(m) ==
    IF m \in known THEN {m}
    ELSE IF Cardinality(known) = 1 THEN known
    ELSE LET projected == {x \in known : text[x] # <<>>}
         IN  IF projected = {} THEN {m} ELSE projected

BeginCompleted ==
    /\ Begin("completed")
    /\ \E m \in ResolvedIds(NextEvent.message) :
          /\ known' = known \cup {m}
          /\ todo' = {m} /\ forget' = {m}
    /\ UNCHANGED <<scenario, durable, up, mode, buffer, commands, faults>>

BeginTurnEnd ==
    /\ Begin("turnEnd")
    /\ todo' = known /\ forget' = known
    /\ UNCHANGED <<scenario, durable, caches, commands, faults>>

FinalizeWithoutTaking(m) == buffer

\* takeBufferedAssistantText empties the buffer before anything is dispatched.
takeBufferedAssistantText(m) == [buffer EXCEPT ![m] = <<>>]

\* finalizeAssistantMessage, up to its first dispatch.
Finalize ==
    /\ busy /\ commands = <<>>
    /\ \E m \in todo :
          /\ todo' = todo \ {m}
          /\ buffer' = takeBufferedAssistantText(m)
          /\ LET snapshot == NextEvent.kind = "completed" /\ scenario.snapshots
                 collected == ~snapshot /\ buffer[m] # <<>>
             IN commands' =
                  (IF collected THEN <<Command("final delta", m, buffer[m])>> ELSE <<>>)
                  \o <<Command("complete", m, IF snapshot THEN <<NextSequence>> ELSE <<>>)>>
    /\ UNCHANGED <<scenario, durable, up, mode, known, busy, forget, faults>>

\* A delta extends the message; a completion replaces its text, or keeps it when
\* it carries none.
Projected(c) ==
    [text EXCEPT ![c.message] =
        IF c.id[2] # "complete" THEN @ \o c.tokens
        ELSE IF c.tokens = <<>> THEN @ ELSE c.tokens]

DispatchAgain(c) == FALSE

\* dispatchProviderCommandOnce
Receipted(c) == c.id \in receipts

Dispatch ==
    /\ commands # <<>>
    /\ LET c == Head(commands) IN
       IF Receipted(c) THEN UNCHANGED <<receipts, text>>
       ELSE /\ receipts' = receipts \cup {c.id}
            /\ text' = Projected(c)
    /\ commands' = Tail(commands)
    /\ UNCHANGED <<scenario, log, cursor, caches, busy, todo, forget, faults>>

EventOver == busy' = FALSE /\ todo' = {} /\ commands' = <<>> /\ forget' = {}

Accept ==
    /\ busy /\ todo = {} /\ commands = <<>>
    /\ cursor' = NextSequence
    /\ known' = known \ forget
    /\ EventOver
    /\ UNCHANGED <<scenario, log, receipts, text, up, mode, buffer, faults>>

\* A dispatch or the cursor transaction fails; the event will be retried.
Fail ==
    /\ busy
    /\ failures < scenario.failures /\ failures' = failures + 1
    /\ known' = IF todo = {} /\ commands = <<>> THEN known \ forget ELSE known
    /\ EventOver
    /\ UNCHANGED <<scenario, durable, up, mode, buffer, crashes>>

-----------------------------------------------------------------------------
(* Restarts *)

Crash ==
    /\ up
    /\ crashes < scenario.crashes /\ crashes' = crashes + 1
    /\ up' = FALSE /\ mode' = "none"
    /\ buffer' = [m \in Messages |-> <<>>] /\ known' = {}
    /\ EventOver
    /\ UNCHANGED <<scenario, durable, failures>>

AcceptedDeltas == {s \in 1..cursor : log[s].kind = "delta"}

ReplayedAsBuffered == IF Ended \/ AcceptedDeltas = {} THEN "none" ELSE "buffered"

\* prepareAcceptedRuntimeEventReplay: the first accepted delta tells the mode.
ReplayedMode ==
    IF Ended \/ AcceptedDeltas = {} THEN "none"
    ELSE LET first == CHOOSE s \in AcceptedDeltas : \A r \in AcceptedDeltas : s <= r
         IN  IF <<first, "delta", log[first].message>> \in receipts
             THEN "streaming" ELSE "buffered"

\* What rebuildAcceptedRuntimeAggregation leaves in the buffer of m: the deltas
\* since the last spill.
RebuiltBuffer(m) ==
    LET deltas == DeltasOf(m, cursor)
        kept   == Len(deltas) % (BufferLimit + 1)
    IN  IF Ended \/ ReplayedMode # "buffered" THEN <<>>
        ELSE SubSeq(deltas, Len(deltas) - kept + 1, Len(deltas))

Restart ==
    /\ ~up
    /\ up' = TRUE
    /\ mode' = ReplayedMode
    /\ known' = IF Ended THEN {} ELSE {log[s].message : s \in AcceptedDeltas}
    /\ buffer' = [m \in Messages |-> RebuiltBuffer(m)]
    /\ UNCHANGED <<scenario, durable, working, faults>>

-----------------------------------------------------------------------------
Next ==
    \/ \E kind \in {"delta", "completed", "turnEnd"}, m \in Messages : Receive(kind, m)
    \/ BeginDelta \/ BeginCompleted \/ BeginTurnEnd
    \/ Finalize \/ Dispatch \/ Accept \/ Fail
    \/ Crash \/ Restart

Spec == Init /\ [][Next]_vars

-----------------------------------------------------------------------------
(* Properties *)

Tokens == Seq(Nat)

\* The scenarios in which the assembly keeps what its documentation promises: no
\* fault; streamed deltas that are retried; items that come one after the other
\* and carry their text, retried; and such items, streamed, with one restart.
Calm(s)      == s.crashes = 0 /\ s.failures = 0
Streamed(s)  == s.crashes = 0 /\ s.mode = "streaming" /\ ~s.snapshots
Carried(s)   == s.crashes = 0 /\ s.snapshots /\ s.oneByOne
Restarted(s) == /\ s.crashes <= 1 /\ s.failures = 0 /\ s.mode = "streaming"
                /\ s.snapshots /\ s.oneByOne
Sound(s) == Calm(s) \/ Streamed(s) \/ Carried(s) \/ Restarted(s)

\* Journal, receipts, projection and caches keep their types, and a message the
\* worker is to finalize is one that has been seen.
TypeOK ==
    /\ scenario \in Scenarios
    /\ log \in Seq(Event)
    /\ cursor \in 0..Len(log)
    /\ receipts \subseteq Nat \X {"delta", "spill", "final delta", "complete"} \X Messages
    /\ text \in [Messages -> Tokens]
    /\ up \in BOOLEAN
    /\ mode \in Modes \cup {"none"}
    /\ buffer \in [Messages -> Tokens]
    /\ \A m \in Messages : Len(buffer[m]) <= BufferLimit
    /\ known \subseteq Messages
    /\ busy \in BOOLEAN
    /\ todo \subseteq Messages /\ forget \subseteq Messages
    /\ \A i \in 1..Len(commands) : commands[i].message \in Messages
    /\ crashes \in Nat /\ failures \in Nat

\* What the provider said: the accumulated text its completion carried, or the
\* deltas in order.
Said(m) ==
    LET snapshots == {s \in 1..cursor : /\ log[s].kind = "completed" /\ log[s].message = m
                                        /\ scenario.snapshots}
    IN  IF snapshots # {} THEN <<CHOOSE s \in snapshots : TRUE>> ELSE DeltasOf(m, cursor)

\* When the turn has ended the transcript is what the provider said: no text is
\* lost, repeated or misplaced by buffering, spilling, retries or restarts
\* ("projection effects ... remain idempotent across retry and restart").
TranscriptFaithful == Ended => \A m \in Messages : text[m] = Said(m)

\* Between two events, what has been projected of an unfinished message and what
\* is still buffered are together exactly the deltas accepted.
NothingInLimbo ==
    ~scenario.snapshots /\ up /\ ~busy /\ cursor = Len(log) /\ ~Ended =>
        \A m \in Messages : text[m] \o buffer[m] = DeltasOf(m, cursor)

CompletedBy(m, n) == \E s \in 1..n : log[s].kind = "completed" /\ log[s].message = m

\* Once the completion of an item has been accepted, its message never changes:
\* neither the end of the turn nor a restart touches it again.
CompletedTextIsFinal ==
    [][\A m \in Messages : CompletedBy(m, cursor) => text'[m] = text[m]]_vars
=============================================================================
