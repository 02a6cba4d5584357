---------------------- MODULE AssistantAssemblyProofs ----------------------
(***************************************************************************)
(* Theorems about AssistantAssembly, for any messages, any buffer limit,   *)
(* any number of events and any scenarios.                                 *)
(*                                                                         *)
(* Types, the shape of what the worker has in hand and the order of the    *)
(* provider's events hold in every scenario.  What the text is depends on  *)
(* the scenario, and so does the reason: without a fault every token is at *)
(* one place on its way (CalmInv); a streamed delta is in the text exactly *)
(* when its receipt exists (StreamedInv); and where completions carry the  *)
(* text, a completed message is closed to whatever else was collected for  *)
(* it (CarriedInv).                                                        *)
(***************************************************************************)
EXTENDS AssistantAssembly, FiniteSetTheorems, SequenceTheorems, TLAPS

Tags == {"delta", "spill", "final delta", "complete"}
Id == Nat \X Tags \X Messages
ACommand == [id : Id, message : Messages, tokens : Tokens]

DeltaBy(m, n) == \E s \in 1..n : log[s].kind = "delta" /\ log[s].message = m

-----------------------------------------------------------------------------
(* The inductive invariant: what holds in every scenario *)

\* The worker is never more than one event behind, and has something in hand only
\* while it processes that event.
Shape ==
    /\ Len(log) <= cursor + 1
    /\ busy => up /\ cursor < Len(log)
    /\ ~busy => todo = {} /\ commands = <<>> /\ forget = {}
    /\ crashes <= scenario.crashes /\ failures <= scenario.failures
    /\ ~up => 0 < crashes

CommandsTyped == commands \in Seq(ACommand)

\* The order in which a provider sends its events.
LastIsLast == \A s \in 1..Len(log) : log[s].kind = "turnEnd" => s = Len(log)
CompletionIsLast ==
    \A s, r \in 1..Len(log) :
        log[s].kind = "completed" /\ log[r].kind # "turnEnd" /\ log[r].message = log[s].message
            => r <= s
BegunFirst == \A s \in 1..Len(log) : log[s].kind = "completed" => DeltaBy(log[s].message, s - 1)
OneAfterTheOther ==
    scenario.oneByOne =>
        \A s \in 1..Len(log) : \A r \in 1..(s - 1) :
            log[r].kind = "delta" /\ (log[s].kind = "turnEnd" \/ log[r].message # log[s].message)
                => CompletedBy(log[r].message, s - 1)
Orderly == LastIsLast /\ CompletionIsLast /\ BegunFirst /\ OneAfterTheOther

\* A receipt names an event of the log, and the receipt of a delta one of its message.
ReceiptsReal ==
    \A r \in receipts :
        /\ r[1] \in 1..Len(log)
        /\ r[2] \in {"delta", "spill"} => log[r[1]].kind = "delta" /\ log[r[1]].message = r[3]

Snapshot == NextEvent.kind = "completed" /\ scenario.snapshots
Closing(x) == Command("complete", x, IF Snapshot THEN <<NextSequence>> ELSE <<>>)

\* What is in hand while a delta is processed, and while messages are finalized.
DeltaInHand ==
    /\ todo = {} /\ forget = {}
    /\ \/ commands = <<>>
       \/ commands = <<Command("delta", NextEvent.message, <<NextSequence>>)>>
       \/ commands = <<Command("spill", NextEvent.message, commands[1].tokens)>>

FinalizeInHand ==
    /\ todo \subseteq forget
    /\ \/ commands = <<>>
       \/ \E x \in forget \ todo :
             \/ commands = <<Closing(x)>>
             \/ /\ ~Snapshot
                /\ commands = <<Command("final delta", x, commands[1].tokens), Closing(x)>>

InHand == busy => IF NextEvent.kind = "delta" THEN DeltaInHand ELSE FinalizeInHand

Base == TypeOK /\ CommandsTyped /\ Shape /\ Orderly /\ ReceiptsReal /\ InHand

-----------------------------------------------------------------------------
(* The inductive invariant: what holds in the sound scenarios *)

\* No command in hand changes the text of m.
Void(m) ==
    \A i \in 1..Len(commands) : commands[i].message = m =>
        commands[i].id[2] = "complete" /\ commands[i].tokens = <<>>

\* A completed message has nothing buffered and nothing on its way.
Closed == \A m \in Messages : CompletedBy(m, cursor) => buffer[m] = <<>> /\ Void(m)

\* Its text is the one its completion carried.
Replaced ==
    \A s \in 1..cursor : log[s].kind = "completed" => text[log[s].message] = <<s>>

\* The delta in hand is dispatched or about to be.
DeltaStreamed ==
    busy /\ NextEvent.kind = "delta" =>
        \/ commands = <<Command("delta", NextEvent.message, <<NextSequence>>)>>
        \/ commands = <<>> /\ <<NextSequence, "delta", NextEvent.message>> \in receipts

\* Every item begun and not completed is known.
Remembered ==
    ~Ended => \A m \in Messages : DeltaBy(m, cursor) /\ ~CompletedBy(m, cursor) => m \in known

DeltaKnown == busy /\ NextEvent.kind = "delta" => NextEvent.message \in known

\* The completion in hand is that of its own item.
OwnCompletion == busy /\ NextEvent.kind = "completed" => forget = {NextEvent.message}

\* Streamed.
Reached(m) == IF <<NextSequence, "delta", m>> \in receipts THEN NextSequence ELSE cursor

StreamedInv ==
    /\ up /\ mode = "streaming"
    /\ \A m \in Messages : buffer[m] = <<>>
    /\ \A m \in Messages : text[m] = DeltasOf(m, Reached(m))
    /\ DeltaStreamed
    /\ busy /\ NextEvent.kind # "delta" => \A m \in Messages : Void(m)

\* Calm.  What is on its way to m, and how far the deltas of m have been read.
Coming(m) ==
    IF commands # <<>> /\ commands[1].message = m /\ commands[1].id[2] # "complete"
    THEN commands[1].tokens ELSE <<>>
Read(m) ==
    IF busy /\ NextEvent.kind = "delta" /\ NextEvent.message = m THEN NextSequence ELSE cursor
Settling(m) == busy /\ Snapshot /\ NextEvent.message = m /\ m \notin todo

Fresh ==
    \A r \in receipts : r[1] > cursor =>
        busy /\ r[3] \notin todo /\ \A i \in 1..Len(commands) : commands[i].id # r
Conserved ==
    \A m \in Messages : ~(scenario.snapshots /\ CompletedBy(m, cursor)) /\ ~Settling(m) =>
        text[m] \o Coming(m) \o buffer[m] = DeltasOf(m, Read(m))
Settled ==
    \A m \in Messages : Settling(m) =>
        \/ commands = <<Closing(m)>>
        \/ commands = <<>> /\ text[m] = <<NextSequence>>
BufferedIsKnown == \A m \in Messages : buffer[m] # <<>> => m \in known
Taken == \A m \in forget \ todo : buffer[m] = <<>>

StreamedAtOnce == mode = "streaming" => \A m \in Messages : buffer[m] = <<>>
AllForgotten ==
    /\ busy /\ NextEvent.kind = "turnEnd" => forget = known
    /\ Ended => known = {}

CalmInv ==
    /\ up /\ mode = scenario.mode
    /\ Remembered /\ DeltaKnown /\ OwnCompletion /\ AllForgotten
    /\ Closed /\ BufferedIsKnown /\ Taken /\ StreamedAtOnce
    /\ Fresh /\ Settled /\ Conserved
    /\ scenario.snapshots => Replaced

\* Carried and Restarted.
Unseen == \A m \in Messages : ~Started(m) => text[m] = <<>>
KnownStarted == \A m \in known \cup forget : Started(m)
HeadReplaced ==
    cursor < Len(log) /\ NextEvent.kind = "completed"
        /\ <<NextSequence, "complete", NextEvent.message>> \in receipts
            => text[NextEvent.message] = <<NextSequence>>
Replacing ==
    busy /\ NextEvent.kind = "completed" /\ todo = {} =>
        /\ buffer[NextEvent.message] = <<>>
        /\ \/ commands = <<Closing(NextEvent.message)>>
           \/ commands = <<>> /\ <<NextSequence, "complete", NextEvent.message>> \in receipts
ReceiptedDeltas ==
    \A s \in AcceptedDeltas : <<s, "delta", log[s].message>> \in receipts

CarriedInv ==
    /\ Closed /\ Unseen /\ KnownStarted /\ OwnCompletion /\ Replacing /\ Replaced /\ HeadReplaced
    /\ scenario.crashes = 0 => up /\ \A m \in known : ~CompletedBy(m, cursor)
    /\ Restarted(scenario) =>
          /\ up => Remembered /\ DeltaKnown
          /\ crashes = 0 => mode = "streaming" /\ DeltaStreamed
          /\ crashes = 0 \/ ~up => ReceiptedDeltas

IInv ==
    /\ Base
    /\ Streamed(scenario) => StreamedInv
    /\ Calm(scenario) => CalmInv
    /\ Carried(scenario) \/ Restarted(scenario) => CarriedInv

-----------------------------------------------------------------------------
(* The operators *)

\* A nonempty set of numbers has a least element.
LEMMA LeastExists ==
    ASSUME NEW S \in SUBSET Nat, S # {}
    PROVE  \E m \in S : \A n \in S : m <= n
  <1> DEFINE R == {ss \in Nat \X Nat : ss[1] < ss[2]}
  <1>1. IsWellFoundedOn(R, Nat)
    BY NatLessThanWellFounded DEF OpToRel
  <1>2. \E m \in S : \A n \in S : ~(<<n, m>> \in R)
    <2> HIDE DEF R
    <2> QED  BY <1>1, WFMin
  <1>3. PICK m \in S : \A n \in S : <<n, m>> \notin R
    BY <1>2
  <1>4. \A n \in S : ~(n < m)
    <2>1. SUFFICES ASSUME NEW n \in S, n < m  PROVE <<n, m>> \in R
      BY <1>3
    <2>2. n \in Nat /\ m \in Nat
      OBVIOUS
    <2>3. QED  BY <2>1, <2>2, Zenon
  <1>5. QED  BY <1>4

\* The deltas of a message among the first n events are finitely many.
LEMMA DeltasFinite ==
    ASSUME NEW m, NEW n \in Nat
    PROVE  /\ IsFiniteSet(DeltasAmong(m, n)) /\ Cardinality(DeltasAmong(m, n)) \in Nat
           /\ DeltasAmong(m, n) \subseteq 1 .. n
           /\ n \notin DeltasAmong(m, n) => DeltasAmong(m, n) \subseteq 1 .. (n - 1)
  <1>1. DeltasAmong(m, n) \subseteq 1 .. n
    BY DEF DeltasAmong
  <1>2. IsFiniteSet(1 .. n)
    BY FS_Interval
  <1>3. QED  BY <1>1, <1>2, FS_Subset, FS_CardinalityType

\* One more event adds a delta of m, or none.
LEMMA OneMoreEvent ==
    ASSUME NEW m, NEW n \in Nat
    PROVE  DeltasAmong(m, n + 1) =
              IF log[n + 1].kind = "delta" /\ log[n + 1].message = m
              THEN DeltasAmong(m, n) \cup {n + 1} ELSE DeltasAmong(m, n)
  BY DEF DeltasAmong

LEMMA OneMoreCounted ==
    ASSUME NEW m, NEW n \in Nat, log[n + 1].kind = "delta", log[n + 1].message = m
    PROVE  Cardinality(DeltasAmong(m, n + 1)) = Cardinality(DeltasAmong(m, n)) + 1
  <1>1. DeltasAmong(m, n + 1) = DeltasAmong(m, n) \cup {n + 1}
    BY OneMoreEvent
  <1>2. n + 1 \notin DeltasAmong(m, n)
    BY DeltasFinite
  <1>3. QED  BY <1>1, <1>2, DeltasFinite, FS_AddElement

\* A rank at most the number of deltas so far is not changed by one more delta.
LEMMA RankKept ==
    ASSUME NEW m, NEW n \in Nat, log[n + 1].kind = "delta", log[n + 1].message = m,
           NEW i \in 1 .. Cardinality(DeltasAmong(m, n))
    PROVE  Ranked(m, n + 1, i) = Ranked(m, n, i)
  <1>1. DeltasAmong(m, n + 1) = DeltasAmong(m, n) \cup {n + 1}
    BY OneMoreEvent
  <1>2. Cardinality(DeltasAmong(m, n + 1)) # i
    BY OneMoreCounted, DeltasFinite
  <1>3. QED  BY <1>1, <1>2 DEF Ranked

\* Every rank is that of some delta.
LEMMA RankExists ==
    ASSUME NEW m, NEW n \in Nat, NEW i \in 1 .. Cardinality(DeltasAmong(m, n))
    PROVE  Ranked(m, n, i) # {}
  <1> DEFINE C(k) == Cardinality(DeltasAmong(m, k))
             S == {k \in Nat : \E j \in 1 .. C(k) : Ranked(m, k, j) = {}}
  <1>1. SUFFICES S = {}
    OBVIOUS
  <1>2. SUFFICES ASSUME S # {}  PROVE FALSE
    OBVIOUS
  <1>3. PICK k \in S : \A x \in S : k <= x
    BY <1>2, LeastExists
  <1>4. PICK j \in 1 .. C(k) : Ranked(m, k, j) = {}
    BY <1>3
  <1>5. k \in Nat /\ C(k) \in Nat
    BY <1>3, DeltasFinite
  <1>6. k # 0
    <2>1. SUFFICES ASSUME k = 0  PROVE FALSE
      OBVIOUS
    <2>2. DeltasAmong(m, 0) = {}
      BY DEF DeltasAmong
    <2>3. C(0) = 0
      BY <2>2, FS_EmptySet
    <2>4. QED  BY <2>1, <2>3, <1>4
  <1>7. PICK p \in Nat : k = p + 1
    <2>1. k - 1 \in Nat /\ k = (k - 1) + 1
      BY <1>5, <1>6
    <2>2. QED  BY <2>1
  <1>8. p \notin S
    BY <1>3, <1>5, <1>7
  <1>9. \A x \in 1 .. C(p) : Ranked(m, p, x) # {}
    BY <1>8
  <1>10. CASE log[k].kind = "delta" /\ log[k].message = m
    <2>1. C(k) = C(p) + 1
      BY <1>7, <1>10, OneMoreCounted
    <2>2. C(p) \in Nat
      BY DeltasFinite
    <2>3. CASE j <= C(p)
      <3>1. j \in 1 .. C(p)
        BY <2>2, <2>3, <1>4, <1>5
      <3>2. Ranked(m, k, j) = Ranked(m, p, j)
        BY <3>1, <1>7, <1>10, RankKept
      <3>3. QED  BY <3>1, <3>2, <1>4, <1>9
    <2>4. CASE j = C(k)
      <3>1. k \in DeltasAmong(m, k)
        BY <1>5, <1>6, <1>10 DEF DeltasAmong
      <3>2. k \in Ranked(m, k, j)
        BY <3>1, <2>4 DEF Ranked
      <3>3. QED  BY <3>2, <1>4
    <2>5. j <= C(p) \/ j = C(k)
      BY <2>1, <2>2, <1>4
    <2>6. QED  BY <2>3, <2>4, <2>5
  <1>11. CASE ~(log[k].kind = "delta" /\ log[k].message = m)
    <2>1. DeltasAmong(m, k) = DeltasAmong(m, p)
      BY <1>7, <1>11, OneMoreEvent
    <2>2. Ranked(m, k, j) = Ranked(m, p, j)
      BY <2>1 DEF Ranked
    <2>3. C(k) = C(p)
      BY <2>1
    <2>4. QED  BY <2>2, <2>3, <1>4, <1>9
  <1>12. QED  BY <1>10, <1>11

\* The deltas of a message are a sequence of numbers, as long as they are many.
LEMMA DeltasTyped ==
    ASSUME NEW m, NEW n \in Nat
    PROVE  /\ DeltasOf(m, n) \in Tokens
           /\ Len(DeltasOf(m, n)) = Cardinality(DeltasAmong(m, n))
  <1> DEFINE c == Cardinality(DeltasAmong(m, n))
             e(i) == CHOOSE s \in Ranked(m, n, i) : TRUE
  <1>1. c \in Nat
    BY DeltasFinite
  <1>2. \A i \in 1 .. c : e(i) \in Nat
    <2>1. SUFFICES ASSUME NEW i \in 1 .. c  PROVE e(i) \in Nat
      OBVIOUS
    <2>2. Ranked(m, n, i) # {}
      BY RankExists
    <2>3. e(i) \in Ranked(m, n, i)
      BY <2>2
    <2>4. QED  BY <2>3, DeltasFinite DEF Ranked
  <1>3. DeltasOf(m, n) = [i \in 1 .. c |-> e(i)]
    BY DEF DeltasOf
  <1> HIDE DEF c, e
  <1>4. [i \in 1 .. c |-> e(i)] \in Seq(Nat) /\ Len([i \in 1 .. c |-> e(i)]) = c
    BY <1>1, <1>2, IsASeq
  <1>5. QED  BY <1>3, <1>4 DEF Tokens, c

\* An event that is no delta of m leaves its deltas as they are.
LEMMA DeltasSkip ==
    ASSUME NEW m, NEW n \in Nat, ~(log[n + 1].kind = "delta" /\ log[n + 1].message = m)
    PROVE  DeltasOf(m, n + 1) = DeltasOf(m, n)
  <1>1. DeltasAmong(m, n + 1) = DeltasAmong(m, n)
    BY OneMoreEvent
  <1>2. \A i : Ranked(m, n + 1, i) = Ranked(m, n, i)
    BY <1>1 DEF Ranked
  <1>3. QED  BY <1>1, <1>2 DEF DeltasOf

\* A delta of m is the last of them.
LEMMA DeltasGrow ==
    ASSUME NEW m, NEW n \in Nat, log[n + 1].kind = "delta", log[n + 1].message = m
    PROVE  DeltasOf(m, n + 1) = Append(DeltasOf(m, n), n + 1)
  <1> DEFINE c == Cardinality(DeltasAmong(m, n))
             p == DeltasOf(m, n)
             q == DeltasOf(m, n + 1)
  <1>1. c \in Nat /\ Cardinality(DeltasAmong(m, n + 1)) = c + 1
    BY OneMoreCounted, DeltasFinite
  <1>2. p \in Seq(Nat) /\ q \in Seq(Nat) /\ Len(p) = c /\ Len(q) = c + 1
    BY <1>1, DeltasTyped DEF Tokens
  <1>3. \A i \in 1 .. c : q[i] = p[i]
    <2>1. SUFFICES ASSUME NEW i \in 1 .. c  PROVE q[i] = p[i]
      OBVIOUS
    <2>2. Ranked(m, n + 1, i) = Ranked(m, n, i)
      BY RankKept
    <2>3. q[i] = (CHOOSE s \in Ranked(m, n + 1, i) : TRUE)
      BY <1>1 DEF DeltasOf
    <2>4. p[i] = (CHOOSE s \in Ranked(m, n, i) : TRUE)
      BY <1>1 DEF DeltasOf
    <2>5. QED  BY <2>2, <2>3, <2>4
  <1>4. q[c + 1] = n + 1
    <2>1. Ranked(m, n + 1, c + 1) \subseteq {n + 1}
      <3>1. SUFFICES ASSUME NEW s \in Ranked(m, n + 1, c + 1), s # n + 1  PROVE FALSE
        OBVIOUS
      <3>2. /\ s \in DeltasAmong(m, n + 1) /\ Cardinality(DeltasAmong(m, s)) = c + 1
        BY <3>1 DEF Ranked
      <3>3. s \in 1 .. n
        BY <3>1, <3>2 DEF DeltasAmong
      <3>4. DeltasAmong(m, s) \subseteq DeltasAmong(m, n)
        BY <3>3 DEF DeltasAmong
      <3>5. Cardinality(DeltasAmong(m, s)) <= c
        BY <3>4, DeltasFinite, FS_Subset
      <3>6. QED  BY <3>2, <3>5, <1>1
    <2>2. Ranked(m, n + 1, c + 1) # {}
      BY <1>1, RankExists
    <2>3. q[c + 1] = (CHOOSE s \in Ranked(m, n + 1, c + 1) : TRUE)
      BY <1>1 DEF DeltasOf
    <2>4. QED  BY <2>1, <2>2, <2>3
  <1> HIDE DEF c, p, q
  <1>5. n + 1 \in Nat
    OBVIOUS
  <1>6. q = Append(p, n + 1)
    <2>1. /\ Append(p, n + 1) \in Seq(Nat) /\ Len(Append(p, n + 1)) = c + 1
          /\ \A i \in 1 .. c : Append(p, n + 1)[i] = p[i]
          /\ Append(p, n + 1)[c + 1] = n + 1
      BY <1>2, <1>5, AppendProperties
    <2>2. \A i \in 1 .. (c + 1) : q[i] = Append(p, n + 1)[i]
      BY <2>1, <1>1, <1>3, <1>4
    <2>3. QED  BY <2>1, <2>2, <1>2, SeqEqual
  <1>7. QED  BY <1>6 DEF p, q

\* Deltas that are none.
LEMMA DeltasNone ==
    ASSUME NEW m, NEW n \in Nat, ~DeltaBy(m, n)
    PROVE  DeltasOf(m, n) = <<>>
  <1>1. DeltasAmong(m, n) = {}
    BY DEF DeltasAmong, DeltaBy
  <1>2. Cardinality(DeltasAmong(m, n)) = 0
    BY <1>1, FS_EmptySet
  <1>3. DeltasOf(m, n) \in Seq(Nat) /\ Len(DeltasOf(m, n)) = 0
    BY <1>2, DeltasTyped DEF Tokens
  <1>4. QED  BY <1>3, EmptySeq

\* What is read of the log is not changed by what is appended to it.
LEMMA DeltasStable ==
    ASSUME NEW m, NEW n \in Nat, \A s \in 1 .. n : log'[s] = log[s]
    PROVE  DeltasOf(m, n)' = DeltasOf(m, n)
  <1>1. \A k \in 0 .. n : DeltasAmong(m, k)' = DeltasAmong(m, k)
    BY DEF DeltasAmong
  <1>2. \A i : Ranked(m, n, i)' = Ranked(m, n, i)
    <2>1. DeltasAmong(m, n)' = DeltasAmong(m, n)
      BY <1>1
    <2>2. \A s \in DeltasAmong(m, n) : DeltasAmong(m, s)' = DeltasAmong(m, s)
      BY <1>1 DEF DeltasAmong
    <2>3. QED  BY <2>1, <2>2 DEF Ranked
  <1>3. DeltasAmong(m, n)' = DeltasAmong(m, n)
    BY <1>1
  <1>4. QED  BY <1>2, <1>3 DEF DeltasOf

-----------------------------------------------------------------------------
(* What holds in every scenario *)

\* The head of the thread, when there is one, is the last event of the log.
LEMMA AtHead ==
    ASSUME Base
    PROVE  /\ cursor \in Nat /\ cursor + 1 \in Nat /\ Len(log) \in Nat /\ BufferLimit \in Nat
           /\ log \in Seq(Event) /\ Len(log) \in {cursor, cursor + 1}
           /\ scenario \in Scenario
           /\ cursor < Len(log) =>
                 /\ Len(log) = cursor + 1 /\ cursor + 1 \in 1 .. Len(log)
                 /\ NextEvent \in Event /\ NextEvent.message \in Messages
                 /\ NextEvent.kind \in {"delta", "completed", "turnEnd"}
  <1>1. /\ cursor \in Nat /\ cursor + 1 \in Nat /\ Len(log) \in Nat /\ BufferLimit \in Nat
        /\ log \in Seq(Event) /\ Len(log) \in {cursor, cursor + 1}
        /\ cursor < Len(log) => Len(log) = cursor + 1 /\ cursor + 1 \in 1 .. Len(log)
    <2>1. /\ BufferLimit \in Nat /\ log \in Seq(Event) /\ cursor \in 0 .. Len(log)
          /\ Len(log) <= cursor + 1
      BY AssemblyAssumption DEF Base, TypeOK, Shape
    <2>2. Len(log) \in Nat
      BY <2>1
    <2>3. QED  BY <2>1, <2>2
  <1>2. scenario \in Scenario
    BY AssemblyAssumption DEF Base, TypeOK
  <1>3. \A s \in 1 .. Len(log) : log[s] \in Event
    BY <1>1
  <1>4. QED  BY <1>1, <1>2, <1>3 DEF NextEvent, NextSequence, Event

\* The types of every variable, as facts about the state.
LEMMA Typing ==
    ASSUME Base
    PROVE  /\ text \in [Messages -> Seq(Nat)] /\ buffer \in [Messages -> Seq(Nat)]
           /\ \A m \in Messages : Len(buffer[m]) \in Nat /\ Len(buffer[m]) <= BufferLimit
           /\ receipts \subseteq Id /\ commands \in Seq(ACommand)
           /\ \A i \in 1 .. Len(commands) :
                 /\ commands[i].id \in Id /\ commands[i].message \in Messages
                 /\ commands[i].tokens \in Seq(Nat)
           /\ known \subseteq Messages /\ todo \subseteq Messages /\ forget \subseteq Messages
           /\ crashes \in Nat /\ failures \in Nat
  <1>1. /\ text \in [Messages -> Seq(Nat)] /\ buffer \in [Messages -> Seq(Nat)]
        /\ receipts \subseteq Id /\ commands \in Seq(ACommand)
        /\ known \subseteq Messages /\ todo \subseteq Messages /\ forget \subseteq Messages
        /\ crashes \in Nat /\ failures \in Nat
    BY DEF Base, TypeOK, CommandsTyped, Tokens, Id, Tags
  <1>2. \A i \in 1 .. Len(commands) : commands[i] \in ACommand
    BY <1>1
  <1>3. \A m \in Messages : Len(buffer[m]) \in Nat /\ Len(buffer[m]) <= BufferLimit
    <2>1. \A m \in Messages : Len(buffer[m]) <= BufferLimit
      BY DEF Base, TypeOK
    <2>2. \A m \in Messages : buffer[m] \in Seq(Nat)
      BY <1>1
    <2>3. QED  BY <2>1, <2>2
  <1>4. QED  BY <1>1, <1>2, <1>3 DEF ACommand, Tokens

\* A command of the event in hand is well formed.
LEMMA CommandTyped ==
    ASSUME NEW tag \in Tags, NEW m \in Messages, NEW q \in Seq(Nat), cursor \in Nat
    PROVE  Command(tag, m, q) \in ACommand
  BY DEF Command, ACommand, Id, Tokens, NextSequence

\* The first command, and what is left after it.
LEMMA First ==
    ASSUME Base, commands # <<>>
    PROVE  /\ Len(commands) \in Nat /\ 1 \in 1 .. Len(commands) /\ Head(commands) = commands[1]
           /\ commands[1] \in ACommand /\ commands[1].id \in Id
           /\ commands[1].message \in Messages /\ commands[1].tokens \in Seq(Nat)
           /\ Tail(commands) \in Seq(ACommand) /\ Len(Tail(commands)) = Len(commands) - 1
           /\ \A i \in 1 .. Len(Tail(commands)) :
                 i + 1 \in 1 .. Len(commands) /\ Tail(commands)[i] = commands[i + 1]
  <1>1. commands \in Seq(ACommand)
    BY Typing
  <1>2. Len(commands) \in Nat /\ Len(commands) # 0
    BY <1>1, EmptySeq
  <1>3. 1 \in 1 .. Len(commands)
    BY <1>2
  <1>4. /\ Head(commands) = commands[1] /\ Tail(commands) \in Seq(ACommand)
        /\ Len(Tail(commands)) = Len(commands) - 1
        /\ \A i \in 1 .. Len(Tail(commands)) : Tail(commands)[i] = commands[i + 1]
    BY <1>1, HeadTailProperties
  <1>5. \A i \in 1 .. Len(Tail(commands)) : i + 1 \in 1 .. Len(commands)
    BY <1>2, <1>4
  <1>6. commands[1] \in ACommand
    BY <1>1, <1>3
  <1>7. QED  BY <1>2, <1>3, <1>4, <1>5, <1>6, Typing

\* Appending to the log keeps what was in it.
LEMMA LogGrows ==
    ASSUME Base, NEW kind \in {"delta", "completed", "turnEnd"}, NEW m \in Messages,
           Receive(kind, m)
    PROVE  /\ log' \in Seq(Event) /\ Len(log') = Len(log) + 1 /\ cursor = Len(log)
           /\ \A s \in 1 .. Len(log) : log'[s] = log[s]
           /\ log'[Len(log) + 1] = [kind |-> kind, message |-> m]
  <1>1. log \in Seq(Event) /\ [kind |-> kind, message |-> m] \in Event
    BY AtHead DEF Event
  <1>2. log' = Append(log, [kind |-> kind, message |-> m]) /\ cursor = Len(log)
    BY DEF Receive
  <1>3. QED  BY <1>1, <1>2, AppendProperties

LEMMA Idle ==
    ASSUME Base, ~busy
    PROVE  todo = {} /\ commands = <<>> /\ forget = {}
  BY DEF Base, Shape

-----------------------------------------------------------------------------
(* Types *)

LEMMA InitBase ==
    ASSUME Init
    PROVE  Base
  <1>1. Len(<<>>) = 0 /\ <<>> \in Seq(Event) /\ <<>> \in Seq(ACommand) /\ <<>> \in Seq(Nat)
    OBVIOUS
  <1>2. scenario \in Scenario /\ BufferLimit \in Nat
    BY AssemblyAssumption DEF Init
  <1>3. TypeOK
    <2>1. scenario \in Scenarios /\ mode \in Modes \cup {"none"}
      BY <1>2 DEF Init, Scenario
    <2>2. /\ log = <<>> /\ Len(log) = 0 /\ cursor = 0 /\ receipts = {}
          /\ known = {} /\ todo = {} /\ forget = {} /\ crashes = 0 /\ failures = 0
          /\ Len(commands) = 0 /\ up \in BOOLEAN /\ busy \in BOOLEAN
      BY <1>1 DEF Init
    <2>3. /\ text \in [Messages -> Seq(Nat)] /\ buffer \in [Messages -> Seq(Nat)]
          /\ \A m \in Messages : Len(buffer[m]) <= BufferLimit
      BY <1>1, <1>2 DEF Init
    <2>4. log \in Seq(Event) /\ cursor \in 0 .. Len(log)
      BY <1>1, <2>2
    <2>5. QED  BY <2>1, <2>2, <2>3, <2>4 DEF TypeOK, Tokens
  <1>4. CommandsTyped /\ Shape
    BY <1>1, <1>2 DEF Init, CommandsTyped, Shape, Scenario
  <1>5. Orderly /\ ReceiptsReal /\ InHand
    BY <1>1 DEF Init, Orderly, LastIsLast, CompletionIsLast, BegunFirst, OneAfterTheOther,
       ReceiptsReal, InHand
  <1>6. QED  BY <1>3, <1>4, <1>5 DEF Base

\* What a rebuilt buffer keeps is a sequence no longer than the limit.
LEMMA RebuiltTyped ==
    ASSUME Base, NEW m \in Messages
    PROVE  RebuiltBuffer(m) \in Seq(Nat) /\ Len(RebuiltBuffer(m)) <= BufferLimit
  <1> DEFINE d == DeltasOf(m, cursor)
             kept == Len(d) % (BufferLimit + 1)
             lo == Len(d) - kept + 1
  <1>1. d \in Seq(Nat) /\ Len(d) \in Nat /\ BufferLimit \in Nat
    BY AtHead, DeltasTyped DEF Tokens
  <1>2. kept \in Nat /\ kept <= BufferLimit /\ kept <= Len(d)
    <2>1. \A x, y \in Nat : x % (y + 1) \in Nat /\ x % (y + 1) <= y /\ x % (y + 1) <= x
      OBVIOUS
    <2>2. QED  BY <1>1, <2>1
  <1> HIDE DEF d, kept
  <1>3. lo \in 1 .. (Len(d) + 1)
    BY <1>1, <1>2
  <1>4. SubSeq(d, lo, Len(d)) \in Seq(Nat) /\ Len(SubSeq(d, lo, Len(d))) <= BufferLimit
    <2>1. CASE lo <= Len(d)
      BY <1>1, <1>2, <1>3, <2>1, SubSeqProperties
    <2>2. CASE lo > Len(d)
      <3>1. SubSeq(d, lo, Len(d)) = <<>>
        BY <1>1, <1>3, <2>2, SubSeqEmpty
      <3>2. <<>> \in Seq(Nat) /\ Len(<<>>) <= BufferLimit
        BY <1>1
      <3>3. QED  BY <3>1, <3>2, Zenon
    <2>3. QED  BY <2>1, <2>2, <1>1, <1>3
  <1>5. RebuiltBuffer(m) \in {<<>>, SubSeq(d, lo, Len(d))}
    BY DEF RebuiltBuffer, d, kept
  <1>6. <<>> \in Seq(Nat) /\ Len(<<>>) = 0 /\ BufferLimit >= 0
    BY <1>1
  <1>7. QED  BY <1>4, <1>5, <1>6

\* A command list made of the event in hand is typed.
LEMMA ListTyped ==
    ASSUME NEW S, NEW c \in S, NEW d \in S
    PROVE  /\ <<>> \in Seq(S) /\ Len(<<>>) = 0
           /\ <<c>> \in Seq(S) /\ Len(<<c>>) = 1 /\ <<c>>[1] = c /\ Tail(<<c>>) = <<>>
           /\ <<c, d>> \in Seq(S) /\ Len(<<c, d>>) = 2
           /\ <<c, d>>[1] = c /\ <<c, d>>[2] = d /\ Tail(<<c, d>>) = <<d>>
           /\ <<c>> \o <<d>> = <<c, d>> /\ <<>> \o <<d>> = <<d>>
           /\ <<c>> # <<>> /\ <<c, d>> # <<>> /\ <<c, d>> # <<c>>
  <1>1. /\ <<>> \in Seq(S) /\ Len(<<>>) = 0
        /\ <<c>> \in Seq(S) /\ Len(<<c>>) = 1 /\ <<c>>[1] = c
        /\ <<d>> \in Seq(S) /\ Len(<<d>>) = 1 /\ <<d>>[1] = d
        /\ <<c, d>> \in Seq(S) /\ Len(<<c, d>>) = 2
        /\ <<c, d>>[1] = c /\ <<c, d>>[2] = d
    OBVIOUS
  <1>2. <<c>> # <<>> /\ <<c, d>> # <<>> /\ <<c, d>> # <<c>>
    BY <1>1
  <1>3. Tail(<<c>>) = <<>>
    BY <1>1, <1>2, HeadTailProperties, EmptySeq
  <1>4. Tail(<<c, d>>) = <<d>>
    <2>1. /\ Tail(<<c, d>>) \in Seq(S) /\ Len(Tail(<<c, d>>)) = 1
          /\ \A i \in 1 .. Len(Tail(<<c, d>>)) : Tail(<<c, d>>)[i] = <<c, d>>[i + 1]
      BY <1>1, <1>2, HeadTailProperties
    <2>2. \A i \in 1 .. 1 : Tail(<<c, d>>)[i] = <<d>>[i]
      BY <2>1, <1>1
    <2>3. QED  BY <2>1, <2>2, <1>1, SeqEqual
  <1>5. <<c>> \o <<d>> = <<c, d>>
    <2>1. /\ <<c>> \o <<d>> \in Seq(S) /\ Len(<<c>> \o <<d>>) = 2
          /\ \A i \in 1 .. 2 : (<<c>> \o <<d>>)[i] = IF i <= 1 THEN <<c>>[i] ELSE <<d>>[i - 1]
      BY <1>1, ConcatProperties
    <2>2. (<<c>> \o <<d>>)[1] = <<c>>[1] /\ (<<c>> \o <<d>>)[2] = <<d>>[1]
      <3>1. 1 \in 1 .. 2 /\ 2 \in 1 .. 2 /\ 1 <= 1 /\ ~(2 <= 1) /\ 2 - 1 = 1
        OBVIOUS
      <3>2. QED  BY <2>1, <3>1
    <2>3. \A i \in 1 .. 2 : i = 1 \/ i = 2
      OBVIOUS
    <2>4. \A i \in 1 .. 2 : (<<c>> \o <<d>>)[i] = <<c, d>>[i]
      BY <2>2, <2>3, <1>1
    <2>5. QED  BY <2>1, <2>4, <1>1, SeqEqual
  <1>6. <<>> \o <<d>> = <<d>>
    BY <1>1, ConcatEmptySeq
  <1>7. QED  BY <1>1, <1>2, <1>3, <1>4, <1>5, <1>6

LEMMA ListMessages ==
    ASSUME NEW q \in Seq(ACommand)
    PROVE  \A i \in 1 .. Len(q) : q[i].message \in Messages
  <1>1. \A i \in 1 .. Len(q) : q[i] \in ACommand
    OBVIOUS
  <1>2. QED  BY <1>1 DEF ACommand

LEMMA ReceiveTypes ==
    ASSUME Base, NEW kind \in {"delta", "completed", "turnEnd"}, NEW m \in Messages,
           Receive(kind, m)
    PROVE  TypeOK' /\ CommandsTyped'
  <1>1. log' \in Seq(Event) /\ cursor' \in 0 .. Len(log')
    <2>1. cursor' = cursor
      BY DEF Receive
    <2>2. cursor \in Nat /\ log' \in Seq(Event) /\ Len(log') = cursor + 1
      BY LogGrows, AtHead
    <2>3. QED  BY <2>1, <2>2
  <1>2. UNCHANGED <<scenario, receipts, text, up, mode, buffer, known, busy, todo, commands,
                    forget, crashes, failures>>
    BY DEF Receive, caches, working, faults
  <1>3. QED  BY <1>1, <1>2 DEF Base, TypeOK, CommandsTyped

\* What a delta leaves in the buffer and in hand.
LEMMA BeginDeltaEffect ==
    ASSUME Base, BeginDelta
    PROVE  LET m == NextEvent.message IN
           /\ up /\ ~busy /\ busy' = TRUE /\ cursor < Len(log)
           /\ NextEvent.kind = "delta" /\ m \in Messages
           /\ todo = {} /\ commands = <<>> /\ forget = {}
           /\ known' = known \cup {m}
           /\ \/ /\ DeliveryMode = "buffered" /\ ~Spills(m) /\ commands' = <<>>
                 /\ buffer' = [buffer EXCEPT ![m] = Append(buffer[m], NextSequence)]
              \/ /\ DeliveryMode = "buffered" /\ Spills(m)
                 /\ buffer' = [buffer EXCEPT ![m] = <<>>]
                 /\ commands' = <<Command("spill", m, Append(buffer[m], NextSequence))>>
              \/ /\ DeliveryMode # "buffered" /\ buffer' = buffer
                 /\ commands' = <<Command("delta", m, <<NextSequence>>)>>
           /\ UNCHANGED <<scenario, log, cursor, receipts, text, up, mode, todo, forget,
                          crashes, failures>>
  <1> DEFINE m == NextEvent.message
  <1>1. /\ up /\ ~busy /\ busy' = TRUE /\ cursor < Len(log) /\ NextEvent.kind = "delta"
    BY DEF BeginDelta, Begin
  <1>2. m \in Messages /\ todo = {} /\ commands = <<>> /\ forget = {}
    BY <1>1, AtHead, Idle
  <1>3. /\ known' = known \cup {m}
        /\ UNCHANGED <<scenario, log, cursor, receipts, text, up, mode, todo, forget,
                       crashes, failures>>
    BY DEF BeginDelta, durable, faults
  <1>4. CASE DeliveryMode = "buffered"
    BY <1>1, <1>2, <1>3, <1>4, Typing DEF BeginDelta, appendBufferedAssistantText
  <1>5. CASE DeliveryMode # "buffered"
    BY <1>1, <1>2, <1>3, <1>5 DEF BeginDelta
  <1>6. QED  BY <1>4, <1>5

LEMMA BeginDeltaTypes ==
    ASSUME Base, BeginDelta
    PROVE  TypeOK' /\ CommandsTyped'
  <1>1. PICK m \in Messages : m = NextEvent.message
    BY AtHead, BeginDeltaEffect
  <1>2. cursor \in Nat /\ NextSequence \in Nat /\ BufferLimit \in Nat
    BY AtHead DEF NextSequence
  <1>3. buffer[m] \in Seq(Nat) /\ Len(buffer[m]) \in Nat /\ Len(buffer[m]) <= BufferLimit
    BY Typing
  <1>4. /\ Append(buffer[m], NextSequence) \in Seq(Nat) /\ <<NextSequence>> \in Seq(Nat)
        /\ Len(Append(buffer[m], NextSequence)) = Len(buffer[m]) + 1
        /\ <<>> \in Seq(Nat) /\ Len(<<>>) = 0
    BY <1>2, <1>3
  <1>5. /\ Command("spill", m, Append(buffer[m], NextSequence)) \in ACommand
        /\ Command("delta", m, <<NextSequence>>) \in ACommand
    BY <1>2, <1>4, CommandTyped DEF Tags
  <1>6. commands' \in Seq(ACommand)
    <2>1. /\ <<>> \in Seq(ACommand)
          /\ <<Command("spill", m, Append(buffer[m], NextSequence))>> \in Seq(ACommand)
          /\ <<Command("delta", m, <<NextSequence>>)>> \in Seq(ACommand)
      BY <1>5, ListTyped
    <2>2. QED  BY <1>1, <2>1, BeginDeltaEffect
  <1>7. /\ buffer' \in [Messages -> Seq(Nat)]
        /\ \A x \in Messages : Len(buffer'[x]) <= BufferLimit
    <2>1. PICK q \in Seq(Nat) : /\ Len(q) <= BufferLimit
                                /\ \/ buffer' = [buffer EXCEPT ![m] = q]
                                   \/ buffer' = buffer
      <3>1. Len(<<>>) <= BufferLimit
        BY <1>2
      <3>2. ~Spills(m) => Len(Append(buffer[m], NextSequence)) <= BufferLimit
        BY <1>2, <1>3, <1>4 DEF Spills
      <3>3. QED  BY <3>1, <3>2, <1>1, <1>4, BeginDeltaEffect
    <2>2. buffer \in [Messages -> Seq(Nat)] /\ \A x \in Messages : Len(buffer[x]) <= BufferLimit
      BY Typing
    <2>3. QED  BY <2>1, <2>2
  <1>8. commands'= <<>> \/ commands' \in Seq(ACommand)
    BY <1>6
  <1>9. \A i \in 1 .. Len(commands') : commands'[i].message \in Messages
    BY <1>6, ListMessages
  <1>10. /\ known' = known \cup {m} /\ busy' = TRUE
         /\ UNCHANGED <<scenario, log, cursor, receipts, text, up, mode, todo, forget,
                        crashes, failures>>
    BY <1>1, BeginDeltaEffect
  <1>11. QED  BY <1>6, <1>7, <1>9, <1>10 DEF Base, TypeOK, CommandsTyped, Tokens

LEMMA BeginCompletedEffect ==
    ASSUME Base, BeginCompleted
    PROVE  \E m \in ResolvedIds(NextEvent.message) :
              /\ m \in Messages
              /\ up /\ ~busy /\ busy' = TRUE /\ cursor < Len(log)
              /\ NextEvent.kind = "completed" /\ NextEvent.message \in Messages
              /\ todo = {} /\ commands = <<>> /\ forget = {}
              /\ known' = known \cup {m} /\ todo' = {m} /\ forget' = {m}
              /\ UNCHANGED <<scenario, log, cursor, receipts, text, up, mode, buffer,
                             commands, crashes, failures>>
  <1>1. PICK m \in ResolvedIds(NextEvent.message) :
           known' = known \cup {m} /\ todo' = {m} /\ forget' = {m}
    BY DEF BeginCompleted
  <1>2. /\ up /\ ~busy /\ busy' = TRUE /\ cursor < Len(log) /\ NextEvent.kind = "completed"
    BY DEF BeginCompleted, Begin
  <1>3. NextEvent.message \in Messages /\ todo = {} /\ commands = <<>> /\ forget = {}
    BY <1>2, AtHead, Idle
  <1>4. m \in Messages
    BY <1>1, <1>3, Typing DEF ResolvedIds
  <1>5. UNCHANGED <<scenario, log, cursor, receipts, text, up, mode, buffer, commands,
                    crashes, failures>>
    BY DEF BeginCompleted, durable, faults
  <1>6. QED  BY <1>1, <1>2, <1>3, <1>4, <1>5

LEMMA BeginTurnEndEffect ==
    ASSUME Base, BeginTurnEnd
    PROVE  /\ up /\ ~busy /\ busy' = TRUE /\ cursor < Len(log)
           /\ NextEvent.kind = "turnEnd"
           /\ todo = {} /\ commands = <<>> /\ forget = {}
           /\ todo' = known /\ forget' = known
           /\ UNCHANGED <<scenario, log, cursor, receipts, text, up, mode, buffer, known,
                          commands, crashes, failures>>
  <1>1. /\ up /\ ~busy /\ busy' = TRUE /\ cursor < Len(log) /\ NextEvent.kind = "turnEnd"
    BY DEF BeginTurnEnd, Begin
  <1>2. QED  BY <1>1, Idle DEF BeginTurnEnd, durable, caches, faults

\* A message that is finalized: what was buffered of it, then its completion.
LEMMA FinalizeEffect ==
    ASSUME Base, Finalize
    PROVE  \E m \in todo :
              /\ m \in Messages /\ m \in forget
              /\ busy /\ commands = <<>> /\ cursor < Len(log) /\ up
              /\ NextEvent.kind \in {"completed", "turnEnd"}
              /\ todo' = todo \ {m}
              /\ buffer' = [buffer EXCEPT ![m] = <<>>]
              /\ \/ commands' = <<Closing(m)>> /\ (Snapshot \/ buffer[m] = <<>>)
                 \/ /\ ~Snapshot /\ buffer[m] # <<>>
                    /\ commands' = <<Command("final delta", m, buffer[m]), Closing(m)>>
              /\ UNCHANGED <<scenario, log, cursor, receipts, text, up, mode, known, busy,
                             forget, crashes, failures>>
  <1>1. PICK m \in todo :
           /\ todo' = todo \ {m}
           /\ buffer' = takeBufferedAssistantText(m)
           /\ commands' =
                 (IF ~Snapshot /\ buffer[m] # <<>>
                  THEN <<Command("final delta", m, buffer[m])>> ELSE <<>>)
                 \o <<Closing(m)>>
    BY DEF Finalize, Snapshot, Closing
  <1>2. busy /\ commands = <<>> /\ cursor < Len(log) /\ up
    BY DEF Finalize, Base, Shape
  <1>3. NextEvent.kind \in {"completed", "turnEnd"}
    <2>1. NextEvent.kind # "delta"
      BY <1>1, <1>2 DEF Base, InHand, DeltaInHand
    <2>2. QED  BY <2>1, <1>2, AtHead
  <1>4. m \in Messages /\ m \in forget
    BY <1>1, <1>2, <1>3, Typing DEF Base, InHand, FinalizeInHand
  <1>5. UNCHANGED <<scenario, log, cursor, receipts, text, up, mode, known, busy, forget,
                    crashes, failures>>
    BY DEF Finalize, durable, faults
  <1>6. \/ commands' = <<Closing(m)>> /\ (Snapshot \/ buffer[m] = <<>>)
        \/ /\ ~Snapshot /\ buffer[m] # <<>>
           /\ commands' = <<Command("final delta", m, buffer[m]), Closing(m)>>
    <2>1. <<>> \o <<Closing(m)>> = <<Closing(m)>>
      BY ListTyped
    <2>2. <<Command("final delta", m, buffer[m])>> \o <<Closing(m)>>
             = <<Command("final delta", m, buffer[m]), Closing(m)>>
      <3> DEFINE S == {Command("final delta", m, buffer[m]), Closing(m)}
      <3>1. Command("final delta", m, buffer[m]) \in S /\ Closing(m) \in S
        OBVIOUS
      <3> HIDE DEF S
      <3>2. QED  BY <3>1, ListTyped
    <2>3. QED  BY <2>1, <2>2, <1>1
  <1>7. QED  BY <1>1, <1>2, <1>3, <1>4, <1>5, <1>6 DEF takeBufferedAssistantText

LEMMA DispatchEffect ==
    ASSUME Base, Dispatch
    PROVE  /\ busy /\ up /\ cursor < Len(log) /\ commands # <<>>
           /\ commands' = Tail(commands)
           /\ \/ commands[1].id \in receipts /\ receipts' = receipts /\ text' = text
              \/ /\ commands[1].id \notin receipts
                 /\ receipts' = receipts \cup {commands[1].id}
                 /\ text' = Projected(commands[1])
           /\ UNCHANGED <<scenario, log, cursor, up, mode, buffer, known, busy, todo, forget,
                          crashes, failures>>
  <1>1. commands # <<>> /\ commands' = Tail(commands) /\ Head(commands) = commands[1]
    BY First DEF Dispatch
  <1>2. busy /\ up /\ cursor < Len(log)
    BY <1>1 DEF Base, Shape
  <1>3. QED  BY <1>1, <1>2 DEF Dispatch, Receipted, caches, faults

LEMMA AcceptEffect ==
    ASSUME Base, Accept
    PROVE  /\ busy /\ up /\ cursor < Len(log) /\ todo = {} /\ commands = <<>>
           /\ cursor' = cursor + 1 /\ known' = known \ forget
           /\ busy' = FALSE /\ todo' = {} /\ commands' = <<>> /\ forget' = {}
           /\ UNCHANGED <<scenario, log, receipts, text, up, mode, buffer, crashes, failures>>
  BY DEF Accept, EventOver, NextSequence, faults, Base, Shape

LEMMA FailEffect ==
    ASSUME Base, Fail
    PROVE  /\ busy /\ up /\ cursor < Len(log)
           /\ failures < scenario.failures /\ failures' = failures + 1
           /\ \/ known' = known
              \/ todo = {} /\ commands = <<>> /\ known' = known \ forget
           /\ busy' = FALSE /\ todo' = {} /\ commands' = <<>> /\ forget' = {}
           /\ UNCHANGED <<scenario, log, cursor, receipts, text, up, mode, buffer, crashes>>
  BY DEF Fail, EventOver, durable, Base, Shape

LEMMA CrashEffect ==
    ASSUME Base, Crash
    PROVE  /\ up /\ crashes < scenario.crashes /\ crashes' = crashes + 1
           /\ up' = FALSE /\ mode' = "none" /\ buffer' = [m \in Messages |-> <<>>] /\ known' = {}
           /\ busy' = FALSE /\ todo' = {} /\ commands' = <<>> /\ forget' = {}
           /\ UNCHANGED <<scenario, log, cursor, receipts, text, failures>>
  BY DEF Crash, EventOver, durable

LEMMA RestartEffect ==
    ASSUME Base, Restart
    PROVE  /\ ~up /\ up' = TRUE /\ ~busy /\ todo = {} /\ commands = <<>> /\ forget = {}
           /\ mode' = ReplayedMode
           /\ known' = (IF Ended THEN {} ELSE {log[s].message : s \in AcceptedDeltas})
           /\ buffer' = [m \in Messages |-> RebuiltBuffer(m)]
           /\ UNCHANGED <<scenario, log, cursor, receipts, text, busy, todo, commands, forget,
                          crashes, failures>>
  <1>1. ~up /\ ~busy
    BY DEF Restart, Base, Shape
  <1>2. QED  BY <1>1, Idle DEF Restart, durable, working, faults

LEMMA ReceiveEffect ==
    ASSUME NEW kind, NEW m, Receive(kind, m)
    PROVE  /\ cursor = Len(log) /\ Sensible(kind, m)
           /\ log' = Append(log, [kind |-> kind, message |-> m])
           /\ UNCHANGED <<scenario, cursor, receipts, text, up, mode, buffer, known, busy,
                          todo, commands, forget, crashes, failures>>
  BY DEF Receive, caches, working, faults

LEMMA Stutter ==
    ASSUME UNCHANGED vars
    PROVE  UNCHANGED <<scenario, log, cursor, receipts, text, up, mode, buffer, known, busy,
                       todo, commands, forget, crashes, failures>>
  BY DEF vars, durable, caches, working, faults

\* The completion of a message is a command.
LEMMA ClosingTyped ==
    ASSUME Base, NEW m \in Messages
    PROVE  Closing(m) \in ACommand
  <1>1. cursor \in Nat /\ NextSequence \in Nat
    BY AtHead DEF NextSequence
  <1>2. <<NextSequence>> \in Seq(Nat) /\ <<>> \in Seq(Nat)
    BY <1>1
  <1>3. QED  BY <1>1, <1>2, CommandTyped DEF Closing, Tags

LEMMA FinalizeTypes ==
    ASSUME Base, Finalize
    PROVE  TypeOK' /\ CommandsTyped'
  <1>1. PICK m \in todo :
           /\ m \in Messages
           /\ todo' = todo \ {m} /\ buffer' = [buffer EXCEPT ![m] = <<>>]
           /\ \/ commands' = <<Closing(m)>>
              \/ commands' = <<Command("final delta", m, buffer[m]), Closing(m)>>
           /\ UNCHANGED <<scenario, log, cursor, receipts, text, up, mode, known, busy,
                          forget, crashes, failures>>
    BY FinalizeEffect
  <1>2. Closing(m) \in ACommand /\ Command("final delta", m, buffer[m]) \in ACommand
    <2>1. buffer[m] \in Seq(Nat) /\ cursor \in Nat
      BY <1>1, Typing, AtHead
    <2>2. QED  BY <1>1, <2>1, ClosingTyped, CommandTyped DEF Tags
  <1>3. commands' \in Seq(ACommand)
    <2>1. /\ <<Closing(m)>> \in Seq(ACommand)
          /\ <<Command("final delta", m, buffer[m]), Closing(m)>> \in Seq(ACommand)
      BY <1>2, ListTyped
    <2>2. QED  BY <1>1, <2>1
  <1>4. /\ buffer' \in [Messages -> Seq(Nat)]
        /\ \A x \in Messages : Len(buffer'[x]) <= BufferLimit
    <2>1. <<>> \in Seq(Nat) /\ Len(<<>>) <= BufferLimit
      BY AtHead
    <2>2. buffer \in [Messages -> Seq(Nat)] /\ \A x \in Messages : Len(buffer[x]) <= BufferLimit
      BY Typing
    <2>3. QED  BY <1>1, <2>1, <2>2
  <1>5. \A i \in 1 .. Len(commands') : commands'[i].message \in Messages
    BY <1>3, ListMessages
  <1>6. QED  BY <1>1, <1>3, <1>4, <1>5 DEF Base, TypeOK, CommandsTyped, Tokens

\* What the projection makes of a command.
LEMMA ProjectedText ==
    ASSUME Base, NEW c \in ACommand
    PROVE  /\ Projected(c) \in [Messages -> Seq(Nat)]
           /\ \A m \in Messages : m # c.message => Projected(c)[m] = text[m]
           /\ c.id[2] # "complete" => Projected(c)[c.message] = text[c.message] \o c.tokens
           /\ c.id[2] = "complete" /\ c.tokens # <<>> => Projected(c)[c.message] = c.tokens
           /\ c.id[2] = "complete" /\ c.tokens = <<>> => Projected(c) = text
  <1>1. text \in [Messages -> Seq(Nat)] /\ c.message \in Messages /\ c.tokens \in Seq(Nat)
    BY Typing DEF ACommand, Tokens
  <1>2. text[c.message] \in Seq(Nat) /\ text[c.message] \o c.tokens \in Seq(Nat)
    BY <1>1
  <1>3. PICK q \in Seq(Nat) :
           /\ q = (IF c.id[2] # "complete" THEN text[c.message] \o c.tokens
                   ELSE IF c.tokens = <<>> THEN text[c.message] ELSE c.tokens)
    BY <1>1, <1>2
  <1>4. Projected(c) = [text EXCEPT ![c.message] = q]
    BY <1>3 DEF Projected
  <1>5. QED  BY <1>1, <1>3, <1>4

LEMMA DispatchTypes ==
    ASSUME Base, Dispatch
    PROVE  TypeOK' /\ CommandsTyped'
  <1>1. commands # <<>>
    BY DispatchEffect
  <1>2. commands' \in Seq(ACommand)
    BY <1>1, First, DispatchEffect
  <1>3. \A i \in 1 .. Len(commands') : commands'[i].message \in Messages
    BY <1>2, ListMessages
  <1>4. text' \in [Messages -> Seq(Nat)]
    BY <1>1, First, DispatchEffect, ProjectedText, Typing
  <1>5. receipts' \subseteq Id
    BY <1>1, First, DispatchEffect, Typing
  <1>6. UNCHANGED <<scenario, log, cursor, up, mode, buffer, known, busy, todo, forget,
                    crashes, failures>>
    BY DispatchEffect
  <1>7. QED
    BY <1>2, <1>3, <1>4, <1>5, <1>6 DEF Base, TypeOK, CommandsTyped, Tokens, Id, Tags

\* The types after an event is over, when only a few variables have moved.
LEMMA OverTypes ==
    ASSUME Base, commands' = <<>>, todo' = {}, forget' = {}, busy' \in BOOLEAN, up' \in BOOLEAN,
           cursor' \in 0 .. Len(log), mode' \in Modes \cup {"none"},
           buffer' \in [Messages -> Seq(Nat)],
           \A x \in Messages : Len(buffer'[x]) <= BufferLimit,
           known' \subseteq Messages, crashes' \in Nat, failures' \in Nat,
           UNCHANGED <<scenario, log, receipts, text>>
    PROVE  TypeOK' /\ CommandsTyped'
  <1>1. <<>> \in Seq(ACommand) /\ Len(<<>>) = 0
    OBVIOUS
  <1>2. CommandsTyped'
    BY <1>1 DEF CommandsTyped
  <1>3. \A i \in 1 .. Len(commands') : commands'[i].message \in Messages
    BY <1>1
  <1>4. QED  BY <1>2, <1>3 DEF Base, TypeOK, Tokens

LEMMA TypeNext ==
    ASSUME Base, [Next]_vars
    PROVE  TypeOK' /\ CommandsTyped'
  <1>1. ASSUME NEW kind \in {"delta", "completed", "turnEnd"}, NEW m \in Messages,
               Receive(kind, m)
        PROVE  TypeOK' /\ CommandsTyped'
    BY <1>1, ReceiveTypes
  <1>2. CASE BeginDelta
    BY <1>2, BeginDeltaTypes
  <1>3. ASSUME BeginCompleted \/ BeginTurnEnd  PROVE TypeOK' /\ CommandsTyped'
    <2>1. /\ busy' = TRUE /\ known' \subseteq Messages
          /\ todo' \subseteq Messages /\ forget' \subseteq Messages
          /\ UNCHANGED <<scenario, log, cursor, receipts, text, up, mode, buffer,
                         commands, crashes, failures>>
      BY <1>3, BeginCompletedEffect, BeginTurnEndEffect, Typing
    <2>2. QED  BY <2>1 DEF Base, TypeOK, CommandsTyped
  <1>4. CASE Finalize
    BY <1>4, FinalizeTypes
  <1>5. CASE Dispatch
    BY <1>5, DispatchTypes
  <1>6. CASE Accept
    <2>1. cursor' \in 0 .. Len(log) /\ known' \subseteq Messages
      BY <1>6, AcceptEffect, AtHead, Typing
    <2>2. QED  BY <1>6, <2>1, AcceptEffect, OverTypes, Typing DEF Base, TypeOK
  <1>7. CASE Fail
    <2>1. failures' \in Nat /\ known' \subseteq Messages
      BY <1>7, FailEffect, Typing
    <2>2. cursor \in 0 .. Len(log)
      BY DEF Base, TypeOK
    <2>3. QED  BY <1>7, <2>1, <2>2, FailEffect, OverTypes, Typing DEF Base, TypeOK
  <1>8. CASE Crash
    <2>1. crashes' \in Nat /\ known' \subseteq Messages
      BY <1>8, CrashEffect, Typing
    <2>2. /\ buffer' \in [Messages -> Seq(Nat)]
          /\ \A x \in Messages : Len(buffer'[x]) <= BufferLimit
      <3>1. <<>> \in Seq(Nat) /\ Len(<<>>) <= BufferLimit
        BY AtHead
      <3>2. buffer' = [m \in Messages |-> <<>>]
        BY <1>8, CrashEffect
      <3>3. QED  BY <3>1, <3>2
    <2>3. cursor \in 0 .. Len(log)
      BY DEF Base, TypeOK
    <2>4. QED  BY <1>8, <2>1, <2>2, <2>3, CrashEffect, OverTypes, Typing DEF Base, TypeOK
  <1>9. CASE Restart
    <2>1. known' \subseteq Messages
      <3>1. \A s \in AcceptedDeltas : log[s].message \in Messages
        <4>1. \A s \in 1 .. Len(log) : log[s] \in Event
          BY AtHead
        <4>2. \A s \in 1 .. cursor : s \in 1 .. Len(log)
          BY AtHead
        <4>3. QED  BY <4>1, <4>2 DEF AcceptedDeltas, Event
      <3>2. QED  BY <1>9, <3>1, RestartEffect
    <2>2. /\ buffer' \in [Messages -> Seq(Nat)]
          /\ \A x \in Messages : Len(buffer'[x]) <= BufferLimit
      BY <1>9, RestartEffect, RebuiltTyped
    <2>3. mode' \in Modes \cup {"none"}
      BY <1>9, RestartEffect DEF ReplayedMode, Modes
    <2>4. cursor \in 0 .. Len(log)
      BY DEF Base, TypeOK
    <2>5. QED
      BY <1>9, <2>1, <2>2, <2>3, <2>4, RestartEffect, OverTypes, Typing DEF Base, TypeOK
  <1>10. CASE UNCHANGED vars
    BY <1>10, Stutter DEF Base, TypeOK, CommandsTyped
  <1>11. QED
    BY <1>1, <1>2, <1>3, <1>4, <1>5, <1>6, <1>7, <1>8, <1>9, <1>10 DEF Next

-----------------------------------------------------------------------------
(* Shape, order, receipts and what is in hand *)

LEMMA ShapeNext ==
    ASSUME Base, [Next]_vars
    PROVE  Shape'
  <1>1. /\ cursor \in Nat /\ Len(log) \in Nat /\ scenario \in Scenario
        /\ crashes \in Nat /\ failures \in Nat /\ Shape
    BY AtHead, Typing DEF Base
  <1>2. scenario.crashes \in Nat /\ scenario.failures \in Nat
    BY <1>1 DEF Scenario
  <1>3. ASSUME NEW kind \in {"delta", "completed", "turnEnd"}, NEW m \in Messages,
               Receive(kind, m)
        PROVE  Shape'
    <2>1. Len(log') = Len(log) + 1 /\ cursor = Len(log)
      BY <1>3, LogGrows
    <2>2. UNCHANGED <<scenario, cursor, up, busy, todo, commands, forget, crashes, failures>>
      BY <1>3, ReceiveEffect
    <2>3. QED  BY <1>1, <2>1, <2>2 DEF Shape
  <1>4. CASE BeginDelta
    BY <1>1, <1>4, BeginDeltaEffect DEF Shape
  <1>5. CASE BeginCompleted
    BY <1>1, <1>5, BeginCompletedEffect DEF Shape
  <1>6. CASE BeginTurnEnd
    BY <1>1, <1>6, BeginTurnEndEffect DEF Shape
  <1>7. CASE Finalize
    BY <1>1, <1>7, FinalizeEffect DEF Shape
  <1>8. CASE Dispatch
    BY <1>1, <1>8, DispatchEffect DEF Shape
  <1>9. CASE Accept
    BY <1>1, <1>9, AcceptEffect DEF Shape
  <1>10. CASE Fail
    BY <1>1, <1>2, <1>10, FailEffect DEF Shape
  <1>11. CASE Crash
    BY <1>1, <1>2, <1>11, CrashEffect DEF Shape
  <1>12. CASE Restart
    BY <1>1, <1>12, RestartEffect DEF Shape
  <1>13. CASE UNCHANGED vars
    BY <1>1, <1>13, Stutter DEF Shape
  <1>14. QED
    BY <1>3, <1>4, <1>5, <1>6, <1>7, <1>8, <1>9, <1>10, <1>11, <1>12, <1>13 DEF Next

\* What the log says up to a place where it does not change.
LEMMA LogSaysSame ==
    ASSUME NEW n \in Nat, NEW m, \A s \in 1 .. n : log'[s] = log[s]
    PROVE  /\ DeltaBy(m, n)' <=> DeltaBy(m, n)
           /\ CompletedBy(m, n)' <=> CompletedBy(m, n)
  BY DEF DeltaBy, CompletedBy

\* Only the provider changes the log, and nothing else moves then.
LEMMA LogMoves ==
    ASSUME Base, [Next]_vars
    PROVE  /\ scenario' = scenario
           /\ \/ log' = log
              \/ \E kind \in {"delta", "completed", "turnEnd"}, m \in Messages :
                    Receive(kind, m)
  <1>1. ASSUME NEW kind \in {"delta", "completed", "turnEnd"}, NEW m \in Messages,
               Receive(kind, m)
        PROVE  scenario' = scenario
    BY <1>1, ReceiveEffect
  <1>2. ASSUME BeginDelta \/ BeginCompleted \/ BeginTurnEnd \/ Finalize \/ Dispatch
               \/ Accept \/ Fail \/ Crash \/ Restart \/ UNCHANGED vars
        PROVE  scenario' = scenario /\ log' = log
    BY <1>2, BeginDeltaEffect, BeginCompletedEffect, BeginTurnEndEffect, FinalizeEffect,
       DispatchEffect, AcceptEffect, FailEffect, CrashEffect, RestartEffect, Stutter
  <1>3. QED  BY <1>1, <1>2 DEF Next

LEMMA OrderlyNext ==
    ASSUME Base, [Next]_vars
    PROVE  Orderly'
  <1>1. Orderly /\ scenario' = scenario
    BY LogMoves DEF Base
  <1>2. CASE log' = log
    <2>1. LastIsLast' /\ CompletionIsLast'
      BY <1>1, <1>2 DEF Orderly, LastIsLast, CompletionIsLast
    <2>2. BegunFirst'
      BY <1>1, <1>2 DEF Orderly, BegunFirst, DeltaBy
    <2>3. OneAfterTheOther'
      BY <1>1, <1>2 DEF Orderly, OneAfterTheOther, CompletedBy
    <2>4. QED  BY <2>1, <2>2, <2>3 DEF Orderly
  <1>3. ASSUME NEW kind \in {"delta", "completed", "turnEnd"}, NEW m \in Messages,
               Receive(kind, m)
        PROVE  Orderly'
    <2>0. PICK n \in Nat : n = Len(log)
      BY AtHead
    <2>1. /\ n \in Nat /\ Len(log') = n + 1 /\ cursor = n
          /\ \A s \in 1 .. n : log'[s] = log[s]
          /\ log'[n + 1].kind = kind /\ log'[n + 1].message = m
      <3>1. /\ n \in Nat /\ Len(log') = n + 1 /\ cursor = n
            /\ \A s \in 1 .. n : log'[s] = log[s]
        BY <1>3, <2>0, LogGrows, AtHead
      <3>2. log'[n + 1] = [kind |-> kind, message |-> m]
        BY <1>3, <2>0, LogGrows
      <3>3. QED  BY <3>1, <3>2
    <2>2. Sensible(kind, m)
      BY <1>3, ReceiveEffect
    <2>3. \A s \in 1 .. (n + 1) : s \in 1 .. n \/ s = n + 1
      BY <2>1
    <2>4. \A s \in 1 .. n : s - 1 \in Nat /\ \A r \in 1 .. (s - 1) : r \in 1 .. n
      BY <2>1
    <2>5. \A s \in 1 .. n : \A x : /\ DeltaBy(x, s - 1)' <=> DeltaBy(x, s - 1)
                                   /\ CompletedBy(x, s - 1)' <=> CompletedBy(x, s - 1)
      BY <2>1, <2>4, LogSaysSame
    <2>6. \A x : (DeltaBy(x, n)' <=> DeltaBy(x, n)) /\ (CompletedBy(x, n)' <=> CompletedBy(x, n))
      <3>1. SUFFICES ASSUME NEW x
                     PROVE  /\ DeltaBy(x, n)' <=> DeltaBy(x, n)
                            /\ CompletedBy(x, n)' <=> CompletedBy(x, n)
        OBVIOUS
      <3>2. QED  BY <2>1, LogSaysSame
    <2>7. /\ \A x : Started(x) <=> DeltaBy(x, n)
          /\ \A x : Finished(x) <=> CompletedBy(x, n)
      BY <2>0 DEF Started, Finished, DeltaBy, CompletedBy
    <2>8. n + 1 - 1 = n
      BY <2>1
    <2>9. LastIsLast'
      <3>1. \A s \in 1 .. n : log[s].kind # "turnEnd"
        BY <2>0, <2>1, <2>2 DEF Sensible, Ended
      <3>2. \A s \in 1 .. (n + 1) : log'[s].kind = "turnEnd" => s = n + 1
        BY <3>1, <2>1, <2>3
      <3>3. QED  BY <3>2, <2>1 DEF LastIsLast
    <2>10. CompletionIsLast'
      <3>1. SUFFICES ASSUME NEW s \in 1 .. (n + 1), NEW r \in 1 .. (n + 1),
                            log'[s].kind = "completed", log'[r].kind # "turnEnd",
                            log'[r].message = log'[s].message
                     PROVE  r <= s
        BY <2>1 DEF CompletionIsLast
      <3>2. CASE s \in 1 .. n /\ r \in 1 .. n
        BY <2>0, <3>1, <3>2, <2>1, <1>1 DEF Orderly, CompletionIsLast
      <3>3. CASE s \in 1 .. n /\ r = n + 1
        <4>1. Finished(m) /\ kind \in {"delta", "completed"}
          BY <2>0, <3>1, <3>3, <2>1 DEF Finished
        <4>2. QED  BY <4>1, <2>2 DEF Sensible
      <3>4. CASE s = n + 1
        BY <3>4, <2>1
      <3>5. QED  BY <3>2, <3>3, <3>4, <2>3
    <2>11. BegunFirst'
      <3>1. SUFFICES ASSUME NEW s \in 1 .. (n + 1), log'[s].kind = "completed"
                     PROVE  \E r \in 1 .. (s - 1) : /\ log'[r].kind = "delta"
                                                    /\ log'[r].message = log'[s].message
        BY <2>1 DEF BegunFirst, DeltaBy
      <3>2. CASE s \in 1 .. n
        <4>1. log'[s] = log[s]
          BY <3>2, <2>1
        <4>2. DeltaBy(log[s].message, s - 1)
          BY <2>0, <4>1, <3>1, <3>2, <1>1 DEF Orderly, BegunFirst
        <4>3. PICK x : x = log[s].message
          OBVIOUS
        <4>4. DeltaBy(x, s - 1)'
          BY <4>2, <4>3, <3>2, <2>5
        <4>5. QED  BY <4>1, <4>3, <4>4 DEF DeltaBy
      <3>3. CASE s = n + 1
        <4>1. kind = "completed"
          BY <3>1, <3>3, <2>1
        <4>2. DeltaBy(m, n)'
          BY <4>1, <2>2, <2>6, <2>7 DEF Sensible
        <4>3. QED  BY <4>2, <3>3, <2>1, <2>8 DEF DeltaBy
      <3>4. QED  BY <3>2, <3>3, <2>3
    <2>12. OneAfterTheOther'
      <3>1. SUFFICES ASSUME scenario.oneByOne,
                            NEW s \in 1 .. (n + 1), NEW r \in 1 .. (s - 1),
                            log'[r].kind = "delta",
                            log'[s].kind = "turnEnd" \/ log'[r].message # log'[s].message
                     PROVE  \E q \in 1 .. (s - 1) : /\ log'[q].kind = "completed"
                                                    /\ log'[q].message = log'[r].message
        BY <2>1, <1>1 DEF OneAfterTheOther, CompletedBy
      <3>2. r \in 1 .. n /\ log'[r] = log[r]
        BY <2>1, <2>3, <2>4, <2>8
      <3>3. PICK x : x = log[r].message
        OBVIOUS
      <3>4. CompletedBy(x, s - 1)'
        <4>1. CASE s \in 1 .. n
          <5>1. log'[s] = log[s]
            BY <4>1, <2>1
          <5>2. CompletedBy(x, s - 1)
            BY <2>0, <5>1, <4>1, <3>1, <3>2, <3>3, <1>1 DEF Orderly, OneAfterTheOther
          <5>3. QED  BY <5>2, <4>1, <2>5
        <4>2. CASE s = n + 1
          <5>1. Started(x)
            BY <2>0, <3>1, <3>2, <3>3 DEF Started
          <5>2. kind = "turnEnd" \/ x # m
            BY <4>2, <3>1, <3>2, <3>3, <2>1
          <5>3. x \in Messages
            <6>1. log[r] \in Event
              BY <2>0, <3>2, AtHead
            <6>2. QED  BY <6>1, <3>3 DEF Event
          <5>4. Finished(x)
            BY <5>1, <5>2, <5>3, <3>1, <2>2 DEF Sensible
          <5>5. CompletedBy(x, n)'
            BY <5>4, <2>6, <2>7
          <5>6. QED  BY <5>5, <4>2, <2>8 DEF CompletedBy
        <4>3. QED  BY <4>1, <4>2, <2>3
      <3>5. QED  BY <3>2, <3>3, <3>4 DEF CompletedBy
    <2>13. QED  BY <2>9, <2>10, <2>11, <2>12 DEF Orderly
  <1>4. QED  BY <1>2, <1>3, LogMoves

\* The head stays the head while neither the log nor the cursor moves.
LEMMA HeadSame ==
    ASSUME log' = log, cursor' = cursor, scenario' = scenario
    PROVE  /\ NextEvent' = NextEvent /\ NextSequence' = NextSequence /\ (Snapshot' <=> Snapshot)
           /\ \A x : Closing(x)' = Closing(x)
           /\ \A tag, m, q : Command(tag, m, q)' = Command(tag, m, q)
           /\ \A m : CompletedBy(m, cursor)' <=> CompletedBy(m, cursor)
           /\ \A m : DeltaBy(m, cursor)' <=> DeltaBy(m, cursor)
           /\ (Ended' <=> Ended)
  <1>1. NextEvent' = NextEvent /\ NextSequence' = NextSequence /\ (Snapshot' <=> Snapshot)
    BY DEF NextEvent, NextSequence, Snapshot
  <1>2. \A tag, m, q : Command(tag, m, q)' = Command(tag, m, q)
    BY <1>1 DEF Command
  <1>3. \A x : Closing(x)' = Closing(x)
    BY <1>1 DEF Closing, Command
  <1>4. QED  BY <1>1, <1>2, <1>3 DEF CompletedBy, DeltaBy, Ended

\* The fields of a command, and of the command that completes a message.
LEMMA Fields ==
    ASSUME NEW m, NEW q
    PROVE  /\ Command("delta", m, q).id = <<NextSequence, "delta", m>>
           /\ Command("delta", m, q).message = m /\ Command("delta", m, q).tokens = q
           /\ Command("spill", m, q).id = <<NextSequence, "spill", m>>
           /\ Command("spill", m, q).message = m /\ Command("spill", m, q).tokens = q
           /\ Command("final delta", m, q).id = <<NextSequence, "final delta", m>>
           /\ Command("final delta", m, q).message = m
           /\ Command("final delta", m, q).tokens = q
  BY DEF Command

LEMMA IsDelta ==
    ASSUME NEW c, NEW m, NEW q, c = Command("delta", m, q)
    PROVE  /\ c.id = <<NextSequence, "delta", m>> /\ c.id[1] = NextSequence
           /\ c.id[2] = "delta" /\ c.id[3] = m /\ c.message = m /\ c.tokens = q
  BY DEF Command

LEMMA IsSpill ==
    ASSUME NEW c, NEW m, NEW q, c = Command("spill", m, q)
    PROVE  /\ c.id = <<NextSequence, "spill", m>> /\ c.id[1] = NextSequence
           /\ c.id[2] = "spill" /\ c.id[3] = m /\ c.message = m /\ c.tokens = q
  BY DEF Command

LEMMA IsFinalDelta ==
    ASSUME NEW c, NEW m, NEW q, c = Command("final delta", m, q)
    PROVE  /\ c.id = <<NextSequence, "final delta", m>> /\ c.id[1] = NextSequence
           /\ c.id[2] = "final delta" /\ c.id[3] = m /\ c.message = m /\ c.tokens = q
  BY DEF Command

LEMMA IsClosing ==
    ASSUME NEW c, NEW m, c = Closing(m)
    PROVE  /\ c.id = <<NextSequence, "complete", m>> /\ c.id[1] = NextSequence
           /\ c.id[2] = "complete" /\ c.id[3] = m /\ c.message = m
           /\ Snapshot => c.tokens = <<NextSequence>>
           /\ ~Snapshot => c.tokens = <<>>
  BY DEF Command, Closing

\* What the worker has in hand when it has a command to dispatch.
LEMMA Hand ==
    ASSUME Base, commands # <<>>
    PROVE  /\ busy /\ cursor < Len(log)
           /\ \/ /\ NextEvent.kind = "delta" /\ todo = {} /\ forget = {}
                 /\ Tail(commands) = <<>>
                 /\ \/ commands[1] = Command("delta", NextEvent.message, <<NextSequence>>)
                    \/ commands[1]
                          = Command("spill", NextEvent.message, commands[1].tokens)
              \/ /\ NextEvent.kind # "delta"
                 /\ \E x \in forget \ todo :
                       /\ x \in Messages
                       /\ \/ commands[1] = Closing(x) /\ Tail(commands) = <<>>
                          \/ /\ commands[1] = Command("final delta", x, commands[1].tokens)
                             /\ ~Snapshot /\ Tail(commands) = <<Closing(x)>>
  <1>1. busy /\ cursor < Len(log)
    BY DEF Base, Shape
  <1>2. CASE NextEvent.kind = "delta"
    <2>1. /\ todo = {} /\ forget = {}
          /\ \/ commands = <<Command("delta", NextEvent.message, <<NextSequence>>)>>
             \/ commands = <<Command("spill", NextEvent.message, commands[1].tokens)>>
      BY <1>1, <1>2 DEF Base, InHand, DeltaInHand
    <2>2. \A c : <<c>>[1] = c /\ Tail(<<c>>) = <<>>
      <3>1. \A c : c \in {c}
        OBVIOUS
      <3>2. QED  BY <3>1, ListTyped
    <2>3. QED  BY <1>1, <1>2, <2>1, <2>2
  <1>3. CASE NextEvent.kind # "delta"
    <2>1. PICK x \in forget \ todo :
             \/ commands = <<Closing(x)>>
             \/ /\ ~Snapshot
                /\ commands = <<Command("final delta", x, commands[1].tokens), Closing(x)>>
      BY <1>1, <1>3 DEF Base, InHand, FinalizeInHand
    <2>2. \A c, d : /\ <<c>>[1] = c /\ Tail(<<c>>) = <<>>
                    /\ <<c, d>>[1] = c /\ Tail(<<c, d>>) = <<d>>
      <3>1. SUFFICES ASSUME NEW c, NEW d
                     PROVE  /\ <<c>>[1] = c /\ Tail(<<c>>) = <<>>
                            /\ <<c, d>>[1] = c /\ Tail(<<c, d>>) = <<d>>
        OBVIOUS
      <3> DEFINE S == {c, d}
      <3>2. c \in S /\ d \in S
        OBVIOUS
      <3> HIDE DEF S
      <3>3. QED  BY <3>2, ListTyped
    <2>3. x \in Messages
      BY Typing
    <2>4. CASE commands = <<Closing(x)>>
      <3>1. commands[1] = Closing(x) /\ Tail(commands) = <<>>
        BY <2>2, <2>4
      <3>2. QED  BY <1>1, <1>3, <2>3, <3>1
    <2>5. CASE /\ ~Snapshot
               /\ commands = <<Command("final delta", x, commands[1].tokens), Closing(x)>>
      <3>1. PICK c : c = Command("final delta", x, commands[1].tokens)
        OBVIOUS
      <3>2. commands = <<c, Closing(x)>>
        BY <2>5, <3>1
      <3>3. commands[1] = c /\ Tail(commands) = <<Closing(x)>>
        BY <2>2, <3>2
      <3>4. QED  BY <1>1, <1>3, <2>3, <2>5, <3>1, <3>3
    <2>6. QED  BY <2>1, <2>4, <2>5
  <1>4. QED  BY <1>2, <1>3

LEMMA ReceiptsRealNext ==
    ASSUME Base, [Next]_vars
    PROVE  ReceiptsReal'
  <1>1. /\ ReceiptsReal /\ cursor \in Nat /\ Len(log) \in Nat
        /\ \A r \in receipts : r[1] \in 1 .. Len(log)
    BY AtHead DEF Base, ReceiptsReal
  <1>2. ASSUME NEW kind \in {"delta", "completed", "turnEnd"}, NEW m \in Messages,
               Receive(kind, m)
        PROVE  ReceiptsReal'
    <2>1. /\ Len(log') = Len(log) + 1 /\ receipts' = receipts
          /\ \A s \in 1 .. Len(log) : log'[s] = log[s]
      BY <1>2, LogGrows, ReceiveEffect
    <2>2. \A s \in 1 .. Len(log) : s \in 1 .. Len(log')
      BY <1>1, <2>1
    <2>3. QED  BY <1>1, <2>1, <2>2 DEF ReceiptsReal
  <1>3. ASSUME log' = log, receipts' = receipts  PROVE ReceiptsReal'
    BY <1>1, <1>3 DEF ReceiptsReal
  <1>4. CASE Dispatch
    <2>1. /\ log' = log /\ commands # <<>>
          /\ receipts' = receipts \/ receipts' = receipts \cup {commands[1].id}
      BY <1>4, DispatchEffect
    <2>2. PICK r : r = commands[1].id
      OBVIOUS
    <2>3. /\ r[1] = NextSequence
          /\ r[2] \in {"delta", "spill"} => NextEvent.kind = "delta" /\ NextEvent.message = r[3]
      <3>1. CASE NextEvent.kind = "delta"
        <4>1. PICK q : \/ commands[1] = Command("delta", NextEvent.message, q)
                       \/ commands[1] = Command("spill", NextEvent.message, q)
          BY <2>1, <3>1, Hand
        <4>2. \/ r = <<NextSequence, "delta", NextEvent.message>>
              \/ r = <<NextSequence, "spill", NextEvent.message>>
          BY <2>2, <4>1 DEF Command
        <4>3. QED  BY <3>1, <4>2
      <3>2. CASE NextEvent.kind # "delta"
        <4>1. PICK x, q : \/ commands[1] = Closing(x)
                          \/ commands[1] = Command("final delta", x, q)
          BY <2>1, <3>2, Hand
        <4>2. CASE commands[1] = Closing(x)
          BY <2>2, <4>2, IsClosing
        <4>3. CASE commands[1] = Command("final delta", x, q)
          BY <2>2, <4>3, IsFinalDelta
        <4>4. QED  BY <4>1, <4>2, <4>3
      <3>3. QED  BY <3>1, <3>2
    <2>4. /\ r[1] \in 1 .. Len(log)
          /\ r[2] \in {"delta", "spill"} => log[r[1]].kind = "delta" /\ log[r[1]].message = r[3]
      BY <2>1, <2>3, Hand, AtHead DEF NextSequence, NextEvent
    <2>5. QED  BY <1>1, <2>1, <2>2, <2>4 DEF ReceiptsReal
  <1>5. ASSUME BeginDelta \/ BeginCompleted \/ BeginTurnEnd \/ Finalize \/ Accept
               \/ Fail \/ Crash \/ Restart \/ UNCHANGED vars
        PROVE  log' = log /\ receipts' = receipts
    BY <1>5, BeginDeltaEffect, BeginCompletedEffect, BeginTurnEndEffect, FinalizeEffect,
       AcceptEffect, FailEffect, CrashEffect, RestartEffect, Stutter
  <1>6. QED  BY <1>2, <1>3, <1>4, <1>5 DEF Next

LEMMA InHandNext ==
    ASSUME Base, [Next]_vars
    PROVE  InHand'
  <1>1. InHand /\ cursor \in Nat /\ (busy => cursor < Len(log)) /\ Len(log) \in Nat
    BY AtHead DEF Base, Shape
  <1>2. ASSUME NEW kind \in {"delta", "completed", "turnEnd"}, NEW m \in Messages,
               Receive(kind, m)
        PROVE  ~busy'
    <2>1. cursor = Len(log) /\ busy' = busy
      BY <1>2, ReceiveEffect
    <2>2. QED  BY <1>1, <2>1
  <1>3. CASE BeginDelta
    <2>1. PICK m \in Messages : m = NextEvent.message
      BY <1>3, BeginDeltaEffect
    <2>2. /\ todo' = {} /\ forget' = {} /\ NextEvent.kind = "delta"
          /\ \/ commands' = <<>>
             \/ commands' = <<Command("spill", m, Append(buffer[m], NextSequence))>>
             \/ commands' = <<Command("delta", m, <<NextSequence>>)>>
      BY <1>3, <2>1, BeginDeltaEffect
    <2>3. NextEvent' = NextEvent /\ NextSequence' = NextSequence
          /\ \A tag, x, q : Command(tag, x, q)' = Command(tag, x, q)
      BY <1>3, BeginDeltaEffect, HeadSame
    <2>4. PICK q : q = Append(buffer[m], NextSequence)
      OBVIOUS
    <2>5. commands' = <<Command("spill", m, q)>> =>
             commands' = <<Command("spill", m, commands'[1].tokens)>>
      <3>1. SUFFICES ASSUME commands' = <<Command("spill", m, q)>>
                     PROVE  commands'[1].tokens = q
        OBVIOUS
      <3>2. commands'[1] = Command("spill", m, q)
        BY <3>1
      <3>3. Command("spill", m, q).tokens = q
        BY Fields
      <3>4. QED  BY <3>2, <3>3
    <2>6. DeltaInHand'
      <3>1. \/ commands' = <<>>
            \/ commands' = <<Command("delta", NextEvent'.message, <<NextSequence'>>)>>
            \/ commands' = <<Command("spill", NextEvent'.message, commands'[1].tokens)>>
        BY <2>1, <2>2, <2>3, <2>4, <2>5
      <3>2. QED  BY <3>1, <2>2, <2>3 DEF DeltaInHand, Command
    <2>7. QED  BY <2>2, <2>3, <2>6 DEF InHand
  <1>4. ASSUME BeginCompleted \/ BeginTurnEnd  PROVE InHand'
    <2>1. /\ commands' = <<>> /\ todo' \subseteq forget' /\ NextEvent.kind # "delta"
          /\ log' = log /\ cursor' = cursor /\ scenario' = scenario
      BY <1>4, BeginCompletedEffect, BeginTurnEndEffect
    <2>2. NextEvent' = NextEvent
      BY <2>1, HeadSame
    <2>3. QED  BY <2>1, <2>2 DEF InHand, FinalizeInHand
  <1>5. CASE Finalize
    <2>1. PICK m \in todo :
             /\ m \in forget /\ busy /\ forget' = forget /\ todo' = todo \ {m}
             /\ NextEvent.kind \in {"completed", "turnEnd"}
             /\ \/ commands' = <<Closing(m)>>
                \/ /\ ~Snapshot
                   /\ commands' = <<Command("final delta", m, buffer[m]), Closing(m)>>
             /\ log' = log /\ cursor' = cursor /\ scenario' = scenario
      BY <1>5, FinalizeEffect
    <2>2. /\ NextEvent' = NextEvent /\ (Snapshot' <=> Snapshot) /\ Closing(m)' = Closing(m)
          /\ NextSequence' = NextSequence
      BY <2>1, HeadSame
    <2>3. todo \subseteq forget
      BY <2>1, <1>1 DEF InHand, FinalizeInHand
    <2>4. PICK q : q = buffer[m]
      OBVIOUS
    <2>5. commands' = <<Command("final delta", m, q), Closing(m)>> =>
             commands' = <<Command("final delta", m, commands'[1].tokens), Closing(m)>>
      <3>1. SUFFICES ASSUME commands' = <<Command("final delta", m, q), Closing(m)>>
                     PROVE  commands'[1].tokens = q
        OBVIOUS
      <3>2. commands'[1] = Command("final delta", m, q)
        BY <3>1
      <3>3. Command("final delta", m, q).tokens = q
        BY Fields
      <3>4. QED  BY <3>2, <3>3
    <2>6. \/ commands' = <<Closing(m)'>>
          \/ /\ ~Snapshot'
             /\ commands' = <<Command("final delta", m, commands'[1].tokens), Closing(m)'>>
      BY <2>1, <2>2, <2>4, <2>5
    <2>7. m \in forget' \ todo' /\ todo' \subseteq forget'
      BY <2>1, <2>3
    <2>8. FinalizeInHand'
      BY <2>2, <2>6, <2>7 DEF FinalizeInHand, Command
    <2>9. NextEvent'.kind # "delta"
      BY <2>1, <2>2
    <2>10. QED  BY <2>8, <2>9 DEF InHand
  <1>6. CASE Dispatch
    <2>1. /\ busy /\ commands # <<>> /\ commands' = Tail(commands)
          /\ log' = log /\ cursor' = cursor /\ scenario' = scenario
          /\ todo' = todo /\ forget' = forget
      BY <1>6, DispatchEffect
    <2>2. /\ NextEvent' = NextEvent /\ \A x : Closing(x)' = Closing(x)
      BY <2>1, HeadSame
    <2>3. CASE NextEvent.kind = "delta"
      BY <2>1, <2>2, <2>3, Hand DEF InHand, DeltaInHand
    <2>4. CASE NextEvent.kind # "delta"
      <3>1. PICK x \in forget \ todo :
               \/ Tail(commands) = <<>>
               \/ Tail(commands) = <<Closing(x)>>
        BY <2>1, <2>4, Hand
      <3>2. todo \subseteq forget
        BY <2>1, <2>4, <1>1 DEF InHand, FinalizeInHand
      <3>3. \/ commands' = <<>>
            \/ commands' = <<Closing(x)'>>
        BY <3>1, <2>1, <2>2
      <3>4. FinalizeInHand'
        BY <3>2, <3>3, <2>1 DEF FinalizeInHand
      <3>5. QED  BY <3>4, <2>2, <2>4 DEF InHand
    <2>5. QED  BY <2>3, <2>4
  <1>7. ASSUME Accept \/ Fail \/ Crash \/ Restart  PROVE ~busy'
    BY <1>7, AcceptEffect, FailEffect, CrashEffect, RestartEffect
  <1>8. CASE UNCHANGED vars
    <2>1. UNCHANGED <<scenario, log, cursor, busy, todo, commands, forget>>
      BY <1>8, Stutter
    <2>2. QED
      BY <1>1, <2>1 DEF InHand, DeltaInHand, FinalizeInHand, NextEvent, NextSequence,
         Command, Closing, Snapshot
  <1>9. ASSUME ~busy'  PROVE InHand'
    BY <1>9 DEF InHand
  <1>10. QED
    BY <1>2, <1>3, <1>4, <1>5, <1>6, <1>7, <1>8, <1>9 DEF Next

LEMMA BaseNext ==
    ASSUME Base, [Next]_vars
    PROVE  Base'
  BY TypeNext, ShapeNext, OrderlyNext, ReceiptsRealNext, InHandNext DEF Base

\* Journal, receipts, projection and caches keep their types in every scenario,
\* and no buffer outgrows its limit, whatever is spilled, retried or rebuilt.
THEOREM SpecTypeOK == Spec => []TypeOK
  <1>1. Init => Base
    BY InitBase
  <1>2. Base /\ [Next]_vars => Base'
    BY BaseNext
  <1>3. Base => TypeOK
    BY DEF Base
  <1>4. QED  BY <1>1, <1>2, <1>3, PTL DEF Spec

-----------------------------------------------------------------------------
(* Scenarios *)

\* Where a scenario has no crash, there is none.
LEMMA NoCrash ==
    ASSUME Base, scenario.crashes = 0
    PROVE  ~Crash /\ up
  <1>1. crashes \in Nat /\ crashes <= scenario.crashes /\ (~up => 0 < crashes)
    BY Typing DEF Base, Shape
  <1>2. QED  BY <1>1 DEF Crash

LEMMA NoFailure ==
    ASSUME Base, scenario.failures = 0
    PROVE  ~Fail
  <1>1. failures \in Nat
    BY Typing
  <1>2. QED  BY <1>1 DEF Fail

\* Only a crash and a restart move the process and its mode.
LEMMA ProcessSteady ==
    ASSUME Base, [Next]_vars, ~Crash, ~Restart
    PROVE  UNCHANGED <<up, mode, crashes>>
  <1>1. ASSUME NEW kind \in {"delta", "completed", "turnEnd"}, NEW x \in Messages,
               Receive(kind, x)
        PROVE  UNCHANGED <<up, mode, crashes>>
    BY <1>1, ReceiveEffect
  <1>2. ASSUME BeginDelta \/ BeginCompleted \/ BeginTurnEnd \/ Finalize \/ Dispatch \/ Accept
               \/ Fail \/ UNCHANGED vars
        PROVE  UNCHANGED <<up, mode, crashes>>
    BY <1>2, BeginDeltaEffect, BeginCompletedEffect, BeginTurnEndEffect, FinalizeEffect,
       DispatchEffect, AcceptEffect, FailEffect, Stutter
  <1>3. QED  BY <1>1, <1>2 DEF Next

\* A completed message gets no further delta, and is not completed again.
LEMMA NothingAfterCompletion ==
    ASSUME Base, NEW m, CompletedBy(m, cursor), cursor < Len(log)
    PROVE  ~(NextEvent.kind \in {"delta", "completed"} /\ NextEvent.message = m)
  <1>1. PICK s \in 1 .. cursor : log[s].kind = "completed" /\ log[s].message = m
    BY DEF CompletedBy
  <1>2. /\ cursor \in Nat /\ cursor + 1 \in 1 .. Len(log) /\ s \in 1 .. Len(log)
        /\ ~(cursor + 1 <= s)
    BY <1>1, AtHead
  <1>3. CompletionIsLast
    BY DEF Base, Orderly
  <1>4. SUFFICES ASSUME NextEvent.kind \in {"delta", "completed"}, NextEvent.message = m
                 PROVE  FALSE
    OBVIOUS
  <1>5. log[cursor + 1].kind # "turnEnd" /\ log[cursor + 1].message = log[s].message
    BY <1>1, <1>4 DEF NextEvent, NextSequence
  <1>6. QED  BY <1>1, <1>2, <1>3, <1>5 DEF CompletionIsLast

\* Before the end of the turn has been accepted nothing of the log ends it, and
\* afterwards nothing is left to process.
LEMMA EndedIsOver ==
    ASSUME Base, Ended
    PROVE  cursor = Len(log) /\ ~busy
  <1>1. PICK s \in 1 .. cursor : log[s].kind = "turnEnd"
    BY DEF Ended
  <1>2. s \in 1 .. Len(log) /\ cursor \in Nat /\ Len(log) \in Nat
    BY AtHead
  <1>3. s = Len(log)
    BY <1>1, <1>2 DEF Base, Orderly, LastIsLast
  <1>4. QED  BY <1>1, <1>2, <1>3, AtHead DEF Base, Shape

-----------------------------------------------------------------------------
(* Streamed deltas *)

LEMMA StreamedClosed ==
    ASSUME Base, StreamedInv
    PROVE  Closed
  <1>1. SUFFICES ASSUME NEW m \in Messages, CompletedBy(m, cursor)
                 PROVE  buffer[m] = <<>> /\ Void(m)
    BY DEF Closed
  <1>2. buffer[m] = <<>>
    BY DEF StreamedInv
  <1>3. Void(m)
    <2>1. CASE commands = <<>>
      BY <2>1 DEF Void
    <2>2. CASE commands # <<>>
      <3>1. busy /\ cursor < Len(log)
        BY <2>2, Hand
      <3>2. CASE NextEvent.kind # "delta"
        BY <3>1, <3>2 DEF StreamedInv
      <3>3. CASE NextEvent.kind = "delta"
        <4>1. NextEvent.message # m
          BY <1>1, <3>1, <3>3, NothingAfterCompletion
        <4>2. commands = <<Command("delta", NextEvent.message, <<NextSequence>>)>>
          BY <2>2, <3>1, <3>3 DEF StreamedInv, DeltaStreamed
        <4>3. PICK c : c = Command("delta", NextEvent.message, <<NextSequence>>)
          OBVIOUS
        <4>4. c.message # m
          BY <4>1, <4>3, IsDelta
        <4>5. commands = <<c>>
          BY <4>2, <4>3
        <4>6. \A i \in 1 .. Len(commands) : commands[i] = c
          BY <4>5
        <4>7. QED  BY <4>4, <4>6 DEF Void
      <3>4. QED  BY <3>2, <3>3
    <2>3. QED  BY <2>1, <2>2
  <1>4. QED  BY <1>2, <1>3

\* A delta in the text has been received.
LEMMA ReachedBound ==
    ASSUME Base, NEW m
    PROVE  Reached(m) \in Nat /\ Reached(m) <= Len(log)
  <1>1. cursor \in Nat /\ cursor <= Len(log) /\ NextSequence \in Nat
    BY AtHead DEF NextSequence
  <1>2. <<NextSequence, "delta", m>> \in receipts => NextSequence <= Len(log)
    <2>1. SUFFICES ASSUME <<NextSequence, "delta", m>> \in receipts
                   PROVE  NextSequence <= Len(log)
      OBVIOUS
    <2>2. PICK r \in receipts : r = <<NextSequence, "delta", m>>
      BY <2>1
    <2>3. r[1] = NextSequence
      BY <2>2
    <2>4. r[1] \in 1 .. Len(log)
      BY DEF Base, ReceiptsReal
    <2>5. QED  BY <2>3, <2>4
  <1>3. QED  BY <1>1, <1>2 DEF Reached

\* The receipt of a delta of the head names the message of the head.
LEMMA HeadReceipt ==
    ASSUME Base, NEW m, <<NextSequence, "delta", m>> \in receipts
    PROVE  cursor < Len(log) /\ NextEvent.kind = "delta" /\ NextEvent.message = m
  <1>1. PICK r \in receipts : r = <<NextSequence, "delta", m>>
    OBVIOUS
  <1>2. r[1] = NextSequence /\ r[2] = "delta" /\ r[3] = m
    BY <1>1
  <1>3. r[1] \in 1 .. Len(log) /\ log[r[1]].kind = "delta" /\ log[r[1]].message = r[3]
    BY <1>2 DEF Base, ReceiptsReal
  <1>4. QED  BY <1>2, <1>3, AtHead DEF NextEvent, NextSequence

\* No receipt is beyond the log.
LEMMA NoReceiptBeyond ==
    ASSUME Base, NEW n \in Nat, n > Len(log), NEW tag, NEW m
    PROVE  <<n, tag, m>> \notin receipts
  <1>1. SUFFICES ASSUME NEW r \in receipts, r = <<n, tag, m>>  PROVE FALSE
    OBVIOUS
  <1>2. r[1] = n
    BY <1>1
  <1>3. r[1] \in 1 .. Len(log)
    BY DEF Base, ReceiptsReal
  <1>4. QED  BY <1>2, <1>3, AtHead

\* Every step but a dispatch and an acceptance leaves text, receipts and cursor.
LEMMA TextMoves ==
    ASSUME Base, [Next]_vars
    PROVE  \/ Dispatch
           \/ Accept
           \/ /\ UNCHANGED <<text, receipts, cursor>>
              /\ \A s \in 1 .. Len(log) : log'[s] = log[s]
  <1>1. ASSUME NEW kind \in {"delta", "completed", "turnEnd"}, NEW m \in Messages,
               Receive(kind, m)
        PROVE  /\ UNCHANGED <<text, receipts, cursor>>
               /\ \A s \in 1 .. Len(log) : log'[s] = log[s]
    BY <1>1, ReceiveEffect, LogGrows
  <1>2. ASSUME BeginDelta \/ BeginCompleted \/ BeginTurnEnd \/ Finalize
               \/ Fail \/ Crash \/ Restart \/ UNCHANGED vars
        PROVE  UNCHANGED <<text, receipts, cursor, log>>
    BY <1>2, BeginDeltaEffect, BeginCompletedEffect, BeginTurnEndEffect, FinalizeEffect,
       FailEffect, CrashEffect, RestartEffect, Stutter
  <1>3. QED  BY <1>1, <1>2 DEF Next

\* How far the deltas of m are in the text, after a step.
LEMMA ReachedNext ==
    ASSUME NEW m, NEW n, Reached(m)' = n
    PROVE  DeltasOf(m, Reached(m))' = DeltasOf(m, n)'
  BY DEF DeltasOf, Ranked, DeltasAmong

LEMMA StreamedText ==
    ASSUME Base, StreamedInv, Streamed(scenario), [Next]_vars, NEW m \in Messages
    PROVE  text'[m] = DeltasOf(m, Reached(m))'
  <1>1. PICK n \in Nat : n = Reached(m)
    BY ReachedBound
  <1>2. PICK c \in Nat : c = cursor
    BY AtHead
  <1>3. text[m] = DeltasOf(m, n) /\ n <= Len(log) /\ Len(log) \in Nat /\ c <= Len(log)
    BY <1>1, <1>2, ReachedBound, AtHead DEF StreamedInv
  <1>4. ASSUME NEW k \in Nat, k <= Len(log), \A s \in 1 .. Len(log) : log'[s] = log[s]
        PROVE  DeltasOf(m, k)' = DeltasOf(m, k)
    <2>1. \A s \in 1 .. k : s \in 1 .. Len(log)
      BY <1>3, <1>4
    <2>2. QED  BY <1>4, <2>1, DeltasStable
  <1>5. ASSUME UNCHANGED <<text, receipts, cursor>>, \A s \in 1 .. Len(log) : log'[s] = log[s]
        PROVE  text'[m] = DeltasOf(m, Reached(m))'
    <2>1. Reached(m)' = n
      BY <1>1, <1>5 DEF Reached, NextSequence
    <2>2. DeltasOf(m, n)' = DeltasOf(m, n)
      BY <1>3, <1>4, <1>5
    <2>3. QED  BY <1>3, <1>5, <2>1, <2>2, ReachedNext
  <1>6. CASE Dispatch
    <2>1. /\ log' = log /\ cursor' = cursor /\ busy /\ cursor < Len(log) /\ commands # <<>>
      BY <1>6, DispatchEffect
    <2>2. CASE receipts' = receipts /\ text' = text
      BY <1>5, <2>1, <2>2
    <2>3. CASE /\ commands[1].id \notin receipts
               /\ receipts' = receipts \cup {commands[1].id}
               /\ text' = Projected(commands[1])
      <3>1. PICK k \in ACommand : k = commands[1]
        BY <2>1, First
      <3>2. CASE NextEvent.kind = "delta"
        <4>1. commands = <<Command("delta", NextEvent.message, <<NextSequence>>)>>
          BY <2>1, <3>2 DEF StreamedInv, DeltaStreamed
        <4>2. k = Command("delta", NextEvent.message, <<NextSequence>>)
          BY <4>1, <3>1
        <4>3. /\ k.id = <<c + 1, "delta", NextEvent.message>> /\ k.id[2] = "delta"
              /\ k.message = NextEvent.message /\ k.tokens = <<c + 1>>
          BY <1>2, <4>2, IsDelta DEF NextSequence
        <4>4. CASE m # k.message
          <5>1. text'[m] = text[m]
            BY <2>3, <3>1, <4>4, ProjectedText
          <5>2. <<c + 1, "delta", m>> # k.id
            BY <4>3, <4>4
          <5>3. <<c + 1, "delta", m>> \in receipts' <=> <<c + 1, "delta", m>> \in receipts
            BY <2>3, <3>1, <5>2
          <5>4. Reached(m)' = n
            BY <1>1, <1>2, <2>1, <5>3 DEF Reached, NextSequence
          <5>5. DeltasOf(m, n)' = DeltasOf(m, n)
            BY <1>3, <1>4, <2>1
          <5>6. QED  BY <1>3, <5>1, <5>4, <5>5, ReachedNext
        <4>5. CASE m = k.message
          <5>1. text'[m] = text[m] \o <<c + 1>>
            BY <2>3, <3>1, <4>3, <4>5, ProjectedText
          <5>2. k.id = <<c + 1, "delta", m>> /\ k.id \in receipts' /\ k.id \notin receipts
            BY <2>3, <3>1, <4>3, <4>5
          <5>3. Reached(m)' = c + 1
            BY <1>2, <2>1, <5>2 DEF Reached, NextSequence
          <5>4. n = c
            BY <1>1, <1>2, <5>2 DEF Reached, NextSequence
          <5>5. log[c + 1].kind = "delta" /\ log[c + 1].message = m
            BY <1>2, <3>2, <4>3, <4>5 DEF NextEvent, NextSequence
          <5>6. DeltasOf(m, c + 1) = Append(DeltasOf(m, c), c + 1)
            BY <5>5, DeltasGrow
          <5>7. text[m] \o <<c + 1>> = Append(text[m], c + 1)
            <6>1. text[m] \in Seq(Nat) /\ c + 1 \in Nat
              BY Typing
            <6>2. QED  BY <6>1, AppendIsConcat
          <5>8. text'[m] = DeltasOf(m, c + 1)
            BY <1>3, <5>1, <5>4, <5>6, <5>7
          <5>9. DeltasOf(m, c + 1)' = DeltasOf(m, c + 1)
            <6>1. c + 1 \in Nat /\ c + 1 <= Len(log)
              BY <1>2, <1>3, <2>1
            <6>2. QED  BY <6>1, <1>4, <2>1
          <5>10. QED  BY <5>3, <5>8, <5>9, ReachedNext
        <4>6. QED  BY <4>4, <4>5
      <3>3. CASE NextEvent.kind # "delta"
        <4>1. Void(k.message) /\ k.message \in Messages
          BY <2>1, <3>3 DEF StreamedInv, ACommand
        <4>2. k.id[2] = "complete" /\ k.tokens = <<>>
          BY <2>1, <3>1, <4>1, First DEF Void
        <4>3. text' = text
          BY <2>3, <3>1, <4>2, ProjectedText
        <4>4. <<c + 1, "delta", m>> # k.id
          BY <4>2
        <4>5. <<c + 1, "delta", m>> \in receipts' <=> <<c + 1, "delta", m>> \in receipts
          BY <2>3, <3>1, <4>4
        <4>6. Reached(m)' = n
          BY <1>1, <1>2, <2>1, <4>5 DEF Reached, NextSequence
        <4>7. DeltasOf(m, n)' = DeltasOf(m, n)
          BY <1>3, <1>4, <2>1
        <4>8. QED  BY <1>3, <4>3, <4>6, <4>7, ReachedNext
      <3>4. QED  BY <3>2, <3>3
    <2>4. QED  BY <1>6, <2>2, <2>3, DispatchEffect
  <1>7. CASE Accept
    <2>1. /\ log' = log /\ receipts' = receipts /\ text' = text /\ cursor' = c + 1
          /\ busy /\ commands = <<>> /\ c < Len(log) /\ Len(log) = c + 1
      BY <1>2, <1>7, AcceptEffect, AtHead
    <2>2. <<c + 2, "delta", m>> \notin receipts
      <3>1. c + 2 \in Nat /\ c + 2 > Len(log)
        BY <2>1
      <3>2. QED  BY <3>1, NoReceiptBeyond
    <2>3. Reached(m)' = c + 1
      <3>1. NextSequence' = c + 2
        BY <2>1 DEF NextSequence
      <3>2. QED  BY <2>1, <2>2, <3>1 DEF Reached
    <2>4. text[m] = DeltasOf(m, c + 1)
      <3>1. CASE NextEvent.kind = "delta" /\ NextEvent.message = m
        <4>1. <<NextSequence, "delta", m>> \in receipts
          BY <2>1, <3>1 DEF StreamedInv, DeltaStreamed
        <4>2. n = c + 1
          BY <1>1, <1>2, <4>1 DEF Reached, NextSequence
        <4>3. QED  BY <1>3, <4>2
      <3>2. CASE ~(NextEvent.kind = "delta" /\ NextEvent.message = m)
        <4>1. <<NextSequence, "delta", m>> \notin receipts
          BY <3>2, HeadReceipt
        <4>2. n = c
          BY <1>1, <1>2, <4>1 DEF Reached
        <4>3. ~(log[c + 1].kind = "delta" /\ log[c + 1].message = m)
          BY <1>2, <3>2 DEF NextEvent, NextSequence
        <4>4. DeltasOf(m, c + 1) = DeltasOf(m, c)
          BY <4>3, DeltasSkip
        <4>5. QED  BY <1>3, <4>2, <4>4
      <3>3. QED  BY <3>1, <3>2
    <2>5. DeltasOf(m, c + 1)' = DeltasOf(m, c + 1)
      <3>1. c + 1 \in Nat /\ c + 1 <= Len(log)
        BY <2>1
      <3>2. QED  BY <3>1, <1>4, <2>1
    <2>6. QED  BY <2>1, <2>3, <2>4, <2>5, ReachedNext
  <1>8. QED  BY <1>5, <1>6, <1>7, TextMoves

\* Where the turn streams, a delta in hand is dispatched before anything else.
LEMMA DeltaStreamedNext ==
    ASSUME Base, mode = "streaming", DeltaStreamed, [Next]_vars
    PROVE  DeltaStreamed'
  <1>1. ASSUME ~busy'  PROVE DeltaStreamed'
    BY <1>1 DEF DeltaStreamed
  <1>2. ASSUME NEW kind \in {"delta", "completed", "turnEnd"}, NEW m \in Messages,
               Receive(kind, m)
        PROVE  ~busy'
    <2>1. cursor = Len(log) /\ busy' = busy
      BY <1>2, ReceiveEffect
    <2>2. QED  BY <2>1, AtHead DEF Base, Shape
  <1>3. CASE BeginDelta
    <2>1. /\ log' = log /\ cursor' = cursor /\ scenario' = scenario
          /\ commands' = <<Command("delta", NextEvent.message, <<NextSequence>>)>>
      BY <1>3, BeginDeltaEffect DEF DeliveryMode
    <2>2. NextEvent' = NextEvent /\ NextSequence' = NextSequence
      BY <2>1, HeadSame
    <2>3. QED  BY <2>1, <2>2 DEF DeltaStreamed, Command
  <1>4. ASSUME BeginCompleted \/ BeginTurnEnd \/ Finalize  PROVE DeltaStreamed'
    <2>1. /\ log' = log /\ cursor' = cursor /\ scenario' = scenario
          /\ NextEvent.kind \in {"completed", "turnEnd"}
      BY <1>4, BeginCompletedEffect, BeginTurnEndEffect, FinalizeEffect
    <2>2. NextEvent'.kind # "delta"
      BY <2>1, HeadSame
    <2>3. QED  BY <2>2 DEF DeltaStreamed
  <1>5. CASE Dispatch
    <2>1. /\ log' = log /\ cursor' = cursor /\ scenario' = scenario /\ busy /\ commands # <<>>
          /\ commands' = Tail(commands) /\ commands[1].id \in receipts'
      BY <1>5, DispatchEffect
    <2>2. NextEvent' = NextEvent /\ NextSequence' = NextSequence
      BY <2>1, HeadSame
    <2>3. SUFFICES ASSUME NextEvent.kind = "delta"
                   PROVE  /\ commands' = <<>>
                          /\ <<NextSequence, "delta", NextEvent.message>> \in receipts'
      BY <2>2 DEF DeltaStreamed
    <2>4. commands = <<Command("delta", NextEvent.message, <<NextSequence>>)>>
      BY <2>1, <2>3 DEF DeltaStreamed
    <2>5. commands[1] = Command("delta", NextEvent.message, <<NextSequence>>)
      BY <2>4
    <2>6. commands[1].id = <<NextSequence, "delta", NextEvent.message>>
      BY <2>5, IsDelta
    <2>7. commands' = <<>>
      BY <2>1, <2>3, Hand
    <2>8. QED  BY <2>1, <2>6, <2>7
  <1>6. ASSUME Accept \/ Fail \/ Crash \/ Restart  PROVE ~busy'
    BY <1>6, AcceptEffect, FailEffect, CrashEffect, RestartEffect
  <1>7. CASE UNCHANGED vars
    <2>1. UNCHANGED <<busy, log, cursor, receipts, commands>>
      BY <1>7, Stutter
    <2>2. QED
      BY <2>1 DEF DeltaStreamed, NextEvent, NextSequence, Command
  <1>8. QED  BY <1>1, <1>2, <1>3, <1>4, <1>5, <1>6, <1>7 DEF Next

LEMMA StreamedNext ==
    ASSUME Base, StreamedInv, Streamed(scenario), [Next]_vars
    PROVE  StreamedInv'
  <1>1. ~Crash /\ up /\ mode = "streaming" /\ ~scenario.snapshots
    BY NoCrash DEF Streamed, StreamedInv
  <1>2. /\ \A m \in Messages : buffer[m] = <<>>
        /\ busy /\ NextEvent.kind # "delta" => \A m \in Messages : Void(m)
    BY DEF StreamedInv
  <1>3. \A m \in Messages : text'[m] = DeltasOf(m, Reached(m))'
    BY StreamedText
  <1>4. DeltaStreamed'
    BY DeltaStreamedNext DEF StreamedInv
  <1> DEFINE Goal == /\ up' /\ mode' = "streaming"
                     /\ \A m \in Messages : buffer'[m] = <<>>
                     /\ busy' /\ NextEvent'.kind # "delta" => \A m \in Messages : Void(m)'
  <1>5. SUFFICES Goal
    BY <1>3, <1>4 DEF StreamedInv
  <1>6. ASSUME NEW kind \in {"delta", "completed", "turnEnd"}, NEW m \in Messages,
               Receive(kind, m)
        PROVE  Goal
    <2>1. UNCHANGED <<up, mode, buffer, busy>> /\ cursor = Len(log)
      BY <1>6, ReceiveEffect
    <2>2. ~busy
      BY <2>1, AtHead DEF Base, Shape
    <2>3. QED  BY <1>1, <1>2, <2>1, <2>2
  <1>7. CASE BeginDelta
    <2>1. /\ UNCHANGED <<up, mode, log, cursor, scenario>> /\ NextEvent.kind = "delta"
          /\ DeliveryMode # "buffered"
      BY <1>1, <1>7, BeginDeltaEffect DEF DeliveryMode
    <2>2. /\ buffer' = buffer
          /\ commands' = <<Command("delta", NextEvent.message, <<NextSequence>>)>>
      BY <1>7, <2>1, BeginDeltaEffect
    <2>3. NextEvent' = NextEvent /\ NextSequence' = NextSequence
      BY <2>1, HeadSame
    <2>4. QED  BY <1>1, <1>2, <2>1, <2>2, <2>3
  <1>8. ASSUME BeginCompleted \/ BeginTurnEnd  PROVE Goal
    <2>1. /\ UNCHANGED <<up, mode, buffer, log, cursor, scenario>> /\ NextEvent.kind # "delta"
          /\ commands' = <<>>
      BY <1>8, BeginCompletedEffect, BeginTurnEndEffect
    <2>2. NextEvent' = NextEvent
      BY <2>1, HeadSame
    <2>3. QED  BY <1>1, <1>2, <2>1, <2>2 DEF Void
  <1>9. CASE Finalize
    <2>1. PICK m \in todo :
             /\ m \in Messages /\ busy
             /\ NextEvent.kind \in {"completed", "turnEnd"}
             /\ buffer' = [buffer EXCEPT ![m] = <<>>]
             /\ commands' = <<Closing(m)>> \/ buffer[m] # <<>>
             /\ UNCHANGED <<up, mode, log, cursor, scenario>>
      BY <1>9, FinalizeEffect
    <2>2. NextEvent' = NextEvent /\ ~Snapshot
      BY <1>1, <2>1, HeadSame DEF Snapshot
    <2>3. \A x \in Messages : buffer'[x] = <<>>
      BY <1>2, <2>1, Typing
    <2>4. PICK k : k = Closing(m)
      OBVIOUS
    <2>5. k.id[2] = "complete" /\ k.tokens = <<>>
      BY <2>2, <2>4, IsClosing
    <2>6. commands' = <<k>>
      BY <1>2, <2>1, <2>4
    <2>7. \A i \in 1 .. Len(commands') : commands'[i] = k
      BY <2>6
    <2>8. QED  BY <1>1, <2>1, <2>2, <2>3, <2>5, <2>7 DEF Void
  <1>10. CASE Dispatch
    <2>1. /\ UNCHANGED <<up, mode, buffer, log, cursor, scenario>> /\ busy /\ commands # <<>>
          /\ commands' = Tail(commands) /\ commands[1].id \in receipts'
      BY <1>10, DispatchEffect
    <2>2. NextEvent' = NextEvent /\ NextSequence' = NextSequence
      BY <2>1, HeadSame
    <2>3. NextEvent.kind # "delta" => \A m \in Messages : Void(m)'
      <3>1. SUFFICES ASSUME NextEvent.kind # "delta", NEW m \in Messages  PROVE Void(m)'
        OBVIOUS
      <3>2. Void(m)
        BY <1>2, <2>1, <3>1
      <3>3. \A i \in 1 .. Len(commands') :
               i + 1 \in 1 .. Len(commands) /\ commands'[i] = commands[i + 1]
        BY <2>1, First
      <3>4. QED  BY <3>2, <3>3 DEF Void
    <2>4. QED  BY <1>1, <1>2, <2>1, <2>2, <2>3
  <1>11. ASSUME Accept \/ Fail  PROVE Goal
    <2>1. UNCHANGED <<up, mode, buffer>> /\ ~busy'
      BY <1>11, AcceptEffect, FailEffect
    <2>2. QED  BY <1>1, <1>2, <2>1
  <1>12. CASE Restart
    BY <1>1, <1>12, RestartEffect
  <1>13. CASE UNCHANGED vars
    <2>1. UNCHANGED <<up, mode, buffer, busy, log, cursor, receipts, commands>>
      BY <1>13, Stutter
    <2>2. QED
      BY <1>1, <1>2, <2>1 DEF Void, NextEvent, NextSequence
  <1> HIDE DEF Goal
  <1>14. QED
    BY <1>1, <1>6, <1>7, <1>8, <1>9, <1>10, <1>11, <1>12, <1>13 DEF Next

-----------------------------------------------------------------------------
(* Completed messages *)

\* One more accepted event.
LEMMA AcceptedMore ==
    ASSUME Base, Accept, NEW m
    PROVE  /\ CompletedBy(m, cursor)' <=>
                 CompletedBy(m, cursor) \/ (NextEvent.kind = "completed" /\ NextEvent.message = m)
           /\ DeltaBy(m, cursor)' <=>
                 DeltaBy(m, cursor) \/ (NextEvent.kind = "delta" /\ NextEvent.message = m)
           /\ Ended' <=> Ended \/ NextEvent.kind = "turnEnd"
  <1>1. PICK c \in Nat : c = cursor
    BY AtHead
  <1>2. log' = log /\ cursor' = c + 1 /\ NextEvent = log[c + 1]
    BY <1>1, AcceptEffect DEF NextEvent, NextSequence
  <1>3. \A s : s \in 1 .. (c + 1) <=> s \in 1 .. c \/ s = c + 1
    OBVIOUS
  <1>4. CompletedBy(m, cursor)' <=> \E s \in 1 .. (c + 1) : log[s].kind = "completed"
                                                            /\ log[s].message = m
    BY <1>2 DEF CompletedBy
  <1>5. DeltaBy(m, cursor)' <=> \E s \in 1 .. (c + 1) : log[s].kind = "delta"
                                                        /\ log[s].message = m
    BY <1>2 DEF DeltaBy
  <1>6. Ended' <=> \E s \in 1 .. (c + 1) : log[s].kind = "turnEnd"
    BY <1>2 DEF Ended
  <1>7. /\ CompletedBy(m, cursor) <=> \E s \in 1 .. c : log[s].kind = "completed"
                                                        /\ log[s].message = m
        /\ DeltaBy(m, cursor) <=> \E s \in 1 .. c : log[s].kind = "delta"
                                                    /\ log[s].message = m
        /\ Ended <=> \E s \in 1 .. c : log[s].kind = "turnEnd"
    BY <1>1 DEF CompletedBy, DeltaBy, Ended
  <1>8. CompletedBy(m, cursor)' <=>
           CompletedBy(m, cursor) \/ (NextEvent.kind = "completed" /\ NextEvent.message = m)
    <2>1. ASSUME CompletedBy(m, cursor)'
          PROVE  CompletedBy(m, cursor) \/ (NextEvent.kind = "completed" /\ NextEvent.message = m)
      <3>1. PICK s \in 1 .. (c + 1) : log[s].kind = "completed" /\ log[s].message = m
        BY <1>4, <2>1
      <3>2. CASE s \in 1 .. c
        <4>1. \E r \in 1 .. c : log[r].kind = "completed" /\ log[r].message = m
          BY <3>1, <3>2
        <4>2. CompletedBy(m, cursor)
          BY <1>7, <4>1
        <4>3. QED  BY <4>2
      <3>3. CASE s = c + 1
        BY <1>2, <3>1, <3>3
      <3>4. QED  BY <3>2, <3>3
    <2>2. ASSUME CompletedBy(m, cursor) \/ (NextEvent.kind = "completed" /\ NextEvent.message = m)
          PROVE  CompletedBy(m, cursor)'
      <3>1. \E s \in 1 .. (c + 1) : log[s].kind = "completed" /\ log[s].message = m
        BY <1>2, <1>3, <1>7, <2>2
      <3>2. QED  BY <1>4, <3>1
    <2>3. QED  BY <2>1, <2>2
  <1>9. DeltaBy(m, cursor)' <=>
           DeltaBy(m, cursor) \/ (NextEvent.kind = "delta" /\ NextEvent.message = m)
    <2>1. ASSUME DeltaBy(m, cursor)'
          PROVE  DeltaBy(m, cursor) \/ (NextEvent.kind = "delta" /\ NextEvent.message = m)
      <3>1. PICK s \in 1 .. (c + 1) : log[s].kind = "delta" /\ log[s].message = m
        BY <1>5, <2>1
      <3>2. CASE s \in 1 .. c
        <4>1. \E r \in 1 .. c : log[r].kind = "delta" /\ log[r].message = m
          BY <3>1, <3>2
        <4>2. DeltaBy(m, cursor)
          BY <1>7, <4>1
        <4>3. QED  BY <4>2
      <3>3. CASE s = c + 1
        BY <1>2, <3>1, <3>3
      <3>4. QED  BY <3>2, <3>3
    <2>2. ASSUME DeltaBy(m, cursor) \/ (NextEvent.kind = "delta" /\ NextEvent.message = m)
          PROVE  DeltaBy(m, cursor)'
      <3>1. \E s \in 1 .. (c + 1) : log[s].kind = "delta" /\ log[s].message = m
        BY <1>2, <1>3, <1>7, <2>2
      <3>2. QED  BY <1>5, <3>1
    <2>3. QED  BY <2>1, <2>2
  <1>10. Ended' <=> Ended \/ NextEvent.kind = "turnEnd"
    BY <1>2, <1>3, <1>6, <1>7
  <1>11. QED  BY <1>8, <1>9, <1>10

\* Every other step leaves what has been accepted.
LEMMA AcceptedSame ==
    ASSUME Base, [Next]_vars, ~Accept
    PROVE  /\ cursor' = cursor
           /\ \A m : CompletedBy(m, cursor)' <=> CompletedBy(m, cursor)
           /\ \A m : DeltaBy(m, cursor)' <=> DeltaBy(m, cursor)
           /\ Ended' <=> Ended
           /\ \A s \in 1 .. cursor : log'[s] = log[s]
  <1>1. cursor' = cursor /\ \A s \in 1 .. Len(log) : log'[s] = log[s]
    BY TextMoves, DispatchEffect
  <1>2. PICK c \in Nat : c = cursor
    BY AtHead
  <1>3. \A s \in 1 .. c : log'[s] = log[s]
    BY <1>1, <1>2, AtHead
  <1>4. QED  BY <1>1, <1>2, <1>3 DEF CompletedBy, DeltaBy, Ended

\* Completed messages stay closed, when the completion in hand is that of its own
\* item and leaves nothing buffered, and a restart rebuilds no text.
LEMMA ClosedNext ==
    ASSUME Base, Closed, OwnCompletion, [Next]_vars,
           Accept /\ NextEvent.kind = "completed" => buffer[NextEvent.message] = <<>>,
           Restart => \A m \in Messages : buffer'[m] = <<>>
    PROVE  Closed'
  <1>1. SUFFICES ASSUME NEW m \in Messages, CompletedBy(m, cursor)'
                 PROVE  buffer'[m] = <<>> /\ Void(m)'
    BY DEF Closed
  <1>2. CASE Accept
    <2>1. commands' = <<>> /\ buffer' = buffer
      BY <1>2, AcceptEffect
    <2>2. CompletedBy(m, cursor) \/ (NextEvent.kind = "completed" /\ NextEvent.message = m)
      BY <1>1, <1>2, AcceptedMore
    <2>3. QED  BY <1>2, <2>1, <2>2 DEF Closed, Void
  <1>3. CASE ~Accept
    <2>1. CompletedBy(m, cursor)
      BY <1>1, <1>3, AcceptedSame
    <2>2. buffer[m] = <<>> /\ Void(m)
      BY <2>1 DEF Closed
    <2>3. ASSUME NEW kind \in {"delta", "completed", "turnEnd"}, NEW x \in Messages,
                 Receive(kind, x)
          PROVE  buffer'[m] = <<>> /\ Void(m)'
      <3>1. buffer' = buffer /\ commands' = commands
        BY <2>3, ReceiveEffect
      <3>2. QED  BY <2>2, <3>1 DEF Void
    <2>4. CASE BeginDelta
      <3>1. PICK x \in Messages : x = NextEvent.message
        BY <2>4, BeginDeltaEffect
      <3>2. x # m
        BY <2>1, <2>4, <3>1, BeginDeltaEffect, NothingAfterCompletion
      <3>3. buffer'[m] = buffer[m]
        <4>1. PICK q : buffer' = [buffer EXCEPT ![x] = q] \/ buffer' = buffer
          BY <2>4, <3>1, BeginDeltaEffect
        <4>2. QED  BY <3>2, <4>1, Typing
      <3>4. commands' = <<>> \/ \E k : commands' = <<k>> /\ k.message = x
        <4>1. PICK d : d = Command("delta", x, <<NextSequence>>)
          OBVIOUS
        <4>2. PICK e : e = Command("spill", x, Append(buffer[x], NextSequence))
          OBVIOUS
        <4>3. commands' = <<>> \/ commands' = <<d>> \/ commands' = <<e>>
          BY <2>4, <3>1, <4>1, <4>2, BeginDeltaEffect
        <4>4. d.message = x /\ e.message = x
          BY <4>1, <4>2, IsDelta, IsSpill
        <4>5. QED  BY <4>3, <4>4
      <3>5. Void(m)'
        <4>1. CASE commands' = <<>>
          BY <4>1 DEF Void
        <4>2. ASSUME NEW k, commands' = <<k>>, k.message = x  PROVE Void(m)'
          <5>1. \A i \in 1 .. Len(commands') : commands'[i] = k
            BY <4>2
          <5>2. QED  BY <3>2, <4>2, <5>1 DEF Void
        <4>3. QED  BY <3>4, <4>1, <4>2
      <3>6. QED  BY <2>2, <3>3, <3>5
    <2>5. ASSUME BeginCompleted \/ BeginTurnEnd  PROVE buffer'[m] = <<>> /\ Void(m)'
      <3>1. buffer' = buffer /\ commands' = <<>>
        BY <2>5, BeginCompletedEffect, BeginTurnEndEffect
      <3>2. QED  BY <2>2, <3>1 DEF Void
    <2>6. CASE Finalize
      <3>1. PICK x \in todo :
               /\ x \in Messages /\ x \in forget /\ busy /\ cursor < Len(log)
               /\ buffer' = [buffer EXCEPT ![x] = <<>>]
               /\ \/ commands' = <<Closing(x)>> /\ (Snapshot \/ buffer[x] = <<>>)
                  \/ /\ ~Snapshot /\ buffer[x] # <<>>
                     /\ commands' = <<Command("final delta", x, buffer[x]), Closing(x)>>
        BY <2>6, FinalizeEffect
      <3>2. buffer'[m] = <<>>
        BY <2>2, <3>1, Typing
      <3>3. PICK k : k = Closing(x)
        OBVIOUS
      <3>4. PICK d : d = Command("final delta", x, buffer[x])
        OBVIOUS
      <3>5. /\ k.message = x /\ d.message = x /\ k.id[2] = "complete"
            /\ ~Snapshot => k.tokens = <<>>
        <4>1. k.message = x /\ k.id[2] = "complete" /\ (~Snapshot => k.tokens = <<>>)
          BY <3>3, IsClosing
        <4>2. d.message = x
          BY <3>4 DEF Command
        <4>3. QED  BY <4>1, <4>2
      <3>6. Void(m)'
        <4>1. CASE x # m
          <5>1. \A i \in 1 .. Len(commands') : commands'[i] \in {k, d}
            <6>1. commands' = <<k>> \/ commands' = <<d, k>>
              BY <3>1, <3>3, <3>4
            <6>2. QED  BY <6>1
          <5>2. \A i \in 1 .. Len(commands') : commands'[i].message # m
            BY <3>5, <4>1, <5>1
          <5>3. QED  BY <5>2 DEF Void
        <4>2. CASE x = m
          <5>1. ~Snapshot
            <6>1. SUFFICES ASSUME Snapshot  PROVE FALSE
              OBVIOUS
            <6>2. NextEvent.kind = "completed" /\ NextEvent.message = m
              BY <3>1, <4>2, <6>1 DEF Snapshot, OwnCompletion
            <6>3. QED  BY <2>1, <3>1, <6>2, NothingAfterCompletion
          <5>2. commands' = <<k>>
            BY <2>2, <3>1, <3>3, <4>2, <5>1
          <5>3. \A i \in 1 .. Len(commands') : commands'[i] = k
            BY <5>2
          <5>4. QED  BY <3>5, <5>1, <5>3 DEF Void
        <4>3. QED  BY <4>1, <4>2
      <3>7. QED  BY <3>2, <3>6
    <2>7. CASE Dispatch
      <3>1. buffer' = buffer /\ commands # <<>> /\ commands' = Tail(commands)
        BY <2>7, DispatchEffect
      <3>2. \A i \in 1 .. Len(commands') :
               i + 1 \in 1 .. Len(commands) /\ commands'[i] = commands[i + 1]
        BY <3>1, First
      <3>3. QED  BY <2>2, <3>1, <3>2 DEF Void
    <2>8. CASE Fail
      BY <2>2, <2>8, FailEffect DEF Void
    <2>9. CASE Crash
      BY <2>9, CrashEffect DEF Void
    <2>10. CASE Restart
      <3>1. commands' = <<>>
        BY <2>10, RestartEffect
      <3>2. QED  BY <2>10, <3>1 DEF Void
    <2>11. CASE UNCHANGED vars
      BY <2>2, <2>11, Stutter DEF Void
    <2>12. QED
      BY <1>3, <2>3, <2>4, <2>5, <2>6, <2>7, <2>8, <2>9, <2>10, <2>11 DEF Next
  <1>4. QED  BY <1>2, <1>3

\* The text of a message that is closed stays.
LEMMA ClosedText ==
    ASSUME Base, Closed, [Next]_vars, NEW m \in Messages, CompletedBy(m, cursor)
    PROVE  text'[m] = text[m]
  <1>1. CASE Dispatch
    <2>1. commands # <<>> /\ (text' = text \/ text' = Projected(commands[1]))
      BY <1>1, DispatchEffect
    <2>2. PICK k \in ACommand : k = commands[1]
      BY <2>1, First
    <2>3. k.message = m => k.id[2] = "complete" /\ k.tokens = <<>>
      BY <2>1, <2>2, First DEF Closed, Void
    <2>4. Projected(k)[m] = text[m]
      BY <2>3, ProjectedText
    <2>5. QED  BY <2>1, <2>2, <2>4
  <1>2. CASE ~Dispatch
    BY <1>2, TextMoves, AcceptEffect
  <1>3. QED  BY <1>1, <1>2

\* The text a completion carried stays, when an accepted completion has left it.
LEMMA ReplacedNext ==
    ASSUME Base, Closed, Replaced, [Next]_vars,
           Accept /\ NextEvent.kind = "completed" =>
              text[NextEvent.message] = <<NextSequence>>
    PROVE  Replaced'
  <1>1. PICK c \in Nat : c = cursor
    BY AtHead
  <1>2. ASSUME NEW s \in 1 .. c, log[s].kind = "completed"
        PROVE  text'[log[s].message] = <<s>>
    <2>1. s \in 1 .. Len(log)
      BY <1>1, AtHead
    <2>2. log[s] \in Event
      BY <2>1, AtHead
    <2>3. log[s].message \in Messages /\ CompletedBy(log[s].message, cursor)
      BY <1>1, <1>2, <2>2 DEF Event, CompletedBy
    <2>4. text[log[s].message] = <<s>>
      BY <1>1, <1>2 DEF Replaced
    <2>5. QED  BY <2>3, <2>4, ClosedText
  <1>3. CASE Accept
    <2>1. log' = log /\ cursor' = c + 1 /\ text' = text
      BY <1>1, <1>3, AcceptEffect
    <2>2. log[c + 1].kind = "completed" => text'[log[c + 1].message] = <<c + 1>>
      BY <1>1, <1>3, <2>1 DEF NextEvent, NextSequence
    <2>3. \A s \in 1 .. (c + 1) : s \in 1 .. c \/ s = c + 1
      OBVIOUS
    <2>4. QED  BY <1>2, <2>1, <2>2, <2>3 DEF Replaced
  <1>4. CASE ~Accept
    <2>1. cursor' = c /\ \A s \in 1 .. c : log'[s] = log[s]
      BY <1>1, <1>4, AcceptedSame
    <2>2. QED  BY <1>2, <2>1 DEF Replaced
  <1>5. QED  BY <1>3, <1>4

-----------------------------------------------------------------------------
(* What the caches remember *)

\* Every item begun and not completed is remembered, as long as no attempt fails
\* and the process does not restart.
LEMMA RememberedNext ==
    ASSUME Base, Remembered, DeltaKnown, OwnCompletion, [Next]_vars, ~Fail, ~Crash, ~Restart
    PROVE  Remembered' /\ DeltaKnown'
  <1>1. Remembered'
    <2>1. SUFFICES ASSUME ~Ended', NEW m \in Messages,
                          DeltaBy(m, cursor)', ~CompletedBy(m, cursor)'
                   PROVE  m \in known'
      BY DEF Remembered
    <2>2. CASE Accept
      <3>1. /\ known' = known \ forget /\ busy /\ cursor < Len(log)
            /\ commands = <<>> /\ todo = {}
        BY <2>2, AcceptEffect
      <3>2. /\ ~Ended /\ NextEvent.kind # "turnEnd" /\ ~CompletedBy(m, cursor)
            /\ ~(NextEvent.kind = "completed" /\ NextEvent.message = m)
            /\ DeltaBy(m, cursor) \/ (NextEvent.kind = "delta" /\ NextEvent.message = m)
        BY <2>1, <2>2, AcceptedMore
      <3>3. CASE NextEvent.kind = "delta"
        <4>1. forget = {}
          BY <3>1, <3>3 DEF Base, InHand, DeltaInHand
        <4>2. m \in known
          BY <3>1, <3>2, <3>3 DEF Remembered, DeltaKnown
        <4>3. QED  BY <3>1, <4>1, <4>2
      <3>4. CASE NextEvent.kind = "completed"
        <4>1. forget = {NextEvent.message}
          BY <3>1, <3>4 DEF OwnCompletion
        <4>2. m \in known /\ m # NextEvent.message
          BY <3>2, <3>4 DEF Remembered
        <4>3. QED  BY <3>1, <4>1, <4>2
      <3>5. QED  BY <3>1, <3>2, <3>3, <3>4, AtHead
    <2>3. CASE ~Accept
      <3>1. ~Ended /\ DeltaBy(m, cursor) /\ ~CompletedBy(m, cursor)
        BY <2>1, <2>3, AcceptedSame
      <3>2. m \in known
        BY <3>1 DEF Remembered
      <3>3. ASSUME NEW kind \in {"delta", "completed", "turnEnd"}, NEW x \in Messages,
                   Receive(kind, x)
            PROVE  known' = known
        BY <3>3, ReceiveEffect
      <3>4. ASSUME BeginDelta \/ BeginCompleted \/ BeginTurnEnd \/ Finalize \/ Dispatch
                   \/ UNCHANGED vars
            PROVE  known \subseteq known'
        BY <3>4, BeginDeltaEffect, BeginCompletedEffect, BeginTurnEndEffect, FinalizeEffect,
           DispatchEffect, Stutter
      <3>5. QED  BY <2>3, <3>2, <3>3, <3>4 DEF Next
    <2>4. QED  BY <2>2, <2>3
  <1>2. DeltaKnown'
    <2>1. SUFFICES ASSUME busy', NextEvent'.kind = "delta"
                   PROVE  NextEvent'.message \in known'
      BY DEF DeltaKnown
    <2>2. ASSUME NEW kind \in {"delta", "completed", "turnEnd"}, NEW x \in Messages,
                 Receive(kind, x)
          PROVE  FALSE
      <3>1. cursor = Len(log) /\ busy
        BY <2>1, <2>2, ReceiveEffect
      <3>2. QED  BY <3>1, AtHead DEF Base, Shape
    <2>3. CASE BeginDelta
      <3>1. log' = log /\ cursor' = cursor /\ scenario' = scenario
            /\ known' = known \cup {NextEvent.message}
        BY <2>3, BeginDeltaEffect
      <3>2. QED  BY <3>1, HeadSame
    <2>4. ASSUME BeginCompleted \/ BeginTurnEnd  PROVE FALSE
      <3>1. /\ log' = log /\ cursor' = cursor /\ scenario' = scenario
            /\ NextEvent.kind \in {"completed", "turnEnd"}
        BY <2>4, BeginCompletedEffect, BeginTurnEndEffect
      <3>2. QED  BY <2>1, <3>1, HeadSame
    <2>5. ASSUME Finalize \/ Dispatch \/ UNCHANGED vars  PROVE NextEvent'.message \in known'
      <3>1. /\ log' = log /\ cursor' = cursor /\ scenario' = scenario
            /\ known' = known /\ busy' = busy
        BY <2>5, FinalizeEffect, DispatchEffect, Stutter
      <3>2. QED  BY <2>1, <3>1, HeadSame DEF DeltaKnown
    <2>6. CASE Accept
      BY <2>1, <2>6, AcceptEffect
    <2>7. QED  BY <2>2, <2>3, <2>4, <2>5, <2>6 DEF Next
  <1>3. QED  BY <1>1, <1>2

\* A completion of an item that is remembered is resolved to that item.
LEMMA RememberedResolves ==
    ASSUME Base, Remembered, cursor < Len(log), NextEvent.kind = "completed"
    PROVE  ResolvedIds(NextEvent.message) = {NextEvent.message}
  <1>1. PICK c \in Nat : c = cursor
    BY AtHead
  <1>2. c + 1 \in 1 .. Len(log) /\ NextEvent = log[c + 1] /\ (c + 1) - 1 = c
    BY <1>1, AtHead DEF NextEvent, NextSequence
  <1>3. DeltaBy(NextEvent.message, c)
    BY <1>2 DEF Base, Orderly, BegunFirst
  <1>4. ~CompletedBy(NextEvent.message, cursor)
    BY NothingAfterCompletion
  <1>5. ~Ended /\ NextEvent.message \in Messages
    BY EndedIsOver, AtHead
  <1>6. NextEvent.message \in known
    BY <1>1, <1>3, <1>4, <1>5 DEF Remembered
  <1>7. QED  BY <1>6 DEF ResolvedIds

\* The completion in hand stays that of its own item.
LEMMA OwnCompletionNext ==
    ASSUME Base, OwnCompletion, [Next]_vars,
           BeginCompleted => ResolvedIds(NextEvent.message) = {NextEvent.message}
    PROVE  OwnCompletion'
  <1>1. SUFFICES ASSUME busy', NextEvent'.kind = "completed"
                 PROVE  forget' = {NextEvent'.message}
    BY DEF OwnCompletion
  <1>2. ASSUME NEW kind \in {"delta", "completed", "turnEnd"}, NEW x \in Messages,
               Receive(kind, x)
        PROVE  FALSE
    <2>1. cursor = Len(log) /\ busy
      BY <1>1, <1>2, ReceiveEffect
    <2>2. QED  BY <2>1, AtHead DEF Base, Shape
  <1>3. ASSUME BeginDelta \/ BeginTurnEnd  PROVE FALSE
    <2>1. /\ log' = log /\ cursor' = cursor /\ scenario' = scenario
          /\ NextEvent.kind \in {"delta", "turnEnd"}
      BY <1>3, BeginDeltaEffect, BeginTurnEndEffect
    <2>2. QED  BY <1>1, <2>1, HeadSame
  <1>4. CASE BeginCompleted
    <2>1. PICK m \in ResolvedIds(NextEvent.message) :
             /\ forget' = {m}
             /\ log' = log /\ cursor' = cursor /\ scenario' = scenario
      BY <1>4, BeginCompletedEffect
    <2>2. m = NextEvent.message
      BY <1>4, <2>1
    <2>3. QED  BY <2>1, <2>2, HeadSame
  <1>5. ASSUME Finalize \/ Dispatch \/ UNCHANGED vars  PROVE forget' = {NextEvent'.message}
    <2>1. /\ log' = log /\ cursor' = cursor /\ scenario' = scenario
          /\ forget' = forget /\ busy' = busy
      BY <1>5, FinalizeEffect, DispatchEffect, Stutter
    <2>2. QED  BY <1>1, <2>1, HeadSame DEF OwnCompletion
  <1>6. ASSUME Accept \/ Fail \/ Crash  PROVE FALSE
    BY <1>1, <1>6, AcceptEffect, FailEffect, CrashEffect
  <1>7. CASE Restart
    <2>1. ~busy /\ busy' = busy
      BY <1>7, RestartEffect
    <2>2. QED  BY <1>1, <2>1
  <1>8. QED  BY <1>2, <1>3, <1>4, <1>5, <1>6, <1>7 DEF Next

-----------------------------------------------------------------------------
(* Without a fault *)

\* The steps of a scenario without faults.
LEMMA CalmSteps ==
    ASSUME Base, Calm(scenario)
    PROVE  ~Fail /\ ~Crash /\ ~Restart /\ up
  <1>1. ~Fail /\ ~Crash /\ up
    BY NoCrash, NoFailure DEF Calm
  <1>2. QED  BY <1>1 DEF Restart

LEMMA AllForgottenNext ==
    ASSUME Base, Calm(scenario), AllForgotten, [Next]_vars
    PROVE  AllForgotten'
  <1>1. ASSUME NEW kind \in {"delta", "completed", "turnEnd"}, NEW x \in Messages,
               Receive(kind, x)
        PROVE  AllForgotten'
    <2>1. cursor = Len(log) /\ busy' = busy /\ known' = known
      BY <1>1, ReceiveEffect
    <2>2. ~Accept /\ busy' = FALSE
      <3>1. ~busy
        BY <2>1, AtHead DEF Base, Shape
      <3>2. busy \in BOOLEAN
        BY DEF Base, TypeOK
      <3>3. QED  BY <2>1, <3>1, <3>2 DEF Accept
    <2>3. Ended' <=> Ended
      BY <2>2, AcceptedSame
    <2>4. QED  BY <2>1, <2>2, <2>3 DEF AllForgotten
  <1>2. ASSUME BeginDelta \/ BeginCompleted  PROVE AllForgotten'
    <2>1. /\ log' = log /\ cursor' = cursor /\ scenario' = scenario /\ ~busy
          /\ NextEvent.kind \in {"delta", "completed"} /\ cursor < Len(log)
      BY <1>2, BeginDeltaEffect, BeginCompletedEffect
    <2>2. ~Ended /\ cursor \in Nat
      BY <2>1, EndedIsOver, AtHead
    <2>3. NextEvent'.kind # "turnEnd" /\ ~Ended'
      BY <2>1, <2>2, HeadSame
    <2>4. QED  BY <2>3 DEF AllForgotten
  <1>3. CASE BeginTurnEnd
    <2>1. /\ log' = log /\ cursor' = cursor /\ scenario' = scenario /\ cursor < Len(log)
          /\ forget' = known /\ known' = known
      BY <1>3, BeginTurnEndEffect
    <2>2. ~Ended'
      BY <2>1, EndedIsOver, AtHead, HeadSame
    <2>3. QED  BY <2>1, <2>2 DEF AllForgotten
  <1>4. ASSUME Finalize \/ Dispatch \/ UNCHANGED vars  PROVE AllForgotten'
    <2>1. /\ log' = log /\ cursor' = cursor /\ scenario' = scenario
          /\ forget' = forget /\ busy' = busy /\ known' = known
      BY <1>4, FinalizeEffect, DispatchEffect, Stutter
    <2>2. QED  BY <2>1, HeadSame DEF AllForgotten
  <1>5. CASE Accept
    <2>1. busy /\ known' = known \ forget /\ busy' = FALSE
      BY <1>5, AcceptEffect
    <2>2. Ended' => NextEvent.kind = "turnEnd"
      BY <1>5, <2>1, AcceptedMore, EndedIsOver
    <2>3. NextEvent.kind = "turnEnd" => known' = {}
      BY <2>1 DEF AllForgotten
    <2>4. QED  BY <2>1, <2>2, <2>3 DEF AllForgotten
  <1>6. QED  BY <1>1, <1>2, <1>3, <1>4, <1>5, CalmSteps DEF Next

\* What is buffered belongs to a known message, what has been taken is no longer
\* buffered, and a streaming turn buffers nothing.
LEMMA BufferNext ==
    ASSUME Base, Calm(scenario), BufferedIsKnown, Taken, StreamedAtOnce, [Next]_vars
    PROVE  BufferedIsKnown' /\ Taken' /\ StreamedAtOnce'
  <1> DEFINE Goal == BufferedIsKnown' /\ Taken' /\ StreamedAtOnce'
  <1>1. ASSUME UNCHANGED <<buffer, known, forget, todo, mode>>  PROVE Goal
    BY <1>1 DEF BufferedIsKnown, Taken, StreamedAtOnce
  <1>2. ASSUME NEW kind \in {"delta", "completed", "turnEnd"}, NEW x \in Messages,
               Receive(kind, x)
        PROVE  Goal
    BY <1>1, <1>2, ReceiveEffect
  <1>3. ASSUME BeginDelta  PROVE Goal
    <2>1. PICK x \in Messages : x = NextEvent.message
      BY <1>3, BeginDeltaEffect
    <2>2. /\ known' = known \cup {x} /\ forget' = {} /\ mode' = mode
          /\ mode = "streaming" => buffer' = buffer
      BY <1>3, <2>1, BeginDeltaEffect DEF DeliveryMode
    <2>3. \A m \in Messages \ {x} : buffer'[m] = buffer[m]
      <3>1. PICK q : buffer' = [buffer EXCEPT ![x] = q] \/ buffer' = buffer
        BY <1>3, <2>1, BeginDeltaEffect
      <3>2. QED  BY <3>1, Typing
    <2>4. QED  BY <2>2, <2>3 DEF BufferedIsKnown, Taken, StreamedAtOnce
  <1>4. ASSUME BeginCompleted \/ BeginTurnEnd  PROVE Goal
    <2>1. buffer' = buffer /\ mode' = mode /\ known \subseteq known' /\ forget' = todo'
      BY <1>4, BeginCompletedEffect, BeginTurnEndEffect
    <2>2. QED  BY <2>1 DEF BufferedIsKnown, Taken, StreamedAtOnce
  <1>5. ASSUME Finalize  PROVE Goal
    <2>1. PICK x \in todo :
             /\ x \in Messages /\ buffer' = [buffer EXCEPT ![x] = <<>>]
             /\ todo' = todo \ {x} /\ UNCHANGED <<known, forget, mode>>
      BY <1>5, FinalizeEffect
    <2>2. \A m \in Messages : buffer'[m] = <<>> \/ (m # x /\ buffer'[m] = buffer[m])
      BY <2>1, Typing
    <2>3. BufferedIsKnown' /\ StreamedAtOnce'
      BY <2>1, <2>2 DEF BufferedIsKnown, StreamedAtOnce
    <2>4. Taken'
      <3>1. SUFFICES ASSUME NEW m \in forget' \ todo'  PROVE buffer'[m] = <<>>
        BY DEF Taken
      <3>2. m \in Messages /\ (m = x \/ m \in forget \ todo)
        BY <2>1, <3>1, Typing
      <3>3. QED  BY <2>2, <3>2 DEF Taken
    <2>5. QED  BY <2>3, <2>4
  <1>6. ASSUME Dispatch \/ UNCHANGED vars  PROVE Goal
    BY <1>1, <1>6, DispatchEffect, Stutter
  <1>7. ASSUME Accept  PROVE Goal
    <2>1. /\ todo = {} /\ known' = known \ forget /\ forget' = {}
          /\ buffer' = buffer /\ mode' = mode
      BY <1>7, AcceptEffect
    <2>2. \A m \in forget : buffer[m] = <<>>
      BY <2>1 DEF Taken
    <2>3. QED  BY <2>1, <2>2 DEF BufferedIsKnown, Taken, StreamedAtOnce
  <1> HIDE DEF Goal
  <1>8. Goal
    BY <1>2, <1>3, <1>4, <1>5, <1>6, <1>7, CalmSteps DEF Next
  <1>9. QED  BY <1>8 DEF Goal

\* Without a fault a command in hand is new: its receipt does not exist.
LEMMA FreshNext ==
    ASSUME Base, Calm(scenario), Fresh, [Next]_vars
    PROVE  Fresh'
  <1>1. \A r \in receipts : r[1] \in Nat /\ r[1] <= Len(log)
    <2>1. \A r \in receipts : r[1] \in 1 .. Len(log)
      BY DEF Base, ReceiptsReal
    <2>2. QED  BY <2>1, AtHead
  <1>2. ASSUME cursor' = Len(log), receipts' = receipts  PROVE Fresh'
    BY <1>1, <1>2, AtHead DEF Fresh
  <1>3. ASSUME ~busy, receipts' = receipts, cursor' = cursor  PROVE Fresh'
    BY <1>3 DEF Fresh
  <1>4. ASSUME NEW kind \in {"delta", "completed", "turnEnd"}, NEW x \in Messages,
               Receive(kind, x)
        PROVE  Fresh'
    BY <1>2, <1>4, ReceiveEffect
  <1>5. ASSUME BeginDelta \/ BeginCompleted \/ BeginTurnEnd  PROVE Fresh'
    BY <1>3, <1>5, BeginDeltaEffect, BeginCompletedEffect, BeginTurnEndEffect
  <1>6. CASE Finalize
    <2>1. PICK x \in todo :
             /\ x \in Messages /\ busy /\ busy' = busy /\ todo' = todo \ {x}
             /\ \/ commands' = <<Closing(x)>>
                \/ commands' = <<Command("final delta", x, buffer[x]), Closing(x)>>
             /\ UNCHANGED <<cursor, receipts>>
      BY <1>6, FinalizeEffect
    <2>2. \A i \in 1 .. Len(commands') : commands'[i].id[3] = x
      <3>1. PICK k : k = Closing(x)
        OBVIOUS
      <3>2. PICK d : d = Command("final delta", x, buffer[x])
        OBVIOUS
      <3>3. k.id[3] = x /\ d.id[3] = x
        BY <3>1, <3>2 DEF Closing, Command
      <3>4. commands' = <<k>> \/ commands' = <<d, k>>
        BY <2>1, <3>1, <3>2
      <3>5. QED  BY <3>3, <3>4
    <2>3. QED  BY <2>1, <2>2 DEF Fresh
  <1>7. CASE Dispatch
    <2>1. /\ busy /\ busy' = busy /\ todo' = todo /\ cursor' = cursor /\ commands # <<>>
          /\ commands' = Tail(commands)
          /\ receipts' \subseteq receipts \cup {commands[1].id}
      BY <1>7, DispatchEffect
    <2>2. \A i \in 1 .. Len(commands') :
             i + 1 \in 1 .. Len(commands) /\ commands'[i] = commands[i + 1]
      BY <2>1, First
    <2>3. /\ commands[1].id[3] \notin todo
          /\ \A i \in 1 .. Len(commands') : commands'[i].id # commands[1].id
      <3>1. CASE NextEvent.kind = "delta"
        <4>1. todo = {} /\ commands' = <<>>
          BY <2>1, <3>1, Hand
        <4>2. QED  BY <4>1
      <3>2. CASE NextEvent.kind # "delta"
        <4>1. PICK x \in forget \ todo :
                 \/ commands[1] = Closing(x) /\ Tail(commands) = <<>>
                 \/ /\ commands[1] = Command("final delta", x, commands[1].tokens)
                    /\ Tail(commands) = <<Closing(x)>>
          BY <2>1, <3>2, Hand
        <4>2. CASE commands[1] = Closing(x) /\ Tail(commands) = <<>>
          <5>1. commands[1].id[3] = x /\ commands' = <<>>
            BY <2>1, <4>2, IsClosing
          <5>2. QED  BY <5>1
        <4>3. CASE /\ commands[1] = Command("final delta", x, commands[1].tokens)
                   /\ Tail(commands) = <<Closing(x)>>
          <5>1. PICK k : k = Closing(x)
            OBVIOUS
          <5>2. commands[1].id[3] = x /\ commands[1].id[2] = "final delta"
                /\ k.id[2] = "complete"
            <6>1. PICK q : commands[1] = Command("final delta", x, q)
              BY <4>3
            <6>2. /\ Command("final delta", x, q).id[3] = x
                  /\ Command("final delta", x, q).id[2] = "final delta"
              BY DEF Command
            <6>3. k.id[2] = "complete"
              BY <5>1, IsClosing
            <6>4. QED  BY <6>1, <6>2, <6>3
          <5>3. commands' = <<k>>
            BY <2>1, <4>3, <5>1
          <5>4. \A i \in 1 .. Len(commands') : commands'[i] = k
            BY <5>3
          <5>5. QED  BY <5>2, <5>4
        <4>4. QED  BY <4>1, <4>2, <4>3
      <3>3. QED  BY <3>1, <3>2
    <2>4. QED  BY <2>1, <2>2, <2>3 DEF Fresh
  <1>8. CASE Accept
    <2>1. cursor' = Len(log) /\ receipts' = receipts
      BY <1>8, AcceptEffect, AtHead
    <2>2. QED  BY <1>2, <2>1
  <1>9. CASE UNCHANGED vars
    BY <1>9, Stutter DEF Fresh
  <1>10. QED  BY <1>4, <1>5, <1>6, <1>7, <1>8, <1>9, CalmSteps DEF Next

\* The first command in hand is that of the event, and has no receipt.
LEMMA FreshHead ==
    ASSUME Base, Fresh, commands # <<>>
    PROVE  commands[1].id \notin receipts
  <1>1. commands[1].id[1] = NextSequence
    <2>1. CASE NextEvent.kind = "delta"
      <3>1. PICK q : \/ commands[1] = Command("delta", NextEvent.message, q)
                     \/ commands[1] = Command("spill", NextEvent.message, q)
        BY <2>1, Hand
      <3>2. /\ Command("delta", NextEvent.message, q).id[1] = NextSequence
            /\ Command("spill", NextEvent.message, q).id[1] = NextSequence
        BY DEF Command
      <3>3. QED  BY <3>1, <3>2
    <2>2. CASE NextEvent.kind # "delta"
      <3>1. PICK x, q : \/ commands[1] = Closing(x)
                        \/ commands[1] = Command("final delta", x, q)
        BY <2>2, Hand
      <3>2. /\ Closing(x).id[1] = NextSequence
            /\ Command("final delta", x, q).id[1] = NextSequence
        BY DEF Command, Closing
      <3>3. QED  BY <3>1, <3>2
    <2>3. QED  BY <2>1, <2>2
  <1>2. cursor \in Nat /\ NextSequence = cursor + 1
    BY AtHead DEF NextSequence
  <1>3. 1 \in 1 .. Len(commands)
    BY First
  <1>4. QED  BY <1>1, <1>2, <1>3 DEF Fresh

\* A completion that carries the text has replaced it, or is about to.
LEMMA SettledNext ==
    ASSUME Base, Calm(scenario), Fresh, OwnCompletion, Remembered, Settled, [Next]_vars
    PROVE  Settled'
  <1>1. SUFFICES ASSUME NEW m \in Messages, Settling(m)'
                 PROVE  \/ commands' = <<Closing(m)'>>
                        \/ commands' = <<>> /\ text'[m] = <<NextSequence'>>
    BY DEF Settled
  <1> DEFINE Goal == \/ commands' = <<Closing(m)'>>
                     \/ commands' = <<>> /\ text'[m] = <<NextSequence'>>
  <1>2. busy' /\ NextEvent'.kind = "completed" /\ NextEvent'.message = m /\ m \notin todo'
        /\ Snapshot'
    BY <1>1 DEF Settling, Snapshot
  <1>3. ASSUME log' = log, cursor' = cursor, scenario' = scenario
        PROVE  /\ NextEvent.kind = "completed" /\ NextEvent.message = m /\ Snapshot
               /\ Closing(m)' = Closing(m) /\ NextSequence' = NextSequence
    BY <1>2, <1>3, HeadSame
  <1>4. ASSUME NEW kind \in {"delta", "completed", "turnEnd"}, NEW x \in Messages,
               Receive(kind, x)
        PROVE  FALSE
    <2>1. cursor = Len(log) /\ busy
      BY <1>2, <1>4, ReceiveEffect
    <2>2. QED  BY <2>1, AtHead DEF Base, Shape
  <1>5. ASSUME BeginDelta \/ BeginTurnEnd  PROVE FALSE
    <2>1. /\ log' = log /\ cursor' = cursor /\ scenario' = scenario
          /\ NextEvent.kind \in {"delta", "turnEnd"}
      BY <1>5, BeginDeltaEffect, BeginTurnEndEffect
    <2>2. QED  BY <1>3, <2>1
  <1>6. ASSUME BeginCompleted  PROVE FALSE
    <2>1. PICK x \in ResolvedIds(NextEvent.message) :
             /\ todo' = {x} /\ cursor < Len(log) /\ NextEvent.kind = "completed"
             /\ log' = log /\ cursor' = cursor /\ scenario' = scenario
      BY <1>6, BeginCompletedEffect
    <2>2. x = NextEvent.message
      BY <2>1, RememberedResolves
    <2>3. QED  BY <1>2, <1>3, <2>1, <2>2
  <1>7. ASSUME Finalize  PROVE Goal
    <2>1. PICK x \in todo :
             /\ x \in forget /\ busy /\ todo' = todo \ {x}
             /\ \/ commands' = <<Closing(x)>>
                \/ ~Snapshot
             /\ UNCHANGED <<log, cursor, scenario>>
      BY <1>7, FinalizeEffect
    <2>2. x = m
      BY <1>3, <2>1 DEF OwnCompletion
    <2>3. QED  BY <1>3, <2>1, <2>2
  <1>8. ASSUME Dispatch  PROVE Goal
    <2>1. /\ busy /\ todo' = todo /\ commands # <<>> /\ commands' = Tail(commands)
          /\ commands[1].id \notin receipts => text' = Projected(commands[1])
          /\ UNCHANGED <<log, cursor, scenario>>
      BY <1>8, DispatchEffect
    <2>2. Settling(m)
      BY <1>2, <1>3, <2>1 DEF Settling
    <2>3. commands = <<Closing(m)>>
      BY <2>1, <2>2 DEF Settled
    <2>4. PICK k \in ACommand : k = Closing(m)
      BY ClosingTyped
    <2>5. commands[1] = k /\ Tail(commands) = <<>>
      BY <2>3, <2>4, ListTyped
    <2>6. k.id[2] = "complete" /\ k.message = m /\ k.tokens = <<NextSequence>>
      BY <1>3, <2>1, <2>4, IsClosing
    <2>7. <<NextSequence>> # <<>>
      OBVIOUS
    <2>8. text'[m] = <<NextSequence>>
      BY <2>1, <2>5, <2>6, <2>7, FreshHead, ProjectedText
    <2>9. QED  BY <1>3, <2>1, <2>5, <2>8
  <1>9. ASSUME Accept  PROVE FALSE
    BY <1>2, <1>9, AcceptEffect
  <1>10. ASSUME UNCHANGED vars  PROVE Goal
    <2>1. UNCHANGED <<log, cursor, scenario, busy, todo, commands, text>>
      BY <1>10, Stutter
    <2>2. Settling(m)
      BY <1>2, <1>3, <2>1 DEF Settling
    <2>3. QED  BY <1>3, <2>1, <2>2 DEF Settled
  <1> HIDE DEF Goal
  <1>11. Goal
    BY <1>4, <1>5, <1>6, <1>7, <1>8, <1>9, <1>10, CalmSteps DEF Next
  <1>12. QED  BY <1>11 DEF Goal

-----------------------------------------------------------------------------
(* Where the tokens are *)

\* What is moved from one place of the text to the next leaves the whole as it is.
LEMMA Whole ==
    ASSUME NEW a \in Seq(Nat), NEW b \in Seq(Nat), NEW n \in Nat
    PROVE  /\ a \o <<>> = a /\ <<>> \o a = a /\ a \o b \in Seq(Nat)
           /\ (a \o <<>>) \o b = a \o b /\ (a \o b) \o <<>> = a \o b
           /\ <<n>> \in Seq(Nat) /\ Append(b, n) \in Seq(Nat)
           /\ a \o Append(b, n) = Append(a \o b, n)
           /\ a \o <<n>> = Append(a, n)
  <1>1. <<n>> \in Seq(Nat) /\ <<>> \in Seq(Nat) /\ a \o b \in Seq(Nat) /\ Append(b, n) \in Seq(Nat)
    OBVIOUS
  <1>2. a \o <<>> = a /\ <<>> \o a = a /\ (a \o b) \o <<>> = a \o b
    BY <1>1, ConcatEmptySeq
  <1>3. Append(b, n) = b \o <<n>> /\ Append(a \o b, n) = (a \o b) \o <<n>>
        /\ Append(a, n) = a \o <<n>>
    BY <1>1, AppendIsConcat
  <1>4. a \o (b \o <<n>>) = (a \o b) \o <<n>>
    BY <1>1, ConcatAssociative
  <1>5. QED  BY <1>1, <1>2, <1>3, <1>4

LEMMA WholeGrown ==
    ASSUME NEW a \in Seq(Nat), NEW b \in Seq(Nat), NEW n \in Nat
    PROVE  /\ (a \o <<>>) \o Append(b, n) = Append(a \o b, n)
           /\ (a \o Append(b, n)) \o <<>> = Append(a \o b, n)
  <1>1. PICK e \in Seq(Nat) : e = Append(b, n)
    BY Whole
  <1>2. (a \o <<>>) \o e = a \o e /\ (a \o e) \o <<>> = a \o e
    BY Whole
  <1>3. a \o Append(b, n) = Append(a \o b, n)
    BY Whole
  <1>4. QED  BY <1>1, <1>2, <1>3

\* Nothing is on its way to a message that no command is for.
LEMMA ComingNone ==
    ASSUME NEW m, commands = <<>> \/ commands[1].message # m \/ commands[1].id[2] = "complete"
    PROVE  Coming(m) = <<>>
  BY DEF Coming

LEMMA ComingTyped ==
    ASSUME Base, NEW m \in Messages
    PROVE  Coming(m) \in Seq(Nat) /\ text[m] \in Seq(Nat) /\ buffer[m] \in Seq(Nat)
  <1>1. <<>> \in Seq(Nat)
    OBVIOUS
  <1>2. commands # <<>> => commands[1].tokens \in Seq(Nat)
    BY First
  <1>3. Coming(m) \in Seq(Nat)
    BY <1>1, <1>2 DEF Coming
  <1>4. QED  BY <1>3, Typing

\* The deltas of m that have been read, after a step.
LEMMA ReadNext ==
    ASSUME NEW m, NEW n, Read(m)' = n
    PROVE  DeltasOf(m, Read(m))' = DeltasOf(m, n)'
  BY DEF DeltasOf, Ranked, DeltasAmong

LEMMA ConservedDelta ==
    ASSUME Base, StreamedAtOnce, Conserved, BeginDelta, NEW m \in Messages,
           ~(scenario.snapshots /\ CompletedBy(m, cursor))
    PROVE  text'[m] \o Coming(m)' \o buffer'[m] = DeltasOf(m, Read(m))'
  <1>1. PICK c \in Nat : c = cursor
    BY AtHead
  <1>2. PICK x \in Messages : x = NextEvent.message
    BY BeginDeltaEffect
  <1>3. /\ ~busy /\ busy' = TRUE /\ commands = <<>> /\ cursor < Len(log)
        /\ NextEvent.kind = "delta"
        /\ UNCHANGED <<scenario, log, cursor, text>>
    BY BeginDeltaEffect
  <1>4. /\ NextEvent' = NextEvent /\ NextSequence' = c + 1 /\ NextSequence = c + 1
        /\ NextEvent = log[c + 1]
    BY <1>1, <1>3, HeadSame DEF NextSequence, NextEvent
  <1>5. text[m] \o <<>> \o buffer[m] = DeltasOf(m, c)
    <2>1. ~Settling(m) /\ Read(m) = c /\ Coming(m) = <<>>
      BY <1>1, <1>3 DEF Settling, Read, Coming
    <2>2. QED  BY <2>1 DEF Conserved
  <1>6. \A k \in Nat : DeltasOf(m, k)' = DeltasOf(m, k)
    BY <1>3, DeltasStable
  <1>7. /\ text[m] \in Seq(Nat) /\ buffer[m] \in Seq(Nat)
        /\ text[m] \o buffer[m] = DeltasOf(m, c) /\ c + 1 \in Nat
    <2>1. text[m] \in Seq(Nat) /\ buffer[m] \in Seq(Nat) /\ c + 1 \in Nat
      BY Typing
    <2>2. QED  BY <2>1, <1>5, Whole
  <1>8. CASE x # m
    <2>1. Read(m)' = c
      BY <1>1, <1>2, <1>3, <1>4, <1>8 DEF Read
    <2>2. buffer'[m] = buffer[m]
      <3>1. PICK q : buffer' = [buffer EXCEPT ![x] = q] \/ buffer' = buffer
        BY <1>2, BeginDeltaEffect
      <3>2. QED  BY <1>8, <3>1, Typing
    <2>3. Coming(m)' = <<>>
      <3>1. commands' = <<>> \/ \E k : commands' = <<k>> /\ k.message = x
        <4>1. PICK d : d = Command("delta", x, <<NextSequence>>)
          OBVIOUS
        <4>2. PICK e : e = Command("spill", x, Append(buffer[x], NextSequence))
          OBVIOUS
        <4>3. commands' = <<>> \/ commands' = <<d>> \/ commands' = <<e>>
          BY <1>2, <4>1, <4>2, BeginDeltaEffect
        <4>4. d.message = x /\ e.message = x
          BY <4>1, <4>2, IsDelta, IsSpill
        <4>5. QED  BY <4>3, <4>4
      <3>2. commands' = <<>> \/ commands'[1].message = x
        BY <3>1
      <3>3. QED  BY <1>8, <3>2 DEF Coming
    <2>4. QED  BY <1>3, <1>5, <1>6, <2>1, <2>2, <2>3, ReadNext
  <1>9. CASE x = m
    <2>1. Read(m)' = c + 1
      BY <1>2, <1>3, <1>4, <1>9 DEF Read
    <2>2. DeltasOf(m, c + 1) = Append(DeltasOf(m, c), c + 1)
      BY <1>2, <1>3, <1>4, <1>9, DeltasGrow
    <2>3. text[m] \o Coming(m)' \o buffer'[m] = Append(text[m] \o buffer[m], c + 1)
      <3>1. CASE buffer' = [buffer EXCEPT ![m] = Append(buffer[m], c + 1)] /\ commands' = <<>>
        <4>1. Coming(m)' = <<>>
          BY <3>1 DEF Coming
        <4>2. buffer'[m] = Append(buffer[m], c + 1)
          BY <3>1, Typing
        <4>3. Append(buffer[m], c + 1) \in Seq(Nat)
          BY <1>7
        <4>4. text[m] \o <<>> \o Append(buffer[m], c + 1) = Append(text[m] \o buffer[m], c + 1)
          BY <1>7, WholeGrown
        <4>5. QED  BY <4>1, <4>2, <4>4
      <3>2. ASSUME buffer' = [buffer EXCEPT ![m] = <<>>],
                   commands' = <<Command("spill", m, Append(buffer[m], c + 1))>>
            PROVE  text[m] \o Coming(m)' \o buffer'[m] = Append(text[m] \o buffer[m], c + 1)
        <4>1. PICK k : k = Command("spill", m, Append(buffer[m], c + 1))
          OBVIOUS
        <4>2. k.message = m /\ k.id[2] = "spill" /\ k.tokens = Append(buffer[m], c + 1)
          <5>1. PICK q : q = Append(buffer[m], c + 1)
            OBVIOUS
          <5>2. k = Command("spill", m, q)
            BY <4>1, <5>1
          <5>3. k.message = m /\ k.id[2] = "spill" /\ k.tokens = q
            BY <5>2, IsSpill
          <5>4. QED  BY <5>1, <5>3
        <4>3. commands' # <<>> /\ commands'[1] = k
          BY <3>2, <4>1
        <4>4. Coming(m)' = Append(buffer[m], c + 1)
          BY <4>2, <4>3 DEF Coming
        <4>5. buffer'[m] = <<>>
          BY <3>2, Typing
        <4>6. Append(buffer[m], c + 1) \in Seq(Nat)
          BY <1>7
        <4>7. text[m] \o Append(buffer[m], c + 1) \o <<>> = Append(text[m] \o buffer[m], c + 1)
          BY <1>7, WholeGrown
        <4>8. QED  BY <4>4, <4>5, <4>7
      <3>3. ASSUME DeliveryMode # "buffered", buffer' = buffer,
                   commands' = <<Command("delta", m, <<c + 1>>)>>
            PROVE  text[m] \o Coming(m)' \o buffer'[m] = Append(text[m] \o buffer[m], c + 1)
        <4>1. PICK k : k = Command("delta", m, <<c + 1>>)
          OBVIOUS
        <4>2. k.message = m /\ k.id[2] = "delta" /\ k.tokens = <<c + 1>>
          BY <4>1, IsDelta
        <4>3. commands' # <<>> /\ commands'[1] = k
          BY <3>3, <4>1
        <4>4. Coming(m)' = <<c + 1>>
          BY <4>2, <4>3 DEF Coming
        <4>5. buffer[m] = <<>>
          <5>1. mode \in {"streaming", "buffered", "none"}
            BY DEF Base, TypeOK, Modes
          <5>2. mode = "streaming"
            BY <3>3, <5>1 DEF DeliveryMode
          <5>3. QED  BY <5>2 DEF StreamedAtOnce
        <4>6. /\ text[m] \o <<c + 1>> \o <<>> = text[m] \o <<c + 1>>
              /\ text[m] \o <<c + 1>> = Append(text[m], c + 1)
              /\ text[m] \o <<>> = text[m]
          BY <1>7, Whole
        <4>7. QED  BY <3>3, <4>4, <4>5, <4>6
      <3>4. \/ buffer' = [buffer EXCEPT ![m] = Append(buffer[m], c + 1)] /\ commands' = <<>>
            \/ /\ buffer' = [buffer EXCEPT ![m] = <<>>]
               /\ commands' = <<Command("spill", m, Append(buffer[m], c + 1))>>
            \/ /\ DeliveryMode # "buffered" /\ buffer' = buffer
               /\ commands' = <<Command("delta", m, <<c + 1>>)>>
        BY <1>2, <1>4, <1>9, BeginDeltaEffect
      <3>5. QED  BY <3>1, <3>2, <3>3, <3>4
    <2>4. c + 1 \in Nat
      OBVIOUS
    <2>5. QED  BY <1>3, <1>6, <1>7, <2>1, <2>2, <2>3, <2>4, ReadNext
  <1>10. QED  BY <1>8, <1>9

LEMMA ConservedFinalize ==
    ASSUME Base, OwnCompletion, Conserved, Finalize, NEW m \in Messages,
           ~(scenario.snapshots /\ CompletedBy(m, cursor)), ~Settling(m)'
    PROVE  text'[m] \o Coming(m)' \o buffer'[m] = DeltasOf(m, Read(m))'
  <1>1. PICK c \in Nat : c = cursor
    BY AtHead
  <1>2. PICK x \in todo :
           /\ x \in Messages /\ x \in forget
           /\ busy /\ commands = <<>> /\ NextEvent.kind \in {"completed", "turnEnd"}
           /\ todo' = todo \ {x} /\ buffer' = [buffer EXCEPT ![x] = <<>>]
           /\ \/ commands' = <<Closing(x)>> /\ (Snapshot \/ buffer[x] = <<>>)
              \/ /\ ~Snapshot /\ buffer[x] # <<>>
                 /\ commands' = <<Command("final delta", x, buffer[x]), Closing(x)>>
           /\ UNCHANGED <<scenario, log, cursor, text, busy>>
    BY FinalizeEffect
  <1>3. NextEvent' = NextEvent /\ (Snapshot' <=> Snapshot)
    BY <1>2, HeadSame
  <1>4. Read(m)' = c /\ Read(m) = c /\ Coming(m) = <<>>
    BY <1>1, <1>2, <1>3 DEF Read, Coming
  <1>5. \A k \in Nat : DeltasOf(m, k)' = DeltasOf(m, k)
    BY <1>2, DeltasStable
  <1>6. PICK k : k = Closing(x)
    OBVIOUS
  <1>7. PICK d : d = Command("final delta", x, buffer[x])
    OBVIOUS
  <1>8. k.message = x /\ k.id[2] = "complete"
    BY <1>6, IsClosing
  <1>9. d.message = x /\ d.id[2] = "final delta" /\ d.tokens = buffer[x]
    <2>1. /\ Command("final delta", x, buffer[x]).message = x
          /\ Command("final delta", x, buffer[x]).id[2] = "final delta"
          /\ Command("final delta", x, buffer[x]).tokens = buffer[x]
      BY DEF Command
    <2>2. QED  BY <1>7, <2>1
  <1>10. commands' = <<k>> \/ (commands' = <<d, k>> /\ ~Snapshot)
    BY <1>2, <1>6, <1>7
  <1>11. text[m] \o <<>> \o buffer[m] = DeltasOf(m, c) <=> text[m] \o buffer[m] = DeltasOf(m, c)
    BY Whole, Typing
  <1>12. CASE x # m
    <2>1. Coming(m)' = <<>>
      <3>1. commands'[1].message = x
        <4>1. commands' = <<k>> => commands'[1] = k
          OBVIOUS
        <4>2. commands' = <<d, k>> => commands'[1] = d
          OBVIOUS
        <4>3. QED  BY <1>8, <1>9, <1>10, <4>1, <4>2
      <3>2. QED  BY <1>12, <3>1 DEF Coming
    <2>2. buffer'[m] = buffer[m]
      BY <1>2, <1>12, Typing
    <2>3. ~Settling(m)
      BY <1>2, <1>3, <1>12 DEF Settling
    <2>4. text[m] \o <<>> \o buffer[m] = DeltasOf(m, c)
      BY <1>4, <2>3 DEF Conserved
    <2>5. QED  BY <1>2, <1>4, <1>5, <2>1, <2>2, <2>4, ReadNext
  <1>13. CASE x = m
    <2>1. ~Snapshot
      <3>1. SUFFICES ASSUME Snapshot  PROVE FALSE
        OBVIOUS
      <3>2. NextEvent.message = m
        BY <1>2, <1>13, <3>1 DEF OwnCompletion, Snapshot
      <3>3. QED  BY <1>2, <1>3, <1>13, <3>1, <3>2 DEF Settling
    <2>2. ~Settling(m)
      BY <2>1 DEF Settling
    <2>3. text[m] \o buffer[m] = DeltasOf(m, c)
      BY <1>4, <1>11, <2>2 DEF Conserved
    <2>4. buffer'[m] = <<>>
      BY <1>2, <1>13, Typing
    <2>5. Coming(m)' = buffer[m]
      <3>1. CASE commands' = <<k>>
        <4>1. buffer[m] = <<>>
          BY <1>2, <1>6, <1>7, <1>13, <2>1, <3>1
        <4>2. commands'[1] = k
          BY <3>1
        <4>3. QED  BY <1>8, <4>1, <4>2 DEF Coming
      <3>2. CASE commands' = <<d, k>>
        <4>1. commands' # <<>> /\ commands'[1] = d
          BY <3>2
        <4>2. QED  BY <1>9, <1>13, <4>1 DEF Coming
      <3>3. QED  BY <1>10, <3>1, <3>2
    <2>6. (text[m] \o buffer[m]) \o <<>> = text[m] \o buffer[m]
      BY Whole, Typing
    <2>7. QED  BY <1>2, <1>4, <1>5, <2>3, <2>4, <2>5, <2>6, ReadNext
  <1>14. QED  BY <1>12, <1>13

LEMMA ConservedDispatch ==
    ASSUME Base, Fresh, OwnCompletion, Conserved, Dispatch, NEW m \in Messages,
           ~(scenario.snapshots /\ CompletedBy(m, cursor)), ~Settling(m)'
    PROVE  text'[m] \o Coming(m)' \o buffer'[m] = DeltasOf(m, Read(m))'
  <1>1. /\ busy /\ cursor < Len(log) /\ commands # <<>> /\ commands' = Tail(commands)
        /\ text' = Projected(commands[1])
        /\ UNCHANGED <<scenario, log, cursor, buffer, busy, todo>>
    BY DispatchEffect, FreshHead
  <1>2. NextEvent' = NextEvent /\ NextSequence' = NextSequence /\ (Snapshot' <=> Snapshot)
    BY <1>1, HeadSame
  <1>3. PICK n \in Nat : n = Read(m)
    BY AtHead DEF Read, NextSequence
  <1>4. Read(m)' = n /\ ~Settling(m)
    BY <1>1, <1>2, <1>3 DEF Read, Settling
  <1>5. DeltasOf(m, n)' = DeltasOf(m, n)
    BY <1>1, DeltasStable
  <1>6. text[m] \o Coming(m) \o buffer[m] = DeltasOf(m, n)
    BY <1>3, <1>4 DEF Conserved
  <1>7. PICK k \in ACommand : k = commands[1]
    BY <1>1, First
  <1>8. Coming(m)' = <<>>
    <2>1. CASE NextEvent.kind = "delta"
      <3>1. commands' = <<>>
        BY <1>1, <2>1, Hand
      <3>2. QED  BY <3>1 DEF Coming
    <2>2. CASE NextEvent.kind # "delta"
      <3>1. PICK x : Tail(commands) = <<>> \/ Tail(commands) = <<Closing(x)>>
        BY <1>1, <2>2, Hand
      <3>2. PICK e : e = Closing(x)
        OBVIOUS
      <3>3. e.id[2] = "complete"
        BY <3>2, IsClosing
      <3>4. commands' = <<>> \/ commands'[1] = e
        <4>1. commands' = <<>> \/ commands' = <<e>>
          BY <1>1, <3>1, <3>2
        <4>2. commands' = <<e>> => commands'[1] = e
          OBVIOUS
        <4>3. QED  BY <4>1, <4>2
      <3>5. QED  BY <3>3, <3>4 DEF Coming
    <2>3. QED  BY <2>1, <2>2
  <1>9. text[m] \in Seq(Nat) /\ buffer[m] \in Seq(Nat) /\ k.tokens \in Seq(Nat)
        /\ k.message \in Messages
    BY Typing DEF ACommand, Tokens
  <1>10. text'[m] = text[m] \o Coming(m)
    <2>1. CASE k.message # m
      <3>1. text'[m] = text[m]
        BY <1>1, <1>7, <2>1, ProjectedText
      <3>2. Coming(m) = <<>>
        BY <1>7, <2>1 DEF Coming
      <3>3. QED  BY <1>9, <3>1, <3>2, Whole
    <2>2. CASE k.message = m /\ k.id[2] # "complete"
      <3>1. text'[m] = text[m] \o k.tokens
        BY <1>1, <1>7, <2>2, ProjectedText
      <3>2. Coming(m) = k.tokens
        BY <1>1, <1>7, <2>2 DEF Coming
      <3>3. QED  BY <3>1, <3>2
    <2>3. CASE k.message = m /\ k.id[2] = "complete"
      <3>1. Coming(m) = <<>>
        BY <1>7, <2>3 DEF Coming
      <3>2. k.tokens = <<>>
        <4>1. NextEvent.kind # "delta"
          <5>1. SUFFICES ASSUME NextEvent.kind = "delta"  PROVE FALSE
            OBVIOUS
          <5>2. PICK q : \/ k = Command("delta", NextEvent.message, q)
                         \/ k = Command("spill", NextEvent.message, q)
            BY <1>1, <1>7, <5>1, Hand
          <5>3. /\ Command("delta", NextEvent.message, q).id[2] = "delta"
                /\ Command("spill", NextEvent.message, q).id[2] = "spill"
            BY DEF Command
          <5>4. QED  BY <2>3, <5>2, <5>3
        <4>2. PICK x, q : /\ x \in forget \ todo
                          /\ \/ k = Closing(x)
                             \/ k = Command("final delta", x, q)
          BY <1>1, <1>7, <4>1, Hand
        <4>3. k = Closing(x)
          <5>1. Command("final delta", x, q).id[2] = "final delta"
            BY DEF Command
          <5>2. QED  BY <2>3, <4>2, <5>1
        <4>4. k.message = x /\ (~Snapshot => k.tokens = <<>>)
          BY <4>3, IsClosing
        <4>5. ~Snapshot
          <5>1. SUFFICES ASSUME Snapshot  PROVE FALSE
            OBVIOUS
          <5>2. NextEvent.message = x
            BY <1>1, <4>2, <5>1 DEF OwnCompletion, Snapshot
          <5>3. QED  BY <1>1, <1>4, <2>3, <4>2, <4>4, <5>1, <5>2 DEF Settling
        <4>6. QED  BY <4>4, <4>5
      <3>3. text'[m] = text[m]
        BY <1>1, <1>7, <2>3, <3>2, ProjectedText
      <3>4. QED  BY <1>9, <3>1, <3>3, Whole
    <2>4. QED  BY <2>1, <2>2, <2>3
  <1>11. (text'[m] \o <<>>) \o buffer[m] = text'[m] \o buffer[m]
    <2>1. text'[m] \in Seq(Nat)
      BY <1>10, ComingTyped, Whole
    <2>2. QED  BY <2>1, <1>9, Whole
  <1>12. QED  BY <1>1, <1>4, <1>5, <1>6, <1>8, <1>10, <1>11, ReadNext

LEMMA ConservedAccept ==
    ASSUME Base, Conserved, Accept, NEW m \in Messages,
           ~(scenario.snapshots /\ CompletedBy(m, cursor)')
    PROVE  text'[m] \o Coming(m)' \o buffer'[m] = DeltasOf(m, Read(m))'
  <1>1. PICK c \in Nat : c = cursor
    BY AtHead
  <1>2. /\ busy /\ todo = {} /\ commands = <<>> /\ cursor' = c + 1
        /\ busy' = FALSE /\ commands' = <<>>
        /\ UNCHANGED <<scenario, log, text, buffer>>
    BY <1>1, AcceptEffect
  <1>3. ~(scenario.snapshots /\ CompletedBy(m, cursor)) /\ ~Settling(m)
    BY AcceptedMore DEF Settling, Snapshot
  <1>4. Coming(m) = <<>> /\ Coming(m)' = <<>> /\ Read(m)' = c + 1
    BY <1>2 DEF Coming, Read
  <1>5. text[m] \o Coming(m) \o buffer[m] = DeltasOf(m, Read(m))
    BY <1>3 DEF Conserved
  <1>6. DeltasOf(m, Read(m)) = DeltasOf(m, c + 1)
    <2>1. NextSequence = c + 1 /\ NextEvent = log[c + 1]
      BY <1>1 DEF NextSequence, NextEvent
    <2>2. CASE NextEvent.kind = "delta" /\ NextEvent.message = m
      BY <1>2, <2>1, <2>2 DEF Read
    <2>3. CASE ~(NextEvent.kind = "delta" /\ NextEvent.message = m)
      <3>1. Read(m) = c
        BY <1>1, <2>3 DEF Read
      <3>2. DeltasOf(m, c + 1) = DeltasOf(m, c)
        BY <2>1, <2>3, DeltasSkip
      <3>3. QED  BY <3>1, <3>2
    <2>4. QED  BY <2>2, <2>3
  <1>7. DeltasOf(m, c + 1)' = DeltasOf(m, c + 1)
    <2>1. c + 1 \in Nat
      OBVIOUS
    <2>2. QED  BY <1>2, <2>1, DeltasStable
  <1>8. QED  BY <1>2, <1>4, <1>5, <1>6, <1>7, ReadNext

\* Without a fault every token is in the text, on its way or in the buffer, in the
\* order of the deltas.
LEMMA ConservedNext ==
    ASSUME Base, Calm(scenario), Fresh, OwnCompletion, StreamedAtOnce, Conserved, [Next]_vars
    PROVE  Conserved'
  <1>1. SUFFICES ASSUME NEW m \in Messages, ~(scenario.snapshots /\ CompletedBy(m, cursor)'),
                        ~Settling(m)'
                 PROVE  text'[m] \o Coming(m)' \o buffer'[m] = DeltasOf(m, Read(m))'
    <2>1. scenario' = scenario
      BY LogMoves
    <2>2. QED  BY <2>1 DEF Conserved
  <1> DEFINE Goal == text'[m] \o Coming(m)' \o buffer'[m] = DeltasOf(m, Read(m))'
  <1>2. ASSUME Accept  PROVE Goal
    BY <1>1, <1>2, ConservedAccept
  <1>3. ~Accept => ~(scenario.snapshots /\ CompletedBy(m, cursor))
    BY <1>1, AcceptedSame
  <1>4. ASSUME BeginDelta  PROVE Goal
    <2>1. ~Accept
      BY <1>4, BeginDeltaEffect DEF Accept
    <2>2. QED  BY <1>3, <1>4, <2>1, ConservedDelta
  <1>5. ASSUME Finalize  PROVE Goal
    <2>1. ~Accept
      BY <1>5, FinalizeEffect DEF Accept
    <2>2. QED  BY <1>1, <1>3, <1>5, <2>1, ConservedFinalize
  <1>6. ASSUME Dispatch  PROVE Goal
    <2>1. ~Accept
      BY <1>6, DispatchEffect DEF Accept
    <2>2. QED  BY <1>1, <1>3, <1>6, <2>1, ConservedDispatch
  <1>7. ASSUME ~busy, ~Accept, ~busy' \/ NextEvent'.kind # "delta",
               \A s \in 1 .. Len(log) : log'[s] = log[s],
               UNCHANGED <<cursor, text, buffer, commands>>
        PROVE  Goal
    <2>1. PICK c \in Nat : c = cursor /\ c <= Len(log) /\ Len(log) \in Nat
      BY AtHead
    <2>2. Read(m)' = c /\ Read(m) = c /\ ~Settling(m) /\ Coming(m)' = Coming(m)
      BY <1>7, <2>1 DEF Read, Settling, Coming
    <2>3. DeltasOf(m, c)' = DeltasOf(m, c)
      <3>1. \A s \in 1 .. c : s \in 1 .. Len(log)
        BY <2>1
      <3>2. QED  BY <1>7, <3>1, DeltasStable
    <2>4. text[m] \o Coming(m) \o buffer[m] = DeltasOf(m, c)
      BY <1>3, <1>7, <2>2 DEF Conserved
    <2>5. QED  BY <1>7, <2>2, <2>3, <2>4, ReadNext
  <1>8. ASSUME NEW kind \in {"delta", "completed", "turnEnd"}, NEW x \in Messages,
               Receive(kind, x)
        PROVE  Goal
    <2>1. /\ cursor = Len(log) /\ UNCHANGED <<cursor, text, buffer, commands, busy>>
          /\ \A s \in 1 .. Len(log) : log'[s] = log[s]
      BY <1>8, ReceiveEffect, LogGrows
    <2>2. ~busy
      BY <2>1, AtHead DEF Base, Shape
    <2>3. QED  BY <1>7, <2>1, <2>2 DEF Accept
  <1>9. ASSUME BeginCompleted \/ BeginTurnEnd  PROVE Goal
    <2>1. /\ ~busy /\ NextEvent.kind \in {"completed", "turnEnd"}
          /\ UNCHANGED <<scenario, log, cursor, text, buffer, commands>>
      BY <1>9, BeginCompletedEffect, BeginTurnEndEffect
    <2>2. NextEvent'.kind # "delta"
      BY <2>1, HeadSame
    <2>3. QED  BY <1>7, <2>1, <2>2 DEF Accept
  <1>10. ASSUME UNCHANGED vars  PROVE Goal
    <2>1. /\ UNCHANGED <<scenario, log, cursor, text, buffer, commands, busy, todo>>
          /\ NextEvent' = NextEvent /\ NextSequence' = NextSequence /\ (Snapshot' <=> Snapshot)
      BY <1>10, Stutter, HeadSame
    <2>2. PICK n \in Nat : n = Read(m)
      BY AtHead DEF Read, NextSequence
    <2>3. /\ Read(m)' = n /\ ~Settling(m) /\ Coming(m)' = Coming(m)
          /\ ~(scenario.snapshots /\ CompletedBy(m, cursor))
      BY <1>1, <2>1, <2>2, HeadSame DEF Read, Settling, Coming
    <2>4. DeltasOf(m, n)' = DeltasOf(m, n)
      BY <2>1, DeltasStable
    <2>5. text[m] \o Coming(m) \o buffer[m] = DeltasOf(m, n)
      BY <2>2, <2>3 DEF Conserved
    <2>6. QED  BY <2>1, <2>3, <2>4, <2>5, ReadNext
  <1> HIDE DEF Goal
  <1>11. Goal
    BY <1>2, <1>4, <1>5, <1>6, <1>8, <1>9, <1>10, CalmSteps DEF Next
  <1>12. QED  BY <1>11 DEF Goal

\* Without a fault the invariant of that scenario is kept.
LEMMA CalmNext ==
    ASSUME Base, Calm(scenario), CalmInv, [Next]_vars
    PROVE  CalmInv'
  <1>1. up' /\ mode' = scenario'.mode
    <2>1. up' = up /\ mode' = mode
      BY CalmSteps, ProcessSteady
    <2>2. up = TRUE
      BY DEF CalmInv, Base, TypeOK
    <2>3. QED  BY <2>1, <2>2, LogMoves DEF CalmInv
  <1>2. Remembered' /\ DeltaKnown'
    BY CalmSteps, RememberedNext DEF CalmInv
  <1>3. OwnCompletion'
    <2>1. BeginCompleted => ResolvedIds(NextEvent.message) = {NextEvent.message}
      BY BeginCompletedEffect, RememberedResolves DEF CalmInv
    <2>2. QED  BY <2>1, OwnCompletionNext DEF CalmInv
  <1>4. AllForgotten'
    BY AllForgottenNext DEF CalmInv
  <1>5. BufferedIsKnown' /\ Taken' /\ StreamedAtOnce'
    BY BufferNext DEF CalmInv
  <1>6. Fresh' /\ Settled'
    BY FreshNext, SettledNext DEF CalmInv
  <1>7. Conserved'
    BY ConservedNext DEF CalmInv
  <1>8. Accept /\ NextEvent.kind = "completed" =>
           /\ buffer[NextEvent.message] = <<>>
           /\ scenario.snapshots => text[NextEvent.message] = <<NextSequence>>
    <2>1. SUFFICES ASSUME Accept, NextEvent.kind = "completed"
                   PROVE  /\ buffer[NextEvent.message] = <<>>
                          /\ scenario.snapshots => text[NextEvent.message] = <<NextSequence>>
      OBVIOUS
    <2>2. busy /\ todo = {} /\ commands = <<>> /\ NextEvent.message \in Messages
      BY <2>1, AcceptEffect, AtHead
    <2>3. buffer[NextEvent.message] = <<>>
      BY <2>1, <2>2 DEF CalmInv, OwnCompletion, Taken
    <2>4. ASSUME scenario.snapshots  PROVE text[NextEvent.message] = <<NextSequence>>
      <3>1. Settling(NextEvent.message)
        BY <2>1, <2>2, <2>4 DEF Settling, Snapshot
      <3>2. <<Closing(NextEvent.message)>> # <<>>
        OBVIOUS
      <3>3. QED  BY <2>2, <3>1, <3>2 DEF CalmInv, Settled
    <2>5. QED  BY <2>3, <2>4
  <1>9. Closed'
    BY <1>8, CalmSteps, ClosedNext DEF CalmInv
  <1>10. scenario'.snapshots => Replaced'
    BY <1>8, LogMoves, ReplacedNext DEF CalmInv
  <1>11. QED
    BY <1>1, <1>2, <1>3, <1>4, <1>5, <1>6, <1>7, <1>9, <1>10 DEF CalmInv

LEMMA CalmInit ==
    ASSUME Init
    PROVE  CalmInv
  <1>1. /\ up /\ mode = scenario.mode /\ cursor = 0 /\ ~busy /\ commands = <<>> /\ todo = {}
        /\ forget = {} /\ known = {} /\ receipts = {} /\ log = <<>>
        /\ buffer = [m \in Messages |-> <<>>] /\ text = [m \in Messages |-> <<>>]
    BY DEF Init
  <1>2. /\ ~Ended /\ \A m : ~DeltaBy(m, cursor) /\ ~CompletedBy(m, cursor)
    BY <1>1 DEF Ended, DeltaBy, CompletedBy
  <1>3. Remembered /\ DeltaKnown /\ OwnCompletion /\ AllForgotten
    BY <1>1, <1>2 DEF Remembered, DeltaKnown, OwnCompletion, AllForgotten
  <1>4. Closed /\ BufferedIsKnown /\ Taken /\ StreamedAtOnce
    BY <1>1, <1>2 DEF Closed, BufferedIsKnown, Taken, StreamedAtOnce
  <1>5. Fresh /\ Settled /\ Replaced
    BY <1>1 DEF Fresh, Settled, Settling, Replaced
  <1>6. Conserved
    <2>1. \A m \in Messages : Coming(m) = <<>> /\ Read(m) = 0 /\ text[m] = <<>> /\ buffer[m] = <<>>
      BY <1>1 DEF Coming, Read
    <2>2. \A m \in Messages : DeltasOf(m, 0) = <<>>
      BY <1>1, <1>2, DeltasNone
    <2>3. <<>> \o <<>> = <<>>
      BY ConcatEmptySeq
    <2>4. QED  BY <2>1, <2>2, <2>3 DEF Conserved
  <1>7. QED  BY <1>1, <1>3, <1>4, <1>5, <1>6 DEF CalmInv

-----------------------------------------------------------------------------
(* Completions that carry the text *)

\* An item that has begun stays begun.
LEMMA StartedStays ==
    ASSUME Base, [Next]_vars, NEW m, Started(m)
    PROVE  Started(m)'
  <1>1. PICK s \in 1 .. Len(log) : log[s].kind = "delta" /\ log[s].message = m
    BY DEF Started
  <1>2. CASE log' = log
    BY <1>1, <1>2 DEF Started
  <1>3. ASSUME NEW kind \in {"delta", "completed", "turnEnd"}, NEW x \in Messages,
               Receive(kind, x)
        PROVE  Started(m)'
    <2>1. Len(log') = Len(log) + 1 /\ log'[s] = log[s] /\ Len(log) \in Nat
      BY <1>3, LogGrows, AtHead
    <2>2. s \in 1 .. Len(log')
      BY <2>1
    <2>3. QED  BY <1>1, <2>1, <2>2 DEF Started
  <1>4. QED  BY <1>2, <1>3, LogMoves

\* The item of the head has begun, when the head is one of its deltas or its completion.
LEMMA HeadStarted ==
    ASSUME Base, cursor < Len(log), NextEvent.kind \in {"delta", "completed"}
    PROVE  Started(NextEvent.message)
  <1>1. PICK c \in Nat : c = cursor
    BY AtHead
  <1>2. c + 1 \in 1 .. Len(log) /\ NextEvent = log[c + 1] /\ (c + 1) - 1 = c /\ c <= Len(log)
        /\ Len(log) \in Nat
    BY <1>1, AtHead DEF NextEvent, NextSequence
  <1>3. CASE NextEvent.kind = "delta"
    BY <1>2, <1>3 DEF Started
  <1>4. CASE NextEvent.kind = "completed"
    <2>1. DeltaBy(NextEvent.message, c)
      BY <1>2, <1>4 DEF Base, Orderly, BegunFirst
    <2>2. PICK s \in 1 .. c : log[s].kind = "delta" /\ log[s].message = NextEvent.message
      BY <2>1 DEF DeltaBy
    <2>3. s \in 1 .. Len(log)
      BY <1>2
    <2>4. QED  BY <2>2, <2>3 DEF Started
  <1>5. QED  BY <1>3, <1>4

\* Where items come one after the other, only the item of the head has begun and is
\* not completed, and none when the turn ends.
LEMMA OneOpen ==
    ASSUME Base, scenario.oneByOne, cursor < Len(log), NextEvent.kind # "delta",
           NEW m, Started(m), ~CompletedBy(m, cursor)
    PROVE  NextEvent.kind # "turnEnd" /\ NextEvent.message = m
  <1>1. PICK c \in Nat : c = cursor
    BY AtHead
  <1>2. c + 1 \in 1 .. Len(log) /\ NextEvent = log[c + 1] /\ (c + 1) - 1 = c
        /\ Len(log) = c + 1
    BY <1>1, AtHead DEF NextEvent, NextSequence
  <1>3. PICK r \in 1 .. Len(log) : log[r].kind = "delta" /\ log[r].message = m
    BY DEF Started
  <1>4. r \in 1 .. ((c + 1) - 1)
    BY <1>2, <1>3
  <1>5. OneAfterTheOther
    BY DEF Base, Orderly
  <1>6. ~CompletedBy(m, (c + 1) - 1)
    BY <1>1, <1>2
  <1>7. QED  BY <1>2, <1>3, <1>4, <1>5, <1>6 DEF OneAfterTheOther

\* A completion is that of its own item.
LEMMA CarriedResolves ==
    ASSUME Base, Carried(scenario) \/ Restarted(scenario), CarriedInv, BeginCompleted
    PROVE  ResolvedIds(NextEvent.message) = {NextEvent.message}
  <1>1. up /\ cursor < Len(log) /\ NextEvent.kind = "completed"
    BY BeginCompletedEffect
  <1>2. CASE Restarted(scenario)
    BY <1>1, <1>2, RememberedResolves DEF CarriedInv
  <1>3. CASE Carried(scenario)
    <2>1. \A m \in known : Started(m) /\ ~CompletedBy(m, cursor)
      BY <1>3 DEF CarriedInv, KnownStarted, Carried
    <2>2. known \subseteq {NextEvent.message}
      BY <1>1, <1>3, <2>1, OneOpen DEF Carried
    <2>3. CASE known = {}
      <3>1. Cardinality(known) # 1
        BY <2>3, FS_EmptySet
      <3>2. QED  BY <2>3, <3>1 DEF ResolvedIds
    <2>4. CASE NextEvent.message \in known
      BY <2>4 DEF ResolvedIds
    <2>5. QED  BY <2>2, <2>3, <2>4
  <1>4. QED  BY <1>2, <1>3

\* The command in hand of a completion that carries the text, and of any event.
LEMMA CommandFor ==
    ASSUME Base, commands # <<>>
    PROVE  /\ NextEvent.kind = "delta" => commands[1].message = NextEvent.message
           /\ NextEvent.kind # "delta" => commands[1].message \in forget
           /\ Snapshot => \E x \in forget \ todo :
                 commands[1] = Closing(x) /\ commands[1].message = x /\ Tail(commands) = <<>>
  <1>1. CASE NextEvent.kind = "delta"
    <2>1. PICK q : \/ commands[1] = Command("delta", NextEvent.message, q)
                   \/ commands[1] = Command("spill", NextEvent.message, q)
      BY <1>1, Hand
    <2>2. /\ Command("delta", NextEvent.message, q).message = NextEvent.message
          /\ Command("spill", NextEvent.message, q).message = NextEvent.message
      BY DEF Command
    <2>3. ~Snapshot
      BY <1>1 DEF Snapshot
    <2>4. QED  BY <1>1, <2>1, <2>2, <2>3
  <1>2. CASE NextEvent.kind # "delta"
    <2>1. PICK x, q :
             /\ x \in forget \ todo
             /\ \/ commands[1] = Closing(x) /\ Tail(commands) = <<>>
                \/ commands[1] = Command("final delta", x, q) /\ ~Snapshot
      BY <1>2, Hand
    <2>2. Closing(x).message = x /\ Command("final delta", x, q).message = x
      BY DEF Closing, Command
    <2>3. QED  BY <1>2, <2>1, <2>2
  <1>3. QED  BY <1>1, <1>2

LEMMA UnseenNext ==
    ASSUME Base, KnownStarted, Unseen, [Next]_vars
    PROVE  Unseen'
  <1>1. SUFFICES ASSUME NEW m \in Messages, ~Started(m)'  PROVE text'[m] = <<>>
    BY DEF Unseen
  <1>2. ~Started(m) /\ text[m] = <<>>
    BY <1>1, StartedStays DEF Unseen
  <1>3. CASE Dispatch
    <2>1. /\ busy /\ cursor < Len(log) /\ commands # <<>>
          /\ text' = text \/ text' = Projected(commands[1])
      BY <1>3, DispatchEffect
    <2>2. PICK k \in ACommand : k = commands[1]
      BY <2>1, First
    <2>3. k.message # m
      BY <1>2, <2>1, <2>2, CommandFor, HeadStarted DEF KnownStarted
    <2>4. QED  BY <1>2, <2>1, <2>2, <2>3, ProjectedText
  <1>4. CASE ~Dispatch
    BY <1>2, <1>4, TextMoves, AcceptEffect
  <1>5. QED  BY <1>3, <1>4

LEMMA KnownStartedNext ==
    ASSUME Base, KnownStarted, [Next]_vars
    PROVE  KnownStarted'
  <1>1. \A m \in known \cup forget : Started(m)'
    BY StartedStays DEF KnownStarted
  <1>2. ASSUME (known' \cup forget') \subseteq known \cup forget  PROVE KnownStarted'
    BY <1>1, <1>2 DEF KnownStarted
  <1>3. ASSUME NEW kind \in {"delta", "completed", "turnEnd"}, NEW x \in Messages,
               Receive(kind, x)
        PROVE  KnownStarted'
    BY <1>2, <1>3, ReceiveEffect
  <1>4. CASE BeginDelta
    <2>1. PICK x \in Messages : /\ x = NextEvent.message /\ cursor < Len(log)
                                /\ NextEvent.kind = "delta" /\ forget' = forget
                                /\ known' = known \cup {x}
      BY <1>4, BeginDeltaEffect
    <2>2. Started(x)'
      BY <2>1, HeadStarted, StartedStays
    <2>3. QED  BY <1>1, <2>1, <2>2 DEF KnownStarted
  <1>5. CASE BeginCompleted
    <2>1. PICK m \in ResolvedIds(NextEvent.message) :
             /\ cursor < Len(log) /\ NextEvent.kind = "completed"
             /\ known' = known \cup {m} /\ forget' = {m}
      BY <1>5, BeginCompletedEffect
    <2>2. m \in known \/ m = NextEvent.message
      BY DEF ResolvedIds
    <2>3. Started(m)'
      BY <1>1, <2>1, <2>2, HeadStarted, StartedStays
    <2>4. QED  BY <1>1, <2>1, <2>3 DEF KnownStarted
  <1>6. CASE Restart
    <2>1. \A s \in AcceptedDeltas : Started(log[s].message)
      <3>1. \A s \in 1 .. cursor : s \in 1 .. Len(log)
        BY AtHead
      <3>2. QED  BY <3>1 DEF AcceptedDeltas, Started
    <2>2. \A m \in known' \cup forget' : Started(m)
      BY <1>6, <2>1, RestartEffect
    <2>3. QED  BY <2>2, StartedStays DEF KnownStarted
  <1>7. ASSUME BeginTurnEnd \/ Finalize \/ Dispatch \/ Accept \/ Fail \/ Crash \/ UNCHANGED vars
        PROVE  (known' \cup forget') \subseteq known \cup forget
    BY <1>7, BeginTurnEndEffect, FinalizeEffect, DispatchEffect, AcceptEffect, FailEffect,
       CrashEffect, Stutter
  <1>8. QED  BY <1>2, <1>3, <1>4, <1>5, <1>6, <1>7 DEF Next

LEMMA ReplacingNext ==
    ASSUME Base, OwnCompletion, Replacing, scenario.snapshots, [Next]_vars
    PROVE  Replacing'
  <1>1. SUFFICES ASSUME busy', NextEvent'.kind = "completed", todo' = {}
                 PROVE  /\ buffer'[NextEvent'.message] = <<>>
                        /\ \/ commands' = <<Closing(NextEvent.message)'>>
                           \/ /\ commands' = <<>>
                              /\ <<NextSequence', "complete", NextEvent'.message>> \in receipts'
    BY DEF Replacing
  <1> DEFINE Goal == /\ buffer'[NextEvent'.message] = <<>>
                     /\ \/ commands' = <<Closing(NextEvent.message)'>>
                        \/ /\ commands' = <<>>
                           /\ <<NextSequence', "complete", NextEvent'.message>> \in receipts'
  <1>2. PICK m : m = NextEvent.message
    OBVIOUS
  <1>3. ASSUME log' = log, cursor' = cursor, scenario' = scenario
        PROVE  /\ NextEvent.kind = "completed" /\ NextEvent'.message = m /\ Snapshot
               /\ Closing(NextEvent.message)' = Closing(m) /\ NextSequence' = NextSequence
    <2>1. /\ NextEvent' = NextEvent /\ NextSequence' = NextSequence /\ (Snapshot' <=> Snapshot)
      BY <1>3, HeadSame
    <2>2. NextEvent.kind = "completed" /\ Snapshot
      BY <1>1, <2>1 DEF Snapshot
    <2>3. Closing(NextEvent.message)' = Closing(m)
      BY <1>2, <2>1 DEF Closing, Command
    <2>4. QED  BY <1>2, <2>1, <2>2, <2>3
  <1>4. ASSUME NEW kind \in {"delta", "completed", "turnEnd"}, NEW x \in Messages,
               Receive(kind, x)
        PROVE  FALSE
    <2>1. cursor = Len(log) /\ busy
      BY <1>1, <1>4, ReceiveEffect
    <2>2. QED  BY <2>1, AtHead DEF Base, Shape
  <1>5. ASSUME BeginDelta \/ BeginTurnEnd  PROVE FALSE
    <2>1. /\ log' = log /\ cursor' = cursor /\ scenario' = scenario
          /\ NextEvent.kind \in {"delta", "turnEnd"}
      BY <1>5, BeginDeltaEffect, BeginTurnEndEffect
    <2>2. QED  BY <1>3, <2>1
  <1>6. ASSUME BeginCompleted  PROVE FALSE
    BY <1>1, <1>6, BeginCompletedEffect
  <1>7. ASSUME Finalize  PROVE Goal
    <2>1. PICK x \in todo :
             /\ x \in Messages /\ x \in forget /\ busy
             /\ buffer' = [buffer EXCEPT ![x] = <<>>]
             /\ \/ commands' = <<Closing(x)>>
                \/ ~Snapshot
             /\ UNCHANGED <<log, cursor, scenario>>
      BY <1>7, FinalizeEffect
    <2>2. x = m
      BY <1>2, <1>3, <2>1 DEF OwnCompletion
    <2>3. buffer'[m] = <<>>
      BY <2>1, <2>2, Typing
    <2>4. commands' = <<Closing(NextEvent.message)'>>
      BY <1>3, <2>1, <2>2
    <2>5. QED  BY <1>3, <2>1, <2>3, <2>4
  <1>8. ASSUME Dispatch  PROVE Goal
    <2>1. /\ busy /\ todo = {} /\ commands # <<>> /\ commands' = Tail(commands)
          /\ commands[1].id \in receipts'
          /\ UNCHANGED <<log, cursor, scenario, buffer>>
      BY <1>1, <1>8, DispatchEffect
    <2>2. commands = <<Closing(m)>> /\ buffer[m] = <<>>
      BY <1>2, <1>3, <2>1 DEF Replacing
    <2>3. PICK k \in ACommand : k = Closing(m)
      BY <1>2, <2>1, ClosingTyped, AtHead, Hand
    <2>4. commands[1] = k /\ Tail(commands) = <<>>
      BY <2>2, <2>3, ListTyped
    <2>5. k.id = <<NextSequence, "complete", m>>
      BY <2>3, IsClosing
    <2>6. QED  BY <1>3, <2>1, <2>2, <2>4, <2>5
  <1>9. ASSUME Accept \/ Fail \/ Crash  PROVE FALSE
    BY <1>1, <1>9, AcceptEffect, FailEffect, CrashEffect
  <1>10. ASSUME Restart  PROVE FALSE
    BY <1>1, <1>10, RestartEffect
  <1>11. ASSUME UNCHANGED vars  PROVE Goal
    <2>1. UNCHANGED <<log, cursor, scenario, busy, todo, commands, buffer, receipts>>
      BY <1>11, Stutter
    <2>2. Replacing /\ busy /\ todo = {} /\ NextEvent.kind = "completed"
      BY <1>1, <1>3, <2>1
    <2>3. QED  BY <1>2, <1>3, <2>1, <2>2 DEF Replacing
  <1> HIDE DEF Goal
  <1>12. Goal
    BY <1>4, <1>5, <1>6, <1>7, <1>8, <1>9, <1>10, <1>11 DEF Next
  <1>13. QED  BY <1>12 DEF Goal

LEMMA HeadReplacedNext ==
    ASSUME Base, OwnCompletion, HeadReplaced, scenario.snapshots, [Next]_vars
    PROVE  HeadReplaced'
  <1>1. SUFFICES ASSUME cursor' < Len(log'), NextEvent'.kind = "completed",
                        <<NextSequence', "complete", NextEvent'.message>> \in receipts'
                 PROVE  text'[NextEvent'.message] = <<NextSequence'>>
    BY DEF HeadReplaced
  <1>2. ASSUME log' = log, cursor' = cursor, receipts' = receipts, text' = text
        PROVE  text'[NextEvent'.message] = <<NextSequence'>>
    <2>1. NextEvent' = NextEvent /\ NextSequence' = NextSequence
      BY <1>2 DEF NextEvent, NextSequence
    <2>2. QED  BY <1>1, <1>2, <2>1 DEF HeadReplaced
  <1>3. ASSUME NEW kind \in {"delta", "completed", "turnEnd"}, NEW x \in Messages,
               Receive(kind, x)
        PROVE  FALSE
    <2>1. cursor' = Len(log) /\ receipts' = receipts
      BY <1>3, ReceiveEffect
    <2>2. NextSequence' \in Nat /\ NextSequence' > Len(log)
      BY <2>1, AtHead DEF NextSequence
    <2>3. PICK n, e : n = NextSequence' /\ e = NextEvent'.message
      OBVIOUS
    <2>4. <<n, "complete", e>> \notin receipts
      BY <2>2, <2>3, NoReceiptBeyond
    <2>5. QED  BY <1>1, <2>1, <2>3, <2>4
  <1>4. CASE Dispatch
    <2>1. /\ busy /\ cursor < Len(log) /\ commands # <<>>
          /\ \/ receipts' = receipts /\ text' = text
             \/ text' = Projected(commands[1])
          /\ UNCHANGED <<log, cursor, scenario>>
      BY <1>4, DispatchEffect
    <2>2. /\ NextEvent' = NextEvent /\ NextSequence' = NextSequence /\ Snapshot
      BY <1>1, <2>1, HeadSame DEF Snapshot
    <2>3. CASE text' = Projected(commands[1])
      <3>1. PICK x \in forget \ todo : commands[1] = Closing(x)
        BY <2>1, <2>2, CommandFor
      <3>2. x = NextEvent.message
        BY <2>1, <2>2, <3>1 DEF OwnCompletion, Snapshot
      <3>3. PICK k \in ACommand : k = commands[1]
        BY <2>1, First
      <3>4. k.id[2] = "complete" /\ k.message = x /\ k.tokens = <<NextSequence>>
        BY <2>2, <3>1, <3>3, IsClosing
      <3>5. <<NextSequence>> # <<>>
        OBVIOUS
      <3>6. text'[x] = <<NextSequence>>
        BY <2>3, <3>3, <3>4, <3>5, ProjectedText
      <3>7. QED  BY <2>2, <3>2, <3>6
    <2>4. QED  BY <1>2, <2>1, <2>3
  <1>5. CASE Accept
    <2>1. cursor' = Len(log) /\ log' = log
      BY <1>5, AcceptEffect, AtHead
    <2>2. QED  BY <1>1, <2>1, AtHead
  <1>6. ASSUME BeginDelta \/ BeginCompleted \/ BeginTurnEnd \/ Finalize
               \/ Fail \/ Crash \/ Restart \/ UNCHANGED vars
        PROVE  UNCHANGED <<text, receipts, cursor, log>>
    BY <1>6, BeginDeltaEffect, BeginCompletedEffect, BeginTurnEndEffect, FinalizeEffect,
       FailEffect, CrashEffect, RestartEffect, Stutter
  <1>7. QED  BY <1>2, <1>3, <1>4, <1>5, <1>6 DEF Next

\* While nothing has crashed, or before the restart, every accepted delta was
\* streamed and has its receipt.
LEMMA ReceiptedNext ==
    ASSUME Base, Restarted(scenario), CarriedInv, [Next]_vars, crashes' = 0 \/ ~up'
    PROVE  ReceiptedDeltas'
  <1>1. PICK c \in Nat : c = cursor
    BY AtHead
  <1>2. ASSUME crashes = 0 \/ ~up, receipts \subseteq receipts', cursor' = c,
               \A s \in 1 .. Len(log) : log'[s] = log[s]
        PROVE  ReceiptedDeltas'
    <2>1. ReceiptedDeltas
      BY <1>2 DEF CarriedInv
    <2>2. \A s \in 1 .. c : s \in 1 .. Len(log)
      BY <1>1, AtHead
    <2>3. QED  BY <1>1, <1>2, <2>1, <2>2 DEF ReceiptedDeltas, AcceptedDeltas
  <1>3. crashes \in Nat /\ scenario.crashes \in Nat /\ scenario.crashes <= 1
    BY Typing, AtHead DEF Restarted, Scenario
  <1>4. ASSUME NEW kind \in {"delta", "completed", "turnEnd"}, NEW x \in Messages,
               Receive(kind, x)
        PROVE  ReceiptedDeltas'
    <2>1. UNCHANGED <<receipts, cursor, crashes, up>>
      BY <1>4, ReceiveEffect
    <2>2. QED  BY <1>1, <1>2, <1>4, <2>1, LogGrows
  <1>5. CASE Accept
    <2>1. /\ busy /\ cursor < Len(log) /\ commands = <<>> /\ cursor' = c + 1 /\ up' = up /\ up
          /\ UNCHANGED <<log, receipts, crashes>>
      BY <1>1, <1>5, AcceptEffect
    <2>2. ReceiptedDeltas /\ DeltaStreamed
      BY <2>1 DEF CarriedInv
    <2>3. log[c + 1].kind = "delta" => <<c + 1, "delta", log[c + 1].message>> \in receipts
      <3>1. <<Command("delta", NextEvent.message, <<NextSequence>>)>> # <<>>
        OBVIOUS
      <3>2. NextEvent.kind = "delta" => <<NextSequence, "delta", NextEvent.message>> \in receipts
        BY <2>1, <2>2, <3>1 DEF DeltaStreamed
      <3>3. QED  BY <1>1, <3>2 DEF NextEvent, NextSequence
    <2>4. \A s \in 1 .. (c + 1) : s \in 1 .. c \/ s = c + 1
      OBVIOUS
    <2>5. QED  BY <1>1, <2>1, <2>2, <2>3, <2>4 DEF ReceiptedDeltas, AcceptedDeltas
  <1>6. CASE Dispatch
    <2>1. UNCHANGED <<log, cursor, crashes, up>> /\ receipts \subseteq receipts'
      BY <1>6, DispatchEffect
    <2>2. QED  BY <1>1, <1>2, <2>1
  <1>7. ASSUME BeginDelta \/ BeginCompleted \/ BeginTurnEnd \/ Finalize \/ Fail
               \/ UNCHANGED vars
        PROVE  ReceiptedDeltas'
    <2>1. UNCHANGED <<log, cursor, receipts, crashes, up>>
      BY <1>7, BeginDeltaEffect, BeginCompletedEffect, BeginTurnEndEffect, FinalizeEffect,
         FailEffect, Stutter
    <2>2. QED  BY <1>1, <1>2, <2>1
  <1>8. CASE Crash
    <2>1. UNCHANGED <<log, cursor, receipts>> /\ crashes < scenario.crashes
      BY <1>8, CrashEffect
    <2>2. QED  BY <1>1, <1>2, <1>3, <2>1
  <1>9. CASE Restart
    <2>1. ~up /\ up' = TRUE /\ crashes' = crashes
      BY <1>9, RestartEffect
    <2>2. 0 < crashes
      BY <2>1 DEF Base, Shape
    <2>3. QED  BY <1>3, <2>1, <2>2
  <1>10. QED  BY <1>4, <1>5, <1>6, <1>7, <1>8, <1>9 DEF Next

\* A restart of a streaming turn rebuilds no text.
LEMMA NothingRebuilt ==
    ASSUME Base, Carried(scenario) \/ Restarted(scenario), CarriedInv, Restart
    PROVE  Restarted(scenario) /\ \A m \in Messages : buffer'[m] = <<>>
  <1>1. ~up
    BY RestartEffect
  <1>2. Restarted(scenario)
    BY <1>1 DEF CarriedInv, Carried
  <1>3. ReceiptedDeltas
    BY <1>1, <1>2 DEF CarriedInv
  <1>4. ReplayedMode # "buffered"
    <2>1. CASE Ended \/ AcceptedDeltas = {}
      BY <2>1 DEF ReplayedMode
    <2>2. CASE ~(Ended \/ AcceptedDeltas = {})
      <3>1. PICK first : first = CHOOSE s \in AcceptedDeltas : \A r \in AcceptedDeltas : s <= r
        OBVIOUS
      <3>2. AcceptedDeltas \subseteq Nat /\ AcceptedDeltas # {}
        BY <2>2, AtHead DEF AcceptedDeltas
      <3>3. first \in AcceptedDeltas
        BY <3>1, <3>2, LeastExists
      <3>4. <<first, "delta", log[first].message>> \in receipts
        BY <1>3, <3>3 DEF ReceiptedDeltas
      <3>5. ReplayedMode = "streaming"
        BY <2>2, <3>1, <3>4 DEF ReplayedMode
      <3>6. QED  BY <3>5
    <2>3. QED  BY <2>1, <2>2
  <1>5. \A m \in Messages : RebuiltBuffer(m) = <<>>
    BY <1>4 DEF RebuiltBuffer
  <1>6. QED  BY <1>2, <1>5, RestartEffect

\* A restart remembers every item that has begun.
LEMMA RestartRemembers ==
    ASSUME Base, Restart
    PROVE  Remembered' /\ DeltaKnown'
  <1>1. /\ ~busy /\ busy' = busy /\ log' = log /\ cursor' = cursor /\ scenario' = scenario
        /\ known' = (IF Ended THEN {} ELSE {log[s].message : s \in AcceptedDeltas})
    BY RestartEffect
  <1>2. Remembered'
    <2>1. SUFFICES ASSUME ~Ended', NEW m \in Messages, DeltaBy(m, cursor)'
                   PROVE  m \in known'
      BY DEF Remembered
    <2>2. ~Ended /\ DeltaBy(m, cursor)
      BY <1>1, <2>1, HeadSame
    <2>3. PICK s \in 1 .. cursor : log[s].kind = "delta" /\ log[s].message = m
      BY <2>2 DEF DeltaBy
    <2>4. s \in AcceptedDeltas
      BY <2>3 DEF AcceptedDeltas
    <2>5. QED  BY <1>1, <2>2, <2>3, <2>4
  <1>3. DeltaKnown'
    BY <1>1 DEF DeltaKnown
  <1>4. QED  BY <1>2, <1>3

\* Without a crash no known item is completed.
LEMMA KnownOpenNext ==
    ASSUME Base, scenario.crashes = 0, OwnCompletion, \A m \in known : ~CompletedBy(m, cursor),
           BeginCompleted => ResolvedIds(NextEvent.message) = {NextEvent.message}, [Next]_vars
    PROVE  up' /\ \A m \in known' : ~CompletedBy(m, cursor)'
  <1>1. ~Crash /\ up /\ ~Restart
    BY NoCrash DEF Restart
  <1>2. up'
    BY <1>1, ProcessSteady
  <1>3. CASE Accept
    <2>1. SUFFICES ASSUME NEW m \in known'  PROVE ~CompletedBy(m, cursor)'
      BY <1>2
    <2>2. m \in known /\ m \notin forget /\ busy
      BY <1>3, AcceptEffect
    <2>3. ~CompletedBy(m, cursor) /\ ~(NextEvent.kind = "completed" /\ NextEvent.message = m)
      BY <2>2 DEF OwnCompletion
    <2>4. QED  BY <1>3, <2>3, AcceptedMore
  <1>4. CASE ~Accept
    <2>1. SUFFICES ASSUME NEW m \in known'  PROVE ~CompletedBy(m, cursor)
      BY <1>2, <1>4, AcceptedSame
    <2>2. ASSUME NEW kind \in {"delta", "completed", "turnEnd"}, NEW x \in Messages,
                 Receive(kind, x)
          PROVE  m \in known
      BY <2>1, <2>2, ReceiveEffect
    <2>3. ASSUME BeginDelta \/ BeginCompleted  PROVE ~CompletedBy(m, cursor)
      <3>1. /\ cursor < Len(log) /\ NextEvent.kind \in {"delta", "completed"}
            /\ known' = known \cup {NextEvent.message}
        BY <2>3, BeginDeltaEffect, BeginCompletedEffect
      <3>2. QED  BY <2>1, <3>1, NothingAfterCompletion
    <2>4. ASSUME BeginTurnEnd \/ Finalize \/ Dispatch \/ Fail \/ UNCHANGED vars
          PROVE  m \in known
      BY <2>1, <2>4, BeginTurnEndEffect, FinalizeEffect, DispatchEffect, FailEffect, Stutter
    <2>5. QED  BY <1>1, <1>4, <2>2, <2>3, <2>4 DEF Next
  <1>5. QED  BY <1>3, <1>4

\* Where completions carry the text the invariant of those scenarios is kept.
LEMMA CarriedNext ==
    ASSUME Base, Carried(scenario) \/ Restarted(scenario), CarriedInv, [Next]_vars
    PROVE  CarriedInv'
  <1>1. scenario' = scenario /\ scenario.snapshots
    BY LogMoves DEF Carried, Restarted
  <1>2. BeginCompleted => ResolvedIds(NextEvent.message) = {NextEvent.message}
    BY CarriedResolves
  <1>3. OwnCompletion' /\ Unseen' /\ KnownStarted'
    BY <1>2, OwnCompletionNext, UnseenNext, KnownStartedNext DEF CarriedInv
  <1>4. Replacing' /\ HeadReplaced'
    BY <1>1, ReplacingNext, HeadReplacedNext DEF CarriedInv
  <1>5. Accept /\ NextEvent.kind = "completed" =>
           /\ buffer[NextEvent.message] = <<>>
           /\ text[NextEvent.message] = <<NextSequence>>
    <2>1. SUFFICES ASSUME Accept, NextEvent.kind = "completed"
                   PROVE  /\ buffer[NextEvent.message] = <<>>
                          /\ text[NextEvent.message] = <<NextSequence>>
      OBVIOUS
    <2>2. busy /\ todo = {} /\ commands = <<>> /\ cursor < Len(log)
      BY <2>1, AcceptEffect
    <2>3. <<Closing(NextEvent.message)>> # <<>>
      OBVIOUS
    <2>4. /\ buffer[NextEvent.message] = <<>>
          /\ <<NextSequence, "complete", NextEvent.message>> \in receipts
      BY <2>1, <2>2, <2>3 DEF CarriedInv, Replacing
    <2>5. QED  BY <2>1, <2>2, <2>4 DEF CarriedInv, HeadReplaced
  <1>6. Closed'
    BY <1>5, NothingRebuilt, ClosedNext DEF CarriedInv
  <1>7. Replaced'
    BY <1>5, ReplacedNext DEF CarriedInv
  <1>8. scenario.crashes = 0 => up' /\ \A m \in known' : ~CompletedBy(m, cursor)'
    BY <1>2, KnownOpenNext DEF CarriedInv
  <1>9. ASSUME Restarted(scenario), up'  PROVE Remembered' /\ DeltaKnown'
    <2>1. ~Fail
      BY <1>9, NoFailure DEF Restarted
    <2>2. CASE Restart
      BY <2>2, RestartRemembers
    <2>3. CASE ~Restart
      <3>1. ~Crash
        BY <1>9, CrashEffect
      <3>2. up
        BY <1>9, <2>3, <3>1, ProcessSteady
      <3>3. QED  BY <1>9, <2>1, <2>3, <3>1, <3>2, RememberedNext DEF CarriedInv
    <2>4. QED  BY <2>2, <2>3
  <1>10. ASSUME Restarted(scenario), crashes' = 0  PROVE mode' = "streaming" /\ DeltaStreamed'
    <2>1. ~Crash
      <3>1. Crash => crashes' = crashes + 1 /\ crashes \in Nat
        BY CrashEffect, Typing
      <3>2. QED  BY <1>10, <3>1
    <2>2. ~Restart
      <3>1. Restart => ~up /\ crashes' = crashes
        BY RestartEffect
      <3>2. ~up => 0 < crashes
        BY DEF Base, Shape
      <3>3. QED  BY <1>10, <3>1, <3>2
    <2>3. mode' = mode /\ crashes = 0
      BY <1>10, <2>1, <2>2, ProcessSteady
    <2>4. QED  BY <1>10, <2>3, DeltaStreamedNext DEF CarriedInv
  <1>11. ASSUME Restarted(scenario), crashes' = 0 \/ ~up'  PROVE ReceiptedDeltas'
    BY <1>11, ReceiptedNext
  <1>12. QED
    BY <1>1, <1>3, <1>4, <1>6, <1>7, <1>8, <1>9, <1>10, <1>11 DEF CarriedInv

LEMMA CarriedInit ==
    ASSUME Init, Carried(scenario) \/ Restarted(scenario)
    PROVE  CarriedInv
  <1>1. /\ up /\ mode = scenario.mode /\ cursor = 0 /\ ~busy /\ commands = <<>>
        /\ forget = {} /\ known = {} /\ receipts = {} /\ log = <<>>
        /\ buffer = [m \in Messages |-> <<>>] /\ text = [m \in Messages |-> <<>>]
    BY DEF Init
  <1>2. \A m : ~DeltaBy(m, cursor) /\ ~CompletedBy(m, cursor)
    BY <1>1 DEF DeltaBy, CompletedBy
  <1>3. Closed /\ Unseen /\ KnownStarted /\ OwnCompletion /\ Replacing /\ Replaced
    BY <1>1, <1>2 DEF Closed, Unseen, KnownStarted, OwnCompletion, Replacing, Replaced
  <1>4. HeadReplaced
    BY <1>1 DEF HeadReplaced
  <1>5. Remembered /\ DeltaKnown /\ DeltaStreamed /\ ReceiptedDeltas
    BY <1>1, <1>2 DEF Remembered, DeltaKnown, DeltaStreamed, ReceiptedDeltas, AcceptedDeltas
  <1>6. Restarted(scenario) => mode = "streaming"
    BY <1>1 DEF Restarted
  <1>7. QED  BY <1>1, <1>3, <1>4, <1>5, <1>6 DEF CarriedInv

LEMMA StreamedInit ==
    ASSUME Init, Streamed(scenario)
    PROVE  StreamedInv
  <1>1. /\ up /\ mode = "streaming" /\ cursor = 0 /\ ~busy /\ receipts = {} /\ log = <<>>
        /\ buffer = [m \in Messages |-> <<>>] /\ text = [m \in Messages |-> <<>>]
    BY DEF Init, Streamed
  <1>2. \A m \in Messages : text[m] = DeltasOf(m, Reached(m))
    <2>1. SUFFICES ASSUME NEW m \in Messages  PROVE text[m] = DeltasOf(m, Reached(m))
      OBVIOUS
    <2>2. Reached(m) = 0 /\ ~DeltaBy(m, 0)
      BY <1>1 DEF Reached, DeltaBy
    <2>3. DeltasOf(m, 0) = <<>>
      BY <2>2, DeltasNone
    <2>4. QED  BY <1>1, <2>2, <2>3
  <1>3. QED  BY <1>1, <1>2 DEF StreamedInv, DeltaStreamed

-----------------------------------------------------------------------------
(* The theorems *)

LEMMA InitIInv ==
    ASSUME Init
    PROVE  IInv
  BY InitBase, StreamedInit, CalmInit, CarriedInit DEF IInv

LEMMA IInvNext ==
    ASSUME IInv, [Next]_vars
    PROVE  IInv'
  <1>1. Base' /\ scenario' = scenario
    BY BaseNext, LogMoves DEF IInv
  <1>2. Streamed(scenario') => StreamedInv'
    BY <1>1, StreamedNext DEF IInv
  <1>3. Calm(scenario') => CalmInv'
    BY <1>1, CalmNext DEF IInv
  <1>4. Carried(scenario') \/ Restarted(scenario') => CarriedInv'
    BY <1>1, CarriedNext DEF IInv
  <1>5. QED  BY <1>1, <1>2, <1>3, <1>4 DEF IInv

\* The invariant holds in every scenario, sound or not; each of its parts names the
\* scenarios it speaks of.
THEOREM SpecIInv == Spec => []IInv
  <1>1. Init => IInv
    BY InitIInv
  <1>2. IInv /\ [Next]_vars => IInv'
    BY IInvNext
  <1>3. QED  BY <1>1, <1>2, PTL DEF Spec

\* Nothing is in hand between two events, so nothing is on its way.
LEMMA BetweenEvents ==
    ASSUME Base, CalmInv, ~busy, NEW m \in Messages,
           ~(scenario.snapshots /\ CompletedBy(m, cursor))
    PROVE  text[m] \o buffer[m] = DeltasOf(m, cursor)
  <1>1. commands = <<>>
    BY Idle
  <1>2. Coming(m) = <<>> /\ Read(m) = cursor /\ ~Settling(m)
    BY <1>1 DEF Coming, Read, Settling
  <1>3. (text[m] \o <<>>) \o buffer[m] = DeltasOf(m, cursor)
    BY <1>2 DEF CalmInv, Conserved
  <1>4. QED  BY <1>3, Whole, Typing

\* Nothing of a streamed delta is beyond the last accepted event when there is none.
LEMMA StreamedUpToDate ==
    ASSUME Base, StreamedInv, cursor = Len(log), NEW m \in Messages
    PROVE  text[m] = DeltasOf(m, cursor) /\ text[m] \o buffer[m] = DeltasOf(m, cursor)
  <1>1. NextSequence \in Nat /\ NextSequence > Len(log)
    BY AtHead DEF NextSequence
  <1>2. Reached(m) = cursor
    BY <1>1, NoReceiptBeyond DEF Reached
  <1>3. text[m] = DeltasOf(m, cursor) /\ buffer[m] = <<>>
    BY <1>2 DEF StreamedInv
  <1>4. QED  BY <1>3, Whole, Typing

\* What was said of a message whose completion carried its text, and of another.
LEMMA SaidCarried ==
    ASSUME Base, NEW m, scenario.snapshots, CompletedBy(m, cursor), Replaced
    PROVE  text[m] = Said(m)
  <1> DEFINE S == {s \in 1..cursor : /\ log[s].kind = "completed" /\ log[s].message = m
                                     /\ scenario.snapshots}
  <1>1. S # {}
    BY DEF CompletedBy
  <1>2. PICK s \in S : s = CHOOSE x \in S : TRUE
    BY <1>1
  <1>3. text[m] = <<s>>
    BY <1>2 DEF Replaced
  <1>4. Said(m) = <<CHOOSE x \in S : TRUE>>
    BY <1>1 DEF Said
  <1>5. QED  BY <1>2, <1>3, <1>4

LEMMA SaidDeltas ==
    ASSUME NEW m, ~(scenario.snapshots /\ CompletedBy(m, cursor))
    PROVE  Said(m) = DeltasOf(m, cursor)
  BY DEF Said, CompletedBy

LEMMA FaithfulWhenSound ==
    ASSUME IInv, Sound(scenario)
    PROVE  TranscriptFaithful
  <1>1. SUFFICES ASSUME Ended, NEW m \in Messages  PROVE text[m] = Said(m)
    BY DEF TranscriptFaithful
  <1>2. Base /\ cursor = Len(log) /\ ~busy
    BY <1>1, EndedIsOver DEF IInv
  <1>3. CASE Streamed(scenario)
    <2>1. text[m] = DeltasOf(m, cursor)
      BY <1>2, <1>3, StreamedUpToDate DEF IInv
    <2>2. QED  BY <1>3, <2>1, SaidDeltas DEF Streamed
  <1>4. CASE Calm(scenario)
    <2>1. CalmInv
      BY <1>4 DEF IInv
    <2>2. CASE scenario.snapshots /\ CompletedBy(m, cursor)
      BY <1>2, <2>1, <2>2, SaidCarried DEF CalmInv
    <2>3. CASE ~(scenario.snapshots /\ CompletedBy(m, cursor))
      <3>1. buffer[m] = <<>>
        BY <1>1, <2>1 DEF CalmInv, AllForgotten, BufferedIsKnown
      <3>2. text[m] \o buffer[m] = DeltasOf(m, cursor)
        BY <1>2, <2>1, <2>3, BetweenEvents
      <3>3. text[m] = DeltasOf(m, cursor)
        BY <1>2, <3>1, <3>2, Whole, Typing
      <3>4. QED  BY <2>3, <3>3, SaidDeltas
    <2>4. QED  BY <2>2, <2>3
  <1>5. CASE Carried(scenario) \/ Restarted(scenario)
    <2>1. CarriedInv /\ scenario.snapshots /\ scenario.oneByOne
      BY <1>5 DEF IInv, Carried, Restarted
    <2>2. CASE CompletedBy(m, cursor)
      BY <1>2, <2>1, <2>2, SaidCarried DEF CarriedInv
    <2>3. CASE ~CompletedBy(m, cursor)
      <3>1. ~Started(m)
        <4>1. SUFFICES ASSUME Started(m)  PROVE FALSE
          OBVIOUS
        <4>2. PICK r \in 1 .. Len(log) : log[r].kind = "delta" /\ log[r].message = m
          BY <4>1 DEF Started
        <4>3. PICK s \in 1 .. cursor : log[s].kind = "turnEnd"
          BY <1>1 DEF Ended
        <4>4. cursor \in Nat /\ s = cursor /\ s \in 1 .. Len(log)
          BY <1>2, <4>3, AtHead DEF Base, Orderly, LastIsLast
        <4>5. r \in 1 .. (s - 1)
          BY <1>2, <4>2, <4>3, <4>4
        <4>6. CompletedBy(m, s - 1)
          BY <1>2, <2>1, <4>2, <4>3, <4>4, <4>5 DEF Base, Orderly, OneAfterTheOther
        <4>7. \A x \in 1 .. (s - 1) : x \in 1 .. cursor
          BY <4>4
        <4>8. QED  BY <2>3, <4>6, <4>7 DEF CompletedBy
      <3>2. text[m] = <<>>
        BY <2>1, <3>1 DEF CarriedInv, Unseen
      <3>3. ~DeltaBy(m, cursor)
        BY <1>2, <3>1 DEF DeltaBy, Started
      <3>4. DeltasOf(m, cursor) = <<>>
        BY <1>2, <3>3, AtHead, DeltasNone
      <3>5. QED  BY <2>3, <3>2, <3>4, SaidDeltas
    <2>4. QED  BY <2>2, <2>3
  <1>6. QED  BY <1>3, <1>4, <1>5 DEF Sound

LEMMA NothingInLimboWhenSound ==
    ASSUME IInv, Sound(scenario)
    PROVE  NothingInLimbo
  <1>1. SUFFICES ASSUME ~scenario.snapshots, ~busy, cursor = Len(log), NEW m \in Messages
                 PROVE  text[m] \o buffer[m] = DeltasOf(m, cursor)
    BY DEF NothingInLimbo
  <1>2. Base
    BY DEF IInv
  <1>3. CASE Streamed(scenario)
    BY <1>1, <1>2, <1>3, StreamedUpToDate DEF IInv
  <1>4. CASE Calm(scenario)
    BY <1>1, <1>2, <1>4, BetweenEvents DEF IInv
  <1>5. QED  BY <1>1, <1>3, <1>4 DEF Sound, Carried, Restarted

LEMMA ClosedWhenSound ==
    ASSUME IInv, Sound(scenario)
    PROVE  Base /\ Closed
  BY StreamedClosed DEF IInv, Sound, CalmInv, CarriedInv

\* In a sound scenario, for any messages, any limit and any number of events, the
\* transcript of a turn that has ended is what the provider said.
THEOREM SpecTranscriptFaithful == Spec => [](Sound(scenario) => TranscriptFaithful)
  <1>1. IInv => (Sound(scenario) => TranscriptFaithful)
    BY FaithfulWhenSound
  <1>2. QED  BY <1>1, SpecIInv, PTL

\* Between two events of a sound scenario, what has been projected and what is still
\* buffered are together exactly the deltas accepted.
THEOREM SpecNothingInLimbo == Spec => [](Sound(scenario) => NothingInLimbo)
  <1>1. IInv => (Sound(scenario) => NothingInLimbo)
    BY NothingInLimboWhenSound
  <1>2. QED  BY <1>1, SpecIInv, PTL

\* Where every scenario is sound, a message whose completion has been accepted never
\* changes again, whatever is retried and wherever the process restarts.
THEOREM SpecCompletedTextIsFinal ==
    ASSUME \A s \in Scenarios : Sound(s)
    PROVE  Spec => CompletedTextIsFinal
  <1>1. IInv /\ [Next]_vars =>
           [\A m \in Messages : CompletedBy(m, cursor) => text'[m] = text[m]]_vars
    <2>1. SUFFICES ASSUME IInv, [Next]_vars, NEW m \in Messages, CompletedBy(m, cursor)
                   PROVE  text'[m] = text[m]
      OBVIOUS
    <2>2. Sound(scenario)
      BY <2>1 DEF IInv, Base, TypeOK
    <2>3. QED  BY <2>1, <2>2, ClosedWhenSound, ClosedText
  <1>2. QED  BY <1>1, SpecIInv, PTL DEF Spec, CompletedTextIsFinal

=============================================================================
