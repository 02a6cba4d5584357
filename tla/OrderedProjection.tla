------------------------- MODULE OrderedProjection -------------------------
(***************************************************************************)
(* What the durable provider-runtime journal promises to the rest of the   *)
(* server, with no retention, failures, restarts or batching: events are   *)
(* appended to one global journal, and each thread accepts its own events  *)
(* one at a time, in journal order, never passing over one of them.        *)
(***************************************************************************)
EXTENDS Naturals, Sequences

CONSTANT Threads    (* conversation threads                                *)

VARIABLES journal,  (* the thread of every event ever appended, by sequence*)
          accepted  (* per thread, the last accepted sequence              *)

vars == <<journal, accepted>>

\* s is the first event of thread t that t has not accepted.
IsNext(t, s) ==
    /\ s \in 1..Len(journal)
    /\ journal[s] = t
    /\ s > accepted[t]
    /\ \A r \in 1..Len(journal) : journal[r] = t /\ r > accepted[t] => s <= r

Init ==
    /\ journal = <<>>
    /\ accepted = [t \in Threads |-> 0]

Record(t) ==
    /\ journal' = Append(journal, t)
    /\ UNCHANGED accepted

Accept(t) ==
    /\ \E s \in 1..Len(journal) :
          /\ IsNext(t, s)
          /\ accepted' = [accepted EXCEPT ![t] = s]
    /\ UNCHANGED journal

Next == \E t \in Threads : Record(t) \/ Accept(t)

Spec == Init /\ [][Next]_vars
=============================================================================
