--------------------------- MODULE CommandLedger ---------------------------
(***************************************************************************)
(* What an OrchestrationEngine promises whoever dispatches commands: an id *)
(* is decided at most once and for good, an accepted id has exactly one    *)
(* event, and every call is told at most one thing, which agrees with the  *)
(* decision and with all decisions to come.  A call that was told that it  *)
(* failed is never carried out; only one that was told without a look at   *)
(* the ledger may have been.                                               *)
(***************************************************************************)
EXTENDS Naturals, Sequences

CONSTANTS Calls,      (* calls of dispatch                                 *)
          Ids, IdOf   (* the command id of a call                          *)

VARIABLES log,        (* the accepted calls, in sequence order             *)
          verdict,    (* per id: "none", "accepted" or "rejected"          *)
          answer      (* per call, what its caller was told                *)

vars == <<log, verdict, answer>>

Nothing == [kind |-> "none", sequence |-> 0]

Tell(c, kind, n) ==
    /\ answer[c] = Nothing
    /\ answer' = [answer EXCEPT ![c] = [kind |-> kind, sequence |-> n]]

Init ==
    /\ log = <<>>
    /\ verdict = [i \in Ids |-> "none"]
    /\ answer = [c \in Calls |-> Nothing]

Accept(c) ==
    /\ answer[c] = Nothing /\ verdict[IdOf[c]] = "none"
    /\ log' = Append(log, c)
    /\ verdict' = [verdict EXCEPT ![IdOf[c]] = "accepted"]
    /\ UNCHANGED answer

Confirm(c) ==
    /\ \E n \in 1 .. Len(log) : IdOf[log[n]] = IdOf[c] /\ Tell(c, "ok", n)
    /\ UNCHANGED <<log, verdict>>

\* The rejection may fail to be recorded.
Reject(c) ==
    /\ verdict[IdOf[c]] # "accepted"
    /\ Tell(c, "rejected", 0)
    /\ verdict' = verdict \/ verdict' = [verdict EXCEPT ![IdOf[c]] = "rejected"]
    /\ UNCHANGED log

Deny(c) ==
    /\ \A n \in 1 .. Len(log) : log[n] # c
    /\ Tell(c, "failed", 0)
    /\ UNCHANGED <<log, verdict>>

Misreport(c) == Tell(c, "unknown", 0) /\ UNCHANGED <<log, verdict>>

Next == \E c \in Calls : Accept(c) \/ Confirm(c) \/ Reject(c) \/ Deny(c) \/ Misreport(c)

Spec == Init /\ [][Next]_vars
=============================================================================
