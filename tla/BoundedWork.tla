---------------------------- MODULE BoundedWork ----------------------------
(***************************************************************************)
(* What a DrainableWorker promises its users: work is admitted while       *)
(* admission is open and fewer than Capacity items are unsettled, every    *)
(* admitted item settles once, and the worker stops only after admission   *)
(* has closed and every admitted item has settled.                         *)
(***************************************************************************)
EXTENDS Naturals, FiniteSets

CONSTANTS Items,      (* work items                                        *)
          Capacity    (* admitted and unsettled items at any one time      *)

VARIABLES admission,  (* "open", "closed" or "stopped"                     *)
          admitted,   (* items ever admitted                               *)
          finished    (* items that have settled                           *)

vars == <<admission, admitted, finished>>

Init == admission = "open" /\ admitted = {} /\ finished = {}

Admit(i) ==
    /\ admission = "open"
    /\ i \notin admitted
    /\ Cardinality(admitted \ finished) < Capacity
    /\ admitted' = admitted \cup {i}
    /\ UNCHANGED <<admission, finished>>

Settle(i) ==
    /\ i \in admitted \ finished
    /\ finished' = finished \cup {i}
    /\ UNCHANGED <<admission, admitted>>

Close == admission = "open" /\ admission' = "closed" /\ UNCHANGED <<admitted, finished>>

Stop ==
    /\ admission = "closed"
    /\ finished = admitted
    /\ admission' = "stopped"
    /\ UNCHANGED <<admitted, finished>>

Next == Close \/ Stop \/ (\E i \in Items : Admit(i) \/ Settle(i))

Spec == Init /\ [][Next]_vars
=============================================================================
