-------------------------- MODULE MCRuntimeJournal --------------------------
(***************************************************************************)
(* Instances of RuntimeJournal for TLC.                                    *)
(***************************************************************************)
EXTENDS RuntimeJournal, TLC

CONSTANTS a, b, u, v

Shape(t, turn, kind) == [thread |-> t, turn |-> turn, kind |-> kind]

\* Two threads, nothing but untagged notifications: failures and isolation.
NoteShapes == {Shape(t, NoTurn, "progress") : t \in {a, b}}

\* One thread with overlapping turns and every way to end them.
TurnShapes ==
    {Shape(a, u, "progress"), Shape(a, v, "progress"), Shape(a, u, "turnEnd"),
     Shape(a, NoTurn, "turnEnd"), Shape(a, NoTurn, "threadEnd"),
     Shape(a, u, "threadEnd")}

\* Only equality of fingerprints matters.
Interchangeable == Permutations(Fingerprints)
=============================================================================
