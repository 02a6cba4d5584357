------------------------ MODULE MCAssistantAssembly ------------------------
(***************************************************************************)
(* Instances of AssistantAssembly for TLC.                                 *)
(***************************************************************************)
EXTENDS AssistantAssembly, TLC

CONSTANTS a, b

Of(requested, snapshots, oneByOne, crash, failure) ==
    [mode |-> requested, snapshots |-> snapshots, oneByOne |-> oneByOne,
     crashes |-> crash, failures |-> failure]

\* Every scenario the assembly tolerates, with at most a restart and two failures.
SoundScenarios ==
    {s \in {Of(requested, snapshots, oneByOne, crash, failure) :
               requested \in Modes, snapshots \in BOOLEAN, oneByOne \in BOOLEAN,
               crash \in 0..1, failure \in 0..2} : Sound(s)}

\* Buffered text, and one transient failure.
RetryScenarios == {Of("buffered", FALSE, TRUE, 0, 1)}

\* Buffered text, and one restart.
RestartScenarios == {Of("buffered", TRUE, TRUE, 1, 0)}
=============================================================================
