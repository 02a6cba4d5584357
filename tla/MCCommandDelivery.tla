--------------------------- MODULE MCCommandDelivery ---------------------------
(***************************************************************************)
(* An instance of CommandDelivery for TLC: a busy thread and a bystander.  *)
(***************************************************************************)
EXTENDS CommandDelivery, TLC

CONSTANTS t1, t2

Of(kinds) == [i \in DOMAIN kinds |-> [thread |-> t1, kind |-> kinds[i]]]
Bystander == [thread |-> t2, kind |-> "effect"]

\* Three commands of one thread: the first may become a blocker, the second
\* recovers the thread or is skipped with the third ...
Mixed == {Of(<<"effect", "turnStart", "effect">>), Of(<<"effect", "interrupt">>)}
\* ... the kinds with rules of their own, and a tail that is collected.
Special == {Of(<<"archived", "turnStart">>), Of(<<"created", "archived">>),
            Of(<<"effect", "deleted", "turnStart">>),
            Of(<<"effect", "other", "other">>) \o <<Bystander>>}

Commands == Mixed \cup Special
=============================================================================
