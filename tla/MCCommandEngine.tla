-------------------------- MODULE MCCommandEngine --------------------------
(* A small instance of CommandEngine for TLC: a control command, a user    *)
(* command that is sent a second time, and a normal command.               *)
EXTENDS CommandEngine, TLC

CONSTANTS stopCall, turnCall, turnAgain, otherCall, stopId, turnId, otherId, t, u

Identity == (stopCall :> stopId) @@ (turnCall :> turnId) @@ (turnAgain :> turnId) @@ (otherCall :> otherId)
Sets == {{stopCall, turnCall, otherCall}, {stopCall, turnCall, turnAgain}}
Lane == (stopId :> "control") @@ (turnId :> "user") @@ (otherId :> "normal")
Subject == (stopId :> t) @@ (turnId :> t) @@ (otherId :> u)
=============================================================================
