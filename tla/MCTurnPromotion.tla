-------------------------- MODULE MCTurnPromotion --------------------------
(* Small scenarios of TurnPromotion for TLC. *)
EXTENDS TurnPromotion

CONSTANTS p, c, m1, m2, m3

Where == [m \in Messages |-> IF m = m3 THEN c ELSE p]

Send(m)   == [kind |-> "send", message |-> m]
Cancel(m) == [kind |-> "cancel", message |-> m]
Steer(m)  == [kind |-> "steer", message |-> m]
Stop(t)   == [kind |-> "stop", thread |-> t]
Delete(t) == [kind |-> "deleted", thread |-> t]

Scenario(asks, n) == [asks |-> asks, mishaps |-> n, continues |-> FALSE]
Continued(s) == [s EXCEPT !.continues = TRUE]

Everything ==
    { Scenario(<<Send(m1), Send(m2), Cancel(m2)>>, 1),
      Scenario(<<Send(m1), Steer(m1)>>, 1),
      Scenario(<<Send(m1), Send(m2), Steer(m2)>>, 0),
      Scenario(<<Send(m1), Stop(p)>>, 1),
      Scenario(<<Send(m1), Stop(p), Send(m2)>>, 0),
      Scenario(<<Send(m1), Send(m2), Stop(p)>>, 0),
      Scenario(<<Send(m1), Send(m3), Stop(c), Delete(c)>>, 0),
      Scenario(<<Send(m1), Send(m3), Steer(m3), Delete(c)>>, 0),
      Scenario(<<Send(m1), Send(m3), Delete(c)>>, 0),
      Scenario(<<Send(m3), Delete(c)>>, 1),
      Continued(Scenario(<<Send(m1)>>, 2)),
      Continued(Scenario(<<Send(m3)>>, 1)) }
=============================================================================
