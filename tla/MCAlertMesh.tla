------------------------------ MODULE MCAlertMesh ------------------------------
(* Three nodes for TLC, in one of three settings chosen at first: a ring   *)
(* whose links work one way, where frames are lost and nodes stop; the     *)
(* same ring where the clock of its only publisher is set as well; and a   *)
(* line without losses. In all of them b does not trust c.                 *)
EXTENDS AlertMesh

CONSTANTS a, b, c, fire, flood

VARIABLE setting   \* "ring", "drift" or "line"

Nodes == {a, b, c}
Texts == {fire, flood}
Both(s) == s \cup {<<p[2], p[1]>> : p \in s}
Ring == {<<a, b>>, <<b, c>>, <<c, a>>}
Line == Both({<<b, a>>, <<a, c>>})
(* b does not know c: neither displays nor relays its alerts.              *)
TrustPart == [n \in Nodes |-> IF n = b THEN {a, b} ELSE Nodes]
AandC == {a, c}
None == {}

(* Alerts in the name of a: unsigned, and signed with a key nobody knows.  *)
StrayFrames ==
  {[pkt |-> [src |-> a, ts |-> 0, body |-> fire], hop |-> 0, sig |-> s] : s \in {NoSig, Foreign}}

(* The ring with one publisher, whose clock leads the others by up to two  *)
(* seconds and may be set back far enough to show a second twice.          *)
Drift == INSTANCE AlertMesh WITH
  Publishers <- {a}, Unsteady <- {a}, Strays <- {}

(* The line: an alert of b crosses a to reach c; the memory holds all.     *)
Steady == INSTANCE AlertMesh WITH
  Body <- {fire}, Links <- Line, Publishers <- {a, b}, Strays <- {},
  MaxAge <- 2, InboxMax <- 3, DedupSize <- 4, MaxTime <- 1, PublishInterval <- 1, MaxSkew <- 0

MCInit ==
  \/ setting = "ring" /\ Init
  \/ setting = "drift" /\ Drift!Init
  \/ setting = "line" /\ Steady!Init

MCNext ==
  /\ \/ setting = "ring" /\ Next
     \/ setting = "drift" /\ Drift!Next
     \/ setting = "line" /\ Steady!CalmNext
  /\ UNCHANGED setting

(* On the line, the fairness of ReliableSpec.                              *)
MCSpec ==
  /\ MCInit /\ [][MCNext]_<<vars, setting>>
  /\ \A n \in Nodes : WF_vars(setting = "line" /\ Steady!Transmit(n))
  /\ \A n \in Nodes : WF_vars(setting = "line" /\ \E e \in air : Steady!Receive(n, e))

-------------------------------------------------------------------------------
(* An alert its publisher transmits on the line is admitted by every node  *)
(* connected to it through nodes that trust it (relay_frame).              *)
LineCovered == setting = "line" => Steady!Coverage

===============================================================================
