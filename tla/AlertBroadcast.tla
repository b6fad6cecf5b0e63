---------------------------- MODULE AlertBroadcast ----------------------------
(***************************************************************************)
(* What the alert mesh promises, without frames, hops or queues: an alert  *)
(* shown on a node was published by the node it names, which the showing   *)
(* node trusts; an identifier names one alert, as long as the clock of its *)
(* source is not set back; a display never holds an identifier twice and   *)
(* grows by one alert at a time. A display may drop an alert to make room, *)
(* and loses everything when its node stops. Delivery itself is best       *)
(* effort, so nothing here has to happen.                                  *)
(***************************************************************************)
EXTENDS Naturals

CONSTANTS
  Node,
  Alert,       \* alerts, each with its fields src, ts and body
  Trusts       \* Trusts[n]: the nodes whose alerts n accepts

VARIABLES
  published,   \* alerts a portal has accepted
  shown,       \* shown[n]: what the portal of n displays
  setBack      \* the nodes whose clock has been set back

vars == <<published, shown, setBack>>

SameId(p, q) == p.src = q.src /\ p.ts = q.ts

Init ==
  /\ published = {}
  /\ shown = [n \in Node |-> {}]
  /\ setBack = {}

(* The display of n gains p and drops at most one alert for it.            *)
Show(n, p) ==
  /\ \A q \in shown[n] : ~SameId(p, q)
  /\ \E kept \in {shown[n]} \cup {shown[n] \ {q} : q \in shown[n]} :
       shown' = [shown EXCEPT ![n] = kept \cup {p}]

Publish(p) ==
  /\ published' = published \cup {p}
  /\ p.src \in setBack \/ \A q \in published : ~SameId(p, q)
  /\ Show(p.src, p)
  /\ UNCHANGED setBack

Deliver(n, p) ==
  /\ p \in published
  /\ UNCHANGED <<published, setBack>>
  /\ p.src \in Trusts[n]
  /\ Show(n, p)

Stop(n) ==
  /\ UNCHANGED <<published, setBack>>
  /\ shown' = [shown EXCEPT ![n] = {}]

(* From here on, identifiers of n may name several alerts.                 *)
SetBack(n) ==
  /\ setBack' = setBack \cup {n}
  /\ UNCHANGED <<published, shown>>

Next ==
  \/ \E p \in Alert : Publish(p)
  \/ \E n \in Node : Stop(n) \/ SetBack(n)
  \/ \E n \in Node, p \in Alert : Deliver(n, p)

Spec == Init /\ [][Next]_vars

===============================================================================
