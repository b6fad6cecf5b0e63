------------------------------- MODULE AlertMesh -------------------------------
(***************************************************************************)
(* The alert mesh: the portal of each node publishes alerts                *)
(* (publish_alert), the radio loop of each node broadcasts them, receives  *)
(* the frames of its neighbours, verifies, admits and relays them          *)
(* (handle_incoming, evaluate, relay_frame). A node may stop at any        *)
(* moment; systemd starts it again RestartSec later with an empty inbox.   *)
(*                                                                         *)
(* Two kinds of time: the rate limiter and systemd count real seconds      *)
(* (Instant), alerts are stamped and aged with the wall clock of each node *)
(* (SystemTime), which may differ from the others and may be set at any    *)
(* moment, forwards or back.                                               *)
(*                                                                         *)
(* `air` is the set of frames ever transmitted. A neighbour may receive a  *)
(* frame at any later moment, several times, or never: loss, duplication,  *)
(* delay and reordering are all there.                                     *)
(***************************************************************************)
EXTENDS InboxRules, FiniteSets

CONSTANTS
  Node,
  Body,             \* type and text of an alert
  Links,            \* pairs <<tx, rx>>: rx is within radio range of tx
  Trusts,           \* Trusts[n]: the nodes in the key ring of n, n included
  Publishers,       \* the nodes whose portal is used
  Strays,           \* frames around that their source did not sign (old
                    \* firmware, foreign nodes, damaged or forged frames)
  Foreign,          \* who transmits those, and a key no ring holds
  NoSig,            \* a frame without signature
  MaxHop,           \* RadioConfig.max_hop (8)
  RadioQueue,       \* RADIO_QUEUE, capacity of the channel to the radio (64)
  PublishInterval,  \* PUBLISH_MIN_INTERVAL (2 s)
  RestartSec,       \* RestartSec of the systemd unit (2 s)
  Unsteady,         \* the nodes whose wall clock may be wrong or be set
  MaxSkew,          \* by at most so many seconds
  MaxTime           \* bound: last second explored

(* What a clock may show.                                                  *)
Stamp == 0..(MaxTime + MaxSkew)
Packet == [src : Node, ts : Stamp, body : Body]
Frame == [pkt : Packet, hop : 0..MaxHop, sig : Node \cup {NoSig, Foreign}]
Entry == [frame : Frame, by : Node \cup {Foreign}]

ASSUME MeshAssumption ==
  /\ Links \subseteq Node \X Node
  /\ Trusts \in [Node -> SUBSET Node]
  /\ \A n \in Node : n \in Trusts[n]
  /\ Publishers \subseteq Node
  /\ Foreign \notin Node /\ NoSig \notin Node
  /\ MaxHop \in Nat /\ RadioQueue \in Nat
  /\ PublishInterval \in Nat \ {0} /\ RestartSec \in Nat \ {0}
  /\ MaxTime \in Nat /\ MaxSkew \in Nat /\ Unsteady \subseteq Node
  /\ Strays \subseteq Frame
  /\ \A f \in Strays : f.sig # f.pkt.src

VARIABLES
  inbox,       \* inbox[n], shared by the portal and the radio of n
  queue,       \* queue[n]: local frames waiting for the radio loop
  air,         \* frames ever transmitted
  now,         \* real time, in seconds
  offset,      \* offset[n]: by how much the wall clock of n is ahead of `now`
  lastPub,     \* lastPub[n]: last use of the publish rate limiter, -1 at start
  upAt,        \* upAt[n]: n is down before that second
  published,   \* history: alerts acknowledged with 201
  sent,        \* history: sent[n], identifiers n transmitted since it started
  setBack      \* history: the nodes whose clock has been set back

vars == <<inbox, queue, air, now, offset, lastPub, upAt, published, sent, setBack>>

(* now_unix: the seconds of SystemTime.                                    *)
Wall(n) == now + offset[n]
Up(n) == now >= upAt[n]
InRange(tx, n) == tx = Foreign \/ <<tx, n>> \in Links

(* KeyRing::verify: the frame is signed, its source is in the key ring and *)
(* the signature is that source's.                                         *)
VerifySignedOnly(n, f) == f.sig # NoSig

VerifyKnownOnly(n, f) == f.pkt.src \in Trusts[n]

Verify(n, f) ==
  /\ f.sig # NoSig
  /\ f.pkt.src \in Trusts[n]
  /\ f.sig = f.pkt.src

TypeOK ==
  /\ inbox \in [Node -> [alerts : Seq(Packet), seen : Seq(Node \X Stamp)]]
  /\ \A n \in Node : Len(inbox[n].alerts) <= InboxMax /\ Len(inbox[n].seen) <= DedupSize
  /\ queue \in [Node -> Seq(Frame)]
  /\ \A n \in Node : Len(queue[n]) <= RadioQueue
  /\ air \subseteq Entry
  /\ now \in 0..MaxTime
  /\ offset \in [Node -> 0..MaxSkew]
  /\ setBack \subseteq Node
  /\ lastPub \in [Node -> -1..MaxTime]
  /\ upAt \in [Node -> 0..(MaxTime + RestartSec)]
  /\ published \subseteq Packet
  /\ sent \in [Node -> Seq(Node \X Stamp)]

Init ==
  /\ inbox = [n \in Node |-> EmptyInbox]
  /\ queue = [n \in Node |-> <<>>]
  /\ air = {[frame |-> f, by |-> Foreign] : f \in Strays}
  /\ now = 0
  /\ offset \in [Node -> 0..MaxSkew]
  /\ \A n \in Node \ Unsteady : offset[n] = 0
  /\ setBack = {}
  /\ lastPub = [n \in Node |-> -1]
  /\ upAt = [n \in Node |-> 0]
  /\ published = {}
  /\ sent = [n \in Node |-> <<>>]

-------------------------------------------------------------------------------
MayPublish(n) == lastPub[n] = -1 \/ now - lastPub[n] >= PublishInterval

(* try_send on the bounded channel: a frame that does not fit is dropped.  *)
Enqueue(q, f) == IF Len(q) < RadioQueue THEN Append(q, f) ELSE q

PublishUnchecked(n, b) ==
  LET p == [src |-> n, ts |-> Wall(n), body |-> b]
      f == [pkt |-> p, hop |-> 0, sig |-> n]
  IN
  /\ Up(n) /\ n \in Publishers
  /\ MayPublish(n)
  /\ lastPub' = [lastPub EXCEPT ![n] = now]
  /\ published' = published \cup {p}
  /\ queue' = [queue EXCEPT ![n] = Enqueue(@, f)]
  /\ UNCHANGED <<inbox, air, now, offset, upAt, sent, setBack>>

(* publish_alert: the rate limiter is charged first, then the signed packet *)
(* must pass the node's own inbox (409 otherwise), and the frame goes to    *)
(* the radio without waiting; the caller gets 201 even if it was dropped.   *)
Publish(n, b) ==
  LET p == [src |-> n, ts |-> Wall(n), body |-> b]
      f == [pkt |-> p, hop |-> 0, sig |-> n]
  IN
  /\ Up(n) /\ n \in Publishers
  /\ MayPublish(n)
  /\ lastPub' = [lastPub EXCEPT ![n] = now]
  /\ \/ /\ Verdict(inbox[n], p, Wall(n)) = "Accepted"
        /\ inbox' = [inbox EXCEPT ![n] = Push(@, p)]
        /\ published' = published \cup {p}
        /\ queue' = [queue EXCEPT ![n] = Enqueue(@, f)]
     \/ /\ Verdict(inbox[n], p, Wall(n)) # "Accepted"
        /\ UNCHANGED <<inbox, published, queue>>
  /\ UNCHANGED <<air, now, offset, upAt, sent, setBack>>

(* The radio loop broadcasts the oldest local frame.                       *)
Transmit(n) ==
  /\ Up(n)
  /\ queue[n] # <<>>
  /\ air' = air \cup {[frame |-> Head(queue[n]), by |-> n]}
  /\ sent' = [sent EXCEPT ![n] = Append(@, Uid(Head(queue[n]).pkt))]
  /\ queue' = [queue EXCEPT ![n] = Tail(@)]
  /\ UNCHANGED <<inbox, now, offset, lastPub, upAt, published, setBack>>

RelayShortOfCap(n, f) ==
  \/ /\ f.hop + 1 < MaxHop
     /\ air' = air \cup {[frame |-> [f EXCEPT !.hop = @ + 1], by |-> n]}
     /\ sent' = [sent EXCEPT ![n] = Append(@, Uid(f.pkt))]
  \/ /\ f.hop + 1 >= MaxHop
     /\ UNCHANGED <<air, sent>>

(* relay_frame: below the hop cap, the frame goes out again with one more  *)
(* hop, the signature untouched.                                           *)
Relay(n, f) ==
  \/ /\ f.hop < MaxHop
     /\ air' = air \cup {[frame |-> [f EXCEPT !.hop = @ + 1], by |-> n]}
     /\ sent' = [sent EXCEPT ![n] = Append(@, Uid(f.pkt))]
  \/ /\ f.hop >= MaxHop
     /\ UNCHANGED <<air, sent>>

(* handle_incoming for an alert frame: verified, admitted, displayed and   *)
(* relayed. The key ring and the inbox are locked across the decision.     *)
Receive(n, e) ==
  /\ Up(n)
  /\ InRange(e.by, n)
  /\ Verify(n, e.frame)
  /\ Verdict(inbox[n], e.frame.pkt, Wall(n)) = "Accepted"
  /\ inbox' = [inbox EXCEPT ![n] = Push(@, e.frame.pkt)]
  /\ Relay(n, e.frame)
  /\ UNCHANGED <<queue, now, offset, lastPub, upAt, published, setBack>>

(* The same for a frame that is refused: Untrusted, TooOld or Duplicate.   *)
Discard(n, e) ==
  /\ Up(n)
  /\ InRange(e.by, n)
  /\ ~Verify(n, e.frame) \/ Verdict(inbox[n], e.frame.pkt, Wall(n)) # "Accepted"
  /\ UNCHANGED vars

Tick ==
  /\ now < MaxTime
  /\ now' = now + 1
  /\ UNCHANGED <<inbox, queue, air, offset, lastPub, upAt, published, sent, setBack>>

(* The clock of n is set: by hand, by NTP, or at a start without a clock   *)
(* that kept the time.                                                     *)
SetClock(n, o) ==
  /\ o # offset[n]
  /\ offset' = [offset EXCEPT ![n] = o]
  /\ setBack' = IF o < offset[n] THEN setBack \cup {n} ELSE setBack
  /\ UNCHANGED <<inbox, queue, air, now, lastPub, upAt, published, sent>>

StopInstantRestart(n) ==
  /\ Up(n)
  /\ inbox' = [inbox EXCEPT ![n] = EmptyInbox]
  /\ queue' = [queue EXCEPT ![n] = <<>>]
  /\ lastPub' = [lastPub EXCEPT ![n] = -1]
  /\ sent' = [sent EXCEPT ![n] = <<>>]
  /\ UNCHANGED <<air, now, offset, upAt, published, setBack>>

(* The process stops; everything it held in memory is gone when systemd    *)
(* starts it again.                                                        *)
Stop(n) ==
  /\ Up(n)
  /\ upAt' = [upAt EXCEPT ![n] = now + RestartSec]
  /\ inbox' = [inbox EXCEPT ![n] = EmptyInbox]
  /\ queue' = [queue EXCEPT ![n] = <<>>]
  /\ lastPub' = [lastPub EXCEPT ![n] = -1]
  /\ sent' = [sent EXCEPT ![n] = <<>>]
  /\ UNCHANGED <<air, now, offset, published, setBack>>

CalmNext ==
  \/ \E n \in Node, b \in Body : Publish(n, b)
  \/ \E n \in Node : Transmit(n)
  \/ \E n \in Node, e \in air : Receive(n, e) \/ Discard(n, e)
  \/ Tick

Next ==
  \/ CalmNext
  \/ \E n \in Node : Stop(n)
  \/ \E n \in Unsteady, o \in 0..MaxSkew : SetClock(n, o)

Spec == Init /\ [][Next]_vars

(* No node stops, no clock is set, the radio loop serves its queue, and a  *)
(* frame that stays receivable is received: what a mesh without losses     *)
(* gives.                                                                  *)
ReliableSpec ==
  /\ Init /\ [][CalmNext]_vars
  /\ \A n \in Node : WF_vars(Transmit(n))
  /\ \A n \in Node : WF_vars(\E e \in air : Receive(n, e))

-------------------------------------------------------------------------------
(* An alert on display was published by the node it names, with that very  *)
(* text, and the displaying node trusts that node: unsigned and unknown    *)
(* frames are "jamais affichees, jamais relayees" (relay.rs).              *)
Authentic ==
  \A n \in Node : \A p \in Displayed(inbox[n]) :
    p \in published /\ p.src \in Trusts[n]

(* Frames that nodes transmit carry published alerts only: no node relays  *)
(* what it would not display.                                              *)
OnlyPublishedOnAir ==
  \A e \in air : e.by # Foreign => e.frame.pkt \in published /\ e.frame.sig = e.frame.pkt.src

(* The identifier leaves the text out, yet no two nodes ever display       *)
(* different texts under one identifier, however wrong the clocks are, as  *)
(* long as the publisher's own has not been set back: the rate limiter     *)
(* lets no portal publish twice in a second, and a node that lost that     *)
(* limiter is away for longer than a second.                               *)
OneTextPerIdentifier ==
  \A m, n \in Node : \A p \in Displayed(inbox[m]), q \in Displayed(inbox[n]) :
    Uid(p) = Uid(q) /\ p.body # q.body => p.src \in setBack

(* As long as the memory of identifiers is not overrun, a node puts an     *)
(* alert on the air at most once between two restarts: flooding a cyclic   *)
(* mesh dies out ("evite les tempetes de diffusion", relay.rs).            *)
OneTransmissionPerLife ==
  \A n \in Node : \A i, j \in DOMAIN sent[n] : sent[n][i] = sent[n][j] => i = j

(* Auxiliary: local frames wait under the publisher's signature, and what  *)
(* does not come from a node is not signed by its source.                  *)
QueueHonest ==
  \A n \in Node : \A i \in DOMAIN queue[n] :
    /\ queue[n][i].pkt \in published
    /\ queue[n][i].sig = queue[n][i].pkt.src

StraysNotSigned ==
  \A e \in air : e.by = Foreign => e.frame.sig # e.frame.pkt.src

(* The inductive invariant behind Authentic and OnlyPublishedOnAir.        *)
MeshInv ==
  TypeOK /\ Authentic /\ OnlyPublishedOnAir /\ QueueHonest /\ StraysNotSigned

(* Auxiliary: no alert is stamped later than a clock can show. On a clock  *)
(* never set back, a portal that published in this very second cannot do   *)
(* it again before the next, and so an identifier names one alert.         *)
FreshIds ==
  \A p \in published :
    /\ p.ts <= now + MaxSkew
    /\ p.src \in setBack \/
         /\ p.ts <= Wall(p.src)
         /\ p.ts = Wall(p.src) => lastPub[p.src] = now \/ ~Up(p.src)
         /\ \A q \in published : Uid(p) = Uid(q) => p = q

InboxesCoherent == \A n \in Node : Coherent(inbox[n])

(* The inductive invariant behind OneTextPerIdentifier and the refinement. *)
BroadcastInv == MeshInv /\ FreshIds /\ InboxesCoherent

(* How far apart the stamps of two alerts may be that some clock takes for *)
(* young enough at one moment.                                             *)
Window == MaxAge + MaxSkew

(* The memory of identifiers is not overrun: it holds every alert stamped  *)
(* within Window seconds of any other one.                                 *)
MemorySuffices ==
  \A p \in published :
    Cardinality({q \in published : q.ts \in (p.ts - Window)..(p.ts + Window)}) <= DedupSize

QueueIds(n) == {Uid(queue[n][i].pkt) : i \in DOMAIN queue[n]}
SentIds(n) == {sent[n][i] : i \in DOMAIN sent[n]}

(* Auxiliary: the identifiers a node remembers are those of published      *)
(* alerts; an admission finds none stamped more than Window later.         *)
SeenInOrder ==
  \A n \in Node : \A i \in DOMAIN inbox[n].seen :
    /\ \E p \in published : Uid(p) = inbox[n].seen[i]
    /\ \A j \in 1..i : inbox[n].seen[j][2] <= inbox[n].seen[i][2] + Window

(* Auxiliary: a node remembers what it sent or is about to send, or would  *)
(* refuse it for its age whatever its clock shows.                         *)
HandledIsKnown ==
  \A n \in Node : \A u \in QueueIds(n) \cup SentIds(n) :
    u \in Seen(inbox[n]) \/ now - u[2] > MaxAge

(* Auxiliary: an identifier waits for the radio once, and not after it has *)
(* been sent.                                                              *)
QueuedOnce ==
  \A n \in Node :
    /\ \A i, j \in DOMAIN queue[n] : Uid(queue[n][i].pkt) = Uid(queue[n][j].pkt) => i = j
    /\ QueueIds(n) \cap SentIds(n) = {}

(* The inductive invariant behind OneTransmissionPerLife.                  *)
FloodInv ==
  /\ BroadcastInv /\ IsFiniteSet(published)
  /\ SeenInOrder /\ HandledIsKnown /\ QueuedOnce /\ OneTransmissionPerLife

(* The nodes connected to src through nodes that trust it.                 *)
Reached(src) ==
  LET R[k \in Nat] ==
        IF k = 0 THEN {src}
        ELSE R[k-1] \cup {m \in Node : /\ src \in Trusts[m]
                                       /\ \E t \in R[k-1] : <<t, m>> \in Links}
  IN R[Cardinality(Node)]

(* On a mesh that loses nothing, every alert its publisher transmitted (a  *)
(* full queue drops it before) is admitted by every node connected through *)
(* nodes that trust the publisher, when the hop cap leaves room for the    *)
(* longest relay path and the alert does not expire on the way.            *)
Coverage ==
  \A p \in Packet : \A n \in Reached(p.src) :
    (\E e \in air : e.frame.pkt = p /\ e.by = p.src) ~> (Uid(p) \in Seen(inbox[n]))

(* The mesh implements the abstract broadcast.                             *)
Abstract == INSTANCE AlertBroadcast WITH
  Alert <- Packet,
  shown <- [n \in Node |-> Displayed(inbox[n])]

ImplementsBroadcast == Abstract!Spec

===============================================================================
