----------------------------- MODULE Radio_proofs -----------------------------
(* What the radio carries. The alert mesh, for any number of nodes, any    *)
(* topology, any trust relation, any hop cap and any capacities: whatever  *)
(* is lost, duplicated, reordered or replayed and whoever restarts, what a *)
(* node displays or relays was published by the node it names. The service *)
(* loop, for any payments and capacities: alerts go first. Payments, for   *)
(* any transactions and sizes: the neighbour holds what it heard whole.    *)
EXTENDS AlertMesh, InboxRules_proofs, MCRadioLoop, FiniteSetTheorems, SequenceTheorems,
        WellFoundedInduction

Ids == Node \X Stamp

(* Every packet has an identifier.                                         *)
LEMMA PacketId == \A p \in Packet : Uid(p) \in Ids
  BY DEF Packet, Ids, Uid

(* The first frame of a queue and the rest of it.                          *)
LEMMA HeadTail ==
  ASSUME NEW S, NEW q \in Seq(S), q # <<>>
  PROVE  /\ Head(q) \in S
         /\ 1 \in DOMAIN q /\ Head(q) = q[1]
         /\ Tail(q) \in Seq(S) /\ Len(Tail(q)) <= Len(q)
         /\ \A i \in DOMAIN Tail(q) : i + 1 \in DOMAIN q /\ Tail(q)[i] = q[i+1]
OBVIOUS

(* try_send adds the frame at the end or drops it.                         *)
LEMMA EnqueueFacts ==
  ASSUME NEW q \in Seq(Frame), Len(q) <= RadioQueue, NEW f \in Frame
  PROVE  /\ Enqueue(q, f) \in Seq(Frame)
         /\ Len(Enqueue(q, f)) <= RadioQueue
         /\ \A i \in DOMAIN Enqueue(q, f) :
              Enqueue(q, f)[i] = f \/ (i \in DOMAIN q /\ Enqueue(q, f)[i] = q[i])
<1>1. RadioQueue \in Nat
  BY MeshAssumption
<1>2. CASE Len(q) < RadioQueue
  <2>1. Enqueue(q, f) = Append(q, f)
    BY <1>2 DEF Enqueue
  <2> QED BY <1>1, <1>2, <2>1
<1>3. CASE ~(Len(q) < RadioQueue)
  BY <1>3 DEF Enqueue
<1> QED BY <1>2, <1>3

(* What a clock shows can be stamped, and is not behind real time.         *)
LEMMA WallTyped ==
  ASSUME MeshInv, NEW n \in Node
  PROVE  /\ Wall(n) \in Stamp /\ now \in Nat /\ offset[n] \in 0..MaxSkew
         /\ now <= Wall(n) /\ Wall(n) <= now + MaxSkew
  BY MeshAssumption DEF MeshInv, TypeOK, Wall, Stamp

(* The history of transmissions keeps its type.                            *)
LEMMA SentAppend ==
  ASSUME MeshInv, NEW n \in Node, NEW u \in Ids
  PROVE  [sent EXCEPT ![n] = Append(@, u)] \in [Node -> Seq(Ids)]
<1>1. sent \in [Node -> Seq(Ids)]
  BY DEF MeshInv, TypeOK, Ids
<1> HIDE DEF Ids
<1>2. Append(sent[n], u) \in Seq(Ids)
  BY <1>1
<1> QED BY <1>1, <1>2

(* An empty inbox is an inbox.                                             *)
LEMMA EmptyInboxType ==
  ASSUME NEW P, NEW I
  PROVE  /\ EmptyInbox \in [alerts : Seq(P), seen : Seq(I)]
         /\ Len(EmptyInbox.alerts) <= InboxMax /\ Len(EmptyInbox.seen) <= DedupSize
         /\ Displayed(EmptyInbox) = {}
  BY InboxAssumption DEF EmptyInbox, Displayed

-------------------------------------------------------------------------------
(* Nothing is displayed, queued or on the air at first, strays excepted.   *)
LEMMA InitMesh == Init => MeshInv
<1> SUFFICES ASSUME Init PROVE MeshInv
  OBVIOUS
<1>1. TypeOK
  <2>1. inbox \in [Node -> [alerts : Seq(Packet), seen : Seq(Node \X Stamp)]]
    BY EmptyInboxType DEF Init
  <2>2. \A n \in Node : Len(inbox[n].alerts) <= InboxMax /\ Len(inbox[n].seen) <= DedupSize
    BY EmptyInboxType DEF Init
  <2>3. air \subseteq Entry
    BY MeshAssumption DEF Init, Entry, Frame
  <2>4. /\ queue \in [Node -> Seq(Frame)]
        /\ \A n \in Node : Len(queue[n]) <= RadioQueue
        /\ sent \in [Node -> Seq(Node \X Stamp)]
    BY MeshAssumption DEF Init
  <2>5. /\ now \in 0..MaxTime
        /\ lastPub \in [Node -> -1..MaxTime]
        /\ upAt \in [Node -> 0..(MaxTime + RestartSec)]
        /\ published \subseteq Packet
        /\ offset \in [Node -> 0..MaxSkew] /\ setBack \subseteq Node
    BY MeshAssumption DEF Init
  <2> QED BY <2>1, <2>2, <2>3, <2>4, <2>5 DEF TypeOK
<1>2. Authentic
  BY EmptyInboxType DEF Init, Authentic
<1>3. OnlyPublishedOnAir /\ StraysNotSigned
  BY MeshAssumption DEF Init, OnlyPublishedOnAir, StraysNotSigned
<1>4. QueueHonest
  BY DEF Init, QueueHonest
<1> QED BY <1>1, <1>2, <1>3, <1>4 DEF MeshInv

(* An accepted local alert joins the published ones before anything shows  *)
(* it or carries it.                                                       *)
LEMMA PublishMesh ==
  ASSUME MeshInv, NEW n \in Node, NEW b \in Body, Publish(n, b)
  PROVE  MeshInv'
<1> DEFINE p == [src |-> n, ts |-> Wall(n), body |-> b]
           f == [pkt |-> p, hop |-> 0, sig |-> n]
<1>1. p \in Packet /\ f \in Frame /\ Uid(p) \in Ids
  <2>1. p \in Packet
    BY WallTyped DEF Packet
  <2>2. f \in Frame
    BY <2>1, MeshAssumption DEF Frame
  <2> QED BY <2>1, <2>2, PacketId
<1>2. lastPub' \in [Node -> -1..MaxTime]
  BY MeshAssumption DEF Publish, MeshInv, TypeOK
<1>3. CASE UNCHANGED <<inbox, published, queue>>
  <2>1. TypeOK'
    BY <1>2, <1>3 DEF Publish, MeshInv, TypeOK
  <2>2. Authentic' /\ OnlyPublishedOnAir' /\ QueueHonest' /\ StraysNotSigned'
    BY <1>3 DEF Publish, MeshInv, Authentic, OnlyPublishedOnAir, QueueHonest,
                StraysNotSigned
  <2> QED BY <2>1, <2>2 DEF MeshInv
<1>4. CASE /\ inbox' = [inbox EXCEPT ![n] = Push(@, p)]
           /\ published' = published \cup {p}
           /\ queue' = [queue EXCEPT ![n] = Enqueue(@, f)]
  <2> HIDE DEF f
  <2>1. /\ inbox[n] \in [alerts : Seq(Packet), seen : Seq(Ids)]
        /\ Len(inbox[n].alerts) <= InboxMax /\ Len(inbox[n].seen) <= DedupSize
        /\ queue[n] \in Seq(Frame) /\ Len(queue[n]) <= RadioQueue
    BY DEF MeshInv, TypeOK, Ids
  <2>2. /\ Push(inbox[n], p) \in [alerts : Seq(Packet), seen : Seq(Ids)]
        /\ Len(Push(inbox[n], p).alerts) <= InboxMax
        /\ Len(Push(inbox[n], p).seen) <= DedupSize
        /\ Displayed(Push(inbox[n], p)) \subseteq Displayed(inbox[n]) \cup {p}
    BY <1>1, <2>1, PushType, PushDisplayed
  <2>3. /\ Enqueue(queue[n], f) \in Seq(Frame)
        /\ Len(Enqueue(queue[n], f)) <= RadioQueue
        /\ \A i \in DOMAIN Enqueue(queue[n], f) :
             \/ Enqueue(queue[n], f)[i] = f
             \/ i \in DOMAIN queue[n] /\ Enqueue(queue[n], f)[i] = queue[n][i]
    BY <1>1, <2>1, EnqueueFacts
  <2>4. TypeOK'
    <3>1. /\ inbox' \in [Node -> [alerts : Seq(Packet), seen : Seq(Ids)]]
          /\ \A m \in Node : /\ Len(inbox'[m].alerts) <= InboxMax
                             /\ Len(inbox'[m].seen) <= DedupSize
      BY <1>4, <2>2 DEF MeshInv, TypeOK, Ids
    <3>2. /\ queue' \in [Node -> Seq(Frame)]
          /\ \A m \in Node : Len(queue'[m]) <= RadioQueue
      BY <1>4, <2>3 DEF MeshInv, TypeOK
    <3>3. published' \subseteq Packet
      BY <1>1, <1>4 DEF MeshInv, TypeOK
    <3> QED BY <1>2, <3>1, <3>2, <3>3 DEF Publish, MeshInv, TypeOK, Ids
  <2>5. Authentic'
    <3> SUFFICES ASSUME NEW m \in Node, NEW q \in Displayed(inbox'[m])
                 PROVE  q \in published' /\ q.src \in Trusts[m]
      BY DEF Authentic
    <3>1. CASE q \in Displayed(inbox[m])
      BY <3>1, <1>4 DEF MeshInv, Authentic
    <3>2. CASE q \notin Displayed(inbox[m])
      <4>1. m = n /\ q = p
        BY <3>2, <1>4, <2>2 DEF MeshInv, TypeOK
      <4> QED BY <4>1, <1>4, MeshAssumption
    <3> QED BY <3>1, <3>2
  <2>6. OnlyPublishedOnAir' /\ StraysNotSigned'
    BY <1>4 DEF Publish, MeshInv, OnlyPublishedOnAir, StraysNotSigned
  <2>7. QueueHonest'
    <3>1. f.pkt \in published' /\ f.sig = f.pkt.src
      BY <1>4 DEF f
    <3> SUFFICES ASSUME NEW m \in Node, NEW i \in DOMAIN queue'[m]
                 PROVE  queue'[m][i].pkt \in published' /\ queue'[m][i].sig = queue'[m][i].pkt.src
      BY DEF QueueHonest
    <3>2. CASE m # n
      BY <3>2, <1>4 DEF MeshInv, TypeOK, QueueHonest
    <3>3. CASE m = n
      <4>1. queue'[m] = Enqueue(queue[n], f)
        BY <3>3, <1>4 DEF MeshInv, TypeOK
      <4>2. queue'[m][i] = f \/ (i \in DOMAIN queue[n] /\ queue'[m][i] = queue[n][i])
        BY <4>1, <2>3
      <4> QED BY <4>2, <3>1, <3>3, <1>4 DEF MeshInv, QueueHonest
    <3> QED BY <3>2, <3>3
  <2> QED BY <2>4, <2>5, <2>6, <2>7 DEF MeshInv
<1> QED BY <1>3, <1>4 DEF Publish

(* What leaves a queue is published and signed.                            *)
LEMMA TransmitMesh ==
  ASSUME MeshInv, NEW n \in Node, Transmit(n)
  PROVE  MeshInv'
<1> DEFINE q == queue[n]
           e == [frame |-> Head(q), by |-> n]
<1>1. q \in Seq(Frame) /\ q # <<>> /\ Len(q) <= RadioQueue
  BY DEF Transmit, MeshInv, TypeOK
<1>2. /\ Head(q) \in Frame
      /\ 1 \in DOMAIN q /\ Head(q) = q[1]
      /\ Tail(q) \in Seq(Frame) /\ Len(Tail(q)) <= Len(q)
      /\ \A i \in DOMAIN Tail(q) : i + 1 \in DOMAIN q /\ Tail(q)[i] = q[i+1]
  BY <1>1, HeadTail
<1>3. Head(q).pkt \in published /\ Head(q).sig = Head(q).pkt.src
  BY <1>2 DEF MeshInv, QueueHonest
<1>4. e \in Entry /\ Uid(Head(q).pkt) \in Ids
  BY <1>2, PacketId DEF Entry, Frame
<1> HIDE DEF e
<1>5. air' = air \cup {e} /\ queue' = [queue EXCEPT ![n] = Tail(q)]
  BY DEF Transmit, e
<1>6. TypeOK'
  <2>1. sent' \in [Node -> Seq(Ids)]
    BY <1>4, SentAppend DEF Transmit
  <2>2. /\ queue' \in [Node -> Seq(Frame)]
        /\ \A m \in Node : Len(queue'[m]) <= RadioQueue
    <3>1. Len(Tail(q)) <= RadioQueue
      BY <1>1, <1>2, MeshAssumption
    <3> QED BY <1>2, <1>5, <3>1 DEF MeshInv, TypeOK
  <2> QED BY <1>4, <1>5, <2>1, <2>2 DEF Transmit, MeshInv, TypeOK, Ids
<1>7. Authentic'
  BY DEF Transmit, MeshInv, Authentic
<1>8. OnlyPublishedOnAir' /\ StraysNotSigned'
  <2>1. e.by # Foreign /\ e.frame.pkt \in published /\ e.frame.sig = e.frame.pkt.src
    BY <1>3, MeshAssumption DEF e
  <2> QED BY <1>5, <2>1 DEF Transmit, MeshInv, OnlyPublishedOnAir, StraysNotSigned
<1>9. QueueHonest'
  <2> SUFFICES ASSUME NEW m \in Node, NEW i \in DOMAIN queue'[m]
               PROVE  queue'[m][i].pkt \in published' /\ queue'[m][i].sig = queue'[m][i].pkt.src
    BY DEF QueueHonest
  <2>1. published' = published
    BY DEF Transmit
  <2>2. CASE m # n
    BY <2>1, <2>2, <1>5 DEF MeshInv, TypeOK, QueueHonest
  <2>3. CASE m = n
    <3>1. queue'[m] = Tail(q)
      BY <2>3, <1>5 DEF MeshInv, TypeOK
    <3>2. i + 1 \in DOMAIN q /\ queue'[m][i] = q[i+1]
      BY <3>1, <1>2
    <3> QED BY <3>2, <2>1 DEF MeshInv, QueueHonest
  <2> QED BY <2>2, <2>3
<1> QED BY <1>6, <1>7, <1>8, <1>9 DEF MeshInv

(* A verified frame does not come from outside, so its packet is published; *)
(* it is displayed where its source is trusted and relayed as it is.        *)
LEMMA ReceiveMesh ==
  ASSUME MeshInv, NEW n \in Node, NEW e \in air, Receive(n, e)
  PROVE  MeshInv'
<1> DEFINE f == e.frame
           p == e.frame.pkt
           g == [frame |-> [f EXCEPT !.hop = @ + 1], by |-> n]
<1>1. e \in Entry /\ f \in Frame /\ p \in Packet /\ Uid(p) \in Ids
  BY PacketId DEF MeshInv, TypeOK, Entry, Frame
<1>2. e.by # Foreign
  BY DEF Receive, Verify, MeshInv, StraysNotSigned
<1>3. p \in published /\ f.sig = p.src /\ p.src \in Trusts[n]
  BY <1>2 DEF Receive, Verify, MeshInv, OnlyPublishedOnAir
<1>4. /\ inbox[n] \in [alerts : Seq(Packet), seen : Seq(Ids)]
      /\ Len(inbox[n].alerts) <= InboxMax /\ Len(inbox[n].seen) <= DedupSize
  BY DEF MeshInv, TypeOK, Ids
<1>5. /\ Push(inbox[n], p) \in [alerts : Seq(Packet), seen : Seq(Ids)]
      /\ Len(Push(inbox[n], p).alerts) <= InboxMax
      /\ Len(Push(inbox[n], p).seen) <= DedupSize
      /\ Displayed(Push(inbox[n], p)) \subseteq Displayed(inbox[n]) \cup {p}
  BY <1>1, <1>4, PushType, PushDisplayed
<1>6. inbox' = [inbox EXCEPT ![n] = Push(@, p)] /\ published' = published /\ queue' = queue
  BY DEF Receive
<1>7. /\ air' \subseteq air \cup {g}
      /\ f.hop < MaxHop \/ air' = air
      /\ sent' \in [Node -> Seq(Ids)]
  <2>1. CASE /\ f.hop < MaxHop
             /\ air' = air \cup {g}
             /\ sent' = [sent EXCEPT ![n] = Append(@, Uid(p))]
    BY <2>1, <1>1, SentAppend
  <2>2. CASE UNCHANGED <<air, sent>>
    BY <2>2 DEF MeshInv, TypeOK, Ids
  <2> QED BY <2>1, <2>2 DEF Receive, Relay
<1>8. f.hop < MaxHop => g \in Entry
  BY <1>1, MeshAssumption DEF Entry, Frame
<1>9. g.by # Foreign /\ g.frame.pkt = p /\ g.frame.sig = p.src
  BY <1>1, <1>3, MeshAssumption DEF Frame
<1> HIDE DEF g
<1>10. TypeOK'
  <2>1. air' \subseteq Entry
    BY <1>7, <1>8 DEF MeshInv, TypeOK
  <2>2. /\ inbox' \in [Node -> [alerts : Seq(Packet), seen : Seq(Ids)]]
        /\ \A m \in Node : /\ Len(inbox'[m].alerts) <= InboxMax
                           /\ Len(inbox'[m].seen) <= DedupSize
    BY <1>5, <1>6 DEF MeshInv, TypeOK, Ids
  <2> QED BY <1>6, <1>7, <2>1, <2>2 DEF Receive, MeshInv, TypeOK, Ids
<1>11. Authentic'
  <2> SUFFICES ASSUME NEW m \in Node, NEW q \in Displayed(inbox'[m])
               PROVE  q \in published /\ q.src \in Trusts[m]
    BY <1>6 DEF Authentic
  <2>1. CASE q \in Displayed(inbox[m])
    BY <2>1 DEF MeshInv, Authentic
  <2>2. CASE q \notin Displayed(inbox[m])
    <3>1. m = n /\ q = p
      BY <2>2, <1>5, <1>6 DEF MeshInv, TypeOK
    <3> QED BY <3>1, <1>3
  <2> QED BY <2>1, <2>2
<1>12. OnlyPublishedOnAir' /\ StraysNotSigned'
  BY <1>3, <1>6, <1>7, <1>9 DEF MeshInv, OnlyPublishedOnAir, StraysNotSigned
<1>13. QueueHonest'
  BY <1>6 DEF MeshInv, QueueHonest
<1> QED BY <1>10, <1>11, <1>12, <1>13 DEF MeshInv

(* A node that stops keeps nothing.                                        *)
LEMMA StopMesh ==
  ASSUME MeshInv, NEW n \in Node, Stop(n)
  PROVE  MeshInv'
<1>1. inbox' = [inbox EXCEPT ![n] = EmptyInbox] /\ queue' = [queue EXCEPT ![n] = <<>>]
  BY DEF Stop
<1>2. TypeOK'
  <2>1. /\ inbox' \in [Node -> [alerts : Seq(Packet), seen : Seq(Node \X Stamp)]]
        /\ \A m \in Node : /\ Len(inbox'[m].alerts) <= InboxMax
                           /\ Len(inbox'[m].seen) <= DedupSize
    BY <1>1, EmptyInboxType DEF MeshInv, TypeOK
  <2>2. /\ queue' \in [Node -> Seq(Frame)]
        /\ \A m \in Node : Len(queue'[m]) <= RadioQueue
        /\ sent' \in [Node -> Seq(Node \X Stamp)]
    <3>1. sent' = [sent EXCEPT ![n] = <<>>] /\ 0 <= RadioQueue /\ Len(<<>>) = 0
      BY MeshAssumption DEF Stop
    <3>2. /\ queue' \in [Node -> Seq(Frame)]
          /\ sent' \in [Node -> Seq(Node \X Stamp)]
      <4>1. queue \in [Node -> Seq(Frame)] /\ <<>> \in Seq(Frame)
        BY DEF MeshInv, TypeOK
      <4>2. sent \in [Node -> Seq(Node \X Stamp)] /\ <<>> \in Seq(Node \X Stamp)
        BY DEF MeshInv, TypeOK
      <4> QED BY <4>1, <4>2, <1>1, <3>1
    <3>3. \A m \in Node : queue'[m] = IF m = n THEN <<>> ELSE queue[m]
      BY <1>1 DEF MeshInv, TypeOK
    <3>4. \A m \in Node : Len(queue[m]) <= RadioQueue
      BY DEF MeshInv, TypeOK
    <3> QED BY <3>1, <3>2, <3>3, <3>4
  <2>3. /\ lastPub' \in [Node -> -1..MaxTime]
        /\ upAt' \in [Node -> 0..(MaxTime + RestartSec)]
    <3>1. now \in 0..MaxTime /\ MaxTime \in Nat /\ RestartSec \in Nat
      BY MeshAssumption DEF MeshInv, TypeOK
    <3>2. -1 \in -1..MaxTime /\ now + RestartSec \in 0..(MaxTime + RestartSec)
      BY <3>1
    <3> QED BY <3>2 DEF Stop, MeshInv, TypeOK
  <2> QED BY <2>1, <2>2, <2>3 DEF Stop, MeshInv, TypeOK
<1>3. Authentic'
  BY <1>1, EmptyInboxType DEF Stop, MeshInv, TypeOK, Authentic
<1>4. OnlyPublishedOnAir' /\ StraysNotSigned'
  BY DEF Stop, MeshInv, OnlyPublishedOnAir, StraysNotSigned
<1>5. QueueHonest'
  BY <1>1 DEF Stop, MeshInv, TypeOK, QueueHonest
<1> QED BY <1>2, <1>3, <1>4, <1>5 DEF MeshInv

(* Every step keeps the invariant.                                         *)
LEMMA NextMesh == MeshInv /\ [Next]_vars => MeshInv'
<1> SUFFICES ASSUME MeshInv, [Next]_vars PROVE MeshInv'
  OBVIOUS
<1>1. CASE UNCHANGED vars
  BY <1>1 DEF MeshInv, TypeOK, Authentic, OnlyPublishedOnAir, QueueHonest,
              StraysNotSigned, vars
<1>2. CASE Tick
  BY <1>2, MeshAssumption
     DEF Tick, MeshInv, TypeOK, Authentic, OnlyPublishedOnAir, QueueHonest, StraysNotSigned
<1>3. ASSUME NEW n \in Node, NEW e \in air, Discard(n, e) PROVE MeshInv'
  BY <1>1, <1>3 DEF Discard
<1>4. ASSUME NEW n \in Node, NEW o \in 0..MaxSkew, SetClock(n, o) PROVE MeshInv'
  BY <1>4, MeshAssumption
     DEF SetClock, MeshInv, TypeOK, Authentic, OnlyPublishedOnAir, QueueHonest, StraysNotSigned
<1>5. Unsteady \subseteq Node
  BY MeshAssumption
<1> QED BY <1>1, <1>2, <1>3, <1>4, <1>5, PublishMesh, TransmitMesh, ReceiveMesh, StopMesh
        DEF Next, CalmNext

-------------------------------------------------------------------------------
(* The invariant holds in every reachable state.                           *)
THEOREM MeshInvariant == Spec => []MeshInv
  BY InitMesh, NextMesh, PTL DEF Spec

(* Type correctness: every collection within its limit, no frame beyond    *)
(* the hop cap.                                                            *)
THEOREM MeshTypeCorrect == Spec => []TypeOK
<1>1. MeshInv => TypeOK
  BY DEF MeshInv
<1> QED BY <1>1, MeshInvariant, PTL

(* No node displays an alert its named source did not publish.             *)
THEOREM MeshAuthentic == Spec => []Authentic
<1>1. MeshInv => Authentic
  BY DEF MeshInv
<1> QED BY <1>1, MeshInvariant, PTL

(* No node puts on the air an alert its named source did not publish.      *)
THEOREM MeshRelaysOnlyPublished == Spec => []OnlyPublishedOnAir
<1>1. MeshInv => OnlyPublishedOnAir
  BY DEF MeshInv
<1> QED BY <1>1, MeshInvariant, PTL

-------------------------------------------------------------------------------
(* The inbox of a node, its parts and its limits.                          *)
LEMMA InboxTyped ==
  ASSUME MeshInv, NEW n \in Node
  PROVE  /\ inbox[n] \in [alerts : Seq(Packet), seen : Seq(Ids)]
         /\ Len(inbox[n].alerts) <= InboxMax /\ Len(inbox[n].seen) <= DedupSize
  BY DEF MeshInv, TypeOK, Ids

(* What is accepted is young enough and not remembered.                    *)
LEMMA AcceptedFacts ==
  ASSUME NEW ib, NEW p, NEW t, Verdict(ib, p, t) = "Accepted"
  PROVE  ~(t - p.ts > MaxAge) /\ Uid(p) \notin Seen(ib)
  BY DEF Verdict, Age

(* What a node receives and admits was published and is new to its inbox.  *)
LEMMA ReceiveFacts ==
  ASSUME MeshInv, NEW n \in Node, NEW e \in air, Receive(n, e)
  PROVE  LET p == e.frame.pkt IN
         /\ p \in published /\ p \in Packet /\ p.src \in Trusts[n]
         /\ ~(now - p.ts > MaxAge) /\ Uid(p) \notin Seen(inbox[n])
         /\ inbox' = [inbox EXCEPT ![n] = Push(@, p)]
<1>1. e.frame.pkt \in Packet
  BY DEF MeshInv, TypeOK, Entry, Frame
<1>2. e.by # Foreign
  BY DEF Receive, Verify, MeshInv, StraysNotSigned
<1>3. e.frame.pkt \in published /\ e.frame.pkt.src \in Trusts[n]
  BY <1>2 DEF Receive, Verify, MeshInv, OnlyPublishedOnAir
<1>4. ~(now - e.frame.pkt.ts > MaxAge) /\ Uid(e.frame.pkt) \notin Seen(inbox[n])
  <2>1. ~(Wall(n) - e.frame.pkt.ts > MaxAge) /\ Uid(e.frame.pkt) \notin Seen(inbox[n])
    BY AcceptedFacts DEF Receive
  <2>2. e.frame.pkt.ts \in Nat
    BY <1>1, MeshAssumption DEF Packet, Stamp
  <2>3. now <= Wall(n) /\ now \in Nat /\ Wall(n) \in Nat /\ MaxAge \in Nat
    BY WallTyped, MeshAssumption, InboxAssumption DEF Stamp
  <2> QED BY <2>1, <2>2, <2>3
<1> QED BY <1>1, <1>3, <1>4 DEF Receive

(* Published alerts come from nodes; their stamps are numbers.             *)
LEMMA PublishedTyped ==
  ASSUME MeshInv, NEW q \in published
  PROVE  q \in Packet /\ q.src \in Node /\ q.ts \in Nat
<1>1. q \in Packet
  BY DEF MeshInv, TypeOK
<1> QED BY <1>1, MeshAssumption DEF Packet, Stamp

(* What FreshIds says of the alerts of a clock that was not set back.      *)
LEMMA FreshOf ==
  ASSUME FreshIds, NEW q \in published, q.src \notin setBack
  PROVE  /\ q.ts <= Wall(q.src)
         /\ q.ts = Wall(q.src) => lastPub[q.src] = now \/ ~Up(q.src)
         /\ \A r \in published : Uid(q) = Uid(r) => q = r
  BY DEF FreshIds

(* An alert a portal may publish now has an identifier of its own, if its  *)
(* clock was not set back.                                                 *)
LEMMA PublishedIsFresh ==
  ASSUME MeshInv, FreshIds, NEW n \in Node, NEW b \in Body, Publish(n, b),
         NEW q \in published, n \notin setBack
  PROVE  ~(q.src = n /\ q.ts = Wall(n))
<1> SUFFICES ASSUME q.src = n, q.ts = Wall(n) PROVE FALSE
  OBVIOUS
<1>1. lastPub[n] = now \/ ~Up(n)
  BY FreshOf
<1>2. now \in Nat /\ now - now = 0 /\ PublishInterval \in Nat \ {0}
  BY MeshAssumption DEF MeshInv, TypeOK
<1>3. Up(n) /\ (lastPub[n] = -1 \/ now - lastPub[n] >= PublishInterval)
  BY DEF Publish, MayPublish
<1> QED BY <1>1, <1>2, <1>3

(* A clock that is set leads further or has been set back.                 *)
LEMMA ClockIsSet ==
  ASSUME MeshInv, NEW n \in Node, NEW o \in 0..MaxSkew, SetClock(n, o)
  PROVE  /\ \A m \in Node : m # n => Wall(m)' = Wall(m)
         /\ n \in setBack' \/ Wall(n) < Wall(n)'
         /\ setBack \subseteq setBack'
<1>1. /\ offset' = [offset EXCEPT ![n] = o] /\ now' = now /\ o # offset[n]
      /\ setBack' = IF o < offset[n] THEN setBack \cup {n} ELSE setBack
  BY DEF SetClock
<1>2. offset'[n] = o /\ \A m \in Node : m # n => offset'[m] = offset[m]
  BY <1>1 DEF MeshInv, TypeOK
<1>3. o \in Nat /\ offset[n] \in Nat /\ now \in Nat
  BY WallTyped, MeshAssumption
<1>4. n \in setBack' \/ Wall(n) < Wall(n)'
  BY <1>1, <1>2, <1>3 DEF Wall
<1> QED BY <1>1, <1>2, <1>4 DEF Wall

(* Whoever may still publish in this second has not done it yet.           *)
LEMMA NextFreshIds == MeshInv /\ FreshIds /\ [Next]_vars => FreshIds'
<1> SUFFICES ASSUME MeshInv, FreshIds, [Next]_vars PROVE FreshIds'
  OBVIOUS
<1>1. /\ now \in Nat /\ MaxSkew \in Nat
      /\ \A q \in published : q.ts \in Nat /\ q.src \in Node /\ q.ts <= now + MaxSkew
      /\ \A m \in Node : Wall(m) \in Nat /\ Wall(m) <= now + MaxSkew
  <2>1. /\ now \in Nat /\ MaxSkew \in Nat
        /\ \A m \in Node : Wall(m) \in Stamp /\ Wall(m) <= now + MaxSkew
    <3>1. now \in 0..MaxTime /\ MaxSkew \in Nat
      BY MeshAssumption DEF MeshInv, TypeOK
    <3> QED BY <3>1, WallTyped
  <2>2. \A q \in published : q.ts <= now + MaxSkew
    BY DEF FreshIds
  <2> QED BY <2>1, <2>2, PublishedTyped, MeshAssumption DEF Stamp
<1>2. ASSUME UNCHANGED <<published, now, offset, lastPub, upAt, setBack>> PROVE FreshIds'
  BY <1>2 DEF FreshIds, Up, Wall
<1>3. ASSUME NEW n \in Node, NEW b \in Body, Publish(n, b) PROVE FreshIds'
  <2> DEFINE p == [src |-> n, ts |-> Wall(n), body |-> b]
  <2>1. /\ now' = now /\ setBack' = setBack /\ lastPub' = [lastPub EXCEPT ![n] = now]
        /\ published' \subseteq published \cup {p} /\ published \subseteq published'
        /\ \A m : Up(m)' = Up(m) /\ Wall(m)' = Wall(m)
    BY <1>3 DEF Publish, Up, Wall
  <2>2. n \notin setBack => \A q \in published : Uid(q) # Uid(p)
    BY <1>3, PublishedIsFresh DEF Uid
  <2>3. p.src = n /\ p.ts = Wall(n)
    OBVIOUS
  <2> HIDE DEF p
  <2>4. lastPub'[n] = now /\ \A m \in Node : m # n => lastPub'[m] = lastPub[m]
    BY <2>1 DEF MeshInv, TypeOK
  <2>5. ASSUME NEW q \in published', q.src \notin setBack
        PROVE  /\ q.ts <= Wall(q.src)
               /\ q.ts = Wall(q.src) => lastPub'[q.src] = now \/ ~Up(q.src)
               /\ \A r \in published' : Uid(q) = Uid(r) => q = r
    <3>1. CASE q = p
      <4>1. \A r \in published' : Uid(q) = Uid(r) => q = r
        BY <3>1, <2>1, <2>2, <2>3, <2>5
      <4> QED BY <3>1, <4>1, <2>3, <2>4, <1>1
    <3>2. CASE q \in published
      <4>1. \A r \in published : Uid(q) = Uid(r) => q = r
        BY <3>2, <2>5, FreshOf
      <4>2. Uid(q) = Uid(p) => q.src = n
        BY <2>3 DEF Uid
      <4>3. \A r \in published' : Uid(q) = Uid(r) => q = r
        BY <3>2, <4>1, <4>2, <2>1, <2>2, <2>5
      <4> QED BY <3>2, <4>3, <1>1, <2>4, <2>5, FreshOf
    <3> QED BY <2>1, <3>1, <3>2
  <2>6. \A q \in published' : q.ts <= now + MaxSkew
    BY <1>1, <2>1, <2>3
  <2> QED BY <2>1, <2>5, <2>6 DEF FreshIds
<1>4. ASSUME NEW n \in Node, Stop(n) PROVE FreshIds'
  <2>1. /\ now' = now /\ published' = published /\ setBack' = setBack
        /\ upAt' = [upAt EXCEPT ![n] = now + RestartSec]
        /\ lastPub' = [lastPub EXCEPT ![n] = -1]
        /\ \A m : Wall(m)' = Wall(m)
    BY <1>4 DEF Stop, Wall
  <2>2. /\ upAt'[n] = now + RestartSec
        /\ \A m \in Node : m # n => upAt'[m] = upAt[m] /\ lastPub'[m] = lastPub[m]
    BY <2>1 DEF MeshInv, TypeOK
  <2>3. ~Up(n)' /\ \A m \in Node : m # n => Up(m)' = Up(m)
    BY <2>1, <2>2, <1>1, MeshAssumption DEF Up
  <2>4. ASSUME NEW q \in published, q.src \notin setBack
        PROVE  /\ q.ts <= Wall(q.src)
               /\ q.ts = Wall(q.src) => lastPub'[q.src] = now \/ ~Up(q.src)'
               /\ \A r \in published : Uid(q) = Uid(r) => q = r
    BY <1>1, <2>2, <2>3, <2>4, FreshOf
  <2> QED BY <1>1, <2>1, <2>4 DEF FreshIds
<1>5. CASE Tick
  <2>1. /\ now' = now + 1 /\ published' = published /\ setBack' = setBack
        /\ \A m \in Node : Wall(m)' = now + 1 + offset[m] /\ Wall(m) = now + offset[m]
    BY <1>5 DEF Tick, Wall
  <2>2. \A m \in Node : offset[m] \in Nat
    BY MeshAssumption DEF MeshInv, TypeOK
  <2>3. ASSUME NEW q \in published, q.src \notin setBack
        PROVE  /\ q.ts <= Wall(q.src)' /\ q.ts # Wall(q.src)'
               /\ \A r \in published : Uid(q) = Uid(r) => q = r
    <3>1. q.ts <= Wall(q.src) /\ \A r \in published : Uid(q) = Uid(r) => q = r
      BY <2>3, FreshOf
    <3> QED BY <3>1, <1>1, <2>1, <2>2
  <2>4. \A q \in published : q.ts <= now' + MaxSkew
    BY <1>1, <2>1
  <2> QED BY <2>1, <2>3, <2>4 DEF FreshIds
<1>6. ASSUME NEW n \in Node, Transmit(n) PROVE FreshIds'
  BY <1>2, <1>6 DEF Transmit
<1>7. ASSUME NEW n \in Node, NEW e \in air, Receive(n, e) \/ Discard(n, e) PROVE FreshIds'
  BY <1>2, <1>7 DEF Receive, Discard, vars
<1>8. ASSUME NEW n \in Node, NEW o \in 0..MaxSkew, SetClock(n, o) PROVE FreshIds'
  <2>1. /\ published' = published /\ now' = now /\ lastPub' = lastPub
        /\ \A m : Up(m)' = Up(m)
    BY <1>8 DEF SetClock, Up
  <2>2. /\ \A m \in Node : m # n => Wall(m)' = Wall(m)
        /\ n \in setBack' \/ Wall(n) < Wall(n)'
        /\ setBack \subseteq setBack'
    BY <1>8, ClockIsSet
  <2>3. ASSUME NEW q \in published, q.src \notin setBack'
        PROVE  /\ q.ts <= Wall(q.src)'
               /\ q.ts = Wall(q.src)' => lastPub'[q.src] = now \/ ~Up(q.src)
               /\ \A r \in published : Uid(q) = Uid(r) => q = r
    <3>1. q.src \notin setBack
      BY <2>2, <2>3
    <3>2. /\ q.ts <= Wall(q.src)
          /\ q.ts = Wall(q.src) => lastPub[q.src] = now \/ ~Up(q.src)
          /\ \A r \in published : Uid(q) = Uid(r) => q = r
      BY <3>1, FreshOf
    <3>3. CASE q.src # n
      BY <3>2, <3>3, <2>1, <2>2, <1>1
    <3>4. CASE q.src = n
      <4>1. Wall(n) < Wall(n)' /\ q.ts \in Nat /\ Wall(n) \in Nat /\ Wall(n)' \in Int
        <5>1. offset'[n] = o /\ now' = now
          BY <1>8 DEF SetClock, MeshInv, TypeOK
        <5>2. Wall(n)' \in Int
          BY <5>1, <1>1, MeshAssumption DEF Wall
        <5> QED BY <5>2, <3>4, <1>1, <2>2, <2>3
      <4> QED BY <3>2, <3>4, <4>1
    <3> QED BY <3>3, <3>4
  <2> QED BY <1>1, <2>1, <2>3 DEF FreshIds
<1>9. Unsteady \subseteq Node
  BY MeshAssumption
<1> QED BY <1>2, <1>3, <1>4, <1>5, <1>6, <1>7, <1>8, <1>9 DEF Next, CalmNext, vars

(* Only an admission or a stop touches an inbox.                           *)
LEMMA NextCoherent == MeshInv /\ InboxesCoherent /\ [Next]_vars => InboxesCoherent'
<1> SUFFICES ASSUME MeshInv, InboxesCoherent, [Next]_vars, NEW m \in Node
             PROVE  Coherent(inbox'[m])
  BY DEF InboxesCoherent
<1>1. Coherent(inbox[m])
  BY DEF InboxesCoherent
<1>2. inbox' = inbox => Coherent(inbox'[m])
  BY <1>1
<1>3. ASSUME NEW n \in Node, NEW p \in Packet, Uid(p) \notin Seen(inbox[n]),
             inbox' = [inbox EXCEPT ![n] = Push(@, p)]
      PROVE  Coherent(inbox'[m])
  <2>1. CASE m = n
    <3>1. inbox'[m] = Push(inbox[n], p)
      BY <2>1, <1>3 DEF MeshInv, TypeOK
    <3>2. Uid(p) \in Ids /\ Coherent(inbox[n])
      BY PacketId DEF InboxesCoherent
    <3> QED BY <3>1, <3>2, <1>3, InboxTyped, PushCoherent
  <2>2. CASE m # n
    BY <2>2, <1>1, <1>3 DEF MeshInv, TypeOK
  <2> QED BY <2>1, <2>2
<1>4. ASSUME NEW n \in Node, NEW b \in Body, Publish(n, b) PROVE Coherent(inbox'[m])
  <2> DEFINE p == [src |-> n, ts |-> Wall(n), body |-> b]
  <2>1. p \in Packet
    BY WallTyped DEF Packet
  <2>2. \/ inbox' = inbox
        \/ Uid(p) \notin Seen(inbox[n]) /\ inbox' = [inbox EXCEPT ![n] = Push(@, p)]
    BY <1>4, AcceptedFacts DEF Publish
  <2> QED BY <2>1, <2>2, <1>2, <1>3
<1>5. ASSUME NEW n \in Node, NEW e \in air, Receive(n, e) PROVE Coherent(inbox'[m])
  BY <1>5, <1>3, ReceiveFacts
<1>6. ASSUME NEW n \in Node, Stop(n) PROVE Coherent(inbox'[m])
  <2>1. inbox'[m] = IF m = n THEN EmptyInbox ELSE inbox[m]
    BY <1>6 DEF Stop, MeshInv, TypeOK
  <2> QED BY <2>1, <1>1, EmptyCoherent
<1>7. CASE Tick \/ UNCHANGED vars
  BY <1>2, <1>7 DEF Tick, vars
<1>8. ASSUME NEW n \in Node, Transmit(n) PROVE Coherent(inbox'[m])
  BY <1>2, <1>8 DEF Transmit
<1>9. ASSUME NEW n \in Node, NEW e \in air, Discard(n, e) PROVE Coherent(inbox'[m])
  BY <1>2, <1>9 DEF Discard, vars
<1>10. ASSUME NEW n \in Unsteady, NEW o \in 0..MaxSkew, SetClock(n, o) PROVE Coherent(inbox'[m])
  BY <1>2, <1>10 DEF SetClock
<1> QED BY <1>4, <1>5, <1>6, <1>7, <1>8, <1>9, <1>10 DEF Next, CalmNext

(* BroadcastInv holds at first.                                            *)
LEMMA InitBroadcast == Init => BroadcastInv
<1> SUFFICES ASSUME Init PROVE BroadcastInv
  OBVIOUS
<1>1. FreshIds
  BY DEF Init, FreshIds
<1>2. InboxesCoherent
  BY EmptyCoherent DEF Init, InboxesCoherent
<1> QED BY <1>1, <1>2, InitMesh DEF BroadcastInv

(* Every step keeps it.                                                    *)
LEMMA NextBroadcast == BroadcastInv /\ [Next]_vars => BroadcastInv'
  BY NextMesh, NextFreshIds, NextCoherent DEF BroadcastInv

(* BroadcastInv holds in every reachable state.                            *)
THEOREM BroadcastInvariant == Spec => []BroadcastInv
  BY InitBroadcast, NextBroadcast, PTL DEF Spec

(* Two texts under one identifier are on display in the mesh only if the   *)
(* clock of their source has been set back: no portal publishes twice in   *)
(* one second, a restart included, and no other clock matters.             *)
THEOREM MeshOneText == Spec => []OneTextPerIdentifier
<1>1. BroadcastInv => OneTextPerIdentifier
  <2> SUFFICES ASSUME BroadcastInv, NEW m \in Node, NEW n \in Node,
                      NEW p \in Displayed(inbox[m]), NEW q \in Displayed(inbox[n]),
                      Uid(p) = Uid(q), p.src \notin setBack
               PROVE  p.body = q.body
    BY DEF OneTextPerIdentifier
  <2>1. p \in published /\ q \in published /\ FreshIds
    BY DEF BroadcastInv, MeshInv, Authentic
  <2> QED BY <2>1, FreshOf
<1> QED BY <1>1, BroadcastInvariant, PTL

-------------------------------------------------------------------------------
(* The identifiers on display are remembered.                              *)
LEMMA DisplayedIsSeen ==
  ASSUME MeshInv, NEW n \in Node, Coherent(inbox[n]), NEW q \in Displayed(inbox[n])
  PROVE  Uid(q) \in Seen(inbox[n])
<1> DEFINE ib == inbox[n]
<1>1. PICK i \in DOMAIN ib.alerts : q = ib.alerts[i]
  BY DEF Displayed
<1>2. /\ ib.alerts \in Seq(Packet) /\ ib.seen \in Seq(Ids)
      /\ Len(ib.alerts) <= Len(ib.seen)
      /\ Uid(ib.alerts[i]) = ib.seen[Len(ib.seen) + 1 - i]
  BY InboxTyped DEF Coherent
<1>3. Len(ib.seen) + 1 - i \in DOMAIN ib.seen
  BY <1>2
<1> QED BY <1>1, <1>2, <1>3 DEF Seen

(* An admission is the step Show of the abstract display.                  *)
LEMMA AdmissionShows ==
  ASSUME BroadcastInv, NEW n \in Node, NEW p \in Packet,
         Uid(p) \notin Seen(inbox[n]),
         inbox' = [inbox EXCEPT ![n] = Push(@, p)]
  PROVE  Abstract!Show(n, p)
<1> DEFINE shown == [m \in Node |-> Displayed(inbox[m])]
<1>1. MeshInv /\ Coherent(inbox[n]) /\ Uid(p) \in Ids
  BY PacketId DEF BroadcastInv, InboxesCoherent
<1>2. \A q \in Displayed(inbox[n]) : ~(p.src = q.src /\ p.ts = q.ts)
  BY <1>1, DisplayedIsSeen DEF Uid
<1>3. PICK kept \in {shown[n]} \cup {shown[n] \ {q} : q \in shown[n]} :
        Displayed(Push(inbox[n], p)) = kept \cup {p}
  <2>1. \/ Displayed(Push(inbox[n], p)) = Displayed(inbox[n]) \cup {p}
        \/ \E q \in Displayed(inbox[n]) :
             Displayed(Push(inbox[n], p)) = (Displayed(inbox[n]) \ {q}) \cup {p}
    BY <1>1, InboxTyped, PushShows
  <2> QED BY <2>1
<1>4. ASSUME NEW m \in Node
      PROVE  Displayed(inbox'[m]) = IF m = n THEN kept \cup {p} ELSE Displayed(inbox[m])
  BY <1>1, <1>3 DEF MeshInv, TypeOK
<1>5. [m \in Node |-> Displayed(inbox'[m])] = [shown EXCEPT ![n] = kept \cup {p}]
  BY <1>4
<1> QED BY <1>2, <1>3, <1>5 DEF Abstract!Show, Abstract!SameId

(* Initially nothing is published or shown.                                *)
LEMMA InitRefines == Init => Abstract!Init
<1> SUFFICES ASSUME Init PROVE Abstract!Init
  OBVIOUS
<1>1. \A n \in Node : Displayed(inbox[n]) = {}
  BY EmptyInboxType DEF Init
<1> QED BY <1>1 DEF Init, Abstract!Init

(* Every step of the mesh is a step of the broadcast or changes nothing    *)
(* that the broadcast shows.                                               *)
LEMMA NextRefines == BroadcastInv /\ [Next]_vars => [Abstract!Next]_(Abstract!vars)
<1> SUFFICES ASSUME BroadcastInv, [Next]_vars PROVE [Abstract!Next]_(Abstract!vars)
  OBVIOUS
<1> USE DEF Abstract!vars
<1>1. MeshInv /\ FreshIds /\ InboxesCoherent
  BY DEF BroadcastInv
<1>2. ASSUME UNCHANGED <<inbox, published, setBack>> PROVE [Abstract!Next]_(Abstract!vars)
  BY <1>2
<1>3. ASSUME NEW n \in Node, NEW b \in Body, Publish(n, b)
      PROVE  [Abstract!Next]_(Abstract!vars)
  <2> DEFINE p == [src |-> n, ts |-> Wall(n), body |-> b]
  <2>0. setBack' = setBack
    BY <1>3 DEF Publish
  <2>1. CASE UNCHANGED <<inbox, published>>
    BY <2>0, <2>1, <1>2
  <2>2. CASE /\ Verdict(inbox[n], p, Wall(n)) = "Accepted"
             /\ inbox' = [inbox EXCEPT ![n] = Push(@, p)]
             /\ published' = published \cup {p}
    <3>1. p \in Packet /\ p.src = n
      BY <1>1, WallTyped DEF Packet
    <3>2. Abstract!Show(p.src, p)
      BY <2>2, <3>1, AcceptedFacts, AdmissionShows
    <3>3. n \in setBack \/ \A q \in published : ~(p.src = q.src /\ p.ts = q.ts)
      BY <1>1, <1>3, PublishedIsFresh
    <3>4. Abstract!Publish(p)
      BY <2>0, <2>2, <3>1, <3>2, <3>3 DEF Abstract!Publish, Abstract!SameId
    <3> QED BY <3>1, <3>4 DEF Abstract!Next
  <2> QED BY <1>3, <2>1, <2>2 DEF Publish
<1>4. ASSUME NEW n \in Node, NEW e \in air, Receive(n, e)
      PROVE  [Abstract!Next]_(Abstract!vars)
  <2> DEFINE p == e.frame.pkt
  <2>1. /\ p \in published /\ p \in Packet /\ p.src \in Trusts[n]
        /\ Uid(p) \notin Seen(inbox[n])
        /\ inbox' = [inbox EXCEPT ![n] = Push(@, p)]
    BY <1>1, <1>4, ReceiveFacts
  <2> HIDE DEF p
  <2>2. Abstract!Show(n, p)
    BY <2>1, AdmissionShows
  <2>3. Abstract!Deliver(n, p)
    BY <1>4, <2>1, <2>2 DEF Abstract!Deliver, Receive
  <2> QED BY <2>1, <2>3 DEF Abstract!Next
<1>5. ASSUME NEW n \in Node, Stop(n) PROVE [Abstract!Next]_(Abstract!vars)
  <2>1. ASSUME NEW m \in Node
        PROVE  Displayed(inbox'[m]) = IF m = n THEN {} ELSE Displayed(inbox[m])
    BY <1>1, <1>5, EmptyInboxType DEF Stop, MeshInv, TypeOK
  <2>2. Abstract!Stop(n)
    BY <1>5, <2>1 DEF Stop, Abstract!Stop
  <2> QED BY <2>2 DEF Abstract!Next
<1>6. CASE Tick \/ UNCHANGED vars
  BY <1>2, <1>6 DEF Tick, vars
<1>7. ASSUME NEW n \in Node, Transmit(n) PROVE [Abstract!Next]_(Abstract!vars)
  BY <1>2, <1>7 DEF Transmit
<1>8. ASSUME NEW n \in Node, NEW e \in air, Discard(n, e)
      PROVE  [Abstract!Next]_(Abstract!vars)
  BY <1>2, <1>8 DEF Discard, vars
<1>9. ASSUME NEW n \in Unsteady, NEW o \in 0..MaxSkew, SetClock(n, o)
      PROVE  [Abstract!Next]_(Abstract!vars)
  <2>1. CASE setBack' = setBack
    BY <1>2, <1>9, <2>1 DEF SetClock
  <2>2. CASE setBack' = setBack \cup {n}
    <3>1. Abstract!SetBack(n)
      BY <1>9, <2>2 DEF SetClock, Abstract!SetBack
    <3> QED BY <3>1, MeshAssumption DEF Abstract!Next
  <2> QED BY <1>9, <2>1, <2>2 DEF SetClock
<1> HIDE DEF Abstract!vars
<1> QED BY <1>3, <1>4, <1>5, <1>6, <1>7, <1>8, <1>9 DEF Next, CalmNext

(* The mesh implements the abstract broadcast: whatever the medium loses,  *)
(* repeats or reorders and whoever restarts, displays change only as       *)
(* AlertBroadcast allows.                                                  *)
THEOREM MeshImplementsBroadcast == Spec => ImplementsBroadcast
  BY InitRefines, NextRefines, BroadcastInvariant, PTL
     DEF Spec, ImplementsBroadcast, Abstract!Spec

-------------------------------------------------------------------------------
(* Identifiers handled by a node are identifiers, with a second in them.   *)
LEMMA HandledTyped ==
  ASSUME MeshInv, NEW n \in Node
  PROVE  /\ QueueIds(n) \cup SentIds(n) \cup Seen(inbox[n]) \subseteq Ids
         /\ \A u \in Ids : u[2] \in Int
         /\ now \in Int /\ MaxAge \in Nat /\ DedupSize \in Nat \ {0}
         /\ Window \in Nat /\ MaxSkew \in Nat /\ Window = MaxAge + MaxSkew
<1>1. /\ sent[n] \in Seq(Ids) /\ queue[n] \in Seq(Frame) /\ inbox[n].seen \in Seq(Ids)
      /\ now \in Int
  BY MeshAssumption DEF MeshInv, TypeOK, Ids
<1>2. \A i \in DOMAIN queue[n] : Uid(queue[n][i].pkt) \in Ids
  <2>1. \A f \in Frame : f.pkt \in Packet
    BY DEF Frame
  <2>2. \A i \in DOMAIN queue[n] : queue[n][i] \in Frame
    BY <1>1
  <2> QED BY <2>1, <2>2, PacketId
<1>3. \A u \in Ids : u[2] \in Int
  BY MeshAssumption DEF Ids, Stamp
<1>4. /\ MaxAge \in Nat /\ DedupSize \in Nat \ {0}
      /\ Window \in Nat /\ MaxSkew \in Nat /\ Window = MaxAge + MaxSkew
  BY MeshAssumption, InboxAssumption DEF Window
<1> QED BY <1>1, <1>2, <1>3, <1>4 DEF QueueIds, SentIds, Seen

(* A memory that holds every alert published close to any other one only   *)
(* drops an identifier when its alert is too old to be admitted again.     *)
LEMMA EvictedIsOld ==
  ASSUME FloodInv, FreshIds', MemorySuffices', IsFiniteSet(published'),
         now' = now, published \subseteq published', published' \subseteq Packet,
         NEW n \in Node, NEW p \in published', ~(now - p.ts > MaxAge),
         Uid(p) \notin Seen(inbox[n]), Len(inbox[n].seen) = DedupSize
  PROVE  now - inbox[n].seen[1][2] > MaxAge
<1> SUFFICES ASSUME ~(now - inbox[n].seen[1][2] > MaxAge) PROVE FALSE
  OBVIOUS
<1> DEFINE s == inbox[n].seen
           k == DedupSize
<1>1. MeshInv /\ SeenInOrder /\ Coherent(inbox[n])
  BY DEF FloodInv, BroadcastInv, InboxesCoherent
<1>2. /\ s \in Seq(Ids) /\ k \in Nat \ {0} /\ DOMAIN s = 1..k
      /\ now \in Int /\ MaxAge \in Nat /\ MaxSkew \in Nat
      /\ Window \in Nat /\ Window = MaxAge + MaxSkew
  BY <1>1, InboxTyped, HandledTyped
<1>3. \A j \in 1..k : \E q \in published' : Uid(q) = s[j]
  BY <1>1, <1>2 DEF SeenInOrder
<1>4. PICK w \in published' : Uid(w) = s[1]
  BY <1>2, <1>3
<1> DEFINE near == {q \in published' : q.ts \in (w.ts - Window)..(w.ts + Window)}
           alert(j) == IF j = k + 1 THEN p ELSE CHOOSE q \in published' : Uid(q) = s[j]
           f == [j \in 1..(k + 1) |-> alert(j)]
<1>5. /\ w.ts \in Int /\ s[1][2] = w.ts
      /\ \A q \in published' : q.ts \in Int /\ q.ts <= now + MaxSkew
  <2>1. \A q \in published' : q.ts \in Int
    BY MeshAssumption DEF Packet, Stamp
  <2>2. \A q \in published' : q.ts <= now + MaxSkew
    BY DEF FreshIds
  <2> QED BY <1>4, <2>1, <2>2 DEF Uid
<1>6. ASSUME NEW j \in 1..k PROVE alert(j) \in published' /\ Uid(alert(j)) = s[j]
  BY <1>2, <1>3
<1>7. ASSUME NEW j \in 1..(k + 1) PROVE f[j] \in near
  <2>1. CASE j = k + 1
    BY <2>1, <1>2, <1>5
  <2>2. CASE j # k + 1
    <3>1. j \in 1..k /\ f[j] = alert(j)
      BY <2>2, <1>2
    <3>2. f[j] \in published' /\ Uid(f[j]) = s[j]
      BY <3>1, <1>6
    <3>3. s[j][2] = f[j].ts
      BY <3>2 DEF Uid
    <3>4. s[1][2] <= s[j][2] + Window
      BY <3>1, <1>1, <1>2 DEF SeenInOrder
    <3> QED BY <3>2, <3>3, <3>4, <1>2, <1>5
  <2> QED BY <2>1, <2>2
<1>8. ASSUME NEW i \in 1..(k + 1), NEW j \in 1..(k + 1), i < j PROVE f[i] # f[j]
  <2>1. i \in 1..k /\ f[i] = alert(i) /\ Uid(f[i]) = s[i]
    BY <1>2, <1>6, <1>8
  <2>2. CASE j = k + 1
    <3>1. f[j] = p /\ s[i] \in Seen(inbox[n])
      BY <2>1, <2>2, <1>2 DEF Seen
    <3> QED BY <2>1, <3>1
  <2>3. CASE j # k + 1
    <3>1. j \in 1..k /\ Uid(f[j]) = s[j]
      BY <2>3, <1>2, <1>6
    <3>2. s[i] # s[j]
      BY <2>1, <3>1, <1>1, <1>2, <1>8 DEF Coherent
    <3> QED BY <2>1, <3>1, <3>2
  <2> QED BY <2>2, <2>3
<1>9. f \in [1..(k + 1) -> near]
  BY <1>7
<1>10. IsFiniteSet(near) /\ Cardinality(near) <= k
  <2>1. near \subseteq published'
    OBVIOUS
  <2>2. IsFiniteSet(near)
    BY <2>1, FS_Subset
  <2> QED BY <2>2 DEF MemorySuffices
<1>11. IsFiniteSet(1..(k + 1)) /\ Cardinality(1..(k + 1)) = k + 1
  BY <1>2, FS_Interval
<1> HIDE DEF f, near, k
<1>12. Cardinality(near) < Cardinality(1..(k + 1))
  BY <1>2, <1>10, <1>11, FS_CardinalityType
<1>13. PICK x, y \in 1..(k + 1) : x # y /\ f[x] = f[y]
  BY <1>9, <1>10, <1>11, <1>12, FS_PigeonHole
<1> QED BY <1>2, <1>8, <1>13

(* What an admission does to the memory, and that the node had neither     *)
(* sent nor queued what it admits.                                         *)
LEMMA AdmissionIsNew ==
  ASSUME FloodInv, FreshIds', MemorySuffices', IsFiniteSet(published'),
         now' = now, published \subseteq published', published' \subseteq Packet,
         NEW n \in Node, NEW p \in published', ~(now - p.ts > MaxAge),
         Uid(p) \notin Seen(inbox[n]), inbox' = [inbox EXCEPT ![n] = Push(@, p)]
  PROVE  /\ SeenInOrder'
         /\ Uid(p) \in Seen(inbox'[n])
         /\ \A u \in Seen(inbox[n]) : u \in Seen(inbox'[n]) \/ now - u[2] > MaxAge
         /\ Uid(p) \notin QueueIds(n) \cup SentIds(n)
<1> DEFINE s == inbox[n].seen
           t == Push(inbox[n], p).seen
           full == Len(s) = DedupSize
<1>1. MeshInv /\ SeenInOrder /\ HandledIsKnown
  BY DEF FloodInv, BroadcastInv
<1>2. /\ inbox[n] \in [alerts : Seq(Packet), seen : Seq(Ids)]
      /\ p \in Packet /\ Uid(p) \in Ids
      /\ inbox'[n] = Push(inbox[n], p)
      /\ \A m \in Node : m # n => inbox'[m] = inbox[m]
  BY <1>1, InboxTyped, PacketId DEF MeshInv, TypeOK
<1>3. /\ t \in Seq(Ids)
      /\ Len(t) = IF full THEN DedupSize ELSE Len(s) + 1
      /\ t[Len(t)] = Uid(p)
      /\ \A i \in 1..(Len(t) - 1) : t[i] = IF full THEN s[i+1] ELSE s[i]
  <2> DEFINE u == Uid(p)
  <2>1. s \in Seq(Ids) /\ u \in Ids
    BY <1>2
  <2>2. t = IF full THEN Append(Tail(s), u) ELSE Append(s, u)
    BY DEF Push
  <2>3. DedupSize \in Nat \ {0} /\ full = (Len(s) = DedupSize)
    BY InboxAssumption
  <2> HIDE DEF s, t, u, full
  <2>4. /\ t \in Seq(Ids)
        /\ Len(t) = IF full THEN DedupSize ELSE Len(s) + 1
        /\ t[Len(t)] = u
        /\ \A i \in 1..(Len(t) - 1) : t[i] = IF full THEN s[i+1] ELSE s[i]
    <3>1. CASE full
      <4>1. t = Append(Tail(s), u) /\ Len(s) = DedupSize
        BY <2>2, <2>3, <3>1
      <4>2. /\ Tail(s) \in Seq(Ids) /\ Len(Tail(s)) = Len(s) - 1
            /\ \A i \in 1..(Len(s) - 1) : Tail(s)[i] = s[i+1]
        BY <2>1, <2>3, <4>1
      <4>3. /\ t \in Seq(Ids) /\ Len(t) = Len(s) /\ t[Len(s)] = u
            /\ \A i \in 1..(Len(s) - 1) : t[i] = Tail(s)[i]
        BY <2>1, <4>1, <4>2
      <4> QED BY <3>1, <4>1, <4>2, <4>3
    <3>2. CASE ~full
      <4>1. t = Append(s, u)
        BY <2>2, <3>2
      <4> QED BY <2>1, <3>2, <4>1
    <3> QED BY <3>1, <3>2
  <2> QED BY <2>4 DEF u
<1>4. /\ Len(s) \in Nat /\ DOMAIN s = 1..Len(s) /\ DOMAIN t = 1..Len(t)
      /\ DedupSize \in Nat \ {0} /\ MaxAge \in Nat /\ now \in Int
      /\ MaxSkew \in Nat /\ Window \in Nat /\ Window = MaxAge + MaxSkew
  BY <1>1, <1>2, <1>3, HandledTyped
<1>5. Uid(p) \in Seen(inbox'[n])
  BY <1>2, PushSeenSet
<1>6. ASSUME NEW u \in Seen(inbox[n])
      PROVE  u \in Seen(inbox'[n]) \/ now - u[2] > MaxAge
  <2>1. u \in Seen(inbox'[n]) \/ (full /\ u = s[1])
    BY <1>2, PushSeenSet
  <2>2. full => now - s[1][2] > MaxAge
    BY EvictedIsOld
  <2> QED BY <2>1, <2>2
<1>7. Uid(p) \notin QueueIds(n) \cup SentIds(n)
  BY <1>1 DEF HandledIsKnown, Uid
<1>8. SeenInOrder'
  <2> SUFFICES ASSUME NEW m \in Node, NEW i \in DOMAIN inbox'[m].seen
               PROVE  /\ \E q \in published' : Uid(q) = inbox'[m].seen[i]
                      /\ \A j \in 1..i : inbox'[m].seen[j][2] <= inbox'[m].seen[i][2] + Window
    BY DEF SeenInOrder
  <2>1. CASE m # n
    BY <2>1, <1>1, <1>2 DEF SeenInOrder
  <2>2. CASE m = n
    <3>1. inbox'[m].seen = t /\ i \in 1..Len(t)
      BY <2>2, <1>2, <1>4
    <3> HIDE DEF t
    <3> DEFINE o(j) == IF full THEN j + 1 ELSE j
    <3>2. \A j \in 1..(Len(t) - 1) : o(j) \in DOMAIN s /\ t[j] = s[o(j)]
      BY <1>3, <1>4
    <3>3. \A j \in DOMAIN s : \E q \in published : Uid(q) = s[j]
      BY <1>1 DEF SeenInOrder
    <3>4. \A q \in published : q.ts <= now + MaxSkew /\ q.ts \in Int
      BY <1>1, PublishedTyped DEF FloodInv, BroadcastInv, FreshIds
    <3>5. CASE i = Len(t)
      <4>1. t[i] = Uid(p) /\ t[i][2] = p.ts /\ p.ts \in Int
        BY <3>5, <1>2, <1>3, MeshAssumption DEF Uid, Packet, Stamp
      <4>2. ASSUME NEW j \in 1..(Len(t) - 1) PROVE t[j][2] <= p.ts + Window
        <5>1. PICK q \in published : Uid(q) = t[j]
          BY <3>2, <3>3
        <5>2. t[j][2] = q.ts
          BY <5>1 DEF Uid
        <5> QED BY <5>2, <3>4, <4>1, <1>4
      <4>3. p.ts <= p.ts + Window
        BY <4>1, <1>4
      <4>4. \E q \in published' : Uid(q) = t[i]
        BY <4>1
      <4>5. \A j \in 1..i : t[j][2] <= t[i][2] + Window
        <5> SUFFICES ASSUME NEW j \in 1..i PROVE t[j][2] <= p.ts + Window
          BY <4>1
        <5>1. j = i \/ j \in 1..(Len(t) - 1)
          BY <3>1, <3>5, <1>4
        <5> QED BY <5>1, <4>1, <4>2, <4>3
      <4> QED BY <3>1, <4>4, <4>5
    <3>6. CASE i # Len(t)
      <4>1. i \in 1..(Len(t) - 1)
        BY <3>1, <3>6, <1>4
      <4>2. \E q \in published' : Uid(q) = t[i]
        BY <4>1, <3>2, <3>3
      <4>3. ASSUME NEW j \in 1..i PROVE t[j][2] <= t[i][2] + Window
        <5>1. j \in 1..(Len(t) - 1) /\ o(j) \in 1..o(i)
          BY <4>1, <1>4
        <5> QED BY <5>1, <4>1, <3>2, <1>1 DEF SeenInOrder
      <4> QED BY <3>1, <4>2, <4>3
    <3> QED BY <3>5, <3>6
  <2> QED BY <2>1, <2>2
<1> QED BY <1>5, <1>6, <1>7, <1>8

(* Nothing is handled, remembered or published at first.                   *)
LEMMA InitFlood == Init => FloodInv
<1> SUFFICES ASSUME Init PROVE FloodInv
  OBVIOUS
<1>1. IsFiniteSet(published)
  BY FS_EmptySet DEF Init
<1>2. \A n \in Node : queue[n] = <<>> /\ sent[n] = <<>> /\ inbox[n].seen = <<>>
  BY DEF Init, EmptyInbox
<1>3. SeenInOrder /\ HandledIsKnown /\ QueuedOnce /\ OneTransmissionPerLife
  BY <1>2 DEF SeenInOrder, HandledIsKnown, QueuedOnce, OneTransmissionPerLife,
              QueueIds, SentIds
<1> QED BY <1>1, <1>3, InitBroadcast DEF FloodInv

(* An accepted alert of the portal waits for the radio as the only one of  *)
(* its identifier.                                                         *)
LEMMA PublishFlood ==
  ASSUME FloodInv, BroadcastInv', MemorySuffices',
         NEW n \in Node, NEW b \in Body, Publish(n, b)
  PROVE  FloodInv'
<1> DEFINE p == [src |-> n, ts |-> Wall(n), body |-> b]
           f == [pkt |-> p, hop |-> 0, sig |-> n]
<1>1. /\ MeshInv /\ SeenInOrder /\ HandledIsKnown /\ QueuedOnce /\ OneTransmissionPerLife
      /\ IsFiniteSet(published) /\ FreshIds' /\ published' \subseteq Packet
  BY DEF FloodInv, BroadcastInv, MeshInv, TypeOK
<1>2. now' = now /\ sent' = sent
  BY DEF Publish
<1>3. CASE UNCHANGED <<inbox, published, queue>>
  BY <1>1, <1>2, <1>3
     DEF FloodInv, SeenInOrder, HandledIsKnown, QueuedOnce, OneTransmissionPerLife,
         QueueIds, SentIds
<1>4. CASE /\ Verdict(inbox[n], p, Wall(n)) = "Accepted"
           /\ inbox' = [inbox EXCEPT ![n] = Push(@, p)]
           /\ published' = published \cup {p}
           /\ queue' = [queue EXCEPT ![n] = Enqueue(@, f)]
  <2>1. IsFiniteSet(published') /\ published \subseteq published' /\ p \in published'
    BY <1>1, <1>4, FS_AddElement
  <2>2. ~(now - p.ts > MaxAge) /\ Uid(p) \notin Seen(inbox[n])
    <3>1. now <= Wall(n) /\ now \in Nat /\ Wall(n) \in Nat /\ MaxAge \in Nat
      BY <1>1, WallTyped, MeshAssumption, InboxAssumption DEF Stamp
    <3> QED BY <1>4, <3>1, AcceptedFacts
  <2> DEFINE q == queue[n]
             r == Enqueue(q, f)
  <2>3. f.pkt = p
    OBVIOUS
  <2> HIDE DEF p, f
  <2>4. /\ SeenInOrder'
        /\ Uid(p) \in Seen(inbox'[n])
        /\ \A u \in Seen(inbox[n]) : u \in Seen(inbox'[n]) \/ now - u[2] > MaxAge
        /\ Uid(p) \notin QueueIds(n) \cup SentIds(n)
    BY <1>1, <1>2, <1>4, <2>1, <2>2, AdmissionIsNew
  <2>5. /\ queue'[n] = r /\ q \in Seq(Frame)
        /\ \A m \in Node : m # n => queue'[m] = queue[m] /\ inbox'[m] = inbox[m]
    BY <1>1, <1>4 DEF MeshInv, TypeOK
  <2>6. \/ r = q
        \/ /\ Len(r) = Len(q) + 1 /\ DOMAIN r = 1..(Len(q) + 1) /\ r[Len(q) + 1] = f
           /\ \A i \in 1..Len(q) : r[i] = q[i]
    BY <2>5 DEF Enqueue
  <2>7. Len(q) \in Nat /\ DOMAIN q = 1..Len(q)
    BY <2>5
  <2> HIDE DEF r, q
  <2>8. QueueIds(n)' \subseteq QueueIds(n) \cup {Uid(p)}
    <3> SUFFICES ASSUME NEW i \in DOMAIN r PROVE Uid(r[i].pkt) \in QueueIds(n) \cup {Uid(p)}
      BY <2>5 DEF QueueIds
    <3>1. r[i] = f \/ (i \in DOMAIN q /\ r[i] = q[i])
      BY <2>6, <2>7
    <3> QED BY <3>1, <2>3 DEF QueueIds, q
  <2>9. SentIds(n)' = SentIds(n)
    BY <1>2 DEF SentIds
  <2>10. \A m \in Node : m # n => QueueIds(m)' = QueueIds(m) /\ SentIds(m)' = SentIds(m)
    BY <1>2, <2>5 DEF QueueIds, SentIds
  <2>11. HandledIsKnown'
    <3> SUFFICES ASSUME NEW m \in Node, NEW u \in (QueueIds(m) \cup SentIds(m))'
                 PROVE  u \in Seen(inbox'[m]) \/ now - u[2] > MaxAge
      BY <1>2 DEF HandledIsKnown
    <3>1. CASE m # n
      BY <3>1, <1>1, <2>5, <2>10 DEF HandledIsKnown
    <3>2. CASE m = n
      BY <3>2, <1>1, <2>4, <2>8, <2>9 DEF HandledIsKnown
    <3> QED BY <3>1, <3>2
  <2>12. QueuedOnce'
    <3>1. \A i, j \in DOMAIN r : Uid(r[i].pkt) = Uid(r[j].pkt) => i = j
      <4>1. \A i, j \in DOMAIN q : Uid(q[i].pkt) = Uid(q[j].pkt) => i = j
        BY <1>1 DEF QueuedOnce, q
      <4>2. \A i \in DOMAIN q : Uid(q[i].pkt) # Uid(p)
        BY <2>4 DEF QueueIds, q
      <4> QED BY <4>1, <4>2, <2>3, <2>6, <2>7
    <3>2. (QueueIds(n) \cap SentIds(n))' = {}
      BY <1>1, <2>4, <2>8, <2>9 DEF QueuedOnce
    <3> QED BY <3>1, <3>2, <1>1, <2>5, <2>10 DEF QueuedOnce
  <2>13. OneTransmissionPerLife'
    BY <1>1, <1>2 DEF OneTransmissionPerLife
  <2> QED BY <2>1, <2>4, <2>11, <2>12, <2>13 DEF FloodInv
<1> QED BY <1>3, <1>4 DEF Publish

(* The frame that leaves the queue had not been sent, and no other frame   *)
(* that waits has its identifier.                                          *)
LEMMA TransmitFlood ==
  ASSUME FloodInv, BroadcastInv', NEW n \in Node, Transmit(n)
  PROVE  FloodInv'
<1> DEFINE q == queue[n]
           u == Uid(Head(q).pkt)
<1>1. /\ MeshInv /\ SeenInOrder /\ HandledIsKnown /\ QueuedOnce /\ OneTransmissionPerLife
      /\ IsFiniteSet(published)
  BY DEF FloodInv, BroadcastInv
<1>2. /\ inbox' = inbox /\ published' = published /\ now' = now
      /\ q \in Seq(Frame) /\ q # <<>> /\ sent[n] \in Seq(Ids)
      /\ queue'[n] = Tail(q) /\ sent'[n] = Append(sent[n], u)
      /\ \A m \in Node : m # n => queue'[m] = queue[m] /\ sent'[m] = sent[m]
  BY <1>1 DEF Transmit, MeshInv, TypeOK, Ids
<1>3. /\ 1 \in DOMAIN q /\ Head(q) = q[1]
      /\ DOMAIN q \subseteq Nat
      /\ \A i \in DOMAIN Tail(q) : i \in Nat \ {0} /\ i + 1 \in DOMAIN q /\ Tail(q)[i] = q[i+1]
  BY <1>2, HeadTail
<1>4. /\ DOMAIN sent'[n] = 1..(Len(sent[n]) + 1) /\ Len(sent[n]) \in Nat
      /\ sent'[n][Len(sent[n]) + 1] = u
      /\ \A i \in 1..Len(sent[n]) : sent'[n][i] = sent[n][i]
      /\ DOMAIN sent[n] = 1..Len(sent[n])
  BY <1>2
<1>5. u \in QueueIds(n)
  BY <1>3 DEF QueueIds
<1>6. u \notin SentIds(n)
  BY <1>1, <1>5 DEF QueuedOnce
<1> HIDE DEF u
<1>7. QueueIds(n)' \subseteq QueueIds(n) \ {u}
  <2> SUFFICES ASSUME NEW i \in DOMAIN Tail(q)
               PROVE  Uid(Tail(q)[i].pkt) \in QueueIds(n) \ {u}
    BY <1>2 DEF QueueIds
  <2>1. i \in Nat \ {0} /\ i + 1 \in DOMAIN q /\ Tail(q)[i] = q[i+1]
    BY <1>3
  <2>2. Uid(q[i+1].pkt) # Uid(q[1].pkt)
    BY <2>1, <1>1, <1>3 DEF QueuedOnce
  <2> QED BY <2>1, <2>2, <1>3 DEF QueueIds, u
<1>8. SentIds(n)' \subseteq SentIds(n) \cup {u}
  BY <1>4 DEF SentIds
<1>9. \A m \in Node : m # n => QueueIds(m)' = QueueIds(m) /\ SentIds(m)' = SentIds(m)
  BY <1>2 DEF QueueIds, SentIds
<1>10. SeenInOrder' /\ IsFiniteSet(published')
  BY <1>1, <1>2 DEF SeenInOrder
<1>11. HandledIsKnown'
  BY <1>1, <1>2, <1>5, <1>7, <1>8, <1>9 DEF HandledIsKnown
<1>12. QueuedOnce'
  <2>1. \A i, j \in DOMAIN Tail(q) : Uid(Tail(q)[i].pkt) = Uid(Tail(q)[j].pkt) => i = j
    <3> SUFFICES ASSUME NEW i \in DOMAIN Tail(q), NEW j \in DOMAIN Tail(q),
                        Uid(Tail(q)[i].pkt) = Uid(Tail(q)[j].pkt)
                 PROVE  i = j
      OBVIOUS
    <3>1. i + 1 = j + 1
      BY <1>1, <1>3 DEF QueuedOnce
    <3> QED BY <3>1, <1>3
  <2>2. (QueueIds(n) \cap SentIds(n))' = {}
    BY <1>1, <1>7, <1>8 DEF QueuedOnce
  <2> QED BY <2>1, <2>2, <1>1, <1>2, <1>9 DEF QueuedOnce
<1>13. OneTransmissionPerLife'
  <2>1. \A i \in DOMAIN sent[n] : sent[n][i] # u
    BY <1>6 DEF SentIds
  <2>2. \A i, j \in DOMAIN sent'[n] : sent'[n][i] = sent'[n][j] => i = j
    BY <2>1, <1>1, <1>4 DEF OneTransmissionPerLife
  <2> QED BY <2>2, <1>1, <1>2 DEF OneTransmissionPerLife
<1> QED BY <1>10, <1>11, <1>12, <1>13 DEF FloodInv

(* An admitted frame is relayed once: the node had not handled its alert.  *)
LEMMA ReceiveFlood ==
  ASSUME FloodInv, BroadcastInv', MemorySuffices',
         NEW n \in Node, NEW e \in air, Receive(n, e)
  PROVE  FloodInv'
<1> DEFINE p == e.frame.pkt
           u == Uid(p)
<1>1. /\ MeshInv /\ SeenInOrder /\ HandledIsKnown /\ QueuedOnce /\ OneTransmissionPerLife
      /\ IsFiniteSet(published) /\ FreshIds' /\ published \subseteq Packet
  BY DEF FloodInv, BroadcastInv, MeshInv, TypeOK
<1>2. now' = now /\ queue' = queue /\ published' = published
  BY DEF Receive
<1>3. /\ p \in published /\ ~(now - p.ts > MaxAge) /\ Uid(p) \notin Seen(inbox[n])
      /\ inbox' = [inbox EXCEPT ![n] = Push(@, p)]
  BY <1>1, ReceiveFacts
<1> HIDE DEF p
<1>4. /\ SeenInOrder'
      /\ u \in Seen(inbox'[n])
      /\ \A v \in Seen(inbox[n]) : v \in Seen(inbox'[n]) \/ now - v[2] > MaxAge
      /\ u \notin QueueIds(n) \cup SentIds(n)
  BY <1>1, <1>2, <1>3, AdmissionIsNew
<1>5. \A m \in Node : m # n => inbox'[m] = inbox[m]
  BY <1>1, <1>3 DEF MeshInv, TypeOK
<1>6. sent' = sent \/ sent' = [sent EXCEPT ![n] = Append(@, u)]
  BY DEF Receive, Relay, p
<1> HIDE DEF u
<1>7. /\ sent[n] \in Seq(Ids)
      /\ sent'[n] = sent[n] \/ sent'[n] = Append(sent[n], u)
      /\ \A m \in Node : m # n => sent'[m] = sent[m]
  BY <1>1, <1>6 DEF MeshInv, TypeOK, Ids
<1>8. /\ Len(sent[n]) \in Nat /\ DOMAIN sent[n] = 1..Len(sent[n])
      /\ \/ sent'[n] = sent[n]
         \/ /\ DOMAIN sent'[n] = 1..(Len(sent[n]) + 1)
            /\ sent'[n][Len(sent[n]) + 1] = u
            /\ \A i \in 1..Len(sent[n]) : sent'[n][i] = sent[n][i]
  BY <1>7
<1>9. SentIds(n)' \subseteq SentIds(n) \cup {u}
  <2> SUFFICES ASSUME NEW i \in DOMAIN sent'[n] PROVE sent'[n][i] \in SentIds(n) \cup {u}
    BY DEF SentIds
  <2>1. sent'[n][i] = u \/ (i \in DOMAIN sent[n] /\ sent'[n][i] = sent[n][i])
    BY <1>8
  <2> QED BY <2>1 DEF SentIds
<1>10. /\ \A m \in Node : QueueIds(m)' = QueueIds(m)
       /\ \A m \in Node : m # n => SentIds(m)' = SentIds(m)
  BY <1>2, <1>7 DEF QueueIds, SentIds
<1>11. HandledIsKnown'
  <2> SUFFICES ASSUME NEW m \in Node, NEW v \in (QueueIds(m) \cup SentIds(m))'
               PROVE  v \in Seen(inbox'[m]) \/ now - v[2] > MaxAge
    BY <1>2 DEF HandledIsKnown
  <2>1. CASE m # n
    BY <2>1, <1>1, <1>5, <1>10 DEF HandledIsKnown
  <2>2. CASE m = n
    BY <2>2, <1>1, <1>4, <1>9, <1>10 DEF HandledIsKnown
  <2> QED BY <2>1, <2>2
<1>12. QueuedOnce'
  <2>1. (QueueIds(n) \cap SentIds(n))' = {}
    BY <1>1, <1>4, <1>9, <1>10 DEF QueuedOnce
  <2> QED BY <2>1, <1>1, <1>2, <1>10 DEF QueuedOnce
<1>13. OneTransmissionPerLife'
  <2>1. \A i \in DOMAIN sent[n] : sent[n][i] # u
    BY <1>4 DEF SentIds
  <2>2. \A i, j \in DOMAIN sent'[n] : sent'[n][i] = sent'[n][j] => i = j
    BY <2>1, <1>1, <1>8 DEF OneTransmissionPerLife
  <2> QED BY <2>2, <1>1, <1>7 DEF OneTransmissionPerLife
<1> QED BY <1>1, <1>2, <1>4, <1>11, <1>12, <1>13 DEF FloodInv

(* A node that stops has handled and remembers nothing.                    *)
LEMMA StopFlood ==
  ASSUME FloodInv, BroadcastInv', NEW n \in Node, Stop(n)
  PROVE  FloodInv'
<1>1. /\ MeshInv /\ SeenInOrder /\ HandledIsKnown /\ QueuedOnce /\ OneTransmissionPerLife
      /\ IsFiniteSet(published)
  BY DEF FloodInv, BroadcastInv
<1>2. /\ published' = published /\ now' = now
      /\ queue'[n] = <<>> /\ sent'[n] = <<>> /\ inbox'[n].seen = <<>>
      /\ \A m \in Node : m # n => /\ queue'[m] = queue[m] /\ sent'[m] = sent[m]
                                  /\ inbox'[m] = inbox[m]
  BY <1>1 DEF Stop, EmptyInbox, MeshInv, TypeOK
<1>3. /\ QueueIds(n)' = {} /\ SentIds(n)' = {}
      /\ \A m \in Node : m # n => QueueIds(m)' = QueueIds(m) /\ SentIds(m)' = SentIds(m)
  BY <1>2 DEF QueueIds, SentIds
<1>4. SeenInOrder' /\ OneTransmissionPerLife'
  BY <1>1, <1>2 DEF SeenInOrder, OneTransmissionPerLife
<1>5. HandledIsKnown'
  <2> SUFFICES ASSUME NEW m \in Node, NEW u \in (QueueIds(m) \cup SentIds(m))'
               PROVE  u \in Seen(inbox'[m]) \/ now - u[2] > MaxAge
    BY <1>2 DEF HandledIsKnown
  <2>1. m # n
    BY <1>3
  <2> QED BY <2>1, <1>1, <1>2, <1>3 DEF HandledIsKnown
<1>6. QueuedOnce'
  BY <1>1, <1>2, <1>3 DEF QueuedOnce
<1> QED BY <1>1, <1>2, <1>4, <1>5, <1>6 DEF FloodInv

(* What is too old stays too old.                                          *)
LEMMA TickFlood ==
  ASSUME FloodInv, BroadcastInv', Tick
  PROVE  FloodInv'
<1>1. /\ UNCHANGED <<inbox, queue, sent, published>> /\ now' = now + 1
  BY DEF Tick
<1>2. HandledIsKnown'
  <2>0. \A n \in Node : QueueIds(n)' = QueueIds(n) /\ SentIds(n)' = SentIds(n)
    BY <1>1 DEF QueueIds, SentIds
  <2> SUFFICES ASSUME NEW n \in Node, NEW u \in (QueueIds(n) \cup SentIds(n))'
               PROVE  u \in Seen(inbox'[n]) \/ now' - u[2] > MaxAge
    BY DEF HandledIsKnown
  <2> u \in QueueIds(n) \cup SentIds(n)
    BY <2>0
  <2>1. u[2] \in Int /\ now \in Int /\ MaxAge \in Nat
    BY HandledTyped DEF FloodInv, BroadcastInv
  <2>2. u \in Seen(inbox[n]) \/ now - u[2] > MaxAge
    BY DEF FloodInv, HandledIsKnown
  <2> QED BY <1>1, <2>1, <2>2
<1> QED BY <1>1, <1>2
        DEF FloodInv, SeenInOrder, QueuedOnce, OneTransmissionPerLife, QueueIds, SentIds

(* Every step keeps FloodInv, as long as the memory is not overrun.        *)
LEMMA NextFlood == FloodInv /\ MemorySuffices' /\ [Next]_vars => FloodInv'
<1> SUFFICES ASSUME FloodInv, MemorySuffices', [Next]_vars PROVE FloodInv'
  OBVIOUS
<1>1. BroadcastInv'
  BY NextBroadcast DEF FloodInv
<1>2. CASE UNCHANGED vars
  BY <1>1, <1>2 DEF vars, FloodInv, SeenInOrder, HandledIsKnown, QueuedOnce,
                    OneTransmissionPerLife, QueueIds, SentIds
<1>3. ASSUME NEW n \in Node, NEW e \in air, Discard(n, e) PROVE FloodInv'
  BY <1>2, <1>3 DEF Discard
<1>4. ASSUME NEW n \in Unsteady, NEW o \in 0..MaxSkew, SetClock(n, o) PROVE FloodInv'
  BY <1>1, <1>4 DEF SetClock, FloodInv, SeenInOrder, HandledIsKnown, QueuedOnce,
                    OneTransmissionPerLife, QueueIds, SentIds
<1> QED BY <1>1, <1>2, <1>3, <1>4, PublishFlood, TransmitFlood, ReceiveFlood, StopFlood, TickFlood
        DEF Next, CalmNext

(* Flooding dies out on any topology, whatever the clocks do: when the     *)
(* memory holds the alerts stamped within MAX_ALERT_AGE_SECONDS of one     *)
(* another, the error of the clocks added, no node puts an alert on the    *)
(* air twice between two restarts.                                         *)
THEOREM MeshSendsOnce == Spec /\ []MemorySuffices => []OneTransmissionPerLife
<1>1. FloodInv => OneTransmissionPerLife
  BY DEF FloodInv
<1> QED BY <1>1, InitFlood, NextFlood, PTL DEF Spec

(* What one portal publishes is at least this far apart in time: what the  *)
(* rate limiter imposes, or a restart that forgets it.                     *)
Gap == IF PublishInterval <= RestartSec THEN PublishInterval ELSE RestartSec

(* On a clock that was not set back, a portal that knows when it published *)
(* last has stamped nothing later; one that has forgotten it comes up      *)
(* RestartSec after all it stamped; and its stamps are Gap seconds apart.  *)
SpacedAt(p) ==
  /\ lastPub[p.src] # -1 => p.ts <= lastPub[p.src] + offset[p.src]
  /\ lastPub[p.src] = -1 => p.ts + RestartSec <= upAt[p.src] + offset[p.src]
  /\ \A q \in published : q.src = p.src /\ p.ts < q.ts => p.ts + Gap <= q.ts

Spaced ==
  \A p \in published : p.src \in Publishers /\ (p.src \in setBack \/ SpacedAt(p))

(* The seconds, the last publications and the ends of pauses are numbers.  *)
LEMMA ClockTyped ==
  ASSUME MeshInv
  PROVE  /\ now \in Nat /\ Gap \in Nat \ {0} /\ Gap <= PublishInterval /\ Gap <= RestartSec
         /\ PublishInterval \in Nat /\ RestartSec \in Nat
         /\ \A n \in Node : lastPub[n] \in Int /\ upAt[n] \in Int /\ offset[n] \in Nat
         /\ \A p \in published : p.ts \in Nat /\ p.src \in Node
<1>1. now \in 0..MaxTime
  BY DEF MeshInv, TypeOK
<1>2. \A n \in Node : /\ lastPub[n] \in -1..MaxTime /\ upAt[n] \in 0..(MaxTime + RestartSec)
                      /\ offset[n] \in 0..MaxSkew
  BY DEF MeshInv, TypeOK
<1> QED BY <1>1, <1>2, PublishedTyped, MeshAssumption DEF Gap

(* A publication keeps the distance: the limiter lets it through, or the   *)
(* pause of a restart is over.                                             *)
LEMMA PublishSpaced ==
  ASSUME MeshInv, FreshIds, Spaced, NEW n \in Node, NEW b \in Body, Publish(n, b)
  PROVE  Spaced'
<1> DEFINE p == [src |-> n, ts |-> Wall(n), body |-> b]
<1>1. /\ upAt' = upAt /\ lastPub' = [lastPub EXCEPT ![n] = now] /\ n \in Publishers
      /\ published' \subseteq published \cup {p} /\ Up(n) /\ MayPublish(n)
      /\ setBack' = setBack /\ offset' = offset
  BY DEF Publish
<1>2. /\ lastPub'[n] = now /\ \A m \in Node : m # n => lastPub'[m] = lastPub[m]
  BY <1>1 DEF MeshInv, TypeOK
<1>3. p.src = n /\ p.ts = now + offset[n]
  BY DEF Wall
<1> HIDE DEF p
<1>4. ASSUME NEW q \in published, q.src = n, n \notin setBack
      PROVE  q.ts <= now + offset[n] /\ q.ts + Gap <= now + offset[n]
  <2>1. SpacedAt(q)
    BY <1>4 DEF Spaced
  <2>2. q.ts <= now + offset[n]
    BY <1>4, FreshOf DEF Wall
  <2>3. /\ now >= upAt[n]
        /\ lastPub[n] = -1 \/ now - lastPub[n] >= PublishInterval
    BY <1>1 DEF Up, MayPublish
  <2> QED BY <1>4, <2>1, <2>2, <2>3, ClockTyped DEF SpacedAt
<1>5. now # -1 /\ now \in Nat /\ offset[n] \in Nat
  BY ClockTyped
<1>6. ASSUME NEW q \in published', q.src \notin setBack
      PROVE  SpacedAt(q)'
  <2>1. /\ lastPub'[q.src] # -1 => q.ts <= lastPub'[q.src] + offset[q.src]
        /\ lastPub'[q.src] = -1 => q.ts + RestartSec <= upAt[q.src] + offset[q.src]
    <3>1. CASE q = p
      BY <3>1, <1>2, <1>3, <1>5
    <3>2. CASE q \in published /\ q.src = n
      BY <3>2, <1>2, <1>4, <1>5, <1>6
    <3>3. CASE q \in published /\ q.src # n
      <4>1. SpacedAt(q) /\ q.src \in Node
        BY <3>3, <1>6, PublishedTyped DEF Spaced
      <4> QED BY <3>3, <4>1, <1>2 DEF SpacedAt
    <3> QED BY <3>1, <3>2, <3>3, <1>1
  <2>2. ASSUME NEW r \in published', r.src = q.src, q.ts < r.ts PROVE q.ts + Gap <= r.ts
    <3>1. CASE r = p
      BY <3>1, <1>1, <1>3, <1>4, <1>5, <1>6, <2>2
    <3>2. CASE r # p /\ q = p
      <4>1. r \in published /\ r.src = n /\ r.ts \in Nat
        BY <3>2, <1>1, <1>3, <2>2, PublishedTyped
      <4>2. r.ts <= now + offset[n]
        BY <4>1, <3>2, <1>3, <1>4, <1>6
      <4> QED BY <3>2, <4>1, <4>2, <1>3, <1>5, <2>2
    <3>3. CASE r # p /\ q # p
      BY <3>3, <1>1, <1>6, <2>2 DEF Spaced, SpacedAt
    <3> QED BY <3>1, <3>2, <3>3
  <2> QED BY <2>1, <2>2, <1>1 DEF SpacedAt, Gap
<1>7. \A q \in published' : q.src \in Publishers
  BY <1>1, <1>3 DEF Spaced
<1> QED BY <1>1, <1>6, <1>7 DEF Spaced

(* Every step keeps the distance.                                          *)
LEMMA NextSpaced == MeshInv /\ FreshIds /\ Spaced /\ [Next]_vars => Spaced'
<1> SUFFICES ASSUME MeshInv, FreshIds, Spaced, [Next]_vars PROVE Spaced'
  OBVIOUS
<1>1. ASSUME UNCHANGED <<published, lastPub, upAt, offset, setBack>> PROVE Spaced'
  BY <1>1 DEF Spaced, SpacedAt, Gap
<1>2. ASSUME NEW n \in Node, Stop(n) PROVE Spaced'
  <2>1. /\ published' = published /\ upAt' = [upAt EXCEPT ![n] = now + RestartSec]
        /\ lastPub' = [lastPub EXCEPT ![n] = -1] /\ offset' = offset /\ setBack' = setBack
    BY <1>2 DEF Stop
  <2>2. /\ lastPub'[n] = -1 /\ upAt'[n] = now + RestartSec
        /\ \A m \in Node : m # n => lastPub'[m] = lastPub[m] /\ upAt'[m] = upAt[m]
    BY <2>1 DEF MeshInv, TypeOK
  <2>3. ASSUME NEW q \in published, q.src \notin setBack PROVE SpacedAt(q)'
    <3>1. SpacedAt(q) /\ q.src \in Node /\ q.ts <= now + offset[q.src] /\ q.ts \in Nat
      BY <2>3, PublishedTyped, FreshOf DEF Spaced, Wall
    <3>2. /\ lastPub'[q.src] # -1 => q.ts <= lastPub'[q.src] + offset[q.src]
          /\ lastPub'[q.src] = -1 => q.ts + RestartSec <= upAt'[q.src] + offset[q.src]
      BY <3>1, <2>2, ClockTyped DEF SpacedAt
    <3> QED BY <3>1, <3>2, <2>1 DEF SpacedAt, Gap
  <2> QED BY <2>1, <2>3 DEF Spaced
<1>3. ASSUME NEW n \in Node, Transmit(n) PROVE Spaced'
  BY <1>1, <1>3 DEF Transmit
<1>4. ASSUME NEW n \in Node, NEW e \in air, Receive(n, e) \/ Discard(n, e) PROVE Spaced'
  BY <1>1, <1>4 DEF Receive, Discard, vars
<1>5. CASE Tick
  BY <1>1, <1>5 DEF Tick
<1>6. ASSUME NEW n \in Node, NEW o \in 0..MaxSkew, SetClock(n, o) PROVE Spaced'
  <2>1. /\ UNCHANGED <<published, lastPub, upAt, now>> /\ offset' = [offset EXCEPT ![n] = o]
    BY <1>6 DEF SetClock
  <2>2. /\ n \in setBack' \/ Wall(n) < Wall(n)'
        /\ setBack \subseteq setBack'
    BY <1>6, ClockIsSet
  <2>3. /\ offset'[n] = o /\ o \in Nat
        /\ \A m \in Node : m # n => offset'[m] = offset[m]
    BY <2>1, MeshAssumption DEF MeshInv, TypeOK
  <2>4. ASSUME NEW q \in published, q.src \notin setBack' PROVE SpacedAt(q)'
    <3>1. SpacedAt(q) /\ q.src \in Node
      BY <2>2, <2>4, PublishedTyped DEF Spaced
    <3>2. offset[q.src] <= offset'[q.src]
      BY <3>1, <2>1, <2>2, <2>3, <2>4, ClockTyped DEF Wall
    <3>3. offset[q.src] \in Nat /\ offset'[q.src] \in Nat
      BY <3>1, <2>3, ClockTyped
    <3>4. /\ lastPub[q.src] # -1 => q.ts <= lastPub[q.src] + offset'[q.src]
          /\ lastPub[q.src] = -1 => q.ts + RestartSec <= upAt[q.src] + offset'[q.src]
      BY <3>1, <3>2, <3>3, ClockTyped DEF SpacedAt
    <3> QED BY <3>1, <3>4, <2>1 DEF SpacedAt, Gap
  <2> QED BY <2>1, <2>4 DEF Spaced
<1>7. Unsteady \subseteq Node
  BY MeshAssumption
<1> QED BY <1>1, <1>2, <1>3, <1>4, <1>5, <1>6, <1>7, PublishSpaced DEF Next, CalmNext, vars

(* A distance below k times g lies in one of k intervals of length g.      *)
LEMMA IntervalOf ==
  ASSUME NEW g \in Nat, NEW k \in Nat, NEW d \in Nat, d < k * g
  PROVE  \E j \in 0..(k - 1) : j * g <= d /\ d < (j + 1) * g
<1> DEFINE T == {j \in Nat : d < (j + 1) * g}
           below == {ss \in Nat \X Nat : ss[1] < ss[2]}
<1>1. k # 0 /\ (k - 1) + 1 = k /\ k - 1 \in Nat
  <2>1. k # 0
    <3>1. 0 * g = 0
      OBVIOUS
    <3> QED BY <3>1
  <2> QED BY <2>1
<1>2. k - 1 \in T
  BY <1>1
<1>3. PICK j \in T : \A i \in T : ~(<<i, j>> \in below)
  <2>1. IsWellFoundedOn(below, Nat)
    BY NatLessThanWellFounded DEF OpToRel
  <2> QED BY <2>1, <1>2, WFMin
<1>4. j \in Nat /\ d < (j + 1) * g /\ \A i \in T : ~(i < j)
  BY <1>3
<1>5. j \in 0..(k - 1)
  BY <1>1, <1>2, <1>4
<1>6. j * g <= d
  <2>1. CASE j = 0
    <3>1. 0 * g = 0
      OBVIOUS
    <3> QED BY <2>1, <3>1
  <2>2. CASE j # 0
    <3>1. j - 1 \in Nat /\ j - 1 < j /\ (j - 1) + 1 = j
      BY <2>2, <1>4
    <3>2. j - 1 \notin T
      BY <3>1, <1>4
    <3>3. ~(d < ((j - 1) + 1) * g)
      BY <3>1, <3>2
    <3>4. j * g \in Nat
      BY <1>4
    <3> QED BY <3>1, <3>3, <3>4
  <2> QED BY <2>1, <2>2
<1> QED BY <1>4, <1>5, <1>6

(* No clock of a portal that publishes has been set back.                  *)
PortalClocksAdvance == setBack \cap Publishers = {}

(* At the rate the limiter allows, as many alerts fit around one of them   *)
(* as there are publishers and intervals in twice the window.              *)
LEMMA RateFits ==
  ASSUME MeshInv, FreshIds, Spaced, PortalClocksAdvance, IsFiniteSet(Publishers),
         NEW slots \in Nat, 2 * Window < slots * Gap,
         Cardinality(Publishers) * slots <= DedupSize
  PROVE  MemorySuffices
<1> SUFFICES ASSUME NEW p \in published
             PROVE  Cardinality({q \in published : q.ts \in (p.ts - Window)..(p.ts + Window)})
                      <= DedupSize
  BY DEF MemorySuffices
<1> DEFINE near == {q \in published : q.ts \in (p.ts - Window)..(p.ts + Window)}
           d(q) == q.ts - (p.ts - Window)
           Within(q, j) == j * Gap <= d(q) /\ d(q) < (j + 1) * Gap
           slot == [q \in near |-> CHOOSE j \in 0..(slots - 1) : Within(q, j)]
           f == [q \in near |-> <<q.src, slot[q]>>]
           places == Publishers \X (0..(slots - 1))
<1>1. /\ Gap \in Nat \ {0} /\ Window \in Nat
      /\ \A q \in published : q.ts \in Int /\ q.src \in Publishers /\ q.src \notin setBack
  BY ClockTyped, InboxAssumption, MeshAssumption DEF Spaced, PortalClocksAdvance, Window
<1>2. ASSUME NEW q \in near
      PROVE  slot[q] \in 0..(slots - 1) /\ Within(q, slot[q])
  <2>1. d(q) \in Nat /\ d(q) <= 2 * Window
    BY <1>1
  <2>2. slots * Gap \in Nat
    BY <1>1
  <2>3. d(q) < slots * Gap
    BY <2>1, <2>2, <1>1
  <2>4. \E j \in 0..(slots - 1) : Within(q, j)
    BY <2>1, <2>3, <1>1, IntervalOf
  <2> HIDE DEF Within
  <2> QED BY <2>4
<1> HIDE DEF slot
<1>3. f \in [near -> places]
  BY <1>1, <1>2
<1>4. ASSUME NEW q \in near, NEW r \in near, f[q] = f[r] PROVE q = r
  <2>1. q.src = r.src /\ slot[q] = slot[r]
    BY <1>4
  <2>2. PICK j \in Int : Within(q, j) /\ Within(r, j)
    <3>1. Within(q, slot[q]) /\ Within(r, slot[r]) /\ slot[q] \in Int
      BY <1>2
    <3> HIDE DEF Within
    <3> QED BY <3>1, <2>1
  <2>3. (j + 1) * Gap = j * Gap + Gap /\ j * Gap \in Int
    BY <1>1
  <2>4. q.ts - r.ts < Gap /\ r.ts - q.ts < Gap
    BY <2>2, <2>3, <1>1
  <2>5. q.ts = r.ts
    <3>1. q.ts < r.ts => q.ts + Gap <= r.ts
      BY <2>1, <1>1 DEF Spaced, SpacedAt
    <3>2. r.ts < q.ts => r.ts + Gap <= q.ts
      BY <2>1, <1>1 DEF Spaced, SpacedAt
    <3> QED BY <3>1, <3>2, <2>4, <1>1
  <2> QED BY <2>1, <2>5, <1>1, FreshOf DEF Uid
<1>5. IsFiniteSet(places) /\ Cardinality(places) = Cardinality(Publishers) * slots
  <2>1. IsFiniteSet(0..(slots - 1)) /\ Cardinality(0..(slots - 1)) = slots
    BY FS_Interval
  <2> QED BY <2>1, FS_Product
<1> HIDE DEF f, near, places
<1>6. IsFiniteSet(near) /\ Cardinality(near) <= Cardinality(places)
  BY <1>3, <1>4, <1>5, FS_Injection DEF Injection, IsInjective
<1>7. Cardinality(near) \in Nat /\ DedupSize \in Nat
  BY <1>6, FS_CardinalityType, InboxAssumption
<1> QED BY <1>5, <1>6, <1>7, FS_CardinalityType DEF near

(* With few enough publishers, whose clocks are not set back, the memory   *)
(* holds whatever they publish at the full rate of their limiters and over *)
(* any restarts, and so flooding dies out (PUBLISH_MIN_INTERVAL,           *)
(* RestartSec, DEDUP_CACHE_SIZE). The clocks may differ by MaxSkew, and    *)
(* those of the other nodes may be set back.                               *)
THEOREM FewPublishersSendOnce ==
  ASSUME IsFiniteSet(Publishers), NEW slots \in Nat, 2 * Window < slots * Gap,
         Cardinality(Publishers) * slots <= DedupSize
  PROVE  Spec /\ []PortalClocksAdvance => []OneTransmissionPerLife
<1>1. Init => Spaced
  BY DEF Init, Spaced
<1>2. BroadcastInv /\ Spaced /\ [Next]_vars => Spaced'
  BY NextSpaced DEF BroadcastInv
<1>3. BroadcastInv /\ Spaced /\ PortalClocksAdvance => MemorySuffices
  BY RateFits DEF BroadcastInv
<1> QED BY <1>1, <1>2, <1>3, BroadcastInvariant, MeshSendsOnce, PTL DEF Spec

-------------------------------------------------------------------------------
(* The service loop: a fragment went before an alert that waits only if    *)
(* the loop, back at its first channel, has yet to find that alert there,  *)
(* or is about to find it in the second.                                   *)
LoopInv ==
  /\ incoming \in Seq(Busy!AllFragments \cup {Busy!Alert})
  /\ local \in Seq(Nat)
  /\ raised \in Nat
  /\ overtaken \in {0, 1}
  /\ overtaken = 1 => (poll = "incoming" /\ Busy!AlertWaits) \/ (poll = "local" /\ Busy!Waits(local))

(* At the start the channels are empty. *)
LEMMA LoopInit == Busy!Init => LoopInv
  BY DEF Busy!Init, LoopInv

(* A frame that is not an alert leaves, and the alerts behind it wait.     *)
LEMMA FrameLeaves ==
  ASSUME LoopInv, Busy!Waits(incoming), incoming' = Tail(incoming), UNCHANGED local
  PROVE  /\ incoming' \in Seq(Busy!AllFragments \cup {Busy!Alert})
         /\ Head(incoming) # Busy!Alert /\ Busy!AlertWaits => Busy!AlertWaits'
<1> DEFINE Any == Busy!AllFragments \cup {Busy!Alert}
<1>1. incoming \in Seq(Any) /\ incoming # <<>>
  BY DEF LoopInv, Busy!Waits
<1> HIDE DEF Any
<1>2. incoming' \in Seq(Any)
  BY <1>1
<1>3. ASSUME Head(incoming) # Busy!Alert, NEW i \in DOMAIN incoming, incoming[i] = Busy!Alert
      PROVE  \E j \in DOMAIN incoming' : incoming'[j] = Busy!Alert
  <2>1. i # 1
    BY <1>1, <1>3
  <2>2. i - 1 \in DOMAIN Tail(incoming) /\ Tail(incoming)[i - 1] = incoming[i]
    BY <1>1, <1>3, <2>1
  <2> QED BY <1>3, <2>2
<1> QED BY <1>2, <1>3 DEF Busy!AlertWaits, Any

(* A frame that arrives joins the end of the channel, if there is room. *)
LEMMA ArriveKeeps ==
  ASSUME LoopInv, NEW f \in Busy!AllFragments \cup {Busy!Alert}, Busy!Arrive(f)
  PROVE  LoopInv'
<1> DEFINE Any == Busy!AllFragments \cup {Busy!Alert}
<1>1. incoming \in Seq(Any) /\ f \in Any /\ incoming' = Append(incoming, f)
  BY DEF LoopInv, Busy!Arrive
<1> HIDE DEF Any
<1>2. /\ incoming' \in Seq(Any)
      /\ \A i \in DOMAIN incoming : i \in DOMAIN incoming' /\ incoming'[i] = incoming[i]
  BY <1>1
<1>3. UNCHANGED <<local, poll, raised, overtaken>>
  BY DEF Busy!Arrive
<1>4. Busy!AlertWaits => Busy!AlertWaits'
  BY <1>2, <1>3 DEF Busy!AlertWaits, Busy!Waits
<1> QED BY <1>2, <1>3, <1>4 DEF LoopInv, Any, Busy!Waits

(* An alert that is published joins the end of the local channel, if there is room. *)
LEMMA PublishKeeps == ASSUME LoopInv, Busy!PublishLocal PROVE LoopInv'
<1>1. UNCHANGED <<incoming, poll, overtaken>> /\ raised' = raised + 1
  BY DEF Busy!PublishLocal
<1>2. local' \in Seq(Nat) /\ (local # <<>> => local' # <<>>)
  BY DEF Busy!PublishLocal, LoopInv
<1> QED BY <1>1, <1>2 DEF LoopInv, Busy!AlertWaits, Busy!Waits

(* A turn of the loop, at each of its three channels.                      *)
LEMMA LoopKeeps == ASSUME LoopInv, Busy!Loop PROVE LoopInv'
<1>1. CASE Busy!PollIncoming
  <2>1. poll = "incoming" /\ UNCHANGED <<local, raised>>
    BY <1>1 DEF Busy!PollIncoming, Busy!portalVars
  <2>2. CASE ~Busy!Waits(incoming) /\ poll' = "local" /\ UNCHANGED <<incoming, overtaken>>
    <3>1. Busy!AlertWaits => Busy!Waits(local)
      BY <2>2 DEF Busy!AlertWaits, Busy!Waits
    <3> QED BY <2>1, <2>2, <3>1 DEF LoopInv, Busy!Waits
  <2>3. CASE Busy!Waits(incoming) /\ incoming' = Tail(incoming) /\ overtaken' = 0
    BY <2>1, <2>3, FrameLeaves DEF LoopInv
  <2>4. CASE /\ Busy!Waits(incoming) /\ Head(incoming) # Busy!Alert
             /\ incoming' = Tail(incoming) /\ UNCHANGED <<poll, overtaken>>
    BY <2>1, <2>4, FrameLeaves DEF LoopInv
  <2> QED BY <1>1, <2>2, <2>3, <2>4 DEF Busy!PollIncoming
<1>2. CASE Busy!PollLocal
  <2>1. poll = "local" /\ UNCHANGED <<incoming, raised>>
    BY <1>2 DEF Busy!PollLocal, Busy!portalVars
  <2>2. CASE Busy!Waits(local)
    <3>1. local' = Tail(local) /\ overtaken' = 0
      BY <1>2, <2>2 DEF Busy!PollLocal
    <3>2. local' \in Seq(Nat)
      BY <2>2, <3>1 DEF LoopInv, Busy!Waits
    <3> QED BY <2>1, <3>1, <3>2 DEF LoopInv
  <2>3. CASE ~Busy!Waits(local)
    BY <1>2, <2>1, <2>3 DEF Busy!PollLocal, LoopInv
  <2> QED BY <2>2, <2>3
<1>3. CASE Busy!PollPay
  <2>1. poll = "pay" /\ poll' = "incoming" /\ UNCHANGED <<incoming, local, raised>>
    BY <1>3 DEF Busy!PollPay, Busy!portalVars
  <2>2. overtaken = 0
    BY <2>1 DEF LoopInv
  <2>3. overtaken' = 0 \/ (overtaken' = 1 /\ Busy!AlertWaits)
    BY <1>3, <2>2 DEF Busy!PollPay
  <2>4. Busy!AlertWaits => Busy!AlertWaits'
    BY <2>1 DEF Busy!AlertWaits, Busy!Waits
  <2> QED BY <2>1, <2>3, <2>4 DEF LoopInv
<1> QED BY <1>1, <1>2, <1>3 DEF Busy!Loop

(* Every step of the run preserves the invariant of the loop. *)
LEMMA LoopNext == LoopInv /\ [MCNext]_<<radioVars, explored, paymentVars>> => LoopInv'
<1> SUFFICES ASSUME LoopInv, [MCNext]_<<radioVars, explored, paymentVars>> PROVE LoopInv'
  OBVIOUS
<1>1. CASE UNCHANGED <<incoming, local, poll, raised, overtaken>>
  BY <1>1 DEF LoopInv, Busy!AlertWaits, Busy!Waits
<1>2. CASE Busy!Next
  <2>1. CASE Busy!ToggleAlert \/ (\E t \in Tx : Busy!Submit(t)) \/ Busy!Push
    BY <1>1, <2>1 DEF Busy!ToggleAlert, Busy!Submit, Busy!Push, Busy!loopVars
  <2> QED BY <1>2, <2>1, ArriveKeeps, PublishKeeps, LoopKeeps DEF Busy!Next
<1> QED BY <1>1, <1>2 DEF MCNext, radioVars

(* Whatever the payments, the bursts of frames and the capacities, an      *)
(* alert that waits sees at most one fragment of a payment go before it    *)
(* (run_with).                                                             *)
THEOREM AlertsOvertakenOnceAtMost == MCSpec => []AtMostOneOvertakes
<1>1. MCInit => LoopInv
  BY LoopInit DEF MCInit
<1>2. LoopInv => AtMostOneOvertakes
  BY DEF LoopInv, AtMostOneOvertakes, Busy!AtMostOneOvertakes
<1> QED BY <1>1, <1>2, LoopNext, PTL DEF MCSpec

-------------------------------------------------------------------------------
(* Payments. The bytes of a transaction, and where its k-th piece ends.    *)
Sent == Payments!Sendable
Bytes == Seq(Int)
Count(t) == Payments!Pieces(t)
PieceEnd(t, k) == IF k = Count(t) THEN Len(t) ELSE k * Payload
Piece(t, k) == SubSeq(t, (k - 1) * Payload + 1, PieceEnd(t, k))
Fragment(t, k) == [id |-> t, index |-> k - 1, total |-> Count(t), data |-> Piece(t, k)]

(* hex_decode gives bytes, from_raw a bounded number of them. *)
LEMMA SendableTyped ==
  ASSUME Payments!PaymentAssumption, NEW t \in Sent
  PROVE  t \in Bytes /\ Len(t) \in Nat \ {0}
<1>1. PICK form \in Form : t = Payments!Decoded(form) /\ Payments!Valid(t)
  BY DEF Sent, Payments!Sendable, Payments!Transactions
<1>2. t # Payments!Bad /\ Len(t) \in 1..MaxTx
  BY <1>1 DEF Payments!Valid
<1>3. form \in Seq(Char)
  BY DEF Payments!PaymentAssumption
<1> DEFINE n == Len(form) \div 2
           Byte(k) == 16 * Nibble[form[2 * k - 1]] + Nibble[form[2 * k]]
<1>4. /\ Len(form) % 2 = 0 /\ \A i \in DOMAIN form : form[i] \in DOMAIN Nibble
      /\ t = [k \in 1..n |-> Byte(k)]
  BY <1>1, <1>2 DEF Payments!Decoded
<1>5. n \in Nat /\ 2 * n = Len(form) /\ DOMAIN form = 1..Len(form)
  BY <1>3, <1>4
<1>6. ASSUME NEW c \in DOMAIN Nibble PROVE Nibble[c] \in Int
  BY <1>6 DEF Payments!PaymentAssumption
<1>7. ASSUME NEW k \in 1..n PROVE Byte(k) \in Int
  <2>1. 2 * k - 1 \in DOMAIN form /\ 2 * k \in DOMAIN form
    BY <1>5
  <2>2. Nibble[form[2 * k - 1]] \in Int /\ Nibble[form[2 * k]] \in Int
    BY <2>1, <1>4, <1>6
  <2> QED BY <2>2
<1> HIDE DEF n, Byte
<1>8. t \in Seq(Int)
  BY <1>4, <1>5, <1>7
<1>9. Len(t) \in Nat \ {0}
  <2>1. MaxTx \in Nat
    BY DEF Payments!PaymentAssumption
  <2> QED BY <2>1, <1>2
<1> QED BY <1>8, <1>9 DEF Bytes

(* The quotient rounded up: full pieces do not suffice, one more does. *)
LEMMA RoundedUp ==
  ASSUME NEW l \in Nat \ {0}, NEW p \in Nat \ {0}, NEW n, n = (l + p - 1) \div p
  PROVE  n \in Nat \ {0} /\ (n - 1) * p < l /\ l <= n * p
<1>1. n \in Int /\ p * n <= l + p - 1 /\ l + p - 1 < p * n + p
  OBVIOUS
<1>2. n >= 1
  <2>1. p * n + p > p
    BY <1>1
  <2>2. ~(n <= 0)
    <3>1. ASSUME n <= 0 PROVE p * n <= 0
      BY <1>1, <3>1
    <3> QED BY <1>1, <2>1, <3>1
  <2> QED BY <1>1, <2>2
<1>3. (n - 1) * p = p * n - p /\ n * p = p * n
  BY <1>1
<1>4. p * n \in Int
  BY <1>1
<1> QED BY <1>1, <1>2, <1>3, <1>4

(* The pieces of a transaction follow each other, none empty, to its end. *)
LEMMA PiecesFollow ==
  ASSUME Payments!PaymentAssumption, NEW t \in Sent
  PROVE  /\ Count(t) \in Nat \ {0}
         /\ PieceEnd(t, Count(t)) = Len(t)
         /\ \A k \in 1..Count(t) :
              /\ (k - 1) * Payload \in Nat /\ PieceEnd(t, k) \in Nat
              /\ (k - 1) * Payload < PieceEnd(t, k) /\ PieceEnd(t, k) <= Len(t)
              /\ k > 1 => PieceEnd(t, k - 1) = (k - 1) * Payload
              /\ k = 1 => (k - 1) * Payload = 0
<1>1. t \in Bytes /\ Len(t) \in Nat \ {0} /\ Payload \in Nat \ {0}
  BY SendableTyped DEF Payments!PaymentAssumption
<1> DEFINE n == Count(t)
<1>2. n = (Len(t) + Payload - 1) \div Payload
  BY DEF Count, Payments!Pieces
<1> HIDE DEF n
<1>3. n \in Nat \ {0} /\ (n - 1) * Payload < Len(t) /\ Len(t) <= n * Payload
  BY <1>1, <1>2, RoundedUp
<1>4. ASSUME NEW k \in 1..n
      PROVE  /\ (k - 1) * Payload \in Nat /\ PieceEnd(t, k) \in Nat
             /\ (k - 1) * Payload < PieceEnd(t, k) /\ PieceEnd(t, k) <= Len(t)
             /\ k > 1 => PieceEnd(t, k - 1) = (k - 1) * Payload
             /\ k = 1 => (k - 1) * Payload = 0
  <2>1. (k - 1) * Payload \in Nat /\ k * Payload \in Nat /\ (k - 1) * Payload < k * Payload
    BY <1>1, <1>3
  <2>2. k = 1 => (k - 1) * Payload = 0
    BY <1>1
  <2>3. k > 1 => PieceEnd(t, k - 1) = (k - 1) * Payload
    BY <1>3 DEF PieceEnd, n
  <2>4. CASE k = n
    <3>1. PieceEnd(t, k) = Len(t)
      BY <2>4 DEF PieceEnd, n
    <3> QED BY <3>1, <2>1, <2>2, <2>3, <2>4, <1>1, <1>3
  <2>5. CASE k # n
    <3>1. PieceEnd(t, k) = k * Payload
      BY <2>5 DEF PieceEnd, n
    <3>2. k * Payload <= (n - 1) * Payload
      <4>1. k <= n - 1
        BY <2>5, <1>3
      <4>2. n - 1 - k \in Nat
        BY <4>1, <1>3
      <4>3. (n - 1 - k) * Payload >= 0
        BY <4>2, <1>1
      <4>4. (n - 1) * Payload = k * Payload + (n - 1 - k) * Payload
        BY <1>1, <1>3
      <4>5. (n - 1 - k) * Payload \in Int /\ (n - 1) * Payload \in Int
        BY <4>2, <1>1, <1>3
      <4> QED BY <4>3, <4>4, <4>5, <2>1
    <3>3. (n - 1) * Payload \in Int
      BY <1>1, <1>3
    <3> QED BY <3>1, <3>2, <3>3, <2>1, <2>2, <2>3, <1>1, <1>3
  <2> QED BY <2>4, <2>5
<1>5. PieceEnd(t, n) = Len(t)
  BY DEF PieceEnd, n
<1> QED BY <1>3, <1>4, <1>5 DEF n

(* A piece is a sequence of bytes, not empty. *)
LEMMA PieceTyped ==
  ASSUME Payments!PaymentAssumption, NEW t \in Sent, NEW k \in 1..Count(t)
  PROVE  Piece(t, k) \in Bytes /\ Piece(t, k) # Payments!Missing
<1>1. t \in Seq(Int) /\ Len(t) \in Nat
  BY SendableTyped DEF Bytes
<1>2. PICK a : a = (k - 1) * Payload
  OBVIOUS
<1>3. PICK b : b = PieceEnd(t, k)
  OBVIOUS
<1>4. a \in Nat /\ b \in Nat /\ a < b /\ b <= Len(t)
  BY <1>2, <1>3, PiecesFollow
<1>5. a + 1 \in 1..(Len(t) + 1) /\ b \in (a + 1)..Len(t)
  BY <1>1, <1>4
<1>6. SubSeq(t, a + 1, b) \in Seq(Int) /\ Len(SubSeq(t, a + 1, b)) = b - a
  BY <1>1, <1>4, <1>5
<1>7. Len(SubSeq(t, a + 1, b)) # 0
  BY <1>4, <1>6
<1> QED BY <1>2, <1>3, <1>6, <1>7 DEF Piece, Bytes, Payments!Missing

(* A set of numbers, each with a smaller one in it, is empty: < is well founded. *)
LEMMA NoLeast ==
  ASSUME NEW T, T \subseteq Nat, \A k \in T : \E j \in T : j < k
  PROVE  T = {}
<1> DEFINE Before == OpToRel(<, Nat)
<1>1. ASSUME T # {} PROVE FALSE
  <2>1. IsWellFoundedOn(Before, Nat)
    BY NatLessThanWellFounded
  <2>2. PICK x \in T : \A y \in T : ~ (<<y, x>> \in Before)
    BY <1>1, <2>1, WFMin
  <2>3. PICK y \in T : y < x
    OBVIOUS
  <2> QED BY <2>2, <2>3 DEF OpToRel
<1> QED BY <1>1

(* Put together in order, the pieces of a transaction are the transaction (FlattenSeq). *)
LEMMA PiecesFlatten ==
  ASSUME Payments!PaymentAssumption, NEW t \in Sent, NEW places,
         places \in [1..Count(t) -> Bytes],
         \A k \in 1..Count(t) : places[k] = Piece(t, k)
  PROVE  Payments!FlattenSeq(places) = t
<1> DEFINE n == Count(t)
           Start(i) == SubSeq(t, 1, PieceEnd(t, i))
           Joins(f) == f = [i \in 1..n |-> IF i = 1 THEN places[i] ELSE f[i - 1] \o places[i]]
           whole == CHOOSE f : Joins(f)
<1>1. t \in Seq(Int) /\ Len(t) \in Nat
  BY SendableTyped DEF Bytes
<1>2. n \in Nat \ {0} /\ PieceEnd(t, n) = Len(t)
  BY PiecesFollow
<1>3. Len(places) = n
  BY <1>2
<1>4. places[1] = Start(1)
  <2>1. 1 \in 1..n
    BY <1>2
  <2>2. (1 - 1) * Payload = 0
    BY <2>1, PiecesFollow
  <2> QED BY <2>1, <2>2 DEF Piece
<1>5. ASSUME NEW i \in 1..n, i # 1 PROVE Start(i - 1) \o places[i] = Start(i)
  <2>1. PICK a : a = (i - 1) * Payload
    OBVIOUS
  <2>2. PICK b : b = PieceEnd(t, i)
    OBVIOUS
  <2>3. i > 1
    BY <1>5, <1>2
  <2>4. a = PieceEnd(t, i - 1) /\ a \in Nat /\ b \in Nat /\ a < b /\ b <= Len(t)
    BY <2>1, <2>2, <2>3, PiecesFollow
  <2>5. 1 \in 1..(Len(t) + 1) /\ a \in (1 - 1)..Len(t) /\ b \in a..Len(t)
    BY <2>4, <1>1
  <2>6. SubSeq(t, 1, a) \o SubSeq(t, a + 1, b) = SubSeq(t, 1, b)
    BY <2>5, <1>1, ConcatAdjacentSubSeq
  <2>7. places[i] = SubSeq(t, a + 1, b)
    BY <2>1, <2>2 DEF Piece
  <2> QED BY <2>2, <2>4, <2>6, <2>7
<1>6. Joins([i \in 1..n |-> Start(i)])
  <2> DEFINE g == [i \in 1..n |-> Start(i)]
  <2>1. ASSUME NEW i \in 1..n PROVE g[i] = IF i = 1 THEN places[i] ELSE g[i - 1] \o places[i]
    <3>1. CASE i = 1
      BY <3>1, <1>4
    <3>2. CASE i # 1
      <4>1. i - 1 \in 1..n
        BY <3>2, <1>2
      <4>2. g[i - 1] = Start(i - 1) /\ g[i] = Start(i)
        BY <4>1
      <4> QED BY <3>2, <4>2, <1>5
    <3> QED BY <3>1, <3>2
  <2> QED BY <2>1
<1>7. Joins(whole)
  BY <1>6
<1>8. Payments!FlattenSeq(places) = whole[n]
  BY <1>2, <1>3 DEF Payments!FlattenSeq
<1> DEFINE T == {i \in 1..n : whole[i] # Start(i)}
<1> HIDE DEF whole
<1>9. ASSUME NEW i \in T PROVE \E j \in T : j < i
  <2>1. i \in 1..n /\ whole[i] # Start(i)
    OBVIOUS
  <2>2. whole[i] = IF i = 1 THEN places[i] ELSE whole[i - 1] \o places[i]
    BY <2>1, <1>7
  <2>3. i # 1
    BY <2>1, <2>2, <1>4
  <2>4. i - 1 \in 1..n /\ i - 1 < i
    BY <2>1, <2>3, <1>2
  <2>5. whole[i - 1] # Start(i - 1)
    BY <2>1, <2>2, <2>3, <1>5
  <2> QED BY <2>4, <2>5
<1>10. T = {}
  <2>1. T \subseteq Nat
    BY <1>2
  <2> HIDE DEF T
  <2> QED BY <2>1, <1>9, NoLeast
<1>11. whole[n] = Start(n)
  BY <1>2, <1>10
<1>12. Start(n) = t
  BY <1>1, <1>2, SubSeqFull
<1> QED BY <1>8, <1>11, <1>12

(* What the relay lists, and what the neighbour heard whole in this life.  *)
TxEntry == [raw : Bytes, status : {"Queued", "Relayed"}]
Whole == {t \in Sent : Payments!Fragments(t) \subseteq heard}
There == carried["there"]
HeldThere == {There[i].raw : i \in DOMAIN There}

(* What is on the air was cut from transactions that can be sent.          *)
AirInv ==
  /\ \A f \in afloat : \E t \in Sent : \E k \in 1..Count(t) : f = Fragment(t, k)
  /\ heard \subseteq afloat /\ IsFiniteSet(heard)

(* A place of a transaction being put together is empty or holds its piece, *)
(* heard; and of a transaction of which some fragment was not heard in this *)
(* life, every fragment heard has its place.                                *)
PlacesInv ==
  /\ DOMAIN gathered \subseteq Sent
  /\ \A t \in DOMAIN gathered :
       /\ gathered[t] \in [1..Count(t) -> Bytes]
       /\ \A k \in 1..Count(t) :
            gathered[t][k] # Payments!Missing =>
              gathered[t][k] = Piece(t, k) /\ Fragment(t, k) \in heard
  /\ \A t \in Sent \ Whole : \A k \in 1..Count(t) :
       Fragment(t, k) \in heard => t \in DOMAIN gathered /\ gathered[t][k] = Piece(t, k)

(* The relay holds what was heard whole, once each, unless it is full.     *)
QueueInv ==
  /\ carried \in [Payments!Node -> Seq(TxEntry)]
  /\ \A i, j \in 1..Len(There) : There[i].raw = There[j].raw => i = j
  /\ IsFiniteSet(HeldThere) /\ Cardinality(HeldThere) = Len(There)
  /\ HeldThere \subseteq Whole
  /\ Len(There) < RelayQueue => HeldThere = Whole

PaymentInv == AirInv /\ PlacesInv /\ QueueInv

(* The fragments of a transaction, numbered from one.                      *)
LEMMA FragmentsAre ==
  ASSUME Payments!PaymentAssumption, NEW t \in Sent
  PROVE  /\ Payments!Fragments(t) = {Fragment(t, k) : k \in 1..Count(t)}
         /\ Payments!Fragments(t) # {}
<1>1. Count(t) \in Nat \ {0}
  BY PiecesFollow
<1> DEFINE Cut(k) == [id |-> t, index |-> k, total |-> Count(t),
                      data |-> SubSeq(t, k * Payload + 1,
                                      IF k = Count(t) - 1 THEN Len(t) ELSE (k + 1) * Payload)]
<1>2. Payments!Fragments(t) = {Cut(k) : k \in 0..(Count(t) - 1)}
  BY DEF Payments!Fragments, Count
<1>3. ASSUME NEW k \in 1..Count(t) PROVE Cut(k - 1) = Fragment(t, k)
  <2>1. (k - 1 = Count(t) - 1) <=> (k = Count(t))
    BY <1>1
  <2>2. (k - 1) + 1 = k
    BY <1>1
  <2> QED BY <2>1, <2>2 DEF Fragment, Piece, PieceEnd
<1> HIDE DEF Cut
<1>4. \A k \in 0..(Count(t) - 1) : k + 1 \in 1..Count(t) /\ (k + 1) - 1 = k
  BY <1>1
<1>5. \A k \in 1..Count(t) : k - 1 \in 0..(Count(t) - 1)
  BY <1>1
<1>6. Payments!Fragments(t) \subseteq {Fragment(t, k) : k \in 1..Count(t)}
  <2>1. ASSUME NEW k \in 0..(Count(t) - 1) PROVE Cut(k) = Fragment(t, k + 1)
    <3>1. k + 1 \in 1..Count(t) /\ (k + 1) - 1 = k
      BY <1>4
    <3>2. Cut((k + 1) - 1) = Fragment(t, k + 1)
      BY <3>1, <1>3
    <3> QED BY <3>1, <3>2
  <2> QED BY <1>2, <1>4, <2>1
<1>7. {Fragment(t, k) : k \in 1..Count(t)} \subseteq Payments!Fragments(t)
  BY <1>2, <1>3, <1>5
<1>8. 1 \in 1..Count(t)
  BY <1>1
<1> QED BY <1>6, <1>7, <1>8

(* A transaction is whole when all its fragments were heard. *)
LEMMA WholeIs ==
  ASSUME Payments!PaymentAssumption, NEW t \in Sent
  PROVE  t \in Whole <=> \A k \in 1..Count(t) : Fragment(t, k) \in heard
BY FragmentsAre DEF Whole

(* At first nothing was heard and nothing is held. *)
LEMMA NothingHeard ==
  ASSUME Payments!PaymentAssumption, heard = {}, gathered = << >>,
         carried \in [Payments!Node -> Seq(TxEntry)], carried["there"] = << >>
  PROVE  heard \subseteq afloat /\ IsFiniteSet(heard) /\ PlacesInv /\ QueueInv
<1>1. Whole = {}
  BY FragmentsAre DEF Whole
<1>2. HeldThere = {} /\ Len(There) = 0
  BY DEF HeldThere, There
<1>3. IsFiniteSet(HeldThere) /\ Cardinality(HeldThere) = 0 /\ IsFiniteSet(heard)
  BY <1>2, FS_EmptySet
<1>4. QueueInv
  BY <1>1, <1>2, <1>3 DEF QueueInv
<1>5. PlacesInv
  <2>1. DOMAIN gathered = {}
    OBVIOUS
  <2> QED BY <2>1 DEF PlacesInv
<1> QED BY <1>3, <1>4, <1>5

(* Payments start with an empty relay and nothing on the air. *)
LEMMA InitPayment == Payments!PaymentAssumption /\ Payments!Init => PaymentInv
<1> SUFFICES ASSUME Payments!PaymentAssumption, Payments!Init PROVE PaymentInv
  OBVIOUS
<1>1. carried = [n \in Payments!Node |-> << >>] /\ afloat = {} /\ gathered = << >> /\ heard = {}
  BY DEF Payments!Init
<1>2. carried \in [Payments!Node -> Seq(TxEntry)]
  <2>1. << >> \in Seq(TxEntry)
    OBVIOUS
  <2> QED BY <1>1, <2>1
<1>3. carried["there"] = << >>
  BY <1>1 DEF Payments!Node
<1>4. \A f \in afloat : \E t \in Sent : \E k \in 1..Count(t) : f = Fragment(t, k)
  BY <1>1
<1> QED BY <1>1, <1>2, <1>3, <1>4, NothingHeard DEF PaymentInv, AirInv

(* A step that hears nothing and leaves the relay there alone. *)
LEMMA NothingNew ==
  ASSUME PlacesInv, QueueInv, heard' = heard, gathered' = gathered,
         carried' \in [Payments!Node -> Seq(TxEntry)], carried'["there"] = carried["there"]
  PROVE  PlacesInv' /\ QueueInv'
<1>1. Whole' = Whole
  BY DEF Whole
<1>2. There' = There
  BY DEF There
<1>3. HeldThere' = HeldThere
  BY <1>2 DEF HeldThere
<1>4. PlacesInv'
  BY <1>1 DEF PlacesInv
<1>5. QueueInv'
  BY <1>1, <1>2, <1>3 DEF QueueInv
<1> QED BY <1>4, <1>5

(* A transaction joins the relay of node n, or not, and no other relay.    *)
EnqueueIs(n, raw, status, new) ==
  /\ new \in [Payments!Node -> Seq(TxEntry)]
  /\ \A m \in Payments!Node : m # n => new[m] = carried[m]
  /\ new[n] = IF raw \in Payments!Held(n) \/ Len(carried[n]) >= RelayQueue THEN carried[n]
              ELSE Append(carried[n], [raw |-> raw, status |-> status])

(* Relay::accept_raw touches one relay, which grows by one transaction at most. *)
LEMMA EnqueueTyped ==
  ASSUME carried \in [Payments!Node -> Seq(TxEntry)], NEW n \in Payments!Node, NEW raw \in Bytes,
         NEW status \in {"Queued", "Relayed"}
  PROVE  EnqueueIs(n, raw, status, Payments!Enqueue(n, raw, status))
<1>1. [raw |-> raw, status |-> status] \in TxEntry
  BY DEF TxEntry
<1>2. Append(carried[n], [raw |-> raw, status |-> status]) \in Seq(TxEntry)
  BY <1>1
<1> QED BY <1>2 DEF Payments!Enqueue, EnqueueIs

(* submit_pay: what goes on the air are fragments of a valid transaction. *)
LEMMA SubmitPayment ==
  ASSUME Payments!PaymentAssumption, PaymentInv, NEW form \in Form, Payments!Submit(form)
  PROVE  PaymentInv'
<1> DEFINE raw == Payments!Decoded(form)
<1>1. /\ Payments!Valid(raw) /\ heard' = heard /\ gathered' = gathered
      /\ carried' = Payments!Enqueue("here", raw, IF wired THEN "Relayed" ELSE "Queued")
      /\ afloat' = afloat \/ \E taken \in SUBSET Payments!Fragments(raw) : afloat' = afloat \cup taken
  BY DEF Payments!Submit
<1>2. raw \in Sent
  BY <1>1 DEF Sent, Payments!Sendable, Payments!Transactions
<1> HIDE DEF raw
<1>3. carried \in [Payments!Node -> Seq(TxEntry)]
  BY DEF PaymentInv, QueueInv
<1>4. "here" \in Payments!Node /\ "there" \in Payments!Node /\ "here" # "there"
  BY DEF Payments!Node
<1>5. carried' \in [Payments!Node -> Seq(TxEntry)] /\ carried'["there"] = carried["there"]
  <2>1. raw \in Bytes
    BY <1>2, SendableTyped
  <2>2. PICK status \in {"Queued", "Relayed"} : carried' = Payments!Enqueue("here", raw, status)
    BY <1>1
  <2>3. EnqueueIs("here", raw, status, carried')
    BY <1>3, <1>4, <2>1, <2>2, EnqueueTyped
  <2> QED BY <1>4, <2>3 DEF EnqueueIs
<1>6. PlacesInv' /\ QueueInv'
  BY <1>1, <1>5, NothingNew DEF PaymentInv
<1>7. AirInv'
  <2>1. PICK taken \in SUBSET Payments!Fragments(raw) : afloat' = afloat \cup taken
    <3>1. afloat = afloat \cup {} /\ {} \in SUBSET Payments!Fragments(raw)
      OBVIOUS
    <3> QED BY <1>1, <3>1
  <2>2. taken \subseteq {Fragment(raw, k) : k \in 1..Count(raw)}
    BY <1>2, FragmentsAre
  <2>3. \A f \in taken : \E t \in Sent : \E k \in 1..Count(t) : f = Fragment(t, k)
    BY <1>2, <2>2
  <2>4. \A f \in afloat' : \E t \in Sent : \E k \in 1..Count(t) : f = Fragment(t, k)
    BY <2>1, <2>3 DEF PaymentInv, AirInv
  <2>5. heard' \subseteq afloat' /\ IsFiniteSet(heard')
    BY <1>1, <2>1 DEF PaymentInv, AirInv
  <2> QED BY <2>4, <2>5 DEF AirInv
<1> QED BY <1>6, <1>7 DEF PaymentInv

(* A restart forgets a relay, and the one there also what it heard. *)
LEMMA RestartPayment ==
  ASSUME Payments!PaymentAssumption, PaymentInv, NEW n \in Payments!Node, Payments!Restart(n)
  PROVE  PaymentInv'
<1>1. carried' = [carried EXCEPT ![n] = << >>] /\ afloat' = afloat
  BY DEF Payments!Restart
<1>2. carried \in [Payments!Node -> Seq(TxEntry)]
  BY DEF PaymentInv, QueueInv
<1>3. carried' \in [Payments!Node -> Seq(TxEntry)]
  <2>1. << >> \in Seq(TxEntry)
    OBVIOUS
  <2> QED BY <1>1, <1>2, <2>1
<1>4. "there" \in Payments!Node
  BY DEF Payments!Node
<1>5. CASE n = "there"
  <2>1. gathered' = << >> /\ heard' = {}
    BY <1>5 DEF Payments!Restart
  <2>2. carried'["there"] = << >>
    BY <1>1, <1>2, <1>4, <1>5
  <2>3. PlacesInv' /\ QueueInv' /\ heard' \subseteq afloat' /\ IsFiniteSet(heard')
    <3>1. DOMAIN gathered' = {} /\ IsFiniteSet(heard')
      BY <2>1, FS_EmptySet
    <3>2. Whole' = {}
      BY <2>1, FragmentsAre DEF Whole
    <3>3. There' = << >>
      BY <2>2 DEF There
    <3>4. HeldThere' = {} /\ Len(There') = 0
      BY <3>3 DEF HeldThere
    <3>5. PlacesInv'
      BY <3>1, <2>1 DEF PlacesInv
    <3>6. Cardinality(HeldThere') = 0 /\ IsFiniteSet(HeldThere')
      BY <3>4, FS_EmptySet
    <3>7. QueueInv'
      BY <3>2, <3>4, <3>6, <1>3 DEF QueueInv
    <3> QED BY <3>1, <3>5, <3>7, <2>1
  <2> QED BY <2>3, <1>1 DEF PaymentInv, AirInv
<1>6. CASE n # "there"
  <2>1. gathered' = gathered /\ heard' = heard
    BY <1>6 DEF Payments!Restart
  <2>2. carried'["there"] = carried["there"]
    BY <1>1, <1>2, <1>4, <1>6
  <2>3. PlacesInv' /\ QueueInv'
    BY <2>1, <2>2, <1>3, NothingNew DEF PaymentInv
  <2> QED BY <2>1, <2>3, <1>1 DEF PaymentInv, AirInv
<1> QED BY <1>5, <1>6

(* A fragment that is heard belongs to one transaction. *)
LEMMA WholeGrows ==
  ASSUME Payments!PaymentAssumption, NEW t \in Sent, NEW k \in 1..Count(t),
         heard' = heard \cup {Fragment(t, k)}
  PROVE  /\ Whole \subseteq Whole' /\ Whole' \subseteq Whole \cup {t}
         /\ t \in Whole' <=> \A j \in 1..Count(t) : Fragment(t, j) \in heard'
<1>1. Whole' = {u \in Sent : Payments!Fragments(u) \subseteq heard'}
  BY DEF Whole
<1>2. Whole \subseteq Whole'
  BY <1>1 DEF Whole
<1>3. ASSUME NEW u \in Whole', u # t PROVE u \in Whole
  <2>1. u \in Sent /\ Payments!Fragments(u) \subseteq heard'
    BY <1>1
  <2>2. ASSUME NEW j \in 1..Count(u) PROVE Fragment(u, j) \in heard
    <3>1. Fragment(u, j) \in heard'
      BY <2>1, FragmentsAre
    <3>2. Fragment(u, j).id = u /\ Fragment(t, k).id = t
      BY DEF Fragment
    <3> QED BY <3>1, <3>2, <1>3
  <2> QED BY <2>1, <2>2, WholeIs
<1>4. t \in Whole' <=> \A j \in 1..Count(t) : Fragment(t, j) \in heard'
  BY <1>1, FragmentsAre
<1> QED BY <1>2, <1>3, <1>4

(* Places that hold the k-th piece of t and, unless t was whole before, the *)
(* pieces of t heard, nothing else.                                         *)
PlacesAre(t, k, places) ==
  /\ places \in [1..Count(t) -> Bytes]
  /\ places[k] = Piece(t, k)
  /\ \A j \in 1..Count(t) :
       places[j] # Payments!Missing =>
         places[j] = Piece(t, j) /\ Fragment(t, j) \in heard \cup {Fragment(t, k)}
  /\ t \notin Whole => \A j \in 1..Count(t) :
       Fragment(t, j) \in heard \cup {Fragment(t, k)} => places[j] = Piece(t, j)

(* Reassembler::ingest: the places of a transaction after a fragment of it. *)
LEMMA PlacedIs ==
  ASSUME Payments!PaymentAssumption, PaymentInv, NEW t \in Sent, NEW k \in 1..Count(t)
  PROVE  PlacesAre(t, k, Payments!Placed(Fragment(t, k)))
<1> DEFINE old == IF t \in DOMAIN gathered THEN gathered[t]
                  ELSE [j \in 1..Count(t) |-> Payments!Missing]
           new == [old EXCEPT ![k] = Piece(t, k)]
<1>1. Count(t) \in Nat \ {0}
  BY PiecesFollow
<1>2. Payments!Placed(Fragment(t, k)) = new
  <2>1. /\ Fragment(t, k).id = t /\ Fragment(t, k).total = Count(t)
        /\ Fragment(t, k).index + 1 = k /\ Fragment(t, k).data = Piece(t, k)
    BY <1>1 DEF Fragment
  <2> QED BY <2>1 DEF Payments!Placed
<1>3. /\ \A u \in DOMAIN gathered :
           /\ gathered[u] \in [1..Count(u) -> Bytes]
           /\ \A j \in 1..Count(u) :
                gathered[u][j] # Payments!Missing =>
                  gathered[u][j] = Piece(u, j) /\ Fragment(u, j) \in heard
      /\ t \notin Whole => \A j \in 1..Count(t) :
           Fragment(t, j) \in heard => t \in DOMAIN gathered /\ gathered[t][j] = Piece(t, j)
  BY DEF PaymentInv, PlacesInv
<1>4. Payments!Missing \in Bytes
  BY DEF Payments!Missing, Bytes
<1>5. /\ old \in [1..Count(t) -> Bytes]
      /\ \A j \in 1..Count(t) :
           old[j] # Payments!Missing => old[j] = Piece(t, j) /\ Fragment(t, j) \in heard
      /\ t \notin Whole => \A j \in 1..Count(t) : Fragment(t, j) \in heard => old[j] = Piece(t, j)
  BY <1>3, <1>4
<1> HIDE DEF old
<1>6. /\ new \in [1..Count(t) -> Bytes] /\ new[k] = Piece(t, k)
      /\ \A j \in 1..Count(t) : j # k => new[j] = old[j]
  BY <1>5, PieceTyped
<1> HIDE DEF new
<1>7. \A j \in 1..Count(t) : Fragment(t, j) = Fragment(t, k) => j = k
  <2>1. ASSUME NEW j \in 1..Count(t), Fragment(t, j) = Fragment(t, k) PROVE j = k
    <3>1. Fragment(t, j).index = j - 1 /\ Fragment(t, k).index = k - 1
      BY DEF Fragment
    <3> QED BY <3>1, <2>1, <1>1
  <2> QED BY <2>1
<1>8. PlacesAre(t, k, new)
  BY <1>5, <1>6, <1>7 DEF PlacesAre
<1> QED BY <1>2, <1>8

(* A transaction that is whole joins the relay: the list grows by it, once. *)
LEMMA JoinsRelay ==
  ASSUME Payments!PaymentAssumption, QueueInv, NEW t \in Sent, Whole' = Whole \cup {t},
         carried' = Payments!Enqueue("there", t, "Queued")
  PROVE  QueueInv'
<1> DEFINE e == [raw |-> t, status |-> "Queued"]
<1>1. "there" \in Payments!Node /\ t \in Bytes /\ carried \in [Payments!Node -> Seq(TxEntry)]
  BY SendableTyped DEF Payments!Node, QueueInv
<1>2. EnqueueIs("there", t, "Queued", carried')
  BY <1>1, EnqueueTyped
<1>3. Payments!Held("there") = HeldThere
  BY DEF Payments!Held, HeldThere, There
<1>4. /\ carried' \in [Payments!Node -> Seq(TxEntry)]
      /\ There' = IF t \in HeldThere \/ Len(There) >= RelayQueue THEN There ELSE Append(There, e)
  BY <1>2, <1>3 DEF EnqueueIs, There
<1>5. There \in Seq(TxEntry) /\ e \in TxEntry /\ e.raw = t
  BY <1>1 DEF There, TxEntry
<1> HIDE DEF e
<1>6. /\ \A i, j \in 1..Len(There) : There[i].raw = There[j].raw => i = j
      /\ IsFiniteSet(HeldThere) /\ Cardinality(HeldThere) = Len(There)
      /\ HeldThere \subseteq Whole
      /\ Len(There) < RelayQueue => HeldThere = Whole
  BY DEF QueueInv
<1>7. DOMAIN There = 1..Len(There) /\ Len(There) \in Nat
  BY <1>5
<1>8. CASE t \in HeldThere \/ Len(There) >= RelayQueue
  <2>1. There' = There
    BY <1>4, <1>8
  <2>2. HeldThere' = HeldThere
    BY <2>1 DEF HeldThere
  <2>3. HeldThere' \subseteq Whole' /\ (Len(There') < RelayQueue => HeldThere' = Whole')
    <3>1. RelayQueue \in Nat
      BY DEF Payments!PaymentAssumption
    <3> QED BY <3>1, <1>6, <1>7, <1>8, <2>1, <2>2
  <2> QED BY <2>1, <2>2, <2>3, <1>4, <1>6 DEF QueueInv
<1>9. CASE ~(t \in HeldThere \/ Len(There) >= RelayQueue)
  <2>1. There' = Append(There, e)
    BY <1>4, <1>9
  <2>2. /\ Len(There') = Len(There) + 1 /\ DOMAIN There' = 1..(Len(There) + 1)
        /\ There'[Len(There) + 1] = e
        /\ \A i \in 1..Len(There) : There'[i] = There[i]
    BY <2>1, <1>5
  <2>3. \A i \in 1..Len(There) : There[i].raw \in HeldThere
    BY <1>7 DEF HeldThere
  <2>4. \A i \in 1..(Len(There) + 1) : i \in 1..Len(There) \/ i = Len(There) + 1
    BY <1>7
  <2>5. HeldThere' = HeldThere \cup {t}
    <3>1. HeldThere' = {There'[i].raw : i \in 1..(Len(There) + 1)}
      BY <2>2 DEF HeldThere
    <3>2. HeldThere = {There[i].raw : i \in 1..Len(There)}
      BY <1>7 DEF HeldThere
    <3>3. Len(There) + 1 \in 1..(Len(There) + 1)
          /\ \A i \in 1..Len(There) : i \in 1..(Len(There) + 1)
      BY <1>7
    <3> QED BY <3>1, <3>2, <3>3, <2>2, <2>4, <1>5
  <2>6. \A i, j \in 1..Len(There') : There'[i].raw = There'[j].raw => i = j
    <3>1. SUFFICES ASSUME NEW i \in 1..Len(There'), NEW j \in 1..Len(There'),
                          There'[i].raw = There'[j].raw
                   PROVE  i = j
      OBVIOUS
    <3>2. /\ i \in 1..Len(There) \/ i = Len(There) + 1
          /\ j \in 1..Len(There) \/ j = Len(There) + 1
      BY <2>2, <2>4
    <3>3. CASE i \in 1..Len(There) /\ j \in 1..Len(There)
      BY <3>1, <3>3, <2>2, <1>6
    <3>4. CASE i \in 1..Len(There) /\ j = Len(There) + 1
      BY <3>1, <3>4, <2>2, <2>3, <1>5, <1>9
    <3>5. CASE i = Len(There) + 1 /\ j \in 1..Len(There)
      BY <3>1, <3>5, <2>2, <2>3, <1>5, <1>9
    <3> QED BY <3>2, <3>3, <3>4, <3>5
  <2>7. IsFiniteSet(HeldThere') /\ Cardinality(HeldThere') = Len(There')
    BY <2>2, <2>5, <1>6, <1>9, FS_AddElement
  <2>8. HeldThere' \subseteq Whole' /\ (Len(There') < RelayQueue => HeldThere' = Whole')
    <3>1. Len(There) < RelayQueue
      <4>1. RelayQueue \in Nat
        BY DEF Payments!PaymentAssumption
      <4> QED BY <4>1, <1>7, <1>9
    <3> QED BY <3>1, <2>5, <1>6
  <2> QED BY <2>6, <2>7, <2>8, <1>4 DEF QueueInv
<1> QED BY <1>8, <1>9

(* handle_payment_fragment: a fragment takes its place, and completes its  *)
(* transaction or not.                                                     *)
LEMMA ReceivePayment ==
  ASSUME Payments!PaymentAssumption, PaymentInv, NEW f \in afloat, Payments!Receive(f)
  PROVE  PaymentInv'
<1>1. PICK t \in Sent : \E k \in 1..Count(t) : f = Fragment(t, k)
  BY DEF PaymentInv, AirInv
<1>2. PICK k \in 1..Count(t) : f = Fragment(t, k)
  BY <1>1
<1>3. Count(t) \in Nat \ {0}
  BY PiecesFollow
<1>4. f.id = t /\ f.total = Count(t) /\ f.index = k - 1
  BY <1>2 DEF Fragment
<1> DEFINE places == Payments!Placed(f)
<1>5. PlacesAre(t, k, places)
  BY <1>2, PlacedIs
<1>6. places \in [1..Count(t) -> Bytes] /\ DOMAIN places = 1..Count(t)
  BY <1>5 DEF PlacesAre
<1>7. ~(f.total = 0 \/ f.index >= f.total \/ Len(places) # f.total)
  <2>1. Len(places) = Count(t)
    BY <1>3, <1>6
  <2> QED BY <2>1, <1>3, <1>4
<1>8. /\ heard' = heard \cup {Fragment(t, k)} /\ afloat' = afloat
      /\ IF Payments!Complete(places)
         THEN /\ gathered' = Payments!Without(t)
              /\ carried' = IF Payments!Valid(Payments!FlattenSeq(places))
                            THEN Payments!Enqueue("there", Payments!FlattenSeq(places), "Queued")
                            ELSE carried
         ELSE gathered' = Payments!With(t, places) /\ carried' = carried
  BY <1>2, <1>4, <1>7 DEF Payments!Receive
<1> HIDE DEF places
<1>9. AirInv'
  <2>1. IsFiniteSet(heard) /\ heard \subseteq afloat
    BY DEF PaymentInv, AirInv
  <2>2. IsFiniteSet(heard')
    BY <2>1, <1>8, FS_AddElement
  <2>3. heard' \subseteq afloat'
    BY <2>1, <1>2, <1>8
  <2>4. \A g \in afloat' : \E u \in Sent : \E j \in 1..Count(u) : g = Fragment(u, j)
    BY <1>8 DEF PaymentInv, AirInv
  <2> QED BY <2>2, <2>3, <2>4 DEF AirInv
<1>10. /\ Whole \subseteq Whole' /\ Whole' \subseteq Whole \cup {t}
       /\ t \in Whole' <=> \A j \in 1..Count(t) : Fragment(t, j) \in heard'
  BY <1>8, WholeGrows
<1>11. \A j \in 1..Count(t) :
         places[j] # Payments!Missing => places[j] = Piece(t, j) /\ Fragment(t, j) \in heard'
  BY <1>5, <1>8 DEF PlacesAre
<1>12. t \notin Whole => \A j \in 1..Count(t) : Fragment(t, j) \in heard' => places[j] = Piece(t, j)
  BY <1>5, <1>8 DEF PlacesAre
<1>13. /\ DOMAIN gathered \subseteq Sent
       /\ \A u \in DOMAIN gathered :
            /\ gathered[u] \in [1..Count(u) -> Bytes]
            /\ \A j \in 1..Count(u) :
                 gathered[u][j] # Payments!Missing =>
                   gathered[u][j] = Piece(u, j) /\ Fragment(u, j) \in heard
       /\ \A u \in Sent \ Whole : \A j \in 1..Count(u) :
            Fragment(u, j) \in heard => u \in DOMAIN gathered /\ gathered[u][j] = Piece(u, j)
  BY DEF PaymentInv, PlacesInv
<1>14. ASSUME NEW u \in Sent, u # t, NEW j \in 1..Count(u), Fragment(u, j) \in heard'
       PROVE  Fragment(u, j) \in heard
  <2>1. Fragment(u, j).id = u /\ Fragment(t, k).id = t
    BY DEF Fragment
  <2> QED BY <2>1, <1>8, <1>14
<1>15. heard \subseteq heard'
  BY <1>8
<1>16. CASE Payments!Complete(places)
  <2>1. \A j \in 1..Count(t) : places[j] = Piece(t, j) /\ Fragment(t, j) \in heard'
    BY <1>16, <1>6, <1>11 DEF Payments!Complete
  <2>2. Whole' = Whole \cup {t}
    BY <2>1, <1>10
  <2>3. Payments!FlattenSeq(places) = t
    BY <2>1, <1>6, PiecesFlatten
  <2>4. Payments!Valid(t)
    BY DEF Sent, Payments!Sendable
  <2>5. carried' = Payments!Enqueue("there", t, "Queued")
    BY <2>3, <2>4, <1>8, <1>16
  <2>6. QueueInv'
    BY <2>2, <2>5, JoinsRelay DEF PaymentInv
  <2>7. /\ DOMAIN gathered' = DOMAIN gathered \ {t}
        /\ \A u \in DOMAIN gathered \ {t} : gathered'[u] = gathered[u]
    BY <1>8, <1>16 DEF Payments!Without
  <2>8. PlacesInv'
    <3>1. ASSUME NEW u \in DOMAIN gathered'
          PROVE  /\ gathered'[u] \in [1..Count(u) -> Bytes]
                 /\ \A j \in 1..Count(u) :
                      gathered'[u][j] # Payments!Missing =>
                        gathered'[u][j] = Piece(u, j) /\ Fragment(u, j) \in heard'
      BY <3>1, <2>7, <1>13, <1>15
    <3>2. ASSUME NEW u \in Sent \ Whole', NEW j \in 1..Count(u), Fragment(u, j) \in heard'
          PROVE  u \in DOMAIN gathered' /\ gathered'[u][j] = Piece(u, j)
      <4>1. u # t /\ u \in Sent \ Whole
        BY <2>2
      <4>2. Fragment(u, j) \in heard
        BY <3>2, <4>1, <1>14
      <4> QED BY <4>1, <4>2, <2>7, <1>13
    <3>3. DOMAIN gathered' \subseteq Sent
      BY <2>7, <1>13
    <3> QED BY <3>1, <3>2, <3>3 DEF PlacesInv
  <2> QED BY <2>6, <2>8, <1>9 DEF PaymentInv
<1>17. CASE ~Payments!Complete(places)
  <2>1. PICK j \in 1..Count(t) : places[j] = Payments!Missing
    BY <1>17, <1>6 DEF Payments!Complete
  <2>2. Whole' = Whole
    <3>1. ASSUME t \notin Whole PROVE t \notin Whole'
      <4>1. places[j] # Piece(t, j)
        BY <2>1, PieceTyped
      <4>2. Fragment(t, j) \notin heard'
        BY <3>1, <4>1, <1>12
      <4> QED BY <4>2, <1>10
    <3> QED BY <3>1, <1>10
  <2>3. There' = There /\ carried' = carried
    BY <1>8, <1>17 DEF There
  <2>4. HeldThere' = HeldThere
    BY <2>3 DEF HeldThere
  <2>5. QueueInv'
    BY <2>2, <2>3, <2>4 DEF PaymentInv, QueueInv
  <2>6. /\ DOMAIN gathered' = DOMAIN gathered \cup {t} /\ gathered'[t] = places
        /\ \A u \in DOMAIN gathered : u # t => gathered'[u] = gathered[u]
    BY <1>8, <1>17 DEF Payments!With
  <2>7. PlacesInv'
    <3>1. ASSUME NEW u \in DOMAIN gathered'
          PROVE  /\ gathered'[u] \in [1..Count(u) -> Bytes]
                 /\ \A i \in 1..Count(u) :
                      gathered'[u][i] # Payments!Missing =>
                        gathered'[u][i] = Piece(u, i) /\ Fragment(u, i) \in heard'
      <4>1. CASE u = t
        BY <4>1, <2>6, <1>6, <1>11
      <4>2. CASE u # t
        BY <3>1, <4>2, <2>6, <1>13, <1>15
      <4> QED BY <4>1, <4>2
    <3>2. ASSUME NEW u \in Sent \ Whole', NEW i \in 1..Count(u), Fragment(u, i) \in heard'
          PROVE  u \in DOMAIN gathered' /\ gathered'[u][i] = Piece(u, i)
      <4>1. CASE u = t
        BY <4>1, <3>2, <2>2, <2>6, <1>12
      <4>2. CASE u # t
        <5>1. Fragment(u, i) \in heard
          BY <3>2, <4>2, <1>14
        <5> QED BY <5>1, <4>2, <2>2, <2>6, <1>13
      <4> QED BY <4>1, <4>2
    <3>3. DOMAIN gathered' \subseteq Sent
      BY <2>6, <1>13
    <3> QED BY <3>1, <3>2, <3>3 DEF PlacesInv
  <2> QED BY <2>5, <2>7, <1>9 DEF PaymentInv
<1> QED BY <1>16, <1>17

(* Every step of the run preserves the invariant of payments. *)
LEMMA NextPayment ==
  Payments!PaymentAssumption /\ PaymentInv /\ [MCNext]_<<radioVars, explored, paymentVars>>
    => PaymentInv'
<1> SUFFICES ASSUME Payments!PaymentAssumption, PaymentInv,
                    [MCNext]_<<radioVars, explored, paymentVars>>
             PROVE  PaymentInv'
  OBVIOUS
<1>1. CASE UNCHANGED paymentVars
  <2>1. carried' = carried /\ afloat' = afloat /\ gathered' = gathered /\ heard' = heard
    BY <1>1 DEF paymentVars
  <2>2. carried' \in [Payments!Node -> Seq(TxEntry)]
    BY <2>1 DEF PaymentInv, QueueInv
  <2>3. PlacesInv' /\ QueueInv'
    BY <2>1, <2>2, NothingNew DEF PaymentInv
  <2>4. AirInv'
    BY <2>1 DEF PaymentInv, AirInv
  <2> QED BY <2>3, <2>4 DEF PaymentInv
<1>2. CASE Payments!Next
  BY <1>2, SubmitPayment, ReceivePayment, RestartPayment DEF Payments!Next
<1> QED BY <1>1, <1>2 DEF MCNext

(* The transactions heard whole are finitely many. *)
LEMMA WholeFinite ==
  ASSUME Payments!PaymentAssumption, PaymentInv
  PROVE  IsFiniteSet(Whole)
<1> DEFINE Identified == {f.id : f \in heard}
<1>1. IsFiniteSet(Identified)
  <2> DEFINE identify == [f \in heard |-> f.id]
  <2>1. IsFiniteSet(heard)
    BY DEF PaymentInv, AirInv
  <2>2. identify \in Surjection(heard, Identified)
    BY DEF Surjection
  <2> QED BY <2>1, <2>2, FS_Surjection
<1>2. ASSUME NEW t \in Whole PROVE t \in Identified
  <2>1. t \in Sent /\ 1 \in 1..Count(t)
    BY PiecesFollow DEF Whole
  <2>2. Fragment(t, 1) \in heard
    BY <2>1, WholeIs
  <2>3. Fragment(t, 1).id = t
    BY DEF Fragment
  <2> QED BY <2>2, <2>3
<1> QED BY <1>1, <1>2, FS_Subset

(* Unless more was heard whole than the relay takes, it holds it all. *)
LEMMA InvHolds ==
  ASSUME Payments!PaymentAssumption, PaymentInv
  PROVE  HoldsWhatItHeard
<1>1. QueueInv /\ IsFiniteSet(Whole)
  BY WholeFinite DEF PaymentInv
<1>2. Payments!Held("there") = HeldThere
  BY DEF Payments!Held, HeldThere, There
<1>3. {raw \in Payments!Sendable : Payments!Fragments(raw) \subseteq heard} = Whole
  BY DEF Whole, Sent
<1>4. There \in Seq(TxEntry)
  BY <1>1 DEF QueueInv, There, Payments!Node
<1>5. Payments!IsInjective(There)
  <2>1. DOMAIN There = 1..Len(There)
    BY <1>4
  <2>2. \A i, j \in 1..Len(There) : There[i].raw = There[j].raw => i = j
    BY <1>1 DEF QueueInv
  <2>3. ASSUME NEW i \in DOMAIN There, NEW j \in DOMAIN There, There[i] = There[j] PROVE i = j
    BY <2>1, <2>2, <2>3
  <2> QED BY <2>3 DEF Payments!IsInjective
<1>6. ASSUME Cardinality(Whole) <= RelayQueue PROVE HeldThere = Whole
  <2>1. /\ IsFiniteSet(HeldThere) /\ Cardinality(HeldThere) = Len(There)
        /\ HeldThere \subseteq Whole
        /\ Len(There) < RelayQueue => HeldThere = Whole
    BY <1>1 DEF QueueInv
  <2>2. /\ Cardinality(HeldThere) <= Cardinality(Whole)
        /\ Cardinality(HeldThere) = Cardinality(Whole) => HeldThere = Whole
    BY <1>1, <2>1, FS_Subset
  <2>3. Cardinality(Whole) \in Nat /\ Len(There) \in Nat /\ RelayQueue \in Nat
    BY <1>1, <1>4, FS_CardinalityType DEF Payments!PaymentAssumption
  <2> QED BY <1>6, <2>1, <2>2, <2>3
<1>7. Payments!Cardinality(Whole) = Cardinality(Whole)
  BY DEF Payments!Cardinality, Cardinality
<1>8. HeldThere \subseteq Whole
  BY <1>1 DEF QueueInv
<1>9. Payments!HoldsWhatItHeard
  BY <1>2, <1>3, <1>5, <1>6, <1>7, <1>8 DEF Payments!HoldsWhatItHeard, There
<1> QED BY <1>9 DEF HoldsWhatItHeard

(* Whatever the transactions, the fragments and the capacities, and        *)
(* whatever the order, losses and repetitions, the neighbour holds, once   *)
(* each, the transactions it heard whole and no other, all of them as long *)
(* as there is room (Reassembler, TxQueue).                                *)
THEOREM RelayHoldsWhatItHeard == MCSpec => []HoldsWhatItHeard
<1>1. MCInit => PaymentInv
  BY MCPaymentAssumption, InitPayment DEF MCInit
<1>2. PaymentInv /\ [MCNext]_<<radioVars, explored, paymentVars>> => PaymentInv'
  BY MCPaymentAssumption, NextPayment
<1>3. PaymentInv => HoldsWhatItHeard
  BY MCPaymentAssumption, InvHolds
<1> QED BY <1>1, <1>2, <1>3, PTL DEF MCSpec

===============================================================================
