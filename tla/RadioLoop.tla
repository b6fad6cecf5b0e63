------------------------------ MODULE RadioLoop ------------------------------
(***************************************************************************)
(* The service loop of the radio of one node (run_with, crates/radio/src/  *)
(* lib.rs) and the relay of signed transactions it carries besides the     *)
(* alerts (crates/pay/src, submit_pay in crates/portal/src/lib.rs).        *)
(*                                                                         *)
(* The loop polls three channels in order, without letting a frame that    *)
(* arrives after a channel was found empty change the order: `poll` is the *)
(* channel it is about to look at. The portal and the link fill them in    *)
(* the meantime. A transaction is the sequence of its chunks; its          *)
(* identifier is the transaction itself, the digest being injective.       *)
(***************************************************************************)
EXTENDS Integers, Sequences, FiniteSets

CONSTANTS
  Chunk, NoChunk,  \* contents of a fragment (FRAG_PAYLOAD bytes), a missing one
  Tx,              \* signed transactions: nonempty sequences of chunks
  ShortId,         \* ShortId[t]: first digits of the identifier of t
  MaxQueue,        \* MAX_QUEUE, transactions kept by the relay (64)
  PayQueue,        \* PAY_QUEUE, capacity of the channel of fragments (128)
  LocalQueue,      \* RADIO_QUEUE, capacity of the channel of local alerts (64)
  MaxAlerts,       \* bound: alerts published by the portal
  MaxIncoming,     \* bound: frames received from the mesh
  LinkQueue        \* bound: frames received and not yet looked at

(* Short identifiers tell transactions apart (see Tx).                     *)
RadioAssumption ==
  /\ Tx \subseteq Seq(Chunk) \ {<<>>} /\ NoChunk \notin Chunk
  /\ \A t, u \in Tx : ShortId[t] = ShortId[u] => t = u
  /\ {MaxQueue, PayQueue, LocalQueue, MaxAlerts, MaxIncoming, LinkQueue} \subseteq Nat

VARIABLES
  incoming,    \* frames received from the mesh
  local,       \* alerts published here, numbered, waiting for the radio
  outgoing,    \* fragments waiting for the radio
  poll,        \* the channel the loop looks at next
  partial,     \* partial[i]: the transaction being reassembled under short id i
  queue,       \* the relay's transactions, with their status
  pushing,     \* what submit_pay has still to push, the relay being locked
  alertActive, \* an alert is active on this node
  published,   \* how many alerts the portal has published
  received,    \* how many frames came from the mesh
  sent,        \* history: local alerts transmitted
  overtaken,   \* history: fragments transmitted while the oldest alert waits
  dropped      \* history: transactions a fragment of which was dropped

vars == <<incoming, local, outgoing, poll, partial, queue, pushing, alertActive,
          published, received, sent, overtaken, dropped>>
loopVars == <<incoming, local, outgoing, poll, partial, overtaken, sent>>
portalVars == <<pushing, alertActive, published, received, dropped>>

Ids == {ShortId[t] : t \in Tx}
Fragment == [id : Ids, n : Nat, total : Nat, data : Chunk]
Fragments(t) ==
  [k \in 1..Len(t) |-> [id |-> ShortId[t], n |-> k - 1, total |-> Len(t), data |-> t[k]]]
AllFragments == UNION {{Fragments(t)[k] : k \in 1..Len(t)} : t \in Tx}
Alert == [id |-> "alert", n |-> 0, total |-> 0, data |-> NoChunk]
NoPartial == <<>>

Waits(s) == s # <<>>
AlertWaits == Waits(local) \/ \E i \in DOMAIN incoming : incoming[i] = Alert
Known(t) == \E e \in queue : e.raw = t

TypeOK ==
  /\ incoming \in Seq(AllFragments \cup {Alert}) /\ Len(incoming) <= LinkQueue
  /\ local \in Seq(1..MaxAlerts) /\ Len(local) <= LocalQueue
  /\ outgoing \in Seq(AllFragments) /\ Len(outgoing) <= PayQueue
  /\ poll \in {"incoming", "local", "pay"}
  /\ partial \in [Ids -> Seq(Chunk \cup {NoChunk})]
  /\ queue \subseteq [raw : Seq(Chunk), status : {"Queued", "Relayed"}]
  /\ pushing \in Seq(AllFragments)
  /\ alertActive \in BOOLEAN
  /\ published \in 0..MaxAlerts /\ received \in 0..MaxIncoming
  /\ sent \subseteq 1..MaxAlerts
  /\ overtaken \in Nat
  /\ dropped \subseteq Ids

Init ==
  /\ incoming = <<>> /\ local = <<>> /\ outgoing = <<>>
  /\ poll = "incoming"
  /\ partial = [i \in Ids |-> NoPartial]
  /\ queue = {}
  /\ pushing = <<>>
  /\ alertActive = FALSE
  /\ published = 0 /\ received = 0
  /\ sent = {} /\ overtaken = 0 /\ dropped = {}

-------------------------------------------------------------------------------
(* Around the loop: a frame arrives from the mesh, in any order, once,     *)
(* several times or never.                                                 *)
Arrive(f) ==
  /\ received < MaxIncoming /\ Len(incoming) < LinkQueue
  /\ incoming' = Append(incoming, f)
  /\ received' = received + 1
  /\ UNCHANGED <<local, outgoing, poll, partial, queue, pushing, alertActive,
                 published, sent, overtaken, dropped>>

(* publish_alert hands its frame over if there is room (try_send).         *)
PublishLocal ==
  /\ published < MaxAlerts
  /\ published' = published + 1
  /\ local' = IF Len(local) < LocalQueue THEN Append(local, published + 1) ELSE local
  /\ UNCHANGED <<incoming, outgoing, poll, partial, queue, pushing, alertActive,
                 received, sent, overtaken, dropped>>

(* set_alert and clear_alert.                                              *)
ToggleAlert ==
  /\ alertActive' = ~alertActive
  /\ UNCHANGED <<loopVars, queue, pushing, published, received, dropped>>

(* submit_pay, the relay locked: the transaction joins the queue unless it *)
(* is there or the queue is full, and is marked as relayed.                *)
Submit(t) ==
  /\ pushing = <<>>
  /\ ~Known(t) /\ Cardinality(queue) < MaxQueue
  /\ queue' = queue \cup {[raw |-> t, status |-> "Relayed"]}
  /\ pushing' = Fragments(t)
  /\ UNCHANGED <<loopVars, alertActive, published, received, dropped>>

(* Its fragments are pushed one by one; those that do not fit are dropped. *)
Push ==
  /\ pushing # <<>>
  /\ pushing' = Tail(pushing)
  /\ \/ /\ Len(outgoing) < PayQueue
        /\ outgoing' = Append(outgoing, Head(pushing))
        /\ UNCHANGED dropped
     \/ /\ Len(outgoing) >= PayQueue
        /\ dropped' = dropped \cup {Head(pushing).id}
        /\ UNCHANGED outgoing
  /\ UNCHANGED <<incoming, local, poll, partial, queue, alertActive,
                 published, received, sent, overtaken>>

-------------------------------------------------------------------------------
(* Reassembler::ingest puts the fragment in its place; the transaction is  *)
(* complete when no place is empty.                                        *)
Assembled(p) == \A i \in DOMAIN p : p[i] # NoChunk

Placed(f) ==
  LET p == IF partial[f.id] = NoPartial THEN [i \in 1..f.total |-> NoChunk]
           ELSE partial[f.id]
  IN [p EXCEPT ![f.n + 1] = f.data]

(* handle_payment_fragment: a complete transaction joins the queue of the  *)
(* relay, which must not be locked, unless it is there or there is no room. *)
Ingest(f) ==
  LET p == Placed(f)
      raw == SelectSeq(p, LAMBDA c : c # NoChunk)
  IN
  \/ /\ ~Assembled(p)
     /\ partial' = [partial EXCEPT ![f.id] = p]
     /\ UNCHANGED queue
  \/ /\ Assembled(p)
     /\ pushing = <<>>
     /\ partial' = [partial EXCEPT ![f.id] = NoPartial]
     /\ queue' = IF Known(raw) \/ Cardinality(queue) >= MaxQueue THEN queue
                 ELSE queue \cup {[raw |-> raw, status |-> "Queued"]}

(* First arm: a frame of the mesh. An alert is evaluated and relayed (see  *)
(* AlertMesh), anything else is tried as a fragment.                       *)
PollIncoming ==
  /\ poll = "incoming"
  /\ \/ /\ ~Waits(incoming)
        /\ poll' = "local"
        /\ UNCHANGED <<incoming, partial, queue, overtaken>>
     \/ /\ Waits(incoming) /\ Head(incoming) = Alert
        /\ incoming' = Tail(incoming)
        /\ overtaken' = 0
        /\ UNCHANGED <<poll, partial, queue>>
     \/ /\ Waits(incoming) /\ Head(incoming) # Alert
        /\ Ingest(Head(incoming))
        /\ incoming' = Tail(incoming)
        /\ UNCHANGED <<poll, overtaken>>
  /\ UNCHANGED <<local, outgoing, sent, portalVars>>

PollLocalAfterPay ==
  /\ poll = "local"
  /\ IF Waits(local) /\ ~Waits(outgoing)
     THEN /\ sent' = sent \cup {Head(local)}
          /\ local' = Tail(local)
          /\ poll' = "incoming" /\ overtaken' = 0
     ELSE poll' = "pay" /\ UNCHANGED <<local, sent, overtaken>>
  /\ UNCHANGED <<incoming, outgoing, partial, queue, portalVars>>

PollLocalNever ==
  /\ poll = "local"
  /\ poll' = "pay"
  /\ UNCHANGED <<incoming, local, outgoing, partial, queue, sent, overtaken, portalVars>>

(* Second arm: an alert published here.                                    *)
PollLocal ==
  /\ poll = "local"
  /\ IF Waits(local)
     THEN /\ sent' = sent \cup {Head(local)}
          /\ local' = Tail(local)
          /\ poll' = "incoming" /\ overtaken' = 0
     ELSE poll' = "pay" /\ UNCHANGED <<local, sent, overtaken>>
  /\ UNCHANGED <<incoming, outgoing, partial, queue, portalVars>>

(* Third arm: a fragment of a transaction. With nothing to do the task     *)
(* sleeps until a channel wakes it up, and starts from the first arm.      *)
PollPay ==
  /\ poll = "pay"
  /\ poll' = "incoming"
  /\ IF Waits(outgoing)
     THEN /\ outgoing' = Tail(outgoing)
          /\ overtaken' = IF AlertWaits THEN overtaken + 1 ELSE overtaken
     ELSE UNCHANGED <<outgoing, overtaken>>
  /\ UNCHANGED <<incoming, local, partial, queue, sent, portalVars>>

Loop == PollIncoming \/ PollLocal \/ PollPay

Next ==
  \/ \E f \in AllFragments \cup {Alert} : Arrive(f)
  \/ PublishLocal
  \/ ToggleAlert
  \/ \E t \in Tx : Submit(t)
  \/ Push
  \/ Loop

(* The task of the loop runs when it can, and so does a request.           *)
Spec == Init /\ [][Next]_vars /\ WF_vars(Loop) /\ WF_vars(Push)

-------------------------------------------------------------------------------
(* An alert that waits, here or from the mesh, sees at most one fragment   *)
(* of a payment go before it: the one the loop had already chosen when the *)
(* alert came ("les alertes passent donc toujours avant le paiement").     *)
AtMostOneOvertakes == overtaken <= 1

(* Once the bursts of frames are over, every alert that the channel took   *)
(* is transmitted, whatever the payments waiting.                          *)
LocalAlertLeaves ==
  \A k \in 1..MaxAlerts : (\E i \in DOMAIN local : local[i] = k) ~> (k \in sent)

(* A transaction marked Relayed went out in full: "Emise sur le mesh LoRa  *)
(* (vers un noeud-sortie)" (TxStatus::Relayed, crates/pay/src/tx.rs).      *)
RelayedWentOut ==
  pushing = <<>> =>
    \A e \in queue : e.status = "Relayed" => ShortId[e.raw] \notin dropped

(* A payment "ne s'emet jamais tant qu'une alerte est active" (policy.rs). *)
PaymentLeaves == poll = "pay" /\ Waits(outgoing) /\ outgoing' = Tail(outgoing)
NoPaymentDuringAlert == [][PaymentLeaves => ~alertActive]_vars

===============================================================================
