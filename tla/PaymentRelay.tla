----------------------------- MODULE PaymentRelay -----------------------------
(***************************************************************************)
(* A signed transaction from the portal of one node to the relay of its    *)
(* neighbour (crates/pay/src, submit_pay in crates/portal/src/lib.rs,      *)
(* handle_payment_fragment in crates/radio/src/lib.rs): its hexadecimal    *)
(* form is decoded, checked and queued, cut into fragments, and put        *)
(* together from the fragments that arrive, in any order, once, several    *)
(* times or never. RadioLoop is about when fragments leave; this module is *)
(* about what they carry. A fragment carries its bytes (decode_frame after *)
(* encode_frame), and the digest that identifies a transaction is taken    *)
(* for injective: a transaction is its own identifier.                     *)
(***************************************************************************)
EXTENDS Integers, SequencesExt

CONSTANTS
  Char,      \* the characters that clients send
  Form,      \* what they submit: sequences of characters, without spaces
  Nibble,    \* Nibble[c]: the value of a hexadecimal digit, of either case
  MaxTx,     \* MAX_TX_BYTES (2000)
  Payload,   \* FRAG_PAYLOAD (120)
  MaxQueue   \* MAX_QUEUE (64)

PaymentAssumption ==
  /\ Form \subseteq Seq(Char)
  /\ Nibble \in [DOMAIN Nibble -> 0..15]
  /\ MaxTx \in Nat /\ Payload \in Nat \ {0} /\ MaxQueue \in Nat

VARIABLES
  wired,     \* the radio of this node takes fragments (pay_tx)
  queue,     \* queue[n]: the transactions of the relay of node n (TxQueue)
  air,       \* the fragments transmitted
  partial,   \* partial[t]: transaction t being put together there (Reassembler)
  heard      \* history: the fragments that came there in this life

vars == <<wired, queue, air, partial, heard>>

Node == {"here", "there"}
Bad == <<-1>>
Missing == <<>>

-------------------------------------------------------------------------------
(* hex_decode: pairs of digits, or an error.                               *)
Decoded(form) ==
  IF Len(form) % 2 = 0 /\ \A i \in DOMAIN form : form[i] \in DOMAIN Nibble
  THEN [k \in 1..(Len(form) \div 2) |-> 16 * Nibble[form[2 * k - 1]] + Nibble[form[2 * k]]]
  ELSE Bad

(* PayTx::from_raw: neither empty nor too large.                           *)
Valid(raw) == raw # Bad /\ Len(raw) \in 1..MaxTx

Held(n) == {queue[n][i].raw : i \in DOMAIN queue[n]}

EnqueueTwins(n, raw, status) ==
  IF Len(queue[n]) >= MaxQueue THEN queue
  ELSE [queue EXCEPT ![n] = Append(@, [raw |-> raw, status |-> status])]

(* Relay::accept_raw and TxQueue::enqueue: a transaction that is new, as   *)
(* long as there is room; mark gives it its status.                        *)
Enqueue(n, raw, status) ==
  IF raw \in Held(n) \/ Len(queue[n]) >= MaxQueue THEN queue
  ELSE [queue EXCEPT ![n] = Append(@, [raw |-> raw, status |-> status])]

Pieces(raw) == (Len(raw) + Payload - 1) \div Payload

(* fragment: the pieces of a transaction, numbered, the last one shorter.  *)
Fragments(raw) ==
  {[id |-> raw, index |-> k, total |-> Pieces(raw),
    data |-> SubSeq(raw, k * Payload + 1, IF k = Pieces(raw) - 1 THEN Len(raw)
                                          ELSE (k + 1) * Payload)] :
   k \in 0..(Pieces(raw) - 1)}

Transactions == {Decoded(form) : form \in Form}
Sendable == {raw \in Transactions : Valid(raw)}

TypeOK ==
  /\ wired \in BOOLEAN
  /\ \A n \in Node :
       /\ Len(queue[n]) <= MaxQueue
       /\ \A i \in DOMAIN queue[n] : queue[n][i].status \in {"Queued", "Relayed"}
  /\ air \subseteq UNION {Fragments(raw) : raw \in Sendable}
  /\ DOMAIN partial \subseteq Sendable
  /\ heard \subseteq air

Init ==
  /\ wired \in BOOLEAN
  /\ queue = [n \in Node |-> <<>>]
  /\ air = {}
  /\ partial = << >>
  /\ heard = {}

-------------------------------------------------------------------------------
(* submit_pay: accept_hex, then, with a radio, relay_fragments, which marks *)
(* the transaction, and the fragments, of which the channel takes some.    *)
Submit(form) ==
  LET raw == Decoded(form)
      new == Enqueue("here", raw, IF wired THEN "Relayed" ELSE "Queued")
  IN  /\ Valid(raw)
      /\ queue' = new
      /\ IF wired /\ new # queue
         THEN \E taken \in SUBSET Fragments(raw) : air' = air \cup taken
         ELSE UNCHANGED air
      /\ UNCHANGED <<wired, partial, heard>>

(* Reassembler::ingest, up to the completion: the places of the            *)
(* transaction of f, the one of f filled.                                  *)
Placed(f) ==
  LET places == IF f.id \in DOMAIN partial THEN partial[f.id]
                ELSE [k \in 1..f.total |-> Missing]
  IN  [places EXCEPT ![f.index + 1] = f.data]

Complete(places) == \A k \in DOMAIN places : places[k] # Missing

Without(id) == [t \in DOMAIN partial \ {id} |-> partial[t]]
With(id, places) ==
  [t \in DOMAIN partial \cup {id} |-> IF t = id THEN places ELSE partial[t]]

(* handle_payment_fragment: the bytes of a complete transaction join the   *)
(* relay, if they are valid and there is room.                             *)
Receive(f) ==
  LET places == Placed(f)
      raw == FlattenSeq(places)
  IN  /\ f \in air
      /\ heard' = heard \cup {f}
      /\ IF f.total = 0 \/ f.index >= f.total \/ Len(places) # f.total
         THEN UNCHANGED <<queue, partial>>
         ELSE IF Complete(places)
         THEN /\ partial' = Without(f.id)
              /\ queue' = IF Valid(raw) THEN Enqueue("there", raw, "Queued") ELSE queue
         ELSE /\ partial' = With(f.id, places)
              /\ UNCHANGED queue
      /\ UNCHANGED <<wired, air>>

(* Relays and reassemblies are in memory: a restart forgets them.          *)
Restart(n) ==
  /\ queue' = [queue EXCEPT ![n] = <<>>]
  /\ IF n = "there" THEN partial' = << >> /\ heard' = {}
     ELSE UNCHANGED <<partial, heard>>
  /\ UNCHANGED <<wired, air>>

Next ==
  \/ \E form \in Form : Submit(form)
  \/ \E f \in air : Receive(f)
  \/ \E n \in Node : Restart(n)

Spec == Init /\ [][Next]_vars

-------------------------------------------------------------------------------
(* The neighbour holds, once each, the transactions all the fragments of   *)
(* which it heard, whatever the order, the repetitions and the forms they  *)
(* were submitted in, and no other; all of them as long as there is room   *)
(* (Reassembler, TxQueue).                                                 *)
HoldsWhatItHeard ==
  LET whole == {raw \in Sendable : Fragments(raw) \subseteq heard}
  IN  /\ IsInjective(queue["there"])
      /\ Held("there") \subseteq whole
      /\ Cardinality(whole) <= MaxQueue => Held("there") = whole

===============================================================================
