----------------------------- MODULE DhcpMessages -----------------------------
(***************************************************************************)
(* What the DHCP server of the access point reads and writes               *)
(* (crates/network/src/dhcp.rs): the options that follow the header of a   *)
(* message, one after the other, the type of the message among them, and   *)
(* the reply. The header is a record of what is read in it; the options    *)
(* are a sequence of bytes. The addresses it gives are in DhcpPool. The    *)
(* address a client asks for is read and not used, and is left out.        *)
(***************************************************************************)
EXTENDS Integers, Sequences

CONSTANTS
  Client,     \* the identifier, the flags and the hardware address of a client
  Byte,       \* the bytes clients send, some of 0..255
  MaxOptions, \* bound: bytes of options in a message
  Node        \* the four bytes of the address of the node

DhcpMessagesAssumption == Byte \subseteq 0..255 /\ MaxOptions \in Nat /\ Node \in [1..4 -> 0..255]

VARIABLES
  message,    \* the message received
  free,       \* the pool has an address for this client
  reply       \* what was sent back for it, if the loop of serve came to it

vars == <<message, free, reply>>

OpRequest == 1
OpReply == 2
Discover == 1
Offer == 2
Request == 3
Ack == 5
MsgType == 53
Pad == 0
End == 255
NoType == -1
Type == 0..255 \cup {NoType}

Fail == [ok |-> FALSE, type |-> NoType]
Waits == [at |-> "socket"]
Silence == [at |-> "ignored"]

(* The server keeps nothing from one message to the next but its pool: one *)
(* message is enough.                                                      *)
Init ==
  /\ message \in [op : {OpRequest, OpReply}, cookie : BOOLEAN, from : Client,
                  options : UNION {[1..n -> Byte] : n \in 0..MaxOptions}]
  /\ free \in BOOLEAN
  /\ reply = Waits

-------------------------------------------------------------------------------
EmptyTypeSkipped(buf) ==
  LET Read[pos \in 1..(Len(buf) + 1)] == [type \in Type |->
        IF pos > Len(buf) THEN [ok |-> TRUE, type |-> type]
        ELSE IF buf[pos] = End THEN [ok |-> TRUE, type |-> type]
        ELSE IF buf[pos] = Pad THEN Read[pos + 1][type]
        ELSE IF pos + 1 > Len(buf) THEN Fail
        ELSE IF pos + 1 + buf[pos + 1] > Len(buf) THEN Fail
        ELSE Read[pos + 2 + buf[pos + 1]]
               [IF buf[pos] # MsgType \/ buf[pos + 1] = 0 THEN type ELSE buf[pos + 2]]]
  IN  Read[1][NoType]

(* parse_message, the options: a code, a length and that many bytes each,  *)
(* a padding alone, up to the end mark or the end of the message. The last *)
(* type counts, and an empty one is none.                                  *)
ReadOptions(buf) ==
  LET Read[pos \in 1..(Len(buf) + 1)] == [type \in Type |->
        IF pos > Len(buf) THEN [ok |-> TRUE, type |-> type]
        ELSE IF buf[pos] = End THEN [ok |-> TRUE, type |-> type]
        ELSE IF buf[pos] = Pad THEN Read[pos + 1][type]
        ELSE IF pos + 1 > Len(buf) THEN Fail
        ELSE IF pos + 1 + buf[pos + 1] > Len(buf) THEN Fail
        ELSE Read[pos + 2 + buf[pos + 1]]
               [IF buf[pos] # MsgType THEN type
                ELSE IF buf[pos + 1] = 0 THEN NoType ELSE buf[pos + 2]]]
  IN  Read[1][NoType]

ParseMessage(m) == IF m.cookie THEN ReadOptions(m.options) ELSE Fail

(* push_option, for each of the six options of build_reply.                *)
Option(code, data) == <<code, Len(data)>> \o data

(* build_reply; the lease lasts 600 s.                                     *)
BuildReply(m, type) ==
  [op |-> OpReply, cookie |-> TRUE, from |-> m.from,
   options |-> Option(MsgType, <<type>>) \o Option(54, Node) \o Option(51, <<0, 0, 2, 88>>)
                 \o Option(1, <<255, 255, 255, 0>>) \o Option(3, Node) \o Option(6, Node)
                 \o <<End>>]

(* handle: a DISCOVER is answered with an OFFER and a REQUEST with an ACK, *)
(* of a request only, and as long as the pool has an address.              *)
Handle(m) ==
  LET p == ParseMessage(m)
  IN  IF p.ok /\ m.op = OpRequest /\ p.type \in {Discover, Request} /\ free
      THEN [at |-> "sent", message |-> BuildReply(m, IF p.type = Discover THEN Offer ELSE Ack)]
      ELSE Silence

(* serve: the message is handled, unless an error of the socket ended the  *)
(* loop before.                                                            *)
Serve ==
  /\ reply = Waits
  /\ reply' = Handle(message)
  /\ UNCHANGED <<message, free>>

Spec == Init /\ [][Serve]_vars

-------------------------------------------------------------------------------
(* The ways to cut a sequence of bytes into options: where each starts,    *)
(* and where the end mark, or the byte after the last one, is.             *)
Cuts(o) ==
  {starts \in SUBSET (1..(Len(o) + 1)) :
     /\ 1 \in starts
     /\ \A s \in starts :
          LET stop == s > Len(o) \/ o[s] = End
              size == IF o[s] = Pad THEN 1 ELSE 2 + o[s + 1]
          IN  /\ stop => \A t \in starts : t <= s
              /\ ~stop => /\ o[s] = Pad \/ s < Len(o)
                          /\ s + size \in starts
                          /\ \A t \in starts : t <= s \/ t >= s + size}

(* The types that a cut leaves in force: that of its last option of type.  *)
TypesOf(o, starts) ==
  {o[s + 2] : s \in {t \in starts : /\ t <= Len(o) /\ o[t] = MsgType /\ o[t + 1] > 0
                                   /\ \A u \in starts : u > t /\ u <= Len(o) => o[u] # MsgType}}

(* A message is answered, as long as the pool has an address, if and only  *)
(* if it is a request that can be cut into options, up to the end mark,    *)
(* the last type of which asks for an address: by the reply to that type,  *)
(* which reads as one and would not be answered. "DISCOVER->OFFER,         *)
(* REQUEST->ACK, sinon rien" (handle).                                     *)
AnswersRequests ==
  LET o == message.options
      asked == (UNION {TypesOf(o, starts) : starts \in Cuts(o)}) \cap {Discover, Request}
  IN  \/ reply = Waits
      \/ /\ ~free \/ ~message.cookie \/ message.op # OpRequest \/ asked = {}
         /\ reply = Silence
      \/ \E type \in asked :
           /\ free /\ message.cookie /\ message.op = OpRequest
           /\ reply.at = "sent"
           /\ ParseMessage(reply.message).type = (IF type = Discover THEN Offer ELSE Ack)
           /\ Handle(reply.message) = Silence

===============================================================================
