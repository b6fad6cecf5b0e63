------------------------------- MODULE DnsServer -------------------------------
(***************************************************************************)
(* The DNS server of the access point (crates/network/src/dns.rs): every   *)
(* question about an address is answered with that of the node, which      *)
(* makes phones find the captive portal; any other well-formed question is *)
(* answered with nothing, and anything else is ignored. The header of a    *)
(* datagram is a record of what is read in it; the question that follows   *)
(* is a sequence of bytes.                                                 *)
(***************************************************************************)
EXTENDS Integers, Sequences, FiniteSets

CONSTANTS
  Tag,        \* what of a header is copied to the reply: the identifier, RD
  Byte,       \* the bytes clients send, some of 0..255
  MaxBody,    \* MAX_UDP (512) less the header: what the buffer of serve holds
  MaxLabels   \* MAX_LABELS (127)

DnsAssumption == Byte \subseteq 0..255 /\ MaxBody \in Nat /\ MaxLabels \in Nat

VARIABLES
  datagram,   \* the datagram received
  reply       \* what was sent back for it, if the loop of serve came to it

vars == <<datagram, reply>>

TypeA == 1
ClassIn == 1
Fail == [ok |-> FALSE, next |-> 0]
Waits == [at |-> "socket"]
Silence == [at |-> "ignored"]

Bodies == UNION {[1..n -> Byte] : n \in 0..MaxBody}

(* The server keeps nothing from one datagram to the next: one is enough.  *)
Init ==
  /\ datagram \in [tag : Tag, questions : 0..1, body : Bodies]
  /\ reply = Waits

-------------------------------------------------------------------------------
ReadNameOneShort(buf, start) ==
  LET Read[pos \in 1..(Len(buf) + 1)] == [labels \in 0..MaxLabels |->
        IF pos > Len(buf) THEN Fail
        ELSE IF buf[pos] = 0 THEN [ok |-> TRUE, next |-> pos + 1]
        ELSE IF buf[pos] >= 64 \/ labels >= MaxLabels THEN Fail
        ELSE IF pos + buf[pos] > Len(buf) THEN Fail
        ELSE Read[pos + buf[pos]][labels + 1]]
  IN  Read[start][0]

(* read_name: labels, each after its length, up to an empty one; a pointer *)
(* or one label too many is an error. The position after the name.         *)
ReadName(buf, start) ==
  LET Read[pos \in 1..(Len(buf) + 1)] == [labels \in 0..MaxLabels |->
        IF pos > Len(buf) THEN Fail
        ELSE IF buf[pos] = 0 THEN [ok |-> TRUE, next |-> pos + 1]
        ELSE IF buf[pos] >= 64 \/ labels >= MaxLabels THEN Fail
        ELSE IF pos + buf[pos] > Len(buf) THEN Fail
        ELSE Read[pos + buf[pos] + 1][labels + 1]]
  IN  Read[start][0]

U16(buf, pos) == 256 * buf[pos] + buf[pos + 1]

(* parse_query: the first question, its bytes kept as they are.            *)
ParseQuery(d, buf) ==
  LET name == ReadName(buf, 1)
      end == name.next + 3
  IN  IF d.questions = 0 \/ ~name.ok \/ end > Len(buf) THEN Fail
      ELSE [ok |-> TRUE, tag |-> d.tag, question |-> SubSeq(buf, 1, end),
            qtype |-> U16(buf, name.next), qclass |-> U16(buf, name.next + 2)]

(* build_response: the question, and the address of the node if it is one  *)
(* about an IPv4 address.                                                  *)
BuildResponse(q) ==
  [at |-> "sent", tag |-> q.tag, question |-> q.question,
   addresses |-> IF q.qtype = TypeA /\ q.qclass = ClassIn THEN 1 ELSE 0]

(* serve: the datagram is answered or not, unless an error of the socket   *)
(* ended the loop before.                                                  *)
Serve ==
  /\ reply = Waits
  /\ LET q == ParseQuery(datagram, datagram.body)
     IN  reply' = IF q.ok THEN BuildResponse(q) ELSE Silence
  /\ UNCHANGED datagram

Spec == Init /\ [][Serve]_vars

-------------------------------------------------------------------------------
(* A sequence of bytes is a name if it can be cut into labels, each after  *)
(* its length, and an empty one at the end.                                *)
IsName(b) ==
  \E starts \in SUBSET (1..Len(b)) :
    /\ {1, Len(b)} \subseteq starts /\ Cardinality(starts) <= MaxLabels + 1
    /\ \A s \in starts :
         IF s = Len(b) THEN b[s] = 0
         ELSE /\ b[s] \in 1..63 /\ s + b[s] + 1 \in starts
              /\ \A t \in starts : t <= s \/ t > s + b[s]

(* A datagram that starts with the encoding of a question (a name, a type  *)
(* and a class) is answered with that question, and with the address of    *)
(* the node when it is about an address; any other datagram is not         *)
(* answered: "toute requete A recoit l'IP du noeud", "Toute requete mal    *)
(* formee est ignoree" (dns.rs).                                           *)
AnswersQuestions ==
  LET buf == datagram.body
      asked == {k \in 5..Len(buf) : datagram.questions > 0 /\ IsName(SubSeq(buf, 1, k - 4))}
  IN  \/ reply = Waits
      \/ asked = {} /\ reply = Silence
      \/ \E k \in asked :
           reply = [at |-> "sent", tag |-> datagram.tag, question |-> SubSeq(buf, 1, k),
                    addresses |-> IF SubSeq(buf, k - 3, k) = <<0, 1, 0, 1>> THEN 1 ELSE 0]

===============================================================================
