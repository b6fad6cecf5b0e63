----------------------------- MODULE MCRadioLoop -----------------------------
(* The radio of a node for TLC, in one of two situations chosen at first:  *)
(* busy, with alerts, payments (two transactions that share a chunk, of    *)
(* three and of two fragments) and frames over short channels; and         *)
(* payments, where what clients submit reaches the relay of the neighbour. *)
EXTENDS Integers, Sequences

CONSTANTS
  Chunk, NoChunk, Tx, ShortId, MaxQueue, PayQueue, LocalQueue, \* see RadioLoop
  MaxAlerts, MaxIncoming, LinkQueue,
  Char, Form, Nibble, MaxTx, Payload, RelayQueue               \* see PaymentRelay

VARIABLES
  explored,  \* "busy" or "payments"
  incoming, local, outgoing, poll, partial, paid, pushing, alertActive, raised,
  received, aired, overtaken, dropped,
  wired, carried, afloat, gathered, heard

radioVars == <<incoming, local, outgoing, poll, partial, paid, pushing, alertActive,
               raised, received, aired, overtaken, dropped>>
paymentVars == <<wired, carried, afloat, gathered, heard>>

Busy == INSTANCE RadioLoop WITH queue <- paid, published <- raised, sent <- aired

Payments == INSTANCE PaymentRelay WITH
  MaxQueue <- RelayQueue, queue <- carried, air <- afloat, partial <- gathered

ASSUME MCRadioAssumption == Busy!RadioAssumption
ASSUME MCPaymentAssumption == Payments!PaymentAssumption

(* The values of the configurations.                                       *)
Long == <<"x", "y", "x">>
Short == <<"x", "z">>
TwoTx == {Long, Short}
Chunks == {"x", "y", "z"}
Prefix == [t \in TwoTx |-> IF t = Long THEN "1" ELSE "2"]

(* Forms of a transaction in both cases, of a prefix of it, of one as long *)
(* as a fragment and of one a byte short of it; forms that are empty, odd, *)
(* not hexadecimal and too long.                                           *)
Characters == {"0", "a", "A", "b", "g"}
Digit == [c \in Characters \ {"g"} |-> CASE c = "0" -> 0 [] c = "b" -> 11 [] OTHER -> 10]
Forms ==
  {<<"a", "0", "0", "b", "0", "0">>, <<"A", "0", "0", "b", "0", "0">>,
   <<"0", "0", "0", "b", "0", "0">>, <<"a", "0", "0", "b">>, <<"a", "0">>,
   <<>>, <<"a">>, <<"a", "g">>, <<"a", "a", "a", "a", "a", "a", "a", "a">>}

MCInit ==
  /\ Busy!Init /\ Payments!Init
  /\ explored \in {"busy", "payments"}
  /\ explored # "payments" => ~wired

MCNext ==
  /\ \/ explored = "busy" /\ Busy!Next /\ UNCHANGED paymentVars
     \/ explored = "payments" /\ Payments!Next /\ UNCHANGED radioVars
  /\ UNCHANGED explored

(* The fairness of RadioLoop.                                              *)
MCSpec ==
  /\ MCInit /\ [][MCNext]_<<radioVars, explored, paymentVars>>
  /\ WF_radioVars(explored = "busy" /\ Busy!Loop) /\ WF_radioVars(explored = "busy" /\ Busy!Push)

-------------------------------------------------------------------------------
(* An alert that waits, here or from the mesh, sees at most one fragment   *)
(* of a payment go before it (run_with).                                   *)
AtMostOneOvertakes == Busy!AtMostOneOvertakes

(* Once the bursts of frames are over, every alert that the channel took   *)
(* is transmitted, whatever the payments waiting (run_with).               *)
LocalAlertLeaves == Busy!LocalAlertLeaves

(* A payment "ne s'emet jamais tant qu'une alerte est active" (policy.rs). *)
NoPaymentDuringAlert == Busy!NoPaymentDuringAlert

(* The neighbour holds, once each, the transactions all the fragments of   *)
(* which it heard, and no other (Reassembler, TxQueue).                    *)
HoldsWhatItHeard == Payments!HoldsWhatItHeard

===============================================================================
