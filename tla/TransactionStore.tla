--------------------------- MODULE TransactionStore ---------------------------
(***************************************************************************)
(* What a durable database promises whoever writes to it, without files,   *)
(* copies or names: transactions are numbered in the order they commit, a  *)
(* loss of power takes the database back to the end of one of them, and    *)
(* never to before one that was promised.                                  *)
(***************************************************************************)
EXTENDS Integers

VARIABLES
  current,    \* the last transaction committed
  durable,    \* the transactions at whose end a loss of power may leave us
  promised    \* the newest transaction said to be safe

state == <<current, durable, promised>>

Init == current = 0 /\ durable = {0} /\ promised = 0

Write == current' = current + 1 /\ UNCHANGED <<durable, promised>>

(* The current state becomes a possible outcome beside an earlier one.     *)
Persist ==
  /\ \E v \in durable : durable' = {current, v}
  /\ UNCHANGED <<current, promised>>

(* It becomes the only one, and only then is it promised.                  *)
Settle ==
  /\ current \in durable
  /\ durable' = {current}
  /\ promised' = current
  /\ UNCHANGED current

Lose ==
  /\ \E v \in durable : current' = v /\ durable' = {v}
  /\ UNCHANGED promised

Next == Write \/ Persist \/ Settle \/ Lose

Spec == Init /\ [][Next]_state

===============================================================================
