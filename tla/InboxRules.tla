------------------------------ MODULE InboxRules ------------------------------
(***************************************************************************)
(* The admission rules of an alert inbox (crates/core/src/inbox.rs and     *)
(* AlertPacket::unique_id, age_seconds in alert.rs), as operators on the   *)
(* two collections the structure holds:                                    *)
(*   alerts  what the portal displays, newest admission first              *)
(*   seen    the identifiers the inbox remembers, oldest first             *)
(* An inbox lives in memory only: a restart empties both.                  *)
(***************************************************************************)
EXTENDS Integers, Sequences

CONSTANTS
  MaxAge,      \* MAX_ALERT_AGE_SECONDS (120 s in the code)
  InboxMax,    \* INBOX_MAX_ITEMS (50)
  DedupSize    \* DEDUP_CACHE_SIZE (200)

ASSUME InboxAssumption ==
  /\ MaxAge \in Nat
  /\ InboxMax \in Nat \ {0}
  /\ DedupSize \in Nat \ {0}
  /\ InboxMax <= DedupSize

EmptyInbox == [alerts |-> <<>>, seen |-> <<>>]

(* The identifier digests the source and the timestamp only: neither the   *)
(* type nor the text of the alert takes part. The digest is taken as       *)
(* injective.                                                              *)
Uid(p) == <<p.src, p.ts>>

(* Negative when the packet comes from the future of this clock.           *)
Age(p, now) == now - p.ts

Seen(ib) == {ib.seen[i] : i \in DOMAIN ib.seen}
Displayed(ib) == {ib.alerts[i] : i \in DOMAIN ib.alerts}

VerdictNoDedup(ib, p, now) == IF Age(p, now) > MaxAge THEN "TooOld" ELSE "Accepted"

(* The answer of `admit`, the age being tested before the identifier.      *)
Verdict(ib, p, now) ==
  IF Age(p, now) > MaxAge THEN "TooOld"
  ELSE IF Uid(p) \in Seen(ib) THEN "Duplicate"
  ELSE "Accepted"

Fits(s, n) == IF Len(s) <= n THEN s ELSE SubSeq(s, 1, n)

PushEarlyEviction(ib, p) ==
  [alerts |-> Fits(<<p>> \o ib.alerts, InboxMax),
   seen   |-> IF Len(ib.seen) >= DedupSize - 1
              THEN Append(Tail(ib.seen), Uid(p))
              ELSE Append(ib.seen, Uid(p))]

(* What `admit` does to the inbox once the packet is accepted: the oldest  *)
(* identifier leaves a full memory, the alert goes to the front and the    *)
(* display is cut to its maximum.                                          *)
Push(ib, p) ==
  [alerts |-> Fits(<<p>> \o ib.alerts, InboxMax),
   seen   |-> IF Len(ib.seen) = DedupSize
              THEN Append(Tail(ib.seen), Uid(p))
              ELSE Append(ib.seen, Uid(p))]

-------------------------------------------------------------------------------
(* Auxiliary: the display is the recent end of the memory, newest first,   *)
(* and the memory holds no identifier twice.                               *)
Coherent(ib) ==
  /\ Len(ib.alerts) <= Len(ib.seen)
  /\ \A i \in DOMAIN ib.alerts : Uid(ib.alerts[i]) = ib.seen[Len(ib.seen) + 1 - i]
  /\ \A i, j \in DOMAIN ib.seen : ib.seen[i] = ib.seen[j] => i = j

===============================================================================
