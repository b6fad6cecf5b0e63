------------------------------ MODULE AlertInbox ------------------------------
(***************************************************************************)
(* One inbox in service (crates/core/src/inbox.rs): packets arrive from    *)
(* the mesh and from the node's own portal, any number of times and in any *)
(* order; the system clock is set forwards or backwards; the process       *)
(* restarts. `log` is a history variable: the identifiers admitted since   *)
(* the process started.                                                    *)
(***************************************************************************)
EXTENDS InboxRules

CONSTANTS
  Source,   \* emitting nodes
  Time,     \* Unix timestamps
  Body      \* type and text of an alert

ASSUME TimeAssumption == Time \subseteq Int

VARIABLES
  inbox,    \* [alerts, seen]
  now,      \* the system clock
  log       \* history: identifiers admitted in this process lifetime, in order

vars == <<inbox, now, log>>

Packet == [src : Source, ts : Time, body : Body]
Identifier == Source \X Time

TypeOK ==
  /\ inbox \in [alerts : Seq(Packet), seen : Seq(Identifier)]
  /\ Len(inbox.alerts) <= InboxMax
  /\ Len(inbox.seen) <= DedupSize
  /\ now \in Time
  /\ log \in Seq(Identifier)

Init ==
  /\ inbox = EmptyInbox
  /\ now \in Time
  /\ log = <<>>

(* A call of `admit`: only an accepted packet changes anything.            *)
Admit(p) ==
  \/ /\ Verdict(inbox, p, now) = "Accepted"
     /\ inbox' = Push(inbox, p)
     /\ log' = Append(log, Uid(p))
     /\ UNCHANGED now
  \/ /\ Verdict(inbox, p, now) # "Accepted"
     /\ UNCHANGED vars

(* The clock is the system's: it advances, and it is also set, in either   *)
(* direction, on hardware that boots without a real-time clock.            *)
SetClock(t) ==
  /\ now' = t
  /\ UNCHANGED <<inbox, log>>

(* A restart of the process loses the inbox.                               *)
Restart ==
  /\ inbox' = EmptyInbox
  /\ log' = <<>>
  /\ UNCHANGED now

Next ==
  \/ \E p \in Packet : Admit(p)
  \/ \E t \in Time : SetClock(t)
  \/ Restart

Spec == Init /\ [][Next]_vars

-------------------------------------------------------------------------------
(* No alert is ever displayed twice, whatever is replayed and whatever the *)
(* clock does, although the memory of identifiers is bounded and forgets:  *)
(* what is forgotten has left the display long before.                     *)
NoDuplicateDisplay ==
  \A i, j \in DOMAIN inbox.alerts :
    Uid(inbox.alerts[i]) = Uid(inbox.alerts[j]) => i = j

(* An alert is admitted again only after DEDUP_CACHE_SIZE other admissions *)
(* in between: nothing short of flooding the memory replays an alert       *)
(* within a process lifetime.                                              *)
ReadmissionGap ==
  \A i, j \in DOMAIN log : (i < j /\ log[i] = log[j]) => j - i > DedupSize

(* The display is the INBOX_MAX_ITEMS most recent admissions, the newest   *)
(* first ("la plus recente en premier"): none is lost or shown out of      *)
(* order while there is room for it.                                       *)
DisplayIsRecentLog ==
  /\ Len(inbox.alerts) = IF Len(log) <= InboxMax THEN Len(log) ELSE InboxMax
  /\ \A i \in DOMAIN inbox.alerts : Uid(inbox.alerts[i]) = log[Len(log) + 1 - i]

(* Auxiliary: the remembered identifiers are the end of the history.       *)
SeenIsRecentLog ==
  /\ Len(inbox.seen) = IF Len(log) <= DedupSize THEN Len(log) ELSE DedupSize
  /\ \A i \in DOMAIN inbox.seen :
       inbox.seen[i] = log[Len(log) - Len(inbox.seen) + i]

(* The inductive invariant.                                                *)
IInv == TypeOK /\ SeenIsRecentLog /\ DisplayIsRecentLog /\ ReadmissionGap

===============================================================================
