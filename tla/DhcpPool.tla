------------------------------- MODULE DhcpPool -------------------------------
(***************************************************************************)
(* The DHCP server of the access point (crates/network/src/dhcp.rs): a pool *)
(* of addresses kept in memory only, served to clients over messages that  *)
(* may be lost, repeated or late. No lease is written to disk: a process   *)
(* that stops forgets them all, while the clients go on using theirs until *)
(* they expire.                                                            *)
(***************************************************************************)
EXTENDS Integers

CONSTANTS
  Client,      \* hardware addresses
  First, Last, \* pool_start and pool_end
  LeaseSecs,   \* LEASE_SECS (600 s)
  MaxTime,     \* bound: last second explored
  MaxLives     \* bound: starts of the process

NoAddress == -1

ASSUME DhcpAssumption ==
  /\ First \in Nat /\ Last \in Nat
  /\ LeaseSecs \in Nat \ {0}
  /\ MaxTime \in Nat /\ MaxLives \in Nat \ {0}

VARIABLES
  byMac,    \* the pool: address of each client
  used,     \* the pool: addresses given
  acks,     \* acknowledgements sent so far
  lease,    \* lease[c]: the acknowledgement client c relies on
  now,      \* seconds
  life,     \* the process was started that many times
  bornAt    \* when it was started last

vars == <<byMac, used, acks, lease, now, life, bornAt>>

Address == First..Last
Ack == [to : Client, ip : Address, sent : 0..MaxTime, life : 1..MaxLives]
NoLease == [ip |-> NoAddress]

TypeOK ==
  /\ byMac \in [Client -> Address \cup {NoAddress}]
  /\ used \subseteq Address
  /\ acks \subseteq Ack
  /\ lease \in [Client -> Ack \cup {NoLease}]
  /\ now \in 0..MaxTime
  /\ life \in 1..MaxLives
  /\ bornAt \in 0..MaxTime

Init ==
  /\ byMac = [c \in Client |-> NoAddress] /\ used = {}
  /\ acks = {} /\ lease = [c \in Client |-> NoLease]
  /\ now = 0 /\ life = 1 /\ bornAt = 0

-------------------------------------------------------------------------------
AllocateUnmarked(c, n) ==
  \/ /\ byMac[c] = n
     /\ UNCHANGED <<byMac, used>>
  \/ /\ byMac[c] = NoAddress
     /\ n \notin used /\ \A m \in Address : m < n => m \in used
     /\ byMac' = [byMac EXCEPT ![c] = n]
     /\ used' = used

AllocateForgets(c, n) ==
  /\ n \notin used /\ \A m \in Address : m < n => m \in used
  /\ used' = used \cup {n}
  /\ UNCHANGED byMac

(* allocate: the address the client already has, or the first of the pool  *)
(* that is free; none is ever given back.                                  *)
Allocate(c, n) ==
  \/ /\ byMac[c] = n
     /\ UNCHANGED <<byMac, used>>
  \/ /\ byMac[c] = NoAddress
     /\ n \notin used /\ \A m \in Address : m < n => m \in used
     /\ byMac' = [byMac EXCEPT ![c] = n]
     /\ used' = used \cup {n}

(* handle for a DISCOVER that arrives: an offer binds nobody, but takes    *)
(* its address from the pool. Nothing is answered when the pool is empty.  *)
Discover(c) ==
  /\ \E n \in Address : Allocate(c, n)
  /\ UNCHANGED <<acks, lease, now, life, bornAt>>

(* handle for a REQUEST that arrives, whatever address it asks for.        *)
Request(c) ==
  /\ \E n \in Address :
       /\ Allocate(c, n)
       /\ acks' = acks \cup {[to |-> c, ip |-> n, sent |-> now, life |-> life]}
  /\ UNCHANGED <<lease, now, life, bornAt>>

Running(l) == l # NoLease /\ now < l.sent + LeaseSecs

(* A client receives an acknowledgement, possibly late, and configures it; *)
(* the lease runs from the request on.                                     *)
Configure(a) ==
  /\ Running(a)
  /\ lease' = [lease EXCEPT ![a.to] = a]
  /\ UNCHANGED <<byMac, used, acks, now, life, bornAt>>

Tick ==
  /\ now < MaxTime
  /\ now' = now + 1
  /\ UNCHANGED <<byMac, used, acks, lease, life, bornAt>>

Restart ==
  /\ life < MaxLives
  /\ life' = life + 1 /\ bornAt' = now
  /\ byMac' = [c \in Client |-> NoAddress] /\ used' = {}
  /\ UNCHANGED <<acks, lease, now>>

Next ==
  \/ \E c \in Client : Discover(c) \/ Request(c)
  \/ \E a \in acks : Configure(a)
  \/ Tick \/ Restart

Spec == Init /\ [][Next]_vars

-------------------------------------------------------------------------------
Conflict(c, d) ==
  c # d /\ Running(lease[c]) /\ Running(lease[d]) /\ lease[c].ip = lease[d].ip

(* Two clients rely on the same address only if a restart came between     *)
(* their leases, and only until a lease of before that restart has run its *)
(* length: the leases are short because none is persisted (LEASE_SECS).    *)
ConflictsAreOld ==
  \A c, d \in Client : Conflict(c, d) =>
    /\ lease[c].life # lease[d].life
    /\ now < bornAt + LeaseSecs

(* "un client reapparu retrouve la meme IP tant que le processus tourne"   *)
(* (dhcp.rs): what one process tells a client never changes, and what it   *)
(* tells two clients differs, however requests are lost or repeated.       *)
StableAndDistinct ==
  \A a, b \in acks : a.life = b.life => ((a.to = b.to) <=> (a.ip = b.ip))

===============================================================================
