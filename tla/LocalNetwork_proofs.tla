------------------------- MODULE LocalNetwork_proofs -------------------------
(***************************************************************************)
(* For any pool, any clients and any number of restarts: the addresses one *)
(* process gives never collide, and what is left of an earlier one runs    *)
(* out within a lease of the restart. For any number of signals and of     *)
(* restarts: the rules of the packet filter, appended again and again,     *)
(* never reopen what they block, whatever commands fail, and never filter  *)
(* a user who keeps to the rate limit. For a datagram and a message of any *)
(* bytes and any length: DNS answers the questions and DHCP the requests,  *)
(* and nothing else. What their parsers, recursive functions, compute is   *)
(* shown by the least position from which they would compute another.      *)
(***************************************************************************)
EXTENDS MCLocalNetwork, FiniteSetTheorems, SequenceTheorems, WellFoundedInduction, TLAPS

(* The pool gives each address once, and marks those it gave.              *)
PoolExclusive ==
  /\ \A c \in Client : byMac[c] # NoAddress => byMac[c] \in used
  /\ \A c, d \in Client : c # d /\ byMac[c] # NoAddress => byMac[c] # byMac[d]

(* What was acknowledged in this life is in the pool; what was before it   *)
(* was sent before it started.                                             *)
AcksRemembered ==
  \A a \in acks :
    /\ a.life <= life
    /\ a.life = life => byMac[a.to] = a.ip
    /\ a.life # life => a.sent <= bornAt

LeasesAcknowledged ==
  \A c \in Client : lease[c] # NoLease => lease[c] \in acks /\ lease[c].to = c

IInv ==
  /\ TypeOK
  /\ PoolExclusive
  /\ AcksRemembered
  /\ StableAndDistinct
  /\ LeasesAcknowledged
  /\ bornAt <= now
  /\ \A a \in acks : a.sent <= now

USE DhcpAssumption

(* A pool that has just started has acknowledged nothing. *)
LEMMA InitInv == Init => IInv
BY DEF Init, IInv, TypeOK, PoolExclusive, AcksRemembered, StableAndDistinct,
       LeasesAcknowledged, Address, Ack, NoLease, NoAddress

(* Allocate keeps the pool exclusive and never moves a client.             *)
LEMMA AllocateKeepsPool ==
  ASSUME TypeOK, PoolExclusive, NEW c \in Client, NEW n \in Address, Allocate(c, n)
  PROVE  /\ byMac' \in [Client -> Address \cup {NoAddress}]
         /\ used' \subseteq Address
         /\ PoolExclusive'
         /\ byMac'[c] = n
         /\ \A d \in Client : byMac[d] # NoAddress => byMac'[d] = byMac[d]
<1>1. n # NoAddress /\ n \in Int BY DEF Address, NoAddress
<1>2. CASE byMac[c] = n /\ UNCHANGED <<byMac, used>>
  BY <1>2 DEF TypeOK, PoolExclusive
<1>3. CASE /\ byMac[c] = NoAddress
           /\ n \notin used
           /\ byMac' = [byMac EXCEPT ![c] = n]
           /\ used' = used \cup {n}
  <2>1. byMac' \in [Client -> Address \cup {NoAddress}] /\ used' \subseteq Address
    BY <1>3 DEF TypeOK
  <2>2. byMac'[c] = n /\ \A d \in Client : d # c => byMac'[d] = byMac[d]
    BY <1>3 DEF TypeOK
  <2>3. PoolExclusive'
    BY <1>1, <1>3, <2>2 DEF PoolExclusive
  <2>4. QED BY <1>3, <2>1, <2>2, <2>3
<1>4. QED BY <1>2, <1>3 DEF Allocate

(* Every message and every restart preserves the invariant of the pool. *)
LEMMA NextInv == IInv /\ [Next]_vars => IInv'
<1> SUFFICES ASSUME IInv, [Next]_vars PROVE IInv'
  OBVIOUS
<1>t. /\ life \in Nat /\ now \in Nat /\ bornAt \in Nat
      /\ \A a \in acks : a \in Ack /\ a.life \in Nat /\ a.sent \in Nat /\ a.to \in Client
  BY DEF IInv, TypeOK, Ack
<1>1. ASSUME NEW c \in Client, Discover(c) PROVE IInv'
  <2>1. PICK n \in Address : Allocate(c, n) BY <1>1 DEF Discover
  <2>2. UNCHANGED <<acks, lease, now, life, bornAt>> BY <1>1 DEF Discover
  <2>3. /\ byMac' \in [Client -> Address \cup {NoAddress}] /\ used' \subseteq Address
        /\ PoolExclusive'
        /\ \A d \in Client : byMac[d] # NoAddress => byMac'[d] = byMac[d]
    BY <2>1, AllocateKeepsPool DEF IInv
  <2>4. TypeOK' BY <2>2, <2>3 DEF IInv, TypeOK, Ack
  <2>5. AcksRemembered'
    <3>1. \A a \in acks : a.ip # NoAddress
      BY <1>t DEF Ack, Address, NoAddress
    <3>2. QED BY <1>t, <2>2, <2>3, <3>1 DEF IInv, AcksRemembered
  <2>6. StableAndDistinct' /\ LeasesAcknowledged'
    BY <2>2 DEF IInv, StableAndDistinct, LeasesAcknowledged
  <2>7. QED BY <2>2, <2>3, <2>4, <2>5, <2>6 DEF IInv
<1>2. ASSUME NEW c \in Client, Request(c) PROVE IInv'
  <2> DEFINE new(n) == [to |-> c, ip |-> n, sent |-> now, life |-> life]
  <2>1. PICK n \in Address : Allocate(c, n) /\ acks' = acks \cup {new(n)}
    BY <1>2 DEF Request
  <2>2. UNCHANGED <<lease, now, life, bornAt>> BY <1>2 DEF Request
  <2>3. /\ byMac' \in [Client -> Address \cup {NoAddress}] /\ used' \subseteq Address
        /\ PoolExclusive'
        /\ byMac'[c] = n
        /\ \A d \in Client : byMac[d] # NoAddress => byMac'[d] = byMac[d]
    BY <2>1, AllocateKeepsPool DEF IInv
  <2>n. /\ new(n) \in Ack /\ new(n).to = c /\ new(n).ip = n
        /\ new(n).life = life /\ new(n).sent = now
    BY DEF IInv, TypeOK, Ack
  <2> HIDE DEF new
  <2>4. TypeOK'
    <3>1. acks' \subseteq Ack BY <2>1, <2>n DEF IInv, TypeOK
    <3>2. lease' \in [Client -> Ack \cup {NoLease}] BY <2>2 DEF IInv, TypeOK
    <3>3. QED BY <2>2, <2>3, <3>1, <3>2 DEF IInv, TypeOK
  <2>5. AcksRemembered'
    <3>1. \A a \in acks : a.ip # NoAddress
      BY <1>t DEF Ack, Address, NoAddress
    <3>2. ASSUME NEW a \in acks
          PROVE a.life <= life' /\ (a.life = life' => byMac'[a.to] = a.ip)
                /\ (a.life # life' => a.sent <= bornAt')
      BY <1>t, <2>2, <2>3, <3>1 DEF IInv, AcksRemembered
    <3>3. QED BY <1>t, <2>1, <2>2, <2>3, <2>n, <3>2 DEF AcksRemembered
  <2>6. StableAndDistinct'
    <3>1. ASSUME NEW a \in acks, a.life = life PROVE (a.to = c) <=> (a.ip = n)
      <4>1. byMac'[a.to] = a.ip /\ a.ip # NoAddress
        BY <1>t, <3>1, <2>3 DEF IInv, AcksRemembered, Ack, Address, NoAddress
      <4>2. QED BY <1>t, <2>3, <4>1 DEF PoolExclusive
    <3>2. QED BY <2>1, <2>n, <3>1 DEF IInv, StableAndDistinct
  <2>7. LeasesAcknowledged' BY <2>1, <2>2 DEF IInv, LeasesAcknowledged
  <2>8. bornAt' <= now' /\ \A a \in acks' : a.sent <= now'
    BY <1>t, <2>1, <2>2, <2>n DEF IInv
  <2>9. QED BY <2>3, <2>4, <2>5, <2>6, <2>7, <2>8 DEF IInv
<1>3. ASSUME NEW a \in acks, Configure(a) PROVE IInv'
  <2>1. /\ lease' = [lease EXCEPT ![a.to] = a]
        /\ UNCHANGED <<byMac, used, acks, now, life, bornAt>>
    BY <1>3 DEF Configure
  <2>2. TypeOK' BY <1>t, <2>1 DEF IInv, TypeOK
  <2>3. LeasesAcknowledged'
    BY <1>t, <2>1 DEF IInv, TypeOK, LeasesAcknowledged
  <2>4. QED BY <2>1, <2>2, <2>3 DEF IInv, PoolExclusive, AcksRemembered, StableAndDistinct
<1>4. CASE Tick
  <2>1. TypeOK' BY <1>4 DEF IInv, TypeOK, Tick, Ack
  <2>2. QED BY <1>t, <1>4, <2>1
        DEF IInv, Tick, PoolExclusive, AcksRemembered, StableAndDistinct, LeasesAcknowledged
<1>5. CASE Restart
  <2>1. TypeOK'
    <3>1. life' \in 1..MaxLives BY <1>5 DEF IInv, TypeOK, Restart
    <3>2. byMac' \in [Client -> Address \cup {NoAddress}] BY <1>5 DEF Restart
    <3>3. QED BY <1>5, <3>1, <3>2 DEF IInv, TypeOK, Restart
  <2>2. PoolExclusive' BY <1>5 DEF Restart, PoolExclusive
  <2>3. AcksRemembered'
    BY <1>t, <1>5 DEF IInv, Restart, AcksRemembered
  <2>4. QED BY <1>t, <1>5, <2>1, <2>2, <2>3
        DEF IInv, Restart, StableAndDistinct, LeasesAcknowledged
<1>6. CASE UNCHANGED vars
  BY <1>6 DEF IInv, vars, TypeOK, PoolExclusive, AcksRemembered, StableAndDistinct,
              LeasesAcknowledged
<1>7. QED BY <1>1, <1>2, <1>3, <1>4, <1>5, <1>6 DEF Next

(* The invariant gives the property: within one life a conflict would need a shared
   address. *)
LEMMA InvGivesConflicts == IInv => ConflictsAreOld
<1> SUFFICES ASSUME IInv, NEW c \in Client, NEW d \in Client, Conflict(c, d)
             PROVE lease[c].life # lease[d].life /\ now < bornAt + LeaseSecs
  BY DEF ConflictsAreOld
<1>1. /\ lease[c] \in acks /\ lease[c].to = c
      /\ lease[d] \in acks /\ lease[d].to = d
  BY DEF IInv, LeasesAcknowledged, Conflict, Running
<1>2. lease[c].life # lease[d].life
  BY <1>1 DEF IInv, StableAndDistinct, Conflict
<1>3. lease[c].life # life \/ lease[d].life # life
  BY <1>2
<1>4. lease[c].sent <= bornAt \/ lease[d].sent <= bornAt
  BY <1>1, <1>3 DEF IInv, AcksRemembered
<1>5. /\ lease[c].sent \in Nat /\ lease[d].sent \in Nat /\ now \in Nat /\ bornAt \in Nat
  BY <1>1 DEF IInv, TypeOK, Ack
<1>6. now < lease[c].sent + LeaseSecs /\ now < lease[d].sent + LeaseSecs
  BY DEF Conflict, Running
<1>7. QED BY <1>2, <1>4, <1>5, <1>6

(* Always: the strengthening from which the properties follow.             *)
THEOREM PoolInvariant == Spec => []IInv
BY InitInv, NextInv, PTL DEF Spec

(* Always, within one life of the server, a client is told one address and *)
(* two clients different ones (allocate).                                  *)
THEOREM AddressesStableAndDistinct == Spec => []StableAndDistinct
<1>1. IInv => StableAndDistinct BY DEF IInv
<1>2. QED BY <1>1, PoolInvariant, PTL

(* Always, clients share an address only across a restart and for less     *)
(* than the length of a lease after it (LEASE_SECS).                       *)
THEOREM ConflictsRunOut == Spec => []ConflictsAreOld
BY InvGivesConflicts, PoolInvariant, PTL

-------------------------------------------------------------------------------
(* The packet filter (ApNetwork).                                          *)
Below == {ss \in Nat \X Nat : ss[1] < ss[2]}

(* A set of natural numbers that is not empty has a least element: < is well founded. *)
LEMMA LeastNumber ==
  ASSUME NEW T, T \subseteq Nat, T # {}
  PROVE  \E x \in T : \A y \in T : x <= y
<1>1. IsWellFoundedOn(Below, Nat) BY NatLessThanWellFounded DEF OpToRel, Below
<1>2. \A x, y \in Nat : <<y, x>> \in Below <=> y < x BY DEF Below
<1>3. PICK x \in T : \A y \in T : ~ (<<y, x>> \in Below) BY <1>1, WFMin
<1>4. \A y \in T : ~ (y < x) BY <1>2, <1>3
<1>5. QED BY <1>4

(* Without a least number, a set of numbers is empty.                      *)
LEMMA NoneLeast ==
  ASSUME NEW T, T \subseteq Nat, \A k \in T : \E j \in T : j < k
  PROVE  T = {}
<1>1. ASSUME T # {} PROVE FALSE
  <2>1. PICK x \in T : \A y \in T : x <= y BY <1>1, LeastNumber
  <2>2. PICK j \in T : j < x OBVIOUS
  <2>3. QED BY <2>1, <2>2
<1>2. QED BY <1>1

FilterRule == {Steady!Rules[i] : i \in 1..6}

(* What decides is the verdict of the first rule that matches.             *)
LEMMA DecisionIs ==
  ASSUME NEW chain \in Seq(FilterRule), NEW p
  PROVE  \/ /\ \A i \in 1..Len(chain) : ~Steady!Matches(chain[i], p)
            /\ Steady!Decision(chain, p) = "ACCEPT"
         \/ \E m \in 1..Len(chain) :
              /\ Steady!Matches(chain[m], p)
              /\ \A i \in 1..Len(chain) : i < m => ~Steady!Matches(chain[i], p)
              /\ Steady!Decision(chain, p) = chain[m].verdict
<1> DEFINE hits == {i \in DOMAIN chain : Steady!Matches(chain[i], p)}
<1>0. DOMAIN chain = 1..Len(chain) /\ Len(chain) \in Nat OBVIOUS
<1>1. Steady!Decision(chain, p) =
        IF hits = {} THEN "ACCEPT" ELSE chain[Steady!Min(hits)].verdict
  BY DEF Steady!Decision
<1>2. hits \subseteq Nat /\ \A i \in 1..Len(chain) : i \in hits <=> Steady!Matches(chain[i], p)
  BY <1>0
<1>3. hits \subseteq 1..Len(chain) BY <1>0
<1> HIDE DEF hits
<1>4. CASE hits = {} BY <1>1, <1>2, <1>4
<1>5. CASE hits # {}
  <2>1. \E x \in hits : \A y \in hits : x <= y BY <1>2, <1>5, LeastNumber
  <2> DEFINE m == Steady!Min(hits)
  <2>2. m \in hits /\ \A y \in hits : m <= y BY <2>1 DEF Steady!Min
  <2>3. Steady!Decision(chain, p) = chain[m].verdict BY <1>1, <1>5
  <2> HIDE DEF m
  <2>4. \A i \in 1..Len(chain) : i < m => i \notin hits BY <1>3, <2>2
  <2>5. QED BY <1>2, <1>3, <2>2, <2>3, <2>4
<1>6. QED BY <1>4, <1>5

(* iptables -A: what is blocked is decided by a rule that stays the first. *)
LEMMA DecisionStays ==
  ASSUME NEW chain \in Seq(FilterRule), NEW r \in FilterRule, NEW p,
         Steady!Decision(chain, p) # "ACCEPT"
  PROVE  Steady!Decision(Append(chain, r), p) = Steady!Decision(chain, p)
<1> DEFINE longer == Append(chain, r)
<1>1. /\ Len(chain) \in Nat /\ longer \in Seq(FilterRule) /\ Len(longer) = Len(chain) + 1
      /\ \A i \in 1..Len(chain) : longer[i] = chain[i]
  OBVIOUS
<1> HIDE DEF longer
<1>2. PICK m \in 1..Len(chain) :
        /\ Steady!Matches(chain[m], p)
        /\ \A i \in 1..Len(chain) : i < m => ~Steady!Matches(chain[i], p)
        /\ Steady!Decision(chain, p) = chain[m].verdict
  BY DecisionIs
<1>3. m \in 1..Len(longer) /\ Steady!Matches(longer[m], p) BY <1>1, <1>2
<1>4. PICK k \in 1..Len(longer) :
        /\ Steady!Matches(longer[k], p)
        /\ \A i \in 1..Len(longer) : i < k => ~Steady!Matches(longer[i], p)
        /\ Steady!Decision(longer, p) = longer[k].verdict
  BY <1>1, <1>3, DecisionIs
<1>5. ~(m < k) BY <1>3, <1>4
<1>6. k \in 1..Len(chain) /\ longer[k] = chain[k]
  <2>1. k \in 1..Len(chain) BY <1>1, <1>5
  <2>2. QED BY <1>1, <2>1
<1>7. ~(k < m) BY <1>2, <1>4, <1>6
<1>8. k = m BY <1>5, <1>6, <1>7
<1>9. QED BY <1>1, <1>2, <1>4, <1>8 DEF longer

(* What s \o t holds, index by index. *)
LEMMA Joined ==
  ASSUME NEW S, NEW s \in Seq(S), NEW t \in Seq(S)
  PROVE  /\ s \o t \in Seq(S) /\ Len(s \o t) = Len(s) + Len(t)
         /\ \A k \in 1..Len(s) : (s \o t)[k] = s[k]
         /\ \A k \in 1..Len(t) : (s \o t)[k + Len(s)] = t[k]
<1>1. s \o t \in Seq(S) /\ Len(s \o t) = Len(s) + Len(t) BY ConcatProperties
<1>2. \A k \in 1..(Len(s) + Len(t)) : (s \o t)[k] = IF k <= Len(s) THEN s[k] ELSE t[k - Len(s)]
  BY ConcatProperties
<1>3. ASSUME NEW k \in 1..Len(s) PROVE (s \o t)[k] = s[k]
  <2>1. k \in 1..(Len(s) + Len(t)) /\ k <= Len(s) OBVIOUS
  <2>2. QED BY <1>2, <2>1
<1>4. ASSUME NEW k \in 1..Len(t) PROVE (s \o t)[k + Len(s)] = t[k]
  <2>1. k + Len(s) \in 1..(Len(s) + Len(t)) /\ ~(k + Len(s) <= Len(s)) /\ (k + Len(s)) - Len(s) = k
    OBVIOUS
  <2>2. QED BY <1>2, <2>1
<1>5. QED BY <1>1, <1>3, <1>4

Word == {"flush", "address", "up", "ipv6-off", "forward-drop", "conf", "restart-hostapd"}
Command == [do : Word] \cup [do : {"append"}, rule : FilterRule]

(* What apply_live runs, by its place.                                     *)
LEMMA CommandsAre ==
  /\ Steady!Commands \in Seq(Command)
  /\ Len(Steady!Commands) = 13
  /\ Steady!Commands[1] = [do |-> "flush"]
  /\ Steady!Commands[2] = [do |-> "address"]
  /\ Steady!Commands[3] = [do |-> "up"]
  /\ Steady!Commands[4] = [do |-> "ipv6-off"]
  /\ Steady!Commands[5] = [do |-> "forward-drop"]
  /\ \A i \in 1..6 : Steady!Commands[i + 5] = [do |-> "append", rule |-> Steady!Rules[i]]
  /\ Steady!Commands[12] = [do |-> "conf"]
  /\ Steady!Commands[13] = [do |-> "restart-hostapd"]
<1> DEFINE before == <<Steady!Run("flush"), Steady!Run("address"), Steady!Run("up"),
                       Steady!Run("ipv6-off"), Steady!Run("forward-drop")>>
           rules == [i \in DOMAIN Steady!Rules |-> [do |-> "append", rule |-> Steady!Rules[i]]]
           after == <<Steady!Run("conf"), Steady!Run("restart-hostapd")>>
<1>0. \A name \in Word : [do |-> name] \in Command BY DEF Command
<1> HIDE DEF Command
<1>1. /\ before \in Seq(Command) /\ Len(before) = 5
      /\ before[1] = [do |-> "flush"] /\ before[2] = [do |-> "address"]
      /\ before[3] = [do |-> "up"] /\ before[4] = [do |-> "ipv6-off"]
      /\ before[5] = [do |-> "forward-drop"]
  <2>1. before \in Seq(Command)
    <3>1. /\ [do |-> "flush"] \in Command /\ [do |-> "address"] \in Command
          /\ [do |-> "up"] \in Command /\ [do |-> "ipv6-off"] \in Command
          /\ [do |-> "forward-drop"] \in Command
      BY <1>0 DEF Word
    <3>2. QED BY <3>1 DEF Steady!Run
  <2>2. Len(before) = 5 OBVIOUS
  <2>3. QED BY <2>1, <2>2 DEF Steady!Run
<1>2. /\ after \in Seq(Command) /\ Len(after) = 2
      /\ after[1] = [do |-> "conf"] /\ after[2] = [do |-> "restart-hostapd"]
  <2>1. after \in Seq(Command)
    <3>1. [do |-> "conf"] \in Command /\ [do |-> "restart-hostapd"] \in Command
      BY <1>0 DEF Word
    <3>2. QED BY <3>1 DEF Steady!Run
  <2>2. QED BY <2>1 DEF Steady!Run
<1>3. /\ rules \in Seq(Command) /\ Len(rules) = 6
      /\ \A i \in 1..6 : rules[i] = [do |-> "append", rule |-> Steady!Rules[i]]
  <2>1. DOMAIN Steady!Rules = 1..6 BY DEF Steady!Rules
  <2>2. \A i \in 1..6 : rules[i] = [do |-> "append", rule |-> Steady!Rules[i]] BY <2>1
  <2>3. \A i \in 1..6 : rules[i] \in Command BY <2>2 DEF Command, FilterRule
  <2>4. rules = [i \in 1..6 |-> rules[i]] BY <2>1
  <2> HIDE DEF rules
  <2>5. rules \in [1..6 -> Command] BY <2>3, <2>4
  <2>6. rules \in Seq(Command) BY <2>5, SeqDef
  <2>7. QED BY <2>2, <2>5, <2>6
<1>4. Steady!Commands = before \o rules \o after BY DEF Steady!Commands
<1> HIDE DEF before, rules, after
<1> DEFINE first == before \o rules
<1>5. /\ first \in Seq(Command) /\ Len(first) = 11
      /\ \A k \in 1..5 : first[k] = before[k]
      /\ \A k \in 1..6 : first[k + 5] = rules[k]
  <2>1. before \in Seq(Command) /\ Len(before) = 5 BY <1>1
  <2>2. rules \in Seq(Command) /\ Len(rules) = 6 BY <1>3
  <2>3. /\ first \in Seq(Command) /\ Len(first) = Len(before) + Len(rules)
        /\ \A k \in 1..Len(before) : first[k] = before[k]
        /\ \A k \in 1..Len(rules) : first[k + Len(before)] = rules[k]
    <3>1. before \in Seq(Command) /\ rules \in Seq(Command) BY <2>1, <2>2
    <3>2. QED BY <3>1, Joined
  <2> HIDE DEF first
  <2>4. QED BY <2>1, <2>2, <2>3
<1>6. Steady!Commands = first \o after BY <1>4
<1> HIDE DEF first
<1>7. /\ Steady!Commands \in Seq(Command) /\ Len(Steady!Commands) = 13
      /\ \A k \in 1..11 : Steady!Commands[k] = first[k]
      /\ \A k \in 1..2 : Steady!Commands[k + 11] = after[k]
  <2>1. after \in Seq(Command) /\ Len(after) = 2 BY <1>2
  <2>2. first \in Seq(Command) /\ Len(first) = 11 BY <1>5
  <2>3. /\ Steady!Commands \in Seq(Command)
        /\ Len(Steady!Commands) = Len(first) + Len(after)
        /\ \A k \in 1..Len(first) : Steady!Commands[k] = first[k]
        /\ \A k \in 1..Len(after) : Steady!Commands[k + Len(first)] = after[k]
    <3>1. first \in Seq(Command) /\ after \in Seq(Command) BY <2>1, <2>2
    <3>2. QED BY <1>6, <3>1, Joined
  <2>4. QED BY <2>1, <2>2, <2>3
<1>8. \A i \in 1..6 : Steady!Commands[i + 5] = [do |-> "append", rule |-> Steady!Rules[i]]
  <2>1. \A i \in 1..6 : i + 5 \in 1..11 OBVIOUS
  <2>2. \A i \in 1..6 : Steady!Commands[i + 5] = rules[i] BY <1>5, <1>7, <2>1
  <2>3. QED BY <1>3, <2>2
<1>9. \A k \in 1..5 : Steady!Commands[k] = before[k]
  <2>1. \A k \in 1..5 : k \in 1..11 OBVIOUS
  <2>2. QED BY <1>5, <1>7, <2>1
<1>10. Steady!Commands[12] = after[1] /\ Steady!Commands[13] = after[2]
  <2>1. 1 \in 1..2 /\ 2 \in 1..2 /\ 1 + 11 = 12 /\ 2 + 11 = 13 OBVIOUS
  <2>2. QED BY <1>7, <2>1
<1>11. QED BY <1>1, <1>2, <1>7, <1>8, <1>9, <1>10

(* What is left of a sequence after its first k - 1 elements. *)
LEMMA Suffix ==
  ASSUME NEW S, NEW s \in Seq(S), NEW k \in 1..Len(s)
  PROVE  /\ SubSeq(s, k, Len(s)) # <<>> /\ Head(SubSeq(s, k, Len(s))) = s[k]
         /\ Tail(SubSeq(s, k, Len(s))) = SubSeq(s, k + 1, Len(s))
<1>1. /\ Head(SubSeq(s, k, Len(s))) = s[k]
      /\ Tail(SubSeq(s, k, Len(s))) = SubSeq(s, k + 1, Len(s))
  <2>1. Len(s) \in k..Len(s) OBVIOUS
  <2>2. QED BY <2>1, HeadTailOfSubSeq
<1>2. Len(SubSeq(s, k, Len(s))) = Len(s) - k + 1 OBVIOUS
<1>3. Len(s) - k + 1 # 0 OBVIOUS
<1>4. QED BY <1>1, <1>2, <1>3

(* What remains of the commands from the k-th on.                          *)
Rest(k) == SubSeq(Steady!Commands, k, Len(Steady!Commands))

(* The rests of the fourteen commands of a plan: each is the tail of the one before. *)
LEMMA RestIs ==
  /\ Rest(1) = Steady!Commands
  /\ Rest(14) = <<>>
  /\ \A k \in 1..13 : /\ Rest(k) # <<>> /\ Head(Rest(k)) = Steady!Commands[k]
                      /\ Tail(Rest(k)) = Rest(k + 1)
<1> DEFINE s == Steady!Commands
<1>1. s \in Seq(Command) /\ Len(s) = 13 BY CommandsAre
<1> HIDE DEF s
<1>2. SubSeq(s, 1, Len(s)) = s
  <2>1. s \in Seq(Command) BY <1>1
  <2>2. QED BY <2>1, SubSeqFull
<1>3. SubSeq(s, Len(s) + 1, Len(s)) = <<>>
  <2>1. s \in Seq(Command) BY <1>1
  <2>2. QED BY <2>1, SubSeqEmpty, LenProperties
<1>4. \A k \in 1..Len(s) : /\ SubSeq(s, k, Len(s)) # <<>> /\ Head(SubSeq(s, k, Len(s))) = s[k]
                          /\ Tail(SubSeq(s, k, Len(s))) = SubSeq(s, k + 1, Len(s))
  <2>1. s \in Seq(Command) BY <1>1
  <2>2. QED BY <2>1, Suffix
<1>5. \A k : Rest(k) = SubSeq(s, k, Len(s)) BY DEF Rest, s
<1>6. Rest(1) = s BY <1>2, <1>5
<1>7. Rest(14) = <<>>
  <2>1. Len(s) + 1 = 14 BY <1>1
  <2>2. QED BY <1>3, <1>5, <2>1
<1>8. \A k \in 1..13 : k \in 1..Len(s) BY <1>1
<1>9. QED BY <1>4, <1>5, <1>6, <1>7, <1>8 DEF s

-------------------------------------------------------------------------------
(* What the commands act upon keeps its shape.                             *)
NetShape ==
  /\ net = [address |-> net.address, up |-> net.up, ipv6 |-> net.ipv6,
            forward |-> net.forward, chain |-> net.chain,
            conf |-> net.conf, onAir |-> net.onAir]
  /\ net.chain \in Seq(FilterRule)

NetInv == NetShape /\ \E k \in 1..14 : todo = Rest(k)

(* What each of the fourteen commands does to the part of the network the property reads. *)
LEMMA EffectIs ==
  ASSUME NetShape, NEW k \in 1..13, net' = Steady!Effect(Steady!Commands[k])
  PROVE  /\ NetShape'
         /\ k = 2 => net'.address = TRUE
         /\ k \notin {1, 2} => net'.address = net.address
         /\ k = 3 => net'.up = TRUE
         /\ k # 3 => net'.up = net.up
         /\ k \in 6..11 => net'.chain = Append(net.chain, Steady!Rules[k - 5])
         /\ k \notin 6..11 => net'.chain = net.chain
<1> DEFINE c == Steady!Commands[k]
<1>1. net' = Steady!Effect(c) OBVIOUS
<1>2. \/ k \in {1, 2, 3, 4, 5, 12, 13}
      \/ \E i \in 1..6 : k = i + 5
  <2>1. k \in 6..11 => k - 5 \in 1..6 /\ k = (k - 5) + 5 OBVIOUS
  <2>2. k \in {1, 2, 3, 4, 5, 12, 13} \/ k \in 6..11 OBVIOUS
  <2>3. QED BY <2>1, <2>2
<1>3. CASE k \in {1, 2, 3, 4, 5, 12, 13}
  <2>0. ~(k \in 6..11) BY <1>3
  <2>1. CASE k = 1
    <3>1. c = [do |-> "flush"] BY <2>1, CommandsAre
    <3> HIDE DEF c
    <3>2. net' = [net EXCEPT !.address = FALSE] BY <1>1, <3>1 DEF Steady!Effect
    <3>3. /\ NetShape' /\ net'.address = FALSE
          /\ net'.up = net.up /\ net'.chain = net.chain
      BY <3>2 DEF NetShape
    <3>4. QED BY <2>0, <2>1, <3>3
  <2>2. CASE k = 2
    <3>1. c = [do |-> "address"] BY <2>2, CommandsAre
    <3> HIDE DEF c
    <3>2. net' = [net EXCEPT !.address = TRUE] BY <1>1, <3>1 DEF Steady!Effect
    <3>3. /\ NetShape' /\ net'.address = TRUE
          /\ net'.up = net.up /\ net'.chain = net.chain
      BY <3>2 DEF NetShape
    <3>4. QED BY <2>0, <2>2, <3>3
  <2>3. CASE k = 3
    <3>1. c = [do |-> "up"] BY <2>3, CommandsAre
    <3> HIDE DEF c
    <3>2. net' = [net EXCEPT !.up = TRUE] BY <1>1, <3>1 DEF Steady!Effect
    <3>3. /\ NetShape' /\ net'.up = TRUE
          /\ net'.address = net.address /\ net'.chain = net.chain
      BY <3>2 DEF NetShape
    <3>4. QED BY <2>0, <2>3, <3>3
  <2>4. CASE k \in {4, 5, 12, 13}
    <3>1. c.do \in {"ipv6-off", "forward-drop", "conf", "restart-hostapd"} BY <2>4, CommandsAre
    <3> HIDE DEF c
    <3>2. \/ net' = [net EXCEPT !.ipv6 = FALSE]
          \/ net' = [net EXCEPT !.forward = FALSE]
          \/ net' = [net EXCEPT !.conf = next]
          \/ net' = [net EXCEPT !.onAir = net.conf]
      BY <1>1, <3>1 DEF Steady!Effect
    <3>3. NetShape' /\ net'.address = net.address /\ net'.up = net.up /\ net'.chain = net.chain
      BY <3>2 DEF NetShape
    <3>4. k # 1 /\ k # 2 /\ k # 3 BY <2>4
    <3>5. QED BY <2>0, <3>3, <3>4
  <2>5. QED BY <1>3, <2>1, <2>2, <2>3, <2>4
<1>4. ASSUME NEW i \in 1..6, k = i + 5
      PROVE  /\ net' = [net EXCEPT !.chain = Append(@, Steady!Rules[i])]
             /\ Steady!Rules[i] \in FilterRule
  <2>1. c = [do |-> "append", rule |-> Steady!Rules[i]] BY <1>4, CommandsAre
  <2> HIDE DEF c
  <2>2. QED BY <1>1, <2>1 DEF Steady!Effect, Steady!AppendRule, FilterRule
<1>5. ASSUME NEW i \in 1..6, k = i + 5
      PROVE  /\ NetShape' /\ net'.address = net.address /\ net'.up = net.up
             /\ net'.chain = Append(net.chain, Steady!Rules[k - 5])
             /\ k \in 6..11 /\ ~(k \in {1, 2, 3})
  <2>1. net' = [net EXCEPT !.chain = Append(@, Steady!Rules[i])] /\ Steady!Rules[i] \in FilterRule
    BY <1>4, <1>5
  <2>2. k - 5 = i /\ k \in 6..11 /\ ~(k \in {1, 2, 3}) BY <1>5
  <2> HIDE DEF FilterRule
  <2>3. Append(net.chain, Steady!Rules[i]) \in Seq(FilterRule) BY <2>1 DEF NetShape
  <2>4. QED BY <2>1, <2>2, <2>3 DEF NetShape
<1>6. CASE \E i \in 1..6 : k = i + 5 BY <1>5, <1>6
<1>7. QED BY <1>2, <1>3, <1>6

(* What fails does nothing, or leaves hostapd stopped.                     *)
LEMMA FailureIs ==
  ASSUME NetShape, net' = net \/ net' = [net EXCEPT !.onAir = "none"]
  PROVE  /\ NetShape' /\ net'.chain = net.chain
         /\ net'.address = net.address /\ net'.up = net.up
BY DEF NetShape

(* A step of the orchestrator runs the command in hand, or none; whether   *)
(* or not commands may fail, it is the same orchestrator.                  *)
NoCommand == net' = net /\ (todo' = todo \/ todo' = <<>> \/ todo' = Steady!Commands)

(* A step without failures runs no command, or runs the one that comes next. *)
LEMMA SteadyRuns ==
  ASSUME [Steady!Next]_netVars
  PROVE  \/ NoCommand
         \/ /\ step = "apply" /\ step' = step /\ serving' = serving
            /\ todo # <<>> /\ todo' = Tail(todo)
            /\ net' = Steady!Effect(Head(todo))
BY DEF netVars, Steady!Next, Steady!Send, Steady!Orchestrate, Steady!Boot, Steady!RunCommand,
       Steady!Applied, Steady!Bind, Steady!Notice, Steady!Read, Steady!Restart, NoCommand

(* With and without failures the commands are the same. *)
LEMMA SameOrchestrator ==
  /\ Failing!Commands = Steady!Commands
  /\ \A c : Failing!Effect(c) = Steady!Effect(c)
<1>1. Failing!Rules = Steady!Rules
  BY DEF Failing!Rules, Steady!Rules, Failing!Rule, Steady!Rule, Failing!Any, Steady!Any
<1>2. Failing!Commands = Steady!Commands
  <2> HIDE DEF Failing!Rules, Steady!Rules
  <2>1. QED BY <1>1 DEF Failing!Commands, Steady!Commands, Failing!Run, Steady!Run
<1>3. \A c : Failing!Effect(c) = Steady!Effect(c)
  BY DEF Failing!Effect, Steady!Effect, Failing!AppendRule, Steady!AppendRule
<1>4. QED BY <1>2, <1>3

(* A step with failures runs the next command, fails it, or stops the access point. *)
LEMMA FailingRuns ==
  ASSUME [Failing!Next]_netVars
  PROVE  \/ NoCommand
         \/ /\ todo # <<>> /\ todo' = Tail(todo)
            /\ \/ net' = Steady!Effect(Head(todo))
               \/ net' = net
               \/ net' = [net EXCEPT !.onAir = "none"]
<1>1. CASE Failing!RunCommand
  <2>1. /\ todo # <<>> /\ todo' = Tail(todo)
        /\ net' \in {Failing!Effect(Head(todo))} \cup Failing!Failed(Head(todo))
    BY <1>1 DEF Failing!RunCommand
  <2>2. Failing!Failed(Head(todo)) \subseteq {net, [net EXCEPT !.onAir = "none"]}
    BY DEF Failing!Failed, Failing!NoSsid
  <2>3. Failing!Effect(Head(todo)) = Steady!Effect(Head(todo)) BY SameOrchestrator
  <2>4. QED BY <2>1, <2>2, <2>3
<1>2. CASE Failing!Boot \/ Failing!Read
  <2>1. net' = net /\ (todo' = todo \/ todo' = Failing!Commands)
    BY <1>2 DEF Failing!Boot, Failing!Read
  <2>2. QED BY <2>1, SameOrchestrator DEF NoCommand
<1>3. CASE Failing!Applied \/ Failing!Bind \/ Failing!Notice \/ Failing!Restart \/ UNCHANGED netVars
  BY <1>3 DEF netVars, Failing!Applied, Failing!Bind, Failing!Notice, Failing!Restart, NoCommand
<1>4. ASSUME NEW installing \in BOOLEAN, Failing!Send(installing)
      PROVE  NoCommand
  BY <1>4 DEF Failing!Send, NoCommand
<1>5. QED BY <1>1, <1>2, <1>3, <1>4 DEF Failing!Next, Failing!Orchestrate

(* Any step leaves the rules, or appends one of them.                      *)
LEMMA RulesAreAppended ==
  ASSUME NetInv, [Steady!Next]_netVars \/ [Failing!Next]_netVars
  PROVE  /\ NetInv'
         /\ \/ net'.chain = net.chain
            \/ \E r \in FilterRule : net'.chain = Append(net.chain, r)
<1>1. CASE NoCommand
  <2>1. NetShape' /\ net'.chain = net.chain BY <1>1 DEF NoCommand, NetInv, NetShape
  <2>2. \E k \in 1..14 : todo' = Rest(k)
    <3>1. CASE todo' = todo BY <3>1 DEF NetInv
    <3>2. CASE todo' = <<>> BY <3>2, RestIs
    <3>3. CASE todo' = Steady!Commands BY <3>3, RestIs
    <3>4. QED BY <1>1, <3>1, <3>2, <3>3 DEF NoCommand
  <2>3. QED BY <2>1, <2>2 DEF NetInv, Rest
<1>2. ASSUME todo # <<>>, todo' = Tail(todo),
             \/ net' = Steady!Effect(Head(todo))
             \/ net' = net
             \/ net' = [net EXCEPT !.onAir = "none"]
      PROVE  /\ NetInv'
             /\ \/ net'.chain = net.chain
                \/ \E r \in FilterRule : net'.chain = Append(net.chain, r)
  <2>1. PICK k \in 1..14 : todo = Rest(k) BY DEF NetInv
  <2>2. k \in 1..13 BY <1>2, <2>1, RestIs
  <2>3. Head(todo) = Steady!Commands[k] /\ todo' = Rest(k + 1) BY <1>2, <2>1, <2>2, RestIs
  <2>4. \E i \in 1..14 : todo' = Rest(i)
    <3>1. k + 1 \in 1..14 BY <2>2
    <3>2. QED BY <2>3, <3>1
  <2>5. /\ NetShape'
        /\ \/ net'.chain = net.chain
           \/ k \in 6..11 /\ net'.chain = Append(net.chain, Steady!Rules[k - 5])
    <3>1. CASE net' = Steady!Effect(Head(todo)) BY <2>2, <2>3, <3>1, EffectIs DEF NetInv
    <3>2. CASE net' = net \/ net' = [net EXCEPT !.onAir = "none"]
      BY <3>2, FailureIs DEF NetInv
    <3>3. QED BY <1>2, <3>1, <3>2
  <2>6. k \in 6..11 => Steady!Rules[k - 5] \in FilterRule
    <3>1. k \in 6..11 => k - 5 \in 1..6 BY <2>2
    <3>2. QED BY <3>1 DEF FilterRule
  <2>7. QED BY <2>4, <2>5, <2>6 DEF NetInv, Rest
<1>3. QED BY <1>1, <1>2, SteadyRuns, FailingRuns

(* Before the first plan nothing is applied. *)
LEMMA NetInit == Steady!Init => NetInv
<1> SUFFICES ASSUME Steady!Init PROVE NetInv
  OBVIOUS
<1>1. \E k \in 1..14 : todo = Rest(k)
  <2>1. todo = Rest(14) BY RestIs DEF Steady!Init
  <2>2. 14 \in 1..14 OBVIOUS
  <2>3. QED BY <2>1, <2>2
<1>2. NetShape
  <2> HIDE DEF FilterRule
  <2>1. net.chain = <<>> BY DEF Steady!Init
  <2>2. net = [address |-> net.address, up |-> net.up, ipv6 |-> net.ipv6,
               forward |-> net.forward, chain |-> net.chain,
               conf |-> net.conf, onAir |-> net.onAir]
    BY DEF Steady!Init
  <2>3. <<>> \in Seq(FilterRule) OBVIOUS
  <2>4. QED BY <2>1, <2>2, <2>3 DEF NetShape
<1>3. QED BY <1>1, <1>2 DEF NetInv

(* In the run, the orchestrator takes a step of one of its two settings or rests. *)
LEMMA NetworkSteps ==
  ASSUME [MCNext]_mcVars
  PROVE  [Steady!Next]_netVars \/ [Failing!Next]_netVars
BY DEF MCNext, mcVars

(* The inductive invariant of the orchestrator: what is left to do is a rest of one plan,
   and the filter is made of its six rules. *)
THEOREM NetInvariant == MCSpec => []NetInv
<1>1. MCInit => NetInv BY NetInit DEF MCInit
<1>2. NetInv /\ [MCNext]_mcVars => NetInv' BY NetworkSteps, RulesAreAppended
<1>3. QED BY <1>1, <1>2, PTL DEF MCSpec

(* NeverReopened: traffic above the rate limit, once blocked, stays        *)
(* blocked, whatever commands fail, whatever the signals and however often *)
(* the process restarts: the rules are appended once more behind those     *)
(* that are there (iptables_rules), and the first that matches decides.    *)
THEOREM FloodStaysBlocked == MCSpec => NeverReopened
<1>1. ASSUME NetInv, [MCNext]_mcVars, Steady!Blocked(Steady!Flood)
      PROVE  Steady!Blocked(Steady!Flood)'
  <2>1. \/ net'.chain = net.chain
        \/ \E r \in FilterRule : net'.chain = Append(net.chain, r)
    BY <1>1, NetworkSteps, RulesAreAppended
  <2>2. net.chain \in Seq(FilterRule) BY <1>1 DEF NetInv, NetShape
  <2>3. Steady!Decision(net'.chain, Steady!Flood) # "ACCEPT"
    BY <1>1, <2>1, <2>2, DecisionStays DEF Steady!Blocked
  <2>4. QED BY <2>3 DEF Steady!Blocked, Steady!Flood, Steady!Citizen
<1>2. NetInv /\ [MCNext]_mcVars
        => [Steady!Blocked(Steady!Flood) => Steady!Blocked(Steady!Flood)']_(Steady!vars)
  BY <1>1
<1>3. QED BY <1>2, NetInvariant, PTL DEF MCSpec, NeverReopened, Steady!NeverReopened

-------------------------------------------------------------------------------
(* With commands that succeed (Steady): every rule that drops what comes   *)
(* from the access point is behind one that lets in who keeps to the rate. *)
Sheltered(chain) ==
  \A j \in 1..Len(chain) : chain[j] = Steady!Rules[4] =>
    \E i \in 1..Len(chain) : i < j /\ chain[i] = Steady!Rules[3]

HasRule3(chain) == \E i \in 1..Len(chain) : chain[i] = Steady!Rules[3]

(* How far the commands have come says what holds already.                 *)
FlowInv ==
  /\ step \in {"boot", "apply", "bind", "wait", "read"}
  /\ Sheltered(net.chain)
  /\ \E k \in 1..14 :
       /\ todo = Rest(k)
       /\ k > 2 /\ step = "apply" => net.address
       /\ k > 3 /\ step = "apply" => net.up
       /\ k > 8 /\ step = "apply" => HasRule3(net.chain)
  /\ step # "apply" => todo = <<>>
  /\ step \in {"bind", "wait", "read"} => net.address /\ net.up
  /\ step \in {"boot", "bind"} => serving = "not yet"
  /\ step = "apply" => serving \in {"not yet", "yes"}
  /\ step \in {"wait", "read"} => serving = "yes"

(* Only rules 3 and 4 match a citizen within the limit, and rule 3 accepts. *)
LEMMA RulesDiffer ==
  /\ Steady!Rules[3].verdict = "ACCEPT"
  /\ \A i \in 1..6 : i # 4 => Steady!Rules[i] # Steady!Rules[4]
  /\ \A i \in 1..6 : Steady!Matches(Steady!Rules[i], Steady!Citizen) => i \in {3, 4}
  /\ Steady!Matches(Steady!Rules[3], Steady!Citizen)
<1>1. /\ Steady!Rules[1] = [iface |-> "lo", state |-> "any", rate |-> "any", port |-> "any", verdict |-> "ACCEPT"]
      /\ Steady!Rules[2] = [iface |-> "any", state |-> "established", rate |-> "any", port |-> "any", verdict |-> "ACCEPT"]
      /\ Steady!Rules[3] = [iface |-> "ap", state |-> "any", rate |-> "within", port |-> "any", verdict |-> "ACCEPT"]
      /\ Steady!Rules[4] = [iface |-> "ap", state |-> "any", rate |-> "any", port |-> "any", verdict |-> "DROP"]
      /\ Steady!Rules[5] = [iface |-> "any", state |-> "any", rate |-> "any", port |-> "dot-tcp", verdict |-> "REJECT"]
      /\ Steady!Rules[6] = [iface |-> "any", state |-> "any", rate |-> "any", port |-> "dot-udp", verdict |-> "REJECT"]
  BY DEF Steady!Rules, Steady!Rule, Steady!Any
<1> HIDE DEF Steady!Rules
<1>2. \A i \in 1..6 : i # 4 => Steady!Rules[i].verdict # "DROP" BY <1>1
<1>3. Steady!Rules[4].verdict = "DROP" BY <1>1
<1>4. /\ DOMAIN Steady!Citizen = {"iface", "state", "rate", "port"}
      /\ Steady!Citizen.iface = "ap" /\ Steady!Citizen.state = "new"
      /\ Steady!Citizen.rate = "within" /\ Steady!Citizen.port = "portal"
  BY DEF Steady!Citizen
<1>5. \A r : Steady!Matches(r, Steady!Citizen) <=>
               /\ r.iface \in {"any", "ap"} /\ r.state \in {"any", "new"}
               /\ r.rate \in {"any", "within"} /\ r.port \in {"any", "portal"}
  <2> HIDE DEF Steady!Citizen
  <2>1. QED BY <1>4 DEF Steady!Matches, Steady!Any
<1>6. \A i \in 1..6 : Steady!Matches(Steady!Rules[i], Steady!Citizen) => i \in {3, 4}
  BY <1>1, <1>5
<1>7. Steady!Matches(Steady!Rules[3], Steady!Citizen) BY <1>1, <1>5
<1>8. \A i \in 1..6 : i # 4 => Steady!Rules[i] # Steady!Rules[4] BY <1>2, <1>3
<1>9. Steady!Rules[3].verdict = "ACCEPT" BY <1>1
<1>10. QED BY <1>6, <1>7, <1>8, <1>9

(* A chain where rule 3 comes before any rule 4 accepts a citizen within the limit. *)
LEMMA ShelteredLetsIn ==
  ASSUME NEW chain \in Seq(FilterRule), Sheltered(chain)
  PROVE  Steady!Decision(chain, Steady!Citizen) = "ACCEPT"
<1>1. CASE /\ \A i \in 1..Len(chain) : ~Steady!Matches(chain[i], Steady!Citizen)
           /\ Steady!Decision(chain, Steady!Citizen) = "ACCEPT"
  BY <1>1
<1>2. ASSUME NEW m \in 1..Len(chain),
             Steady!Matches(chain[m], Steady!Citizen),
             \A i \in 1..Len(chain) : i < m => ~Steady!Matches(chain[i], Steady!Citizen),
             Steady!Decision(chain, Steady!Citizen) = chain[m].verdict
      PROVE  Steady!Decision(chain, Steady!Citizen) = "ACCEPT"
  <2>1. chain[m] \in FilterRule OBVIOUS
  <2>2. chain[m] = Steady!Rules[3] \/ chain[m] = Steady!Rules[4]
    BY <1>2, <2>1, RulesDiffer DEF FilterRule
  <2>3. chain[m] # Steady!Rules[4]
    <3>1. SUFFICES ASSUME chain[m] = Steady!Rules[4] PROVE FALSE
      OBVIOUS
    <3>2. PICK i \in 1..Len(chain) : i < m /\ chain[i] = Steady!Rules[3] BY <3>1 DEF Sheltered
    <3>3. QED BY <1>2, <3>2, RulesDiffer
  <2>4. QED BY <1>2, <2>2, <2>3, RulesDiffer
<1>3. QED BY <1>1, <1>2, DecisionIs

(* A rule added at the end shelters nothing less, as long as rule 3 is there before rule 4
   comes. *)
LEMMA AppendKeeps ==
  ASSUME NEW chain \in Seq(FilterRule), Sheltered(chain), NEW r \in FilterRule,
         r = Steady!Rules[4] => HasRule3(chain)
  PROVE  /\ Sheltered(Append(chain, r))
         /\ HasRule3(chain) \/ r = Steady!Rules[3] => HasRule3(Append(chain, r))
<1> DEFINE longer == Append(chain, r)
           n == Len(chain)
<1>1. /\ n \in Nat /\ Len(longer) = n + 1
      /\ \A i \in 1..n : longer[i] = chain[i]
      /\ longer[n + 1] = r
  OBVIOUS
<1>2. \A i \in 1..(n + 1) : i \in 1..n \/ i = n + 1 BY <1>1
<1>3. \A i \in 1..n : i \in 1..(n + 1) /\ i < n + 1 BY <1>1
<1>4. n + 1 \in 1..(n + 1) BY <1>1
<1> HIDE DEF longer, n
<1>5. HasRule3(chain) => \E i \in 1..n : i \in 1..(n + 1) /\ i < n + 1 /\ longer[i] = Steady!Rules[3]
  BY <1>1, <1>3 DEF HasRule3, n
<1>6. ASSUME NEW j \in 1..(n + 1), longer[j] = Steady!Rules[4]
      PROVE  \E i \in 1..(n + 1) : i < j /\ longer[i] = Steady!Rules[3]
  <2>1. CASE j \in 1..n
    <3>1. PICK i \in 1..n : i < j /\ chain[i] = Steady!Rules[3]
      BY <1>1, <1>6, <2>1 DEF Sheltered, n
    <3>2. QED BY <1>1, <1>3, <3>1
  <2>2. CASE j = n + 1 BY <1>1, <1>5, <1>6, <2>2
  <2>3. QED BY <1>2, <2>1, <2>2
<1>7. Sheltered(longer) BY <1>1, <1>6 DEF Sheltered
<1>8. HasRule3(chain) \/ r = Steady!Rules[3] => HasRule3(longer)
  BY <1>1, <1>4, <1>5 DEF HasRule3
<1>9. QED BY <1>7, <1>8 DEF longer

(* The empty chain is sheltered. *)
LEMMA FlowInit == Steady!Init => FlowInv
<1> SUFFICES ASSUME Steady!Init PROVE FlowInv
  OBVIOUS
<1>1. /\ step = "boot" /\ todo = <<>> /\ serving = "not yet" /\ net.chain = <<>>
  BY DEF Steady!Init
<1>2. Sheltered(<<>>) BY DEF Sheltered
<1>3. \E k \in 1..14 : todo = Rest(k)
  <2>1. 14 \in 1..14 OBVIOUS
  <2>2. QED BY <1>1, <2>1, RestIs
<1>4. QED BY <1>1, <1>2, <1>3 DEF FlowInv

(* A command brings the promises of its place.                             *)
LEMMA FlowRun ==
  ASSUME NetInv, FlowInv, step = "apply", step' = step, serving' = serving,
         todo # <<>>, todo' = Tail(todo), net' = Steady!Effect(Head(todo))
  PROVE  FlowInv'
<1>1. PICK k \in 1..14 :
        /\ todo = Rest(k)
        /\ k > 2 => net.address
        /\ k > 3 => net.up
        /\ k > 8 => HasRule3(net.chain)
  BY DEF FlowInv
<1>2. k \in 1..13 BY <1>1, RestIs
<1>3. Head(todo) = Steady!Commands[k] /\ todo' = Rest(k + 1) BY <1>1, <1>2, RestIs
<1>4. /\ k = 2 => net'.address = TRUE
      /\ k \notin {1, 2} => net'.address = net.address
      /\ k = 3 => net'.up = TRUE
      /\ k # 3 => net'.up = net.up
      /\ k \in 6..11 => net'.chain = Append(net.chain, Steady!Rules[k - 5])
      /\ k \notin 6..11 => net'.chain = net.chain
  BY <1>2, <1>3, EffectIs DEF NetInv
<1>5. k + 1 > 2 => net'.address
  <2>1. k + 1 > 2 => k = 2 \/ (k \notin {1, 2} /\ k > 2) BY <1>2
  <2>2. k = 2 => net'.address BY <1>4
  <2>3. k \notin {1, 2} /\ k > 2 => net'.address BY <1>1, <1>4
  <2>4. QED BY <2>1, <2>2, <2>3
<1>6. k + 1 > 3 => net'.up
  <2>1. k + 1 > 3 => k = 3 \/ (k # 3 /\ k > 3) BY <1>2
  <2>2. k = 3 => net'.up BY <1>4
  <2>3. k # 3 /\ k > 3 => net'.up BY <1>1, <1>4
  <2>4. QED BY <2>1, <2>2, <2>3
<1>7. Sheltered(net'.chain) /\ (k + 1 > 8 => HasRule3(net'.chain))
  <2>0. net.chain \in Seq(FilterRule) /\ Sheltered(net.chain) BY DEF NetInv, NetShape, FlowInv
  <2>1. CASE k \in 6..11
    <3> DEFINE i == k - 5
    <3>1. i \in 1..6 /\ k = i + 5 BY <2>1
    <3>2. net'.chain = Append(net.chain, Steady!Rules[i]) BY <1>4, <2>1
    <3>3. k > 8 => HasRule3(net.chain) BY <1>1
    <3> HIDE DEF i
    <3>4. Steady!Rules[i] \in FilterRule BY <3>1 DEF FilterRule
    <3>5. Steady!Rules[i] = Steady!Rules[4] => HasRule3(net.chain)
      <4>1. i = 4 => k > 8 BY <3>1
      <4>2. QED BY <3>1, <3>3, <4>1, RulesDiffer
    <3>6. k + 1 > 8 => HasRule3(net.chain) \/ Steady!Rules[i] = Steady!Rules[3]
      <4>1. k + 1 > 8 => k > 8 \/ i = 3 BY <3>1
      <4>2. QED BY <3>3, <4>1
    <3>7. QED BY <2>0, <3>2, <3>4, <3>5, <3>6, AppendKeeps
  <2>2. CASE k \notin 6..11
    <3>1. k + 1 > 8 => k > 8 BY <1>2, <2>2
    <3>2. QED BY <1>1, <1>4, <2>0, <2>2, <3>1
  <2>3. QED BY <2>1, <2>2
<1>8. \E i \in 1..14 : /\ todo' = Rest(i)
                       /\ i > 2 => net'.address
                       /\ i > 3 => net'.up
                       /\ i > 8 => HasRule3(net'.chain)
  <2>1. k + 1 \in 1..14 BY <1>2
  <2> DEFINE i == k + 1
  <2>2. /\ i \in 1..14 /\ todo' = Rest(i) /\ (i > 2 => net'.address) /\ (i > 3 => net'.up)
        /\ i > 8 => HasRule3(net'.chain)
    BY <1>3, <1>5, <1>6, <1>7, <2>1
  <2> HIDE DEF i
  <2>3. QED BY <2>2
<1>9. Sheltered(net.chain)' /\ step' = "apply" /\ serving' \in {"not yet", "yes"}
  BY <1>7 DEF FlowInv, Sheltered
<1>10. QED BY <1>8, <1>9 DEF FlowInv, HasRule3, Rest

(* Nothing is left to do: everything was done.                             *)
LEMMA AllDone ==
  ASSUME FlowInv, step = "apply", todo = <<>>
  PROVE  net.address /\ net.up
<1>1. PICK k \in 1..14 :
        /\ todo = Rest(k)
        /\ k > 2 => net.address
        /\ k > 3 => net.up
  BY DEF FlowInv
<1>2. k = 14
  <2>1. k \notin 1..13 BY <1>1, RestIs
  <2>2. QED BY <2>1
<1>3. QED BY <1>1, <1>2

(* The positions of the first and of the last command, which arithmetic alone does not
   find. *)
LEMMA Ends == 1 \in 1..14 /\ 14 \in 1..14 /\ ~(1 > 2) /\ ~(1 > 3) /\ ~(1 > 8)
OBVIOUS

(* A step that runs no command and leaves the network alone.               *)
LEMMA FlowGo ==
  ASSUME FlowInv, net' = net,
         step' \in {"boot", "apply", "bind", "wait", "read"},
         step' = "apply" => todo' = Steady!Commands,
         step' # "apply" => todo' = <<>>,
         step' \in {"bind", "wait", "read"} => net.address /\ net.up,
         step' \in {"boot", "bind"} => serving' = "not yet",
         step' = "apply" => serving' \in {"not yet", "yes"},
         step' \in {"wait", "read"} => serving' = "yes"
  PROVE  FlowInv'
<1>1. Sheltered(net.chain)' BY DEF FlowInv, Sheltered
<1>2. \E k \in 1..14 : /\ todo' = Rest(k)
                       /\ step' = "apply" => ~(k > 2) /\ ~(k > 3) /\ ~(k > 8)
  <2>1. CASE step' = "apply"
    <3>1. todo' = Rest(1)
      <4>1. todo' = Steady!Commands BY <2>1
      <4>2. QED BY <4>1, RestIs
    <3>2. QED BY <3>1, Ends
  <2>2. CASE step' # "apply"
    <3>1. todo' = Rest(14)
      <4>1. todo' = <<>> BY <2>2
      <4>2. QED BY <4>1, RestIs
    <3>2. QED BY <2>2, <3>1, Ends
  <2>3. QED BY <2>1, <2>2
<1>3. QED BY <1>1, <1>2 DEF FlowInv, HasRule3, Rest

(* Every step of the orchestrator without failures preserves the invariant of the flow. *)
LEMMA FlowNext ==
  ASSUME NetInv, FlowInv, [Steady!Next]_netVars
  PROVE  FlowInv'
<1>1. ASSUME NEW installing \in BOOLEAN, Steady!Send(installing)
      PROVE  FlowInv'
  <2>1. UNCHANGED <<step, todo, net, serving>> BY <1>1 DEF Steady!Send
  <2>2. QED BY <2>1 DEF FlowInv, Sheltered, HasRule3, Rest
<1>2. CASE Steady!Boot
  <2>1. /\ step = "boot" /\ net' = net /\ todo' = Steady!Commands /\ step' = "apply"
        /\ serving' = serving
    BY <1>2 DEF Steady!Boot
  <2>2. serving = "not yet" BY <2>1 DEF FlowInv
  <2>3. QED BY <2>1, <2>2, FlowGo
<1>3. CASE Steady!RunCommand
  <2>1. /\ step = "apply" /\ step' = step /\ serving' = serving
        /\ todo # <<>> /\ todo' = Tail(todo)
        /\ net' = Steady!Effect(Head(todo))
    BY <1>3 DEF Steady!RunCommand
  <2>2. QED BY <2>1, FlowRun
<1>4. CASE Steady!Applied
  <2>1. /\ step = "apply" /\ todo = <<>> /\ net' = net /\ todo' = todo /\ serving' = serving
        /\ step' = IF serving = "not yet" THEN "bind" ELSE "wait"
    BY <1>4 DEF Steady!Applied
  <2>2. net.address /\ net.up BY <2>1, AllDone
  <2>3. serving \in {"not yet", "yes"} BY <2>1 DEF FlowInv
  <2>4. QED BY <2>1, <2>2, <2>3, FlowGo
<1>5. CASE Steady!Bind
  <2>1. /\ step = "bind" /\ step' = "wait" /\ net' = net /\ todo' = todo
        /\ serving' = IF net.address THEN "yes" ELSE "no"
    BY <1>5 DEF Steady!Bind
  <2>2. todo = <<>> /\ net.address /\ net.up BY <2>1 DEF FlowInv
  <2>3. QED BY <2>1, <2>2, FlowGo
<1>6. CASE Steady!Notice
  <2>1. /\ step = "wait" /\ step' = "read" /\ net' = net /\ todo' = todo /\ serving' = serving
    BY <1>6 DEF Steady!Notice
  <2>2. todo = <<>> /\ net.address /\ net.up /\ serving = "yes" BY <2>1 DEF FlowInv
  <2>3. QED BY <2>1, <2>2, FlowGo
<1>7. CASE Steady!Read
  <2>1. /\ step = "read" /\ net' = net /\ serving' = serving
        /\ \/ step' = "wait" /\ todo' = todo
           \/ step' = "apply" /\ todo' = Steady!Commands
    BY <1>7 DEF Steady!Read
  <2>2. todo = <<>> /\ net.address /\ net.up /\ serving = "yes" BY <2>1 DEF FlowInv
  <2>3. QED BY <2>1, <2>2, FlowGo
<1>8. CASE Steady!Restart
  <2>1. step' = "boot" /\ todo' = <<>> /\ serving' = "not yet" /\ net' = net
    BY <1>8 DEF Steady!Restart
  <2>2. QED BY <2>1, FlowGo
<1>9. CASE UNCHANGED netVars
  <2>1. UNCHANGED <<step, todo, net, serving>> BY <1>9 DEF netVars
  <2>2. QED BY <2>1 DEF FlowInv, Sheltered, HasRule3, Rest
<1>10. QED
  BY <1>1, <1>2, <1>3, <1>4, <1>5, <1>6, <1>7, <1>8, <1>9 DEF Steady!Next, Steady!Orchestrate

(* PortalReachable: with commands that succeed, whenever the orchestrator  *)
(* waits, the interface has its address and is up and DNS and DHCP answer, *)
(* and at no moment is a user who keeps to the rate limit filtered,        *)
(* whatever the signals and however often the process restarts             *)
(* (apply_live, iptables_rules, run_live).                                 *)
THEOREM PortalStaysReachable == MCSpec => []PortalReachable
<1> DEFINE Inv == NetInv /\ (explored = "steady" => FlowInv)
<1>1. MCInit => Inv BY NetInit, FlowInit DEF MCInit
<1>2. Inv /\ [MCNext]_mcVars => Inv'
  <2> SUFFICES ASSUME Inv, [MCNext]_mcVars PROVE Inv'
    OBVIOUS
  <2>1. NetInv' BY NetworkSteps, RulesAreAppended
  <2>2. explored' = explored BY DEF MCNext, mcVars
  <2>3. ASSUME explored = "steady" PROVE [Steady!Next]_netVars
    BY <2>3 DEF MCNext, mcVars
  <2>4. QED BY <2>1, <2>2, <2>3, FlowNext
<1>3. Inv => PortalReachable
  <2> SUFFICES ASSUME NetInv, FlowInv PROVE Steady!PortalReachable /\ Steady!NeverFiltered
    BY DEF PortalReachable
  <2>1. Steady!Decision(net.chain, Steady!Citizen) = "ACCEPT"
    BY ShelteredLetsIn DEF NetInv, NetShape, FlowInv
  <2>2. ~Steady!Blocked(Steady!Citizen) BY <2>1 DEF Steady!Blocked
  <2>3. QED BY <2>2 DEF FlowInv, Steady!PortalReachable, Steady!NeverFiltered
<1>4. QED BY <1>1, <1>2, <1>3, PTL DEF MCSpec


-------------------------------------------------------------------------------
(* The DNS server.                                                         *)
HIDE DhcpAssumption

(* How many labels came before.                                            *)
LabelCount == 0..MaxLabels

(* What is read from a position, given what is read from later ones.       *)
NameAt(buf, f, pos) == [labels \in 0..MaxLabels |->
   IF pos > Len(buf) THEN Dns!Fail
   ELSE IF buf[pos] = 0 THEN [ok |-> TRUE, next |-> pos + 1]
   ELSE IF buf[pos] >= 64 \/ labels >= MaxLabels THEN Dns!Fail
   ELSE IF pos + buf[pos] > Len(buf) THEN Dns!Fail
   ELSE f[pos + buf[pos] + 1][labels + 1]]

(* read_name, as a function of the position.                               *)
NameReads(buf, f) == f = [pos \in 1..(Len(buf) + 1) |-> NameAt(buf, f, pos)]

(* A label of a length that is one, after few enough others, which the     *)
(* datagram holds.                                                         *)
HasLabel(buf, pos, l) ==
  /\ pos <= Len(buf) /\ buf[pos] \in 1..63 /\ l < MaxLabels
  /\ pos + buf[pos] <= Len(buf)

(* What is read from a position: on after a label, the end at an empty one, or an error. *)
LEMMA NameAtIs ==
  ASSUME Dns!DnsAssumption, NEW buf \in Seq(DnsByte), NEW pos \in 1..(Len(buf) + 1), NEW f,
         NEW l \in LabelCount
  PROVE  /\ HasLabel(buf, pos, l) => NameAt(buf, f, pos)[l] = f[pos + buf[pos] + 1][l + 1]
         /\ pos <= Len(buf) /\ buf[pos] = 0 =>
              NameAt(buf, f, pos)[l] = [ok |-> TRUE, next |-> pos + 1]
         /\ ~HasLabel(buf, pos, l) /\ ~(pos <= Len(buf) /\ buf[pos] = 0) =>
              NameAt(buf, f, pos)[l] = Dns!Fail
<1>1. Len(buf) \in Nat /\ pos \in Nat \ {0} /\ l \in Nat /\ MaxLabels \in Nat
  BY DEF Dns!DnsAssumption, LabelCount
<1>2. CASE pos > Len(buf)
  BY <1>1, <1>2 DEF NameAt, HasLabel, LabelCount
<1>3. CASE pos <= Len(buf)
  <2>1. buf[pos] \in DnsByte
    BY <1>1, <1>3
  <2>2. buf[pos] \in 0..255
    BY <2>1 DEF Dns!DnsAssumption
  <2>0. PICK b : b = buf[pos]
    OBVIOUS
  <2>3. HasLabel(buf, pos, l) <=> b \in 1..63 /\ l < MaxLabels /\ pos + b <= Len(buf)
    BY <1>3, <2>0 DEF HasLabel
  <2>4. NameAt(buf, f, pos)[l] =
          IF b = 0 THEN [ok |-> TRUE, next |-> pos + 1]
          ELSE IF b >= 64 \/ l >= MaxLabels THEN Dns!Fail
          ELSE IF pos + b > Len(buf) THEN Dns!Fail
          ELSE f[pos + b + 1][l + 1]
    BY <1>1, <1>3, <2>0 DEF NameAt, LabelCount
  <2>5. b \in 0..255
    BY <2>0, <2>2
  <2>6. NameAt(buf, f, pos)[l] =
          IF b = 0 THEN [ok |-> TRUE, next |-> pos + 1]
          ELSE IF HasLabel(buf, pos, l) THEN f[pos + b + 1][l + 1]
          ELSE Dns!Fail
    BY <1>1, <2>3, <2>4, <2>5
  <2>7. HasLabel(buf, pos, l) => b # 0
    BY <2>3, <2>5
  <2> QED BY <1>3, <2>0, <2>6, <2>7
<1> QED BY <1>1, <1>2, <1>3

(* The label after one is further on, within the datagram or just after it, and counted. *)
LEMMA LabelFits ==
  ASSUME Dns!DnsAssumption, NEW buf \in Seq(DnsByte), NEW pos \in 1..(Len(buf) + 1),
         NEW l \in LabelCount, HasLabel(buf, pos, l)
  PROVE  pos + buf[pos] + 1 \in (pos + 1)..(Len(buf) + 1) /\ l + 1 \in LabelCount
<1>1. Len(buf) \in Nat /\ pos \in Nat /\ l \in Nat /\ MaxLabels \in Nat
  BY DEF Dns!DnsAssumption, LabelCount
<1>2. buf[pos] \in 1..63 /\ l < MaxLabels /\ pos + buf[pos] <= Len(buf)
  BY DEF HasLabel
<1>3. PICK b : b = buf[pos]
  OBVIOUS
<1>4. b \in 1..63 /\ pos + b <= Len(buf)
  BY <1>2, <1>3
<1>5. pos + b + 1 \in (pos + 1)..(Len(buf) + 1)
  BY <1>1, <1>4
<1>6. l + 1 \in LabelCount
  BY <1>1, <1>2 DEF LabelCount
<1> QED BY <1>3, <1>5, <1>6

(* read_name is defined from every position, by those further on. *)
LEMMA ReadExists ==
  ASSUME Dns!DnsAssumption, NEW buf \in Seq(DnsByte)
  PROVE  \E f : NameReads(buf, f)
<1> DEFINE N == Len(buf) + 1
           Good(g, m) == /\ g = [pos \in 1..N |-> g[pos]]
                         /\ \A pos \in m..N : g[pos] = NameAt(buf, g, pos)
           T == {m \in Nat \ {0} : \E g : Good(g, m)}
<1>0. N \in Nat \ {0}
  OBVIOUS
<1>1. N + 1 \in T
  <2> DEFINE g == [pos \in 1..N |-> Dns!Fail]
  <2>1. Good(g, N + 1)
    BY <1>0
  <2> QED BY <2>1, <1>0
<1>2. PICK m \in T : \A k \in T : m <= k
  <2>1. T \subseteq Nat /\ T # {}
    BY <1>1
  <2> HIDE DEF T
  <2> QED BY <2>1, LeastNumber
<1>3. PICK g : Good(g, m)
  BY <1>2
<1>4. m \in Nat \ {0} /\ m <= N + 1
  BY <1>1, <1>2
<1>5. CASE m = 1
  <2>1. NameReads(buf, g)
    BY <1>0, <1>3, <1>5 DEF NameReads
  <2> QED BY <2>1
<1>6. CASE m # 1
  <2> DEFINE h == [g EXCEPT ![m - 1] = NameAt(buf, g, m - 1)]
  <2>1. m - 1 \in 1..N /\ m - 1 \in Nat \ {0}
    BY <1>4, <1>6, <1>0
  <2>2. /\ h = [pos \in 1..N |-> h[pos]] /\ h[m - 1] = NameAt(buf, g, m - 1)
        /\ \A pos \in 1..N : pos # m - 1 => h[pos] = g[pos]
    BY <1>3, <2>1
  <2> HIDE DEF h
  <2>3. ASSUME NEW pos \in (m - 1)..N PROVE NameAt(buf, h, pos) = NameAt(buf, g, pos)
    <3>1. pos \in 1..N
      BY <1>0, <2>1
    <3>2. ASSUME NEW l \in LabelCount PROVE NameAt(buf, h, pos)[l] = NameAt(buf, g, pos)[l]
      <4>0. pos \in 1..(Len(buf) + 1)
        BY <3>1
      <4> HIDE DEF N
      <4>3. \A e :
              /\ HasLabel(buf, pos, l) => NameAt(buf, e, pos)[l] = e[pos + buf[pos] + 1][l + 1]
              /\ pos <= Len(buf) /\ buf[pos] = 0 =>
                   NameAt(buf, e, pos)[l] = [ok |-> TRUE, next |-> pos + 1]
              /\ ~HasLabel(buf, pos, l) /\ ~(pos <= Len(buf) /\ buf[pos] = 0) =>
                   NameAt(buf, e, pos)[l] = Dns!Fail
        BY <4>0, <3>2, NameAtIs
      <4>1. CASE HasLabel(buf, pos, l)
        <5>1. pos + buf[pos] + 1 \in 1..N /\ pos + buf[pos] + 1 # m - 1
          BY <4>1, <3>1, <1>0, <2>1, LabelFits DEF N
        <5>2. h[pos + buf[pos] + 1] = g[pos + buf[pos] + 1]
          BY <5>1, <2>2
        <5>3. ASSUME NEW f PROVE NameAt(buf, f, pos)[l] = f[pos + buf[pos] + 1][l + 1]
          BY <4>1, <4>3
        <5> QED BY <5>2, <5>3
      <4>2. CASE ~HasLabel(buf, pos, l)
        BY <4>2, <4>3
      <4> QED BY <4>1, <4>2
    <3> QED BY <3>2 DEF NameAt, LabelCount
  <2>4. ASSUME NEW pos \in (m - 1)..N PROVE h[pos] = NameAt(buf, h, pos)
    <3>1. CASE pos = m - 1
      BY <3>1, <2>2, <2>3
    <3>2. CASE pos # m - 1
      <4>1. pos \in m..N /\ pos \in 1..N
        BY <3>2, <2>1, <1>4, <1>0
      <4> QED BY <4>1, <3>2, <2>2, <2>3, <1>3
    <3> QED BY <3>1, <3>2
  <2>5. Good(h, m - 1)
    BY <2>2, <2>4
  <2>6. m - 1 \in T
    BY <2>1, <2>5
  <2> QED BY <2>6, <1>2, <1>4
<1> QED BY <1>5, <1>6

(* read_name reads from one position what it reads from later ones. *)
LEMMA ReadNameIs ==
  ASSUME Dns!DnsAssumption, NEW buf \in Seq(DnsByte), NEW start
  PROVE  \E f : NameReads(buf, f) /\ Dns!ReadName(buf, start) = f[start][0]
<1> DEFINE r == CHOOSE f : NameReads(buf, f)
<1>1. NameReads(buf, r)
  BY ReadExists
<1>2. Dns!ReadName(buf, start) = r[start][0]
  BY DEF Dns!ReadName, NameAt, NameReads
<1> QED BY <1>1, <1>2

(* A name, cut into its labels, from a position on.                        *)
NamePath(buf, starts, p, e, l) ==
  /\ starts \subseteq p..e /\ p \in starts /\ e \in starts /\ e <= Len(buf)
  /\ Cardinality(starts) <= MaxLabels - l + 1
  /\ buf[e] = 0
  /\ \A s \in starts \ {e} :
       /\ buf[s] \in 1..63 /\ s + buf[s] + 1 \in starts
       /\ \A t \in starts : t <= s \/ t > s + buf[s]

(* A byte of a datagram is a number.                                       *)
LEMMA ByteIs ==
  ASSUME Dns!DnsAssumption, NEW buf \in Seq(DnsByte), NEW p \in 1..Len(buf)
  PROVE  Len(buf) \in Nat /\ buf[p] \in 0..255
<1>1. Len(buf) \in Nat /\ buf[p] \in DnsByte
  OBVIOUS
<1> QED BY <1>1 DEF Dns!DnsAssumption

(* An empty label is a name. *)
LEMMA PathStops ==
  ASSUME Dns!DnsAssumption, NEW buf \in Seq(DnsByte), NEW p \in 1..Len(buf), buf[p] = 0,
         NEW l \in LabelCount
  PROVE  NamePath(buf, {p}, p, p, l)
<1>1. Cardinality({p}) = 1
  BY FS_Singleton
<1>2. MaxLabels \in Nat /\ l \in Nat /\ l <= MaxLabels /\ p \in Nat /\ p <= Len(buf)
  BY DEF Dns!DnsAssumption, LabelCount
<1> QED BY <1>1, <1>2 DEF NamePath

(* A name of several labels is one label, and a name after it. *)
LEMMA PathGoesOn ==
  ASSUME Dns!DnsAssumption, NEW buf \in Seq(DnsByte), NEW p \in 1..Len(buf), NEW e \in Nat,
         NEW l \in LabelCount, NEW starts, NamePath(buf, starts, p, e, l), p # e
  PROVE  /\ HasLabel(buf, p, l)
         /\ NamePath(buf, starts \ {p}, p + buf[p] + 1, e, l + 1)
<1>1. PICK b : b = buf[p]
  OBVIOUS
<1>2. /\ p \in starts \ {e} /\ b \in 1..63 /\ p + b + 1 \in starts /\ e \in starts \ {p}
      /\ \A t \in starts : t <= p \/ t > p + b
  BY <1>1 DEF NamePath
<1>3. /\ p \in Nat \ {0} /\ Len(buf) \in Nat /\ e <= Len(buf) /\ starts \subseteq p..e
      /\ MaxLabels \in Nat /\ l \in Nat
  BY DEF NamePath, Dns!DnsAssumption, LabelCount
<1>4. IsFiniteSet(starts) /\ Cardinality(starts) \in Nat
  <2>1. IsFiniteSet(p..e)
    BY <1>3, FS_Interval
  <2> QED BY <2>1, <1>3, FS_Subset, FS_CardinalityType
<1>5. IsFiniteSet(starts \ {p}) /\ Cardinality(starts \ {p}) = Cardinality(starts) - 1
  BY <1>2, <1>4, FS_RemoveElement
<1>6. IsFiniteSet((starts \ {p}) \ {e}) /\ Cardinality((starts \ {p}) \ {e}) = Cardinality(starts) - 2
  <2>1. Cardinality((starts \ {p}) \ {e}) = Cardinality(starts \ {p}) - 1
        /\ IsFiniteSet((starts \ {p}) \ {e})
    BY <1>2, <1>5, FS_RemoveElement
  <2> QED BY <2>1, <1>4, <1>5
<1>7. Cardinality((starts \ {p}) \ {e}) \in Nat
  BY <1>6, FS_CardinalityType
<1>8. Cardinality(starts) <= MaxLabels - l + 1
  BY DEF NamePath
<1>9. l < MaxLabels
  BY <1>3, <1>4, <1>6, <1>7, <1>8
<1>10. p + b <= Len(buf) /\ starts \ {p} \subseteq (p + b + 1)..e
  BY <1>2, <1>3
<1>11. HasLabel(buf, p, l)
  BY <1>1, <1>2, <1>9, <1>10 DEF HasLabel
<1>12. Cardinality(starts \ {p}) <= MaxLabels - (l + 1) + 1
  BY <1>3, <1>4, <1>5, <1>8
<1>13. ASSUME NEW s \in (starts \ {p}) \ {e}
       PROVE  /\ buf[s] \in 1..63 /\ s + buf[s] + 1 \in starts \ {p}
              /\ \A t \in starts \ {p} : t <= s \/ t > s + buf[s]
  <2>1. PICK c : c = buf[s]
    OBVIOUS
  <2>2. c \in 1..63 /\ s + c + 1 \in starts /\ \A t \in starts : t <= s \/ t > s + c
    BY <2>1 DEF NamePath
  <2>3. s + c + 1 # p
    BY <1>2, <1>3, <2>2
  <2> QED BY <2>1, <2>2, <2>3
<1>14. p + b + 1 \in starts \ {p} /\ buf[e] = 0
  BY <1>2, <1>3 DEF NamePath
<1> QED BY <1>1, <1>2, <1>3, <1>10, <1>11, <1>12, <1>13, <1>14 DEF NamePath

(* A label, and a name after it, are a name. *)
LEMMA PathPrepends ==
  ASSUME Dns!DnsAssumption, NEW buf \in Seq(DnsByte), NEW p \in 1..Len(buf), NEW e \in Nat,
         NEW l \in LabelCount, HasLabel(buf, p, l),
         NEW starts, NamePath(buf, starts, p + buf[p] + 1, e, l + 1)
  PROVE  NamePath(buf, starts \cup {p}, p, e, l)
<1>1. PICK b : b = buf[p]
  OBVIOUS
<1>2. b \in 1..63
  BY <1>1 DEF HasLabel
<1>3. /\ p \in Nat \ {0} /\ Len(buf) \in Nat /\ e <= Len(buf) /\ starts \subseteq (p + b + 1)..e
      /\ MaxLabels \in Nat /\ l \in Nat
  BY <1>1 DEF NamePath, Dns!DnsAssumption, LabelCount
<1>4. IsFiniteSet(starts) /\ Cardinality(starts) \in Nat
  <2>1. p + b + 1 \in Int /\ e \in Int
    BY <1>2, <1>3
  <2>2. IsFiniteSet((p + b + 1)..e)
    BY <2>1, FS_Interval
  <2> QED BY <2>2, <1>3, FS_Subset, FS_CardinalityType
<1>5. p \notin starts
  BY <1>2, <1>3
<1>6. Cardinality(starts \cup {p}) = Cardinality(starts) + 1
  BY <1>4, <1>5, FS_AddElement
<1>7. Cardinality(starts) <= MaxLabels - (l + 1) + 1
  BY DEF NamePath
<1>8. Cardinality(starts \cup {p}) <= MaxLabels - l + 1
  BY <1>3, <1>4, <1>6, <1>7
<1>9. p + b + 1 \in starts /\ e \in starts /\ buf[e] = 0
  BY <1>1 DEF NamePath
<1>10. starts \cup {p} \subseteq p..e
  BY <1>2, <1>3, <1>9
<1>11. ASSUME NEW s \in (starts \cup {p}) \ {e}
       PROVE  /\ buf[s] \in 1..63 /\ s + buf[s] + 1 \in starts \cup {p}
              /\ \A t \in starts \cup {p} : t <= s \/ t > s + buf[s]
  <2>1. PICK c : c = buf[s]
    OBVIOUS
  <2>2. CASE s = p
    <3>1. \A t \in starts : t > p + b
      BY <1>2, <1>3
    <3> QED BY <1>1, <1>2, <1>3, <1>9, <2>2, <3>1
  <2>3. CASE s # p
    <3>1. c \in 1..63 /\ s + c + 1 \in starts /\ \A t \in starts : t <= s \/ t > s + c
      BY <2>1, <2>3 DEF NamePath
    <3>2. p <= s
      BY <1>3, <1>10
    <3> QED BY <2>1, <3>1, <3>2
  <2> QED BY <2>2, <2>3
<1> QED BY <1>3, <1>8, <1>9, <1>10, <1>11 DEF NamePath

(* The three ways read_name goes on.                                       *)
LEMMA ReadsZero ==
  ASSUME Dns!DnsAssumption, NEW buf \in Seq(DnsByte), NEW f, NameReads(buf, f),
         NEW p \in 1..Len(buf), NEW l \in LabelCount, buf[p] = 0
  PROVE  f[p][l] = [ok |-> TRUE, next |-> p + 1]
<1>1. p \in 1..(Len(buf) + 1) /\ p <= Len(buf)
  OBVIOUS
<1>2. f[p][l] = NameAt(buf, f, p)[l]
  BY <1>1 DEF NameReads
<1> QED BY <1>1, <1>2, NameAtIs

(* After a label, it goes on with the next. *)
LEMMA ReadsLabel ==
  ASSUME Dns!DnsAssumption, NEW buf \in Seq(DnsByte), NEW f, NameReads(buf, f),
         NEW p \in 1..(Len(buf) + 1), NEW l \in LabelCount, HasLabel(buf, p, l)
  PROVE  f[p][l] = f[p + buf[p] + 1][l + 1]
<1>1. f[p][l] = NameAt(buf, f, p)[l]
  BY DEF NameReads
<1> QED BY <1>1, NameAtIs

(* Without a label or an empty one there is no name. *)
LEMMA ReadsFail ==
  ASSUME Dns!DnsAssumption, NEW buf \in Seq(DnsByte), NEW f, NameReads(buf, f),
         NEW p \in 1..(Len(buf) + 1), NEW l \in LabelCount, ~HasLabel(buf, p, l),
         ~(p <= Len(buf) /\ buf[p] = 0)
  PROVE  f[p][l] = Dns!Fail
<1>1. f[p][l] = NameAt(buf, f, p)[l]
  BY DEF NameReads
<1> QED BY <1>1, NameAtIs

(* read_name finds the end of every name.                                  *)
LEMMA ReadAccepts ==
  ASSUME Dns!DnsAssumption, NEW buf \in Seq(DnsByte), NEW f, NameReads(buf, f)
  PROVE  \A p \in 1..Len(buf), e \in Nat, l \in LabelCount, starts \in SUBSET Nat :
           NamePath(buf, starts, p, e, l) => f[p][l] = [ok |-> TRUE, next |-> e + 1]
<1> DEFINE Misses(p, e, l, starts) ==
             NamePath(buf, starts, p, e, l) /\ f[p][l] # [ok |-> TRUE, next |-> e + 1]
           T == {k \in Nat : \E p \in 1..Len(buf), e \in Nat, l \in LabelCount, starts \in SUBSET Nat :
                               k = e - p /\ Misses(p, e, l, starts)}
<1>0. Len(buf) \in Nat
  OBVIOUS
<1>1. ASSUME NEW p \in 1..Len(buf), NEW e \in Nat, NEW l \in LabelCount, NEW starts \in SUBSET Nat,
             Misses(p, e, l, starts)
      PROVE  e - p \in T
  <2>1. e \in p..e
    BY <1>1 DEF NamePath
  <2>2. e - p \in Nat
    BY <2>1
  <2> QED BY <1>1, <2>2
<1>2. ASSUME NEW k \in T PROVE \E j \in T : j < k
  <2>1. PICK p \in 1..Len(buf), e \in Nat, l \in LabelCount, starts \in SUBSET Nat :
          k = e - p /\ Misses(p, e, l, starts)
    OBVIOUS
  <2> HIDE DEF T
  <2>2. p \in 1..(Len(buf) + 1)
    BY <1>0
  <2>3. p # e
    <3>1. ASSUME p = e PROVE FALSE
      <4>1. buf[p] = 0 /\ p <= Len(buf)
        BY <2>1, <3>1 DEF NamePath
      <4>2. f[p][l] = [ok |-> TRUE, next |-> p + 1]
        BY <4>1, ReadsZero
      <4> QED BY <4>2, <2>1, <3>1
    <3> QED BY <3>1
  <2>4. HasLabel(buf, p, l) /\ NamePath(buf, starts \ {p}, p + buf[p] + 1, e, l + 1)
    BY <2>1, <2>3, PathGoesOn
  <2>5. f[p][l] = f[p + buf[p] + 1][l + 1]
    BY <2>2, <2>4, ReadsLabel
  <2>6. PICK q : q = p + buf[p] + 1
    OBVIOUS
  <2>7. q \in (p + 1)..(Len(buf) + 1) /\ l + 1 \in LabelCount
    BY <2>4, <2>6, <1>0, LabelFits
  <2>8. e \in q..e /\ e <= Len(buf)
    BY <2>4, <2>6 DEF NamePath
  <2>9. q \in 1..Len(buf) /\ e - q < e - p
    BY <2>7, <2>8, <1>0
  <2>10. Misses(q, e, l + 1, starts \ {p})
    BY <2>1, <2>4, <2>5, <2>6
  <2>11. e - q \in T
    <3>1. starts \ {p} \in SUBSET Nat
      OBVIOUS
    <3> HIDE DEF Misses
    <3> QED BY <3>1, <1>1, <2>7, <2>9, <2>10
  <2> QED BY <2>1, <2>9, <2>11
<1>3. T = {}
  <2>1. T \subseteq Nat
    OBVIOUS
  <2> HIDE DEF T
  <2> QED BY <1>2, <2>1, NoneLeast
<1> QED BY <1>1, <1>3

(* What read_name accepts is a name.                                       *)
LEMMA ReadFinds ==
  ASSUME Dns!DnsAssumption, NEW buf \in Seq(DnsByte), NEW f, NameReads(buf, f)
  PROVE  \A p \in 1..(Len(buf) + 1), l \in LabelCount :
           f[p][l] = Dns!Fail \/ \E e \in 1..Len(buf), starts \in SUBSET Nat :
                               /\ NamePath(buf, starts, p, e, l)
                               /\ f[p][l] = [ok |-> TRUE, next |-> e + 1]
<1> DEFINE Finds(p, l) == f[p][l] = Dns!Fail \/ \E e \in 1..Len(buf), starts \in SUBSET Nat :
                               /\ NamePath(buf, starts, p, e, l)
                               /\ f[p][l] = [ok |-> TRUE, next |-> e + 1]
           N == Len(buf) + 1
           T == {k \in Nat : \E p \in 1..N, l \in LabelCount : k = N - p /\ ~Finds(p, l)}
<1>0. Len(buf) \in Nat /\ N \in Nat
  OBVIOUS
<1> HIDE DEF Finds
<1>1. ASSUME NEW p \in 1..N, NEW l \in LabelCount, ~Finds(p, l)
      PROVE  N - p \in T
  <2>1. N - p \in Nat
    BY <1>0
  <2> QED BY <1>1, <2>1
<1>2. ASSUME NEW k \in T PROVE \E j \in T : j < k
  <2>1. PICK p \in 1..N, l \in LabelCount : k = N - p /\ ~Finds(p, l)
    OBVIOUS
  <2> HIDE DEF T
  <2>2. p \in 1..(Len(buf) + 1) /\ p \in Nat \ {0}
    BY <1>0, <2>1
  <2>3. ~(p <= Len(buf) /\ buf[p] = 0)
    <3>1. ASSUME p <= Len(buf), buf[p] = 0 PROVE FALSE
      <4>2. p \in 1..Len(buf)
        BY <3>1, <1>0
      <4>4. {p} \in SUBSET Nat
        BY <4>2
      <4>1. f[p][l] = [ok |-> TRUE, next |-> p + 1]
        BY <3>1, <4>2, ReadsZero
      <4>3. NamePath(buf, {p}, p, p, l)
        BY <3>1, <4>2, PathStops
      <4> QED BY <4>1, <4>2, <4>3, <4>4, <2>1 DEF Finds
    <3> QED BY <3>1
  <2>4. HasLabel(buf, p, l)
    <3>1. f[p][l] # Dns!Fail
      BY <2>1 DEF Finds
    <3> QED BY <2>2, <2>3, <3>1, ReadsFail
  <2>5. f[p][l] = f[p + buf[p] + 1][l + 1]
    BY <2>2, <2>4, ReadsLabel
  <2>6. PICK q : q = p + buf[p] + 1
    OBVIOUS
  <2>7. q \in (p + 1)..N /\ l + 1 \in LabelCount
    BY <2>2, <2>4, <2>6, LabelFits
  <2>8. q \in 1..N /\ N - q < N - p
    BY <1>0, <2>2, <2>7
  <2>9. ~Finds(q, l + 1)
    <3>1. ASSUME Finds(q, l + 1) PROVE FALSE
      <4>1. f[q][l + 1] # Dns!Fail
        BY <2>1, <2>5, <2>6 DEF Finds
      <4>2. PICK e \in 1..Len(buf), starts \in SUBSET Nat :
              /\ NamePath(buf, starts, q, e, l + 1)
              /\ f[q][l + 1] = [ok |-> TRUE, next |-> e + 1]
        BY <3>1, <4>1 DEF Finds
      <4>3. p \in 1..Len(buf)
        BY <2>2, <2>4, <1>0 DEF HasLabel
      <4>4. NamePath(buf, starts \cup {p}, p, e, l)
        <5>1. e \in Nat /\ NamePath(buf, starts, p + buf[p] + 1, e, l + 1)
          BY <4>2, <2>6
        <5> QED BY <5>1, <4>3, <2>4, PathPrepends
      <4>5. starts \cup {p} \in SUBSET Nat
        <5>1. p \in Nat
          BY <4>3
        <5> QED BY <5>1
      <4> QED BY <4>2, <4>4, <4>5, <2>1, <2>5, <2>6 DEF Finds
    <3> QED BY <3>1
  <2>10. N - q \in T
    BY <1>1, <2>7, <2>8, <2>9
  <2> QED BY <2>1, <2>8, <2>10
<1>3. T = {}
  <2>1. T \subseteq Nat
    OBVIOUS
  <2> HIDE DEF T
  <2> QED BY <1>2, <2>1, NoneLeast
<1> HIDE DEF T
<1> QED BY <1>1, <1>3 DEF Finds

(* The cardinality that the instance of the DNS server means.              *)
LEMMA SameCardinality == ASSUME NEW S PROVE Dns!Cardinality(S) = Cardinality(S)
BY DEF Dns!Cardinality, Cardinality

(* The names that a datagram starts with are what read_name follows.       *)
LEMMA NameIsPath ==
  ASSUME Dns!DnsAssumption, NEW buf \in Seq(DnsByte), NEW e \in 1..Len(buf)
  PROVE  Dns!IsName(SubSeq(buf, 1, e)) <=> \E starts \in SUBSET Nat : NamePath(buf, starts, 1, e, 0)
<1>1. PICK b : b = SubSeq(buf, 1, e)
  OBVIOUS
<1>2. Len(buf) \in Nat /\ e \in Nat \ {0} /\ e <= Len(buf) /\ MaxLabels \in Nat
  BY DEF Dns!DnsAssumption
<1>3. Len(b) = e /\ \A s \in 1..e : b[s] = buf[s]
  BY <1>1, <1>2
<1>4. ASSUME Dns!IsName(b) PROVE \E starts \in SUBSET Nat : NamePath(buf, starts, 1, e, 0)
  <2>1. PICK starts \in SUBSET (1..e) :
          /\ {1, e} \subseteq starts /\ Cardinality(starts) <= MaxLabels + 1
          /\ \A s \in starts :
               IF s = e THEN b[s] = 0
               ELSE /\ b[s] \in 1..63 /\ s + b[s] + 1 \in starts
                    /\ \A t \in starts : t <= s \/ t > s + b[s]
    <3>1. Len(b) = e
      BY <1>3
    <3>2. PICK starts \in SUBSET (1..Len(b)) :
            /\ {1, Len(b)} \subseteq starts /\ Dns!Cardinality(starts) <= MaxLabels + 1
            /\ \A s \in starts :
                 IF s = Len(b) THEN b[s] = 0
                 ELSE /\ b[s] \in 1..63 /\ s + b[s] + 1 \in starts
                      /\ \A t \in starts : t <= s \/ t > s + b[s]
      BY <1>4, Zenon DEF Dns!IsName
    <3>3. Cardinality(starts) = Dns!Cardinality(starts)
      BY SameCardinality
    <3> QED BY <3>1, <3>2, <3>3, Zenon
  <2>2. \A s \in starts : b[s] = buf[s]
    BY <1>3
  <2>3. buf[e] = 0
    BY <2>1, <2>2
  <2>4. \A s \in starts \ {e} :
          /\ buf[s] \in 1..63 /\ s + buf[s] + 1 \in starts
          /\ \A t \in starts : t <= s \/ t > s + buf[s]
    BY <2>1, <2>2
  <2>5. Cardinality(starts) <= MaxLabels - 0 + 1
    BY <1>2, <2>1
  <2>6. starts \in SUBSET Nat
    OBVIOUS
  <2> QED BY <1>2, <2>1, <2>3, <2>4, <2>5, <2>6 DEF NamePath
<1>5. ASSUME NEW starts \in SUBSET Nat, NamePath(buf, starts, 1, e, 0) PROVE Dns!IsName(b)
  <2>1. /\ starts \subseteq 1..e /\ 1 \in starts /\ e \in starts /\ buf[e] = 0
        /\ Cardinality(starts) <= MaxLabels - 0 + 1
    BY <1>5 DEF NamePath
  <2>2. \A s \in starts : b[s] = buf[s]
    BY <1>3, <2>1
  <2>3. \A s \in starts : s # e =>
          /\ b[s] \in 1..63 /\ s + b[s] + 1 \in starts
          /\ \A t \in starts : t <= s \/ t > s + b[s]
    BY <1>5, <2>2 DEF NamePath
  <2>4. Dns!Cardinality(starts) <= MaxLabels + 1
    BY <1>2, <2>1, SameCardinality
  <2>5. starts \in SUBSET (1..Len(b)) /\ {1, Len(b)} \subseteq starts
    BY <1>3, <2>1
  <2>6. \A s \in starts :
          IF s = Len(b) THEN b[s] = 0
          ELSE /\ b[s] \in 1..63 /\ s + b[s] + 1 \in starts
               /\ \A t \in starts : t <= s \/ t > s + b[s]
    BY <1>3, <2>1, <2>2, <2>3
  <2> QED BY <2>4, <2>5, <2>6, Zenon DEF Dns!IsName
<1> QED BY <1>1, <1>4, <1>5

(* read_name accepts the name that a datagram starts with, and only that.  *)
LEMMA NameRead ==
  ASSUME Dns!DnsAssumption, NEW buf \in Seq(DnsByte)
  PROVE  /\ \/ Dns!ReadName(buf, 1) = Dns!Fail
            \/ \E e \in 1..Len(buf) : /\ Dns!ReadName(buf, 1) = [ok |-> TRUE, next |-> e + 1]
                                      /\ Dns!IsName(SubSeq(buf, 1, e))
         /\ \A e \in 1..Len(buf) : Dns!IsName(SubSeq(buf, 1, e)) =>
              Dns!ReadName(buf, 1) = [ok |-> TRUE, next |-> e + 1]
<1>1. PICK f : NameReads(buf, f) /\ Dns!ReadName(buf, 1) = f[1][0]
  BY ReadNameIs
<1>2. 0 \in LabelCount /\ 1 \in 1..(Len(buf) + 1)
  BY DEF LabelCount, Dns!DnsAssumption
<1>3. f[1][0] = Dns!Fail \/ \E e \in 1..Len(buf), starts \in SUBSET Nat :
          /\ NamePath(buf, starts, 1, e, 0)
          /\ f[1][0] = [ok |-> TRUE, next |-> e + 1]
  BY <1>1, <1>2, ReadFinds
<1>4. ASSUME NEW e \in 1..Len(buf), Dns!IsName(SubSeq(buf, 1, e))
      PROVE  f[1][0] = [ok |-> TRUE, next |-> e + 1]
  <2>1. PICK starts \in SUBSET Nat : NamePath(buf, starts, 1, e, 0)
    BY <1>4, NameIsPath
  <2>2. 1 \in 1..Len(buf) /\ e \in Nat
    OBVIOUS
  <2> QED BY <1>1, <1>2, <2>1, <2>2, ReadAccepts
<1>5. \A e \in 1..Len(buf), starts \in SUBSET Nat :
        NamePath(buf, starts, 1, e, 0) => Dns!IsName(SubSeq(buf, 1, e))
  BY NameIsPath
<1> QED BY <1>1, <1>3, <1>4, <1>5

(* Two bytes are the number one if and only if they are 0 and 1.           *)
LEMMA OneInTwoBytes ==
  ASSUME NEW a \in 0..255, NEW b \in 0..255
  PROVE  256 * a + b = 1 <=> a = 0 /\ b = 1
OBVIOUS

(* The type and the class of a question are those of an address.           *)
LEMMA AsksForAddress ==
  ASSUME Dns!DnsAssumption, NEW buf \in Seq(DnsByte), NEW e \in Nat \ {0}, e + 4 <= Len(buf)
  PROVE  Dns!U16(buf, e + 1) = 1 /\ Dns!U16(buf, e + 3) = 1
           <=> SubSeq(buf, e + 1, e + 4) = <<0, 1, 0, 1>>
<1>1. e + 1 \in 1..Len(buf) /\ e + 2 \in 1..Len(buf) /\ e + 3 \in 1..Len(buf) /\ e + 4 \in 1..Len(buf)
  OBVIOUS
<1>2. PICK w, x, y, z : w = buf[e + 1] /\ x = buf[e + 2] /\ y = buf[e + 3] /\ z = buf[e + 4]
  OBVIOUS
<1>3. w \in 0..255 /\ x \in 0..255 /\ y \in 0..255 /\ z \in 0..255
  BY <1>1, <1>2, ByteIs
<1>4. Dns!U16(buf, e + 1) = 256 * w + x /\ Dns!U16(buf, e + 3) = 256 * y + z
  <2>1. e + 1 + 1 = e + 2 /\ e + 3 + 1 = e + 4
    OBVIOUS
  <2> QED BY <2>1, <1>2 DEF Dns!U16
<1>5. PICK q : q = SubSeq(buf, e + 1, e + 4)
  OBVIOUS
<1>6. q = <<w, x, y, z>>
  <2>1. Len(q) = 4
    BY <1>5
  <2>2. q[1] = w /\ q[2] = x /\ q[3] = y /\ q[4] = z
    BY <1>2, <1>5
  <2>3. q \in Seq(DnsByte)
    BY <1>1, <1>5
  <2> QED BY <2>1, <2>2, <2>3
<1>7. q = <<0, 1, 0, 1>> <=> w = 0 /\ x = 1 /\ y = 0 /\ z = 1
  BY <1>6
<1> QED BY <1>3, <1>4, <1>5, <1>7, OneInTwoBytes

(* The datagrams, of any length.                                           *)
Datagrams == [tag : Tag, questions : 0..1, body : Seq(DnsByte)]

(* serve answers what it should.                                           *)
LEMMA ServeAnswers ==
  ASSUME Dns!DnsAssumption, datagram \in Datagrams, Dns!Serve
  PROVE  Dns!AnswersQuestions'
<1> DEFINE asked(buf) == {k \in 5..Len(buf) : datagram.questions > 0 /\ Dns!IsName(SubSeq(buf, 1, k - 4))}
<1>1. PICK buf : buf = datagram.body
  OBVIOUS
<1>2. buf \in Seq(DnsByte) /\ Len(buf) \in Nat /\ datagram.questions \in 0..1
  BY <1>1 DEF Datagrams
<1>3. datagram' = datagram
      /\ answer' = IF Dns!ParseQuery(datagram, buf).ok
                   THEN Dns!BuildResponse(Dns!ParseQuery(datagram, buf)) ELSE Dns!Silence
  BY <1>1 DEF Dns!Serve
<1>4. PICK name : name = Dns!ReadName(buf, 1)
  OBVIOUS
<1>5. CASE datagram.questions = 0 \/ ~name.ok \/ name.next + 3 > Len(buf)
  <2>1. ~Dns!ParseQuery(datagram, buf).ok
    BY <1>4, <1>5 DEF Dns!ParseQuery, Dns!Fail
  <2>2. ASSUME NEW k \in 5..Len(buf), datagram.questions > 0, Dns!IsName(SubSeq(buf, 1, k - 4))
        PROVE  FALSE
    <3>1. k - 4 \in 1..Len(buf)
      BY <1>2
    <3>2. name = [ok |-> TRUE, next |-> k - 4 + 1]
      BY <1>2, <1>4, <2>2, <3>1, NameRead
    <3>3. name.ok /\ name.next = k - 3
      BY <3>2
    <3> QED BY <1>2, <1>5, <2>2, <3>3
  <2>3. asked(buf) = {}
    BY <2>2
  <2> QED BY <1>1, <1>3, <2>1, <2>3 DEF Dns!AnswersQuestions
<1>6. CASE ~(datagram.questions = 0 \/ ~name.ok \/ name.next + 3 > Len(buf))
  <2>1. PICK e \in 1..Len(buf) : name = [ok |-> TRUE, next |-> e + 1] /\ Dns!IsName(SubSeq(buf, 1, e))
    <3>1. name # Dns!Fail
      BY <1>6 DEF Dns!Fail
    <3> QED BY <1>2, <1>4, <3>1, NameRead
  <2>2. name.ok /\ name.next = e + 1
    BY <2>1
  <2>3. PICK k : k = e + 4
    OBVIOUS
  <2>4. k \in 5..Len(buf) /\ k - 4 = e /\ k - 3 = e + 1 /\ e \in Nat \ {0} /\ e + 4 <= Len(buf)
        /\ name.next + 3 = k /\ name.next = e + 1 /\ name.next + 2 = e + 3
    BY <1>2, <1>6, <2>2, <2>3
  <2>5. Dns!ParseQuery(datagram, buf) =
          [ok |-> TRUE, tag |-> datagram.tag, question |-> SubSeq(buf, 1, k),
           qtype |-> Dns!U16(buf, e + 1), qclass |-> Dns!U16(buf, e + 3)]
    BY <1>4, <1>6, <2>4 DEF Dns!ParseQuery
  <2>6. k \in asked(buf)
    BY <1>2, <1>6, <2>1, <2>4
  <2>7. answer' = [at |-> "sent", tag |-> datagram.tag, question |-> SubSeq(buf, 1, k),
                   addresses |-> IF Dns!U16(buf, e + 1) = 1 /\ Dns!U16(buf, e + 3) = 1 THEN 1 ELSE 0]
    BY <1>3, <2>5 DEF Dns!BuildResponse, Dns!TypeA, Dns!ClassIn
  <2>8. answer' = [at |-> "sent", tag |-> datagram.tag, question |-> SubSeq(buf, 1, k),
                   addresses |-> IF SubSeq(buf, k - 3, k) = <<0, 1, 0, 1>> THEN 1 ELSE 0]
    <3>1. SubSeq(buf, e + 1, e + 4) = SubSeq(buf, k - 3, k)
      BY <2>3, <2>4
    <3> QED BY <1>2, <2>4, <2>7, <3>1, AsksForAddress
  <2> QED BY <1>1, <1>3, <2>6, <2>8 DEF Dns!AnswersQuestions
<1> QED BY <1>5, <1>6

(* AnswersQuestions: whatever a datagram holds, and however long it is, it *)
(* is answered if and only if it starts with a question, by that question, *)
(* and with the address of the node if and only if the question is about   *)
(* one (parse_query, read_name, build_response).                           *)
THEOREM QuestionsAnswered == MCSpec => []AnswersQuestions
<1> DEFINE Inv == explored = "dns" => datagram \in Datagrams /\ Dns!AnswersQuestions
<1>1. MCInit => Inv
  <2> SUFFICES ASSUME MCInit, explored = "dns" PROVE datagram \in Datagrams /\ answer = Dns!Waits
    BY DEF Dns!AnswersQuestions
  <2>1. Dns!Init
    BY DEF MCInit
  <2>2. Dns!Bodies \subseteq Seq(DnsByte)
    BY DatagramAssumption DEF Dns!Bodies, Dns!DnsAssumption
  <2> QED BY <2>1, <2>2 DEF Dns!Init, Datagrams
<1>2. Inv /\ [MCNext]_mcVars => Inv'
  <2> SUFFICES ASSUME Inv, [MCNext]_mcVars, explored' = "dns" PROVE Inv'
    OBVIOUS
  <2>1. explored = "dns"
    BY DEF MCNext, mcVars
  <2>2. datagram \in Datagrams /\ Dns!AnswersQuestions
    BY <2>1
  <2>3. CASE Dns!Serve
    <3>1. datagram' = datagram
      BY <2>3 DEF Dns!Serve
    <3> QED BY <2>2, <2>3, <3>1, DatagramAssumption, ServeAnswers DEF Datagrams
  <2>4. CASE UNCHANGED dnsVars
    BY <2>2, <2>4 DEF dnsVars, Dns!AnswersQuestions, Datagrams
  <2> QED BY <2>1, <2>3, <2>4 DEF MCNext, mcVars
<1>3. Inv => AnswersQuestions
  BY DEF AnswersQuestions
<1> QED BY <1>1, <1>2, <1>3, PTL DEF MCSpec

-------------------------------------------------------------------------------
(* The DHCP server.                                                        *)
(* What parse_message reads of the options from a position on, given what  *)
(* it reads from later ones.                                               *)
OptionsAt(buf, f, pos) == [type \in Dhcp!Type |->
  IF pos > Len(buf) THEN [ok |-> TRUE, type |-> type]
  ELSE IF buf[pos] = Dhcp!End THEN [ok |-> TRUE, type |-> type]
  ELSE IF buf[pos] = Dhcp!Pad THEN f[pos + 1][type]
  ELSE IF pos + 1 > Len(buf) THEN Dhcp!Fail
  ELSE IF pos + 1 + buf[pos + 1] > Len(buf) THEN Dhcp!Fail
  ELSE f[pos + 2 + buf[pos + 1]]
         [IF buf[pos] # Dhcp!MsgType THEN type
          ELSE IF buf[pos + 1] = 0 THEN Dhcp!NoType ELSE buf[pos + 2]]]

(* parse_message, as a function of the position.                           *)
OptionsRead(buf, f) == f = [pos \in 1..(Len(buf) + 1) |-> OptionsAt(buf, f, pos)]

(* The end of the options, and an option that the message holds.           *)
Stops(buf, pos) == pos > Len(buf) \/ buf[pos] = 255
HasOption(buf, pos) ==
  /\ pos <= Len(buf) /\ buf[pos] # 255
  /\ \/ buf[pos] = 0
     \/ pos + 1 <= Len(buf) /\ pos + 1 + buf[pos + 1] <= Len(buf)
After(buf, pos) == IF buf[pos] = 0 THEN pos + 1 ELSE pos + 2 + buf[pos + 1]
TypeAfter(buf, pos, type) ==
  IF buf[pos] # 53 THEN type ELSE IF buf[pos + 1] = 0 THEN -1 ELSE buf[pos + 2]

(* The bytes, as a set that the provers take as a whole.                   *)
Octet == 0..255

(* An element of a sequence. *)
LEMMA ElementIs ==
  ASSUME NEW S, NEW s \in Seq(S), NEW k \in 1..Len(s)
  PROVE  Len(s) \in Nat /\ s[k] \in S
OBVIOUS

(* A byte of a message is a number. *)
LEMMA OctetIs ==
  ASSUME NEW buf \in Seq(Octet), NEW p \in 1..Len(buf)
  PROVE  Len(buf) \in Nat /\ buf[p] \in 0..255
BY ElementIs DEF Octet

(* The three ways parse_message goes on.                                   *)
LEMMA OptionsStop ==
  ASSUME NEW buf \in Seq(Octet), NEW f, OptionsRead(buf, f), NEW pos \in 1..(Len(buf) + 1),
         NEW type \in Dhcp!Type, Stops(buf, pos)
  PROVE  f[pos][type] = [ok |-> TRUE, type |-> type]
<1>1. f[pos][type] = OptionsAt(buf, f, pos)[type]
  BY DEF OptionsRead
<1> QED BY <1>1 DEF OptionsAt, Stops, Dhcp!End

(* What is read from a position that is not the end: on after an option, or an error. *)
LEMMA OptionsAtIs ==
  ASSUME NEW buf \in Seq(Octet), NEW pos \in 1..(Len(buf) + 1), NEW f, NEW type \in Dhcp!Type,
         ~Stops(buf, pos)
  PROVE  IF HasOption(buf, pos)
         THEN /\ OptionsAt(buf, f, pos)[type] = f[After(buf, pos)][TypeAfter(buf, pos, type)]
              /\ After(buf, pos) \in (pos + 1)..(Len(buf) + 1)
              /\ TypeAfter(buf, pos, type) \in Dhcp!Type
         ELSE OptionsAt(buf, f, pos)[type] = Dhcp!Fail
<1>1. Len(buf) \in Nat /\ pos \in Nat \ {0} /\ pos <= Len(buf) /\ buf[pos] # 255
  BY DEF Stops
<1>2. PICK b \in 0..255 : b = buf[pos]
  BY <1>1, OctetIs
<1>3. OptionsAt(buf, f, pos)[type] =
          IF b = 0 THEN f[pos + 1][type]
          ELSE IF pos + 1 > Len(buf) THEN Dhcp!Fail
          ELSE IF pos + 1 + buf[pos + 1] > Len(buf) THEN Dhcp!Fail
          ELSE f[pos + 2 + buf[pos + 1]]
                [IF b # 53 THEN type ELSE IF buf[pos + 1] = 0 THEN -1 ELSE buf[pos + 2]]
  <2>1. ~(pos > Len(buf)) /\ ~(b = 255)
    BY <1>1, <1>2
  <2> QED BY <1>2, <2>1 DEF OptionsAt, Dhcp!End, Dhcp!Pad, Dhcp!MsgType, Dhcp!NoType
<1>4. CASE b = 0
  <2>1. HasOption(buf, pos) /\ After(buf, pos) = pos + 1 /\ TypeAfter(buf, pos, type) = type
    <3>1. buf[pos] = 0 /\ pos <= Len(buf) /\ buf[pos] # 255 /\ buf[pos] # 53
      BY <1>1, <1>2, <1>4
    <3>2. HasOption(buf, pos)
      <4>1. \/ buf[pos] = 0
            \/ pos + 1 <= Len(buf) /\ pos + 1 + buf[pos + 1] <= Len(buf)
        BY <3>1
      <4> QED BY <3>1, <4>1, Zenon DEF HasOption
    <3>3. After(buf, pos) = pos + 1
      BY <3>1 DEF After
    <3>4. TypeAfter(buf, pos, type) = type
      BY <3>1 DEF TypeAfter
    <3> QED BY <3>2, <3>3, <3>4
  <2>2. pos + 1 \in (pos + 1)..(Len(buf) + 1)
    BY <1>1
  <2> QED BY <1>3, <1>4, <2>1, <2>2
<1>5. CASE b # 0 /\ pos + 1 > Len(buf)
  <2>1. ~HasOption(buf, pos)
    BY <1>1, <1>2, <1>5 DEF HasOption
  <2> QED BY <1>3, <1>5, <2>1
<1>6. CASE b # 0 /\ ~(pos + 1 > Len(buf))
  <2>1. pos + 1 \in 1..Len(buf)
    BY <1>1, <1>6
  <2>2. PICK n \in 0..255 : n = buf[pos + 1]
    BY <2>1, OctetIs
  <2>3. CASE pos + 1 + n > Len(buf)
    <3>1. ~(pos + 1 + n <= Len(buf))
      BY <1>1, <2>3
    <3>2. ~HasOption(buf, pos)
      BY <1>2, <1>6, <2>2, <3>1 DEF HasOption
    <3> QED BY <1>3, <1>6, <2>2, <2>3, <3>2
  <2>4. CASE ~(pos + 1 + n > Len(buf))
    <3>1. pos + 1 + n <= Len(buf) /\ pos + 1 <= Len(buf)
      BY <1>1, <2>1, <2>4
    <3>2. HasOption(buf, pos)
      BY <1>1, <1>2, <2>2, <3>1 DEF HasOption
    <3>3. After(buf, pos) = pos + 2 + n
      BY <1>2, <1>6, <2>2 DEF After
    <3>4. TypeAfter(buf, pos, type) = IF b # 53 THEN type ELSE IF n = 0 THEN -1 ELSE buf[pos + 2]
      BY <1>2, <2>2 DEF TypeAfter
    <3>5. OptionsAt(buf, f, pos)[type] = f[After(buf, pos)][TypeAfter(buf, pos, type)]
      BY <1>3, <1>6, <2>2, <2>4, <3>3, <3>4
    <3>6. pos + 2 + n \in (pos + 1)..(Len(buf) + 1)
      BY <1>1, <3>1
    <3>7. TypeAfter(buf, pos, type) \in Dhcp!Type
      <4>1. n # 0 => buf[pos + 2] \in 0..255
        <5>1. n # 0 => pos + 2 \in 1..Len(buf)
          BY <1>1, <3>1
        <5> QED BY <5>1, OctetIs
      <4> QED BY <3>4, <4>1 DEF Dhcp!Type, Dhcp!NoType
    <3> QED BY <3>2, <3>3, <3>5, <3>6, <3>7
  <2> QED BY <2>3, <2>4
<1> QED BY <1>4, <1>5, <1>6

(* The option after one is further on.                                     *)
LEMMA OptionFits ==
  ASSUME NEW buf \in Seq(Octet), NEW pos \in 1..(Len(buf) + 1), NEW type \in Dhcp!Type,
         HasOption(buf, pos)
  PROVE  After(buf, pos) \in (pos + 1)..(Len(buf) + 1) /\ TypeAfter(buf, pos, type) \in Dhcp!Type
<1>1. ~Stops(buf, pos)
  BY DEF HasOption, Stops
<1> QED BY <1>1, OptionsAtIs

(* parse_message is defined from every position, by those further on. *)
LEMMA OptionsExist ==
  ASSUME NEW buf \in Seq(Octet)
  PROVE  \E f : OptionsRead(buf, f)
<1> DEFINE N == Len(buf) + 1
           Good(g, m) == /\ g = [pos \in 1..N |-> g[pos]]
                         /\ \A pos \in m..N : g[pos] = OptionsAt(buf, g, pos)
           T == {m \in Nat \ {0} : \E g : Good(g, m)}
<1>0. N \in Nat \ {0}
  OBVIOUS
<1>1. N + 1 \in T
  <2> DEFINE g == [pos \in 1..N |-> Dhcp!Fail]
  <2>1. Good(g, N + 1)
    BY <1>0
  <2> QED BY <2>1, <1>0
<1>2. PICK m \in T : \A k \in T : m <= k
  <2>1. T \subseteq Nat /\ T # {}
    BY <1>1
  <2> HIDE DEF T
  <2> QED BY <2>1, LeastNumber
<1>3. PICK g : Good(g, m)
  BY <1>2
<1>4. m \in Nat \ {0} /\ m <= N + 1
  BY <1>1, <1>2
<1>5. CASE m = 1
  <2>1. OptionsRead(buf, g)
    BY <1>0, <1>3, <1>5 DEF OptionsRead
  <2> QED BY <2>1
<1>6. CASE m # 1
  <2> DEFINE h == [g EXCEPT ![m - 1] = OptionsAt(buf, g, m - 1)]
  <2>1. m - 1 \in 1..N /\ m - 1 \in Nat \ {0}
    BY <1>4, <1>6, <1>0
  <2>2. /\ h = [pos \in 1..N |-> h[pos]] /\ h[m - 1] = OptionsAt(buf, g, m - 1)
        /\ \A pos \in 1..N : pos # m - 1 => h[pos] = g[pos]
    BY <1>3, <2>1
  <2> HIDE DEF h
  <2>3. ASSUME NEW pos \in (m - 1)..N PROVE OptionsAt(buf, h, pos) = OptionsAt(buf, g, pos)
    <3>1. pos \in 1..N
      BY <1>0, <2>1
    <3>2. ASSUME NEW type \in Dhcp!Type PROVE OptionsAt(buf, h, pos)[type] = OptionsAt(buf, g, pos)[type]
      <4>0. pos \in 1..(Len(buf) + 1)
        BY <3>1
      <4> HIDE DEF N
      <4>1. CASE Stops(buf, pos)
        BY <4>1 DEF Stops, OptionsAt, Dhcp!End
      <4>2. CASE ~Stops(buf, pos)
        <5>1. \A e : IF HasOption(buf, pos)
                     THEN /\ OptionsAt(buf, e, pos)[type] = e[After(buf, pos)][TypeAfter(buf, pos, type)]
                          /\ After(buf, pos) \in (pos + 1)..(Len(buf) + 1)
                     ELSE OptionsAt(buf, e, pos)[type] = Dhcp!Fail
          BY <4>0, <4>2, <3>2, OptionsAtIs
        <5>2. ASSUME After(buf, pos) \in (pos + 1)..(Len(buf) + 1)
              PROVE  h[After(buf, pos)] = g[After(buf, pos)]
          <6>1. PICK q : q = After(buf, pos)
            OBVIOUS
          <6>2. q \in 1..N /\ q # m - 1
            BY <6>1, <5>2, <3>1, <1>0, <2>1 DEF N
          <6> QED BY <6>1, <6>2, <2>2
        <5> QED BY <5>1, <5>2
      <4> QED BY <4>1, <4>2
    <3> QED BY <3>2 DEF OptionsAt
  <2>4. ASSUME NEW pos \in (m - 1)..N PROVE h[pos] = OptionsAt(buf, h, pos)
    <3>1. CASE pos = m - 1
      BY <3>1, <2>2, <2>3
    <3>2. CASE pos # m - 1
      <4>1. pos \in m..N /\ pos \in 1..N
        BY <3>2, <2>1, <1>4, <1>0
      <4> QED BY <4>1, <3>2, <2>2, <2>3, <1>3
    <3> QED BY <3>1, <3>2
  <2>5. Good(h, m - 1)
    BY <2>2, <2>4
  <2>6. m - 1 \in T
    BY <2>1, <2>5
  <2> QED BY <2>6, <1>2, <1>4
<1> QED BY <1>5, <1>6

(* parse_message reads from one position what it reads from later ones. *)
LEMMA ReadOptionsIs ==
  ASSUME NEW buf \in Seq(Octet)
  PROVE  \E f : OptionsRead(buf, f) /\ Dhcp!ReadOptions(buf) = f[1][-1]
<1> DEFINE r == CHOOSE f : OptionsRead(buf, f)
<1>1. OptionsRead(buf, r)
  BY OptionsExist
<1>2. Dhcp!ReadOptions(buf) = r[1][-1]
  BY DEF Dhcp!ReadOptions, OptionsAt, OptionsRead, Dhcp!NoType
<1> QED BY <1>1, <1>2

(* A way to cut the options from a position on; the option type in force   *)
(* after it, of those it starts with.                                      *)
Cut(buf, starts, p) ==
  /\ starts \subseteq p..(Len(buf) + 1) /\ p \in starts
  /\ \A s \in starts :
       IF Stops(buf, s) THEN \A t \in starts : t <= s
       ELSE /\ HasOption(buf, s) /\ After(buf, s) \in starts
            /\ \A t \in starts : t <= s \/ t >= After(buf, s)

IsType(buf, s) == s <= Len(buf) /\ buf[s] = 53
LeavesType(buf, starts, type, last) ==
  \/ last = type /\ \A s \in starts : ~IsType(buf, s)
  \/ \E s \in starts : /\ IsType(buf, s) /\ \A t \in starts : t > s => ~IsType(buf, t)
                       /\ last = TypeAfter(buf, s, type)

(* A cut is one option, and a cut after it. *)
LEMMA CutGoesOn ==
  ASSUME NEW buf \in Seq(Octet), NEW p \in 1..(Len(buf) + 1), NEW starts, Cut(buf, starts, p),
         ~Stops(buf, p)
  PROVE  HasOption(buf, p) /\ Cut(buf, starts \ {p}, After(buf, p))
<1>1. PICK q : q = After(buf, p)
  OBVIOUS
<1>2. /\ HasOption(buf, p) /\ q \in starts /\ p \in starts /\ starts \subseteq p..(Len(buf) + 1)
      /\ \A t \in starts : t <= p \/ t >= q
  BY <1>1 DEF Cut
<1>3. q \in (p + 1)..(Len(buf) + 1)
  <2>1. -1 \in Dhcp!Type
    BY DEF Dhcp!Type, Dhcp!NoType
  <2> QED BY <1>1, <1>2, <2>1, OptionFits
<1>4. starts \ {p} \subseteq q..(Len(buf) + 1) /\ q \in starts \ {p}
  BY <1>2, <1>3
<1>5. ASSUME NEW s \in starts \ {p}
      PROVE  IF Stops(buf, s) THEN \A t \in starts \ {p} : t <= s
             ELSE /\ HasOption(buf, s) /\ After(buf, s) \in starts \ {p}
                  /\ \A t \in starts \ {p} : t <= s \/ t >= After(buf, s)
  <2>1. CASE Stops(buf, s)
    BY <2>1 DEF Cut
  <2>2. CASE ~Stops(buf, s)
    <3>1. PICK r : r = After(buf, s)
      OBVIOUS
    <3>2. /\ HasOption(buf, s) /\ r \in starts
          /\ \A t \in starts : t <= s \/ t >= r
      BY <2>2, <3>1 DEF Cut
    <3>3. s \in 1..(Len(buf) + 1) /\ s > p
      BY <1>3, <1>4
    <3>4. r \in (s + 1)..(Len(buf) + 1)
      <4>1. -1 \in Dhcp!Type
        BY DEF Dhcp!Type, Dhcp!NoType
      <4> QED BY <3>1, <3>2, <3>3, <4>1, OptionFits
    <3>5. r # p
      BY <3>3, <3>4
    <3> QED BY <2>2, <3>1, <3>2, <3>5
  <2> QED BY <2>1, <2>2
<1> QED BY <1>1, <1>2, <1>4, <1>5 DEF Cut

(* An option, and a cut after it, are a cut. *)
LEMMA CutPrepends ==
  ASSUME NEW buf \in Seq(Octet), NEW p \in 1..(Len(buf) + 1), HasOption(buf, p),
         NEW starts, Cut(buf, starts, After(buf, p))
  PROVE  Cut(buf, starts \cup {p}, p)
<1>1. PICK q : q = After(buf, p)
  OBVIOUS
<1>2. q \in (p + 1)..(Len(buf) + 1)
  <2>1. -1 \in Dhcp!Type
    BY DEF Dhcp!Type, Dhcp!NoType
  <2> QED BY <1>1, <2>1, OptionFits
<1>3. starts \subseteq q..(Len(buf) + 1) /\ q \in starts
  BY <1>1 DEF Cut
<1>4. starts \cup {p} \subseteq p..(Len(buf) + 1)
  BY <1>2, <1>3
<1>5. ~Stops(buf, p) /\ \A t \in starts : t >= q /\ t > p
  <2>1. ~Stops(buf, p)
    BY DEF Stops, HasOption
  <2> QED BY <1>2, <1>3, <2>1
<1>6. ASSUME NEW s \in starts \cup {p}
      PROVE  IF Stops(buf, s) THEN \A t \in starts \cup {p} : t <= s
             ELSE /\ HasOption(buf, s) /\ After(buf, s) \in starts \cup {p}
                  /\ \A t \in starts \cup {p} : t <= s \/ t >= After(buf, s)
  <2>1. CASE s = p
    BY <1>1, <1>3, <1>5, <2>1
  <2>2. CASE s \in starts
    <3>1. p <= s /\ p \in Int /\ s \in Int
      BY <1>2, <1>3, <2>2
    <3>2. IF Stops(buf, s) THEN \A t \in starts : t <= s
          ELSE /\ HasOption(buf, s) /\ After(buf, s) \in starts
               /\ \A t \in starts : t <= s \/ t >= After(buf, s)
      BY <2>2 DEF Cut
    <3> QED BY <3>1, <3>2
  <2> QED BY <2>1, <2>2
<1> QED BY <1>4, <1>6 DEF Cut

(* The end is a cut. *)
LEMMA CutStops ==
  ASSUME NEW buf \in Seq(Octet), NEW p \in 1..(Len(buf) + 1), Stops(buf, p)
  PROVE  Cut(buf, {p}, p)
BY DEF Cut

(* The type that a cut leaves is the one that its rest leaves, from the    *)
(* type after its first option.                                            *)
LEMMA TypeGoesOn ==
  ASSUME NEW buf \in Seq(Octet), NEW p \in 1..(Len(buf) + 1), HasOption(buf, p),
         NEW starts, Cut(buf, starts, p), NEW type, NEW last,
         LeavesType(buf, starts \ {p}, TypeAfter(buf, p, type), last)
  PROVE  LeavesType(buf, starts, type, last)
<1>1. p \in starts /\ \A t \in starts : t \in Int /\ t >= p
  BY DEF Cut
<1>2. ~Stops(buf, p) /\ p <= Len(buf)
  BY DEF Stops, HasOption
<1>3. CASE last = TypeAfter(buf, p, type) /\ \A s \in starts \ {p} : ~IsType(buf, s)
  <2>1. CASE IsType(buf, p)
    <3>1. \A t \in starts : t > p => ~IsType(buf, t)
      BY <1>1, <1>3
    <3> QED BY <1>1, <1>3, <2>1, <3>1 DEF LeavesType
  <2>2. CASE ~IsType(buf, p)
    <3>1. TypeAfter(buf, p, type) = type
      BY <1>2, <2>2 DEF IsType, TypeAfter
    <3>2. \A s \in starts : ~IsType(buf, s)
      BY <1>3, <2>2
    <3> QED BY <1>3, <3>1, <3>2 DEF LeavesType
  <2> QED BY <2>1, <2>2
<1>4. ASSUME NEW s \in starts \ {p}, IsType(buf, s),
             \A t \in starts \ {p} : t > s => ~IsType(buf, t),
             last = TypeAfter(buf, s, TypeAfter(buf, p, type))
      PROVE  LeavesType(buf, starts, type, last)
  <2>1. ~(p > s) /\ s \in starts
    BY <1>1
  <2>2. \A t \in starts : t > s => ~IsType(buf, t)
    BY <1>4, <2>1
  <2>3. last = TypeAfter(buf, s, type)
    BY <1>4 DEF IsType, TypeAfter
  <2> QED BY <1>4, <2>1, <2>2, <2>3 DEF LeavesType
<1> QED BY <1>3, <1>4 DEF LeavesType

(* parse_message reads every sequence of options, and the last type in it. *)
LEMMA OptionsAccepted ==
  ASSUME NEW buf \in Seq(Octet), NEW f, OptionsRead(buf, f)
  PROVE  \A p \in 1..(Len(buf) + 1), type \in Dhcp!Type, starts \in SUBSET Nat :
           Cut(buf, starts, p) =>
             \E last : f[p][type] = [ok |-> TRUE, type |-> last] /\ LeavesType(buf, starts, type, last)
<1> DEFINE Reads(p, type, starts) ==
             \E last : f[p][type] = [ok |-> TRUE, type |-> last] /\ LeavesType(buf, starts, type, last)
           N == Len(buf) + 1
           T == {k \in Nat : \E p \in 1..N, type \in Dhcp!Type, starts \in SUBSET Nat :
                               k = N - p /\ Cut(buf, starts, p) /\ ~Reads(p, type, starts)}
<1>0. N \in Nat
  OBVIOUS
<1> HIDE DEF Reads
<1>1. ASSUME NEW p \in 1..N, NEW type \in Dhcp!Type, NEW starts \in SUBSET Nat,
             Cut(buf, starts, p), ~Reads(p, type, starts)
      PROVE  N - p \in T
  <2>1. N - p \in Nat
    BY <1>0
  <2> QED BY <1>1, <2>1
<1>2. ASSUME NEW k \in T PROVE \E j \in T : j < k
  <2>1. PICK p \in 1..N, type \in Dhcp!Type, starts \in SUBSET Nat :
          k = N - p /\ Cut(buf, starts, p) /\ ~Reads(p, type, starts)
    OBVIOUS
  <2> HIDE DEF T
  <2>2. p \in 1..(Len(buf) + 1)
    BY <2>1
  <2>3. ~Stops(buf, p)
    <3>1. ASSUME Stops(buf, p) PROVE FALSE
      <4>1. f[p][type] = [ok |-> TRUE, type |-> type]
        BY <2>2, <3>1, OptionsStop
      <4>2. \A s \in starts : s <= p /\ s \in p..(Len(buf) + 1)
        BY <2>1, <3>1 DEF Cut
      <4>3. \A s \in starts : s = p
        BY <2>2, <4>2
      <4>4. ~IsType(buf, p)
        BY <3>1, <2>2 DEF Stops, IsType
      <4>5. LeavesType(buf, starts, type, type)
        BY <4>3, <4>4 DEF LeavesType
      <4> QED BY <2>1, <4>1, <4>5 DEF Reads
    <3> QED BY <3>1
  <2>4. HasOption(buf, p) /\ Cut(buf, starts \ {p}, After(buf, p))
    BY <2>1, <2>2, <2>3, CutGoesOn
  <2>5. PICK q, after : q = After(buf, p) /\ after = TypeAfter(buf, p, type)
    OBVIOUS
  <2>6. f[p][type] = f[q][after] /\ q \in (p + 1)..(Len(buf) + 1) /\ after \in Dhcp!Type
    <3>1. f[p][type] = OptionsAt(buf, f, p)[type]
      BY <2>2 DEF OptionsRead
    <3> QED BY <2>2, <2>3, <2>4, <2>5, <3>1, OptionsAtIs
  <2>7. q \in 1..N /\ N - q < N - p
    BY <2>2, <2>6
  <2>8. ~Reads(q, after, starts \ {p})
    <3>1. ASSUME Reads(q, after, starts \ {p}) PROVE FALSE
      <4>1. PICK last : /\ f[q][after] = [ok |-> TRUE, type |-> last]
                        /\ LeavesType(buf, starts \ {p}, after, last)
        BY <3>1 DEF Reads
      <4>2. LeavesType(buf, starts, type, last)
        BY <2>1, <2>2, <2>4, <2>5, <4>1, TypeGoesOn
      <4> QED BY <2>1, <2>6, <4>1, <4>2 DEF Reads
    <3> QED BY <3>1
  <2>9. N - q \in T
    <3>1. starts \ {p} \in SUBSET Nat /\ Cut(buf, starts \ {p}, q)
      BY <2>4, <2>5
    <3> HIDE DEF T
    <3> QED BY <1>1, <2>6, <2>7, <2>8, <3>1
  <2> QED BY <2>1, <2>7, <2>9
<1>3. T = {}
  <2>1. T \subseteq Nat
    OBVIOUS
  <2> HIDE DEF T
  <2> QED BY <1>2, <2>1, NoneLeast
<1> HIDE DEF T
<1> QED BY <1>1, <1>3 DEF Reads

(* What parse_message reads is a sequence of options.                      *)
LEMMA OptionsFound ==
  ASSUME NEW buf \in Seq(Octet), NEW f, OptionsRead(buf, f)
  PROVE  \A p \in 1..(Len(buf) + 1), type \in Dhcp!Type :
           f[p][type] = Dhcp!Fail \/ \E starts \in SUBSET Nat : Cut(buf, starts, p)
<1> DEFINE Finds(p, type) == f[p][type] = Dhcp!Fail \/ \E starts \in SUBSET Nat : Cut(buf, starts, p)
           N == Len(buf) + 1
           T == {k \in Nat : \E p \in 1..N, type \in Dhcp!Type : k = N - p /\ ~Finds(p, type)}
<1>0. N \in Nat
  OBVIOUS
<1> HIDE DEF Finds
<1>1. ASSUME NEW p \in 1..N, NEW type \in Dhcp!Type, ~Finds(p, type)
      PROVE  N - p \in T
  <2>1. N - p \in Nat
    BY <1>0
  <2> QED BY <1>1, <2>1
<1>2. ASSUME NEW k \in T PROVE \E j \in T : j < k
  <2>1. PICK p \in 1..N, type \in Dhcp!Type : k = N - p /\ ~Finds(p, type)
    OBVIOUS
  <2> HIDE DEF T
  <2>2. p \in 1..(Len(buf) + 1)
    BY <2>1
  <2>3. ~Stops(buf, p)
    <3>1. {p} \in SUBSET Nat
      BY <2>2
    <3> QED BY <2>1, <2>2, <3>1, CutStops DEF Finds
  <2>4. HasOption(buf, p)
    <3>1. f[p][type] = OptionsAt(buf, f, p)[type]
      BY <2>2 DEF OptionsRead
    <3>2. f[p][type] # Dhcp!Fail
      BY <2>1 DEF Finds
    <3> QED BY <2>2, <2>3, <3>1, <3>2, OptionsAtIs
  <2>5. PICK q, after : q = After(buf, p) /\ after = TypeAfter(buf, p, type)
    OBVIOUS
  <2>6. f[p][type] = f[q][after] /\ q \in (p + 1)..(Len(buf) + 1) /\ after \in Dhcp!Type
    <3>1. f[p][type] = OptionsAt(buf, f, p)[type]
      BY <2>2 DEF OptionsRead
    <3> QED BY <2>2, <2>3, <2>4, <2>5, <3>1, OptionsAtIs
  <2>7. q \in 1..N /\ N - q < N - p
    BY <2>2, <2>6
  <2>8. ~Finds(q, after)
    <3>1. ASSUME Finds(q, after) PROVE FALSE
      <4>1. f[q][after] # Dhcp!Fail
        BY <2>1, <2>6 DEF Finds
      <4>2. PICK starts \in SUBSET Nat : Cut(buf, starts, q)
        BY <3>1, <4>1 DEF Finds
      <4>3. Cut(buf, starts \cup {p}, p)
        BY <2>2, <2>4, <2>5, <4>2, CutPrepends
      <4>4. starts \cup {p} \in SUBSET Nat
        BY <2>2
      <4> QED BY <2>1, <4>3, <4>4 DEF Finds
    <3> QED BY <3>1
  <2>9. N - q \in T
    <3> HIDE DEF T
    <3> QED BY <1>1, <2>6, <2>7, <2>8
  <2> QED BY <2>1, <2>7, <2>9
<1>3. T = {}
  <2>1. T \subseteq Nat
    OBVIOUS
  <2> HIDE DEF T
  <2> QED BY <1>2, <2>1, NoneLeast
<1> HIDE DEF T
<1> QED BY <1>1, <1>3 DEF Finds

(* A cut of a whole message, as its specification says it.                 *)
LEMMA CutsAre ==
  ASSUME NEW buf \in Seq(Octet), NEW starts
  PROVE  starts \in Dhcp!Cuts(buf) <=> Cut(buf, starts, 1)
<1> DEFINE Whole(s) ==
             LET stop == s > Len(buf) \/ buf[s] = 255
                 size == IF buf[s] = 0 THEN 1 ELSE 2 + buf[s + 1]
             IN  /\ stop => \A t \in starts : t <= s
                 /\ ~stop => /\ buf[s] = 0 \/ s < Len(buf)
                             /\ s + size \in starts
                             /\ \A t \in starts : t <= s \/ t >= s + size
           Here(s) == IF Stops(buf, s) THEN \A t \in starts : t <= s
                      ELSE /\ HasOption(buf, s) /\ After(buf, s) \in starts
                           /\ \A t \in starts : t <= s \/ t >= After(buf, s)
<1>0. Len(buf) \in Nat
  OBVIOUS
<1>1. ASSUME starts \subseteq 1..(Len(buf) + 1), NEW s \in starts PROVE Whole(s) <=> Here(s)
  <2>0. s \in Nat \ {0} /\ s <= Len(buf) + 1
    BY <1>0, <1>1
  <2>1. CASE Stops(buf, s)
    BY <2>1 DEF Stops
  <2>2. CASE ~Stops(buf, s)
    <3>1. s <= Len(buf) /\ buf[s] # 255 /\ ~(s > Len(buf) \/ buf[s] = 255)
      BY <2>0, <2>2, <1>0 DEF Stops
    <3> HIDE DEF Whole, Here
    <3>2. Here(s) <=> /\ HasOption(buf, s) /\ After(buf, s) \in starts
                      /\ \A t \in starts : t <= s \/ t >= After(buf, s)
      BY <2>2 DEF Here
    <3>3. CASE buf[s] = 0
      <4>1. Whole(s) <=> /\ s + 1 \in starts /\ \A t \in starts : t <= s \/ t >= s + 1
        BY <3>1, <3>3 DEF Whole
      <4>2. After(buf, s) = s + 1
        BY <3>3 DEF After
      <4>3. HasOption(buf, s)
        BY <3>1, <3>3, Zenon DEF HasOption
      <4> QED BY <3>2, <4>1, <4>2, <4>3
    <3>4. CASE buf[s] # 0 /\ ~(s < Len(buf))
      <4>1. ~Whole(s)
        BY <3>1, <3>4 DEF Whole
      <4>2. ~(s + 1 <= Len(buf))
        BY <1>0, <2>0, <3>4
      <4>3. ~HasOption(buf, s)
        BY <3>4, <4>2, Zenon DEF HasOption
      <4> QED BY <3>2, <4>1, <4>3
    <3>5. CASE buf[s] # 0 /\ s < Len(buf)
      <4>1. s + 1 \in 1..Len(buf) /\ s + 1 <= Len(buf)
        BY <1>0, <2>0, <3>5
      <4>2. PICK n \in 0..255 : n = buf[s + 1]
        BY <4>1, OctetIs
      <4>3. s + (2 + n) = s + 2 + n
        BY <2>0
      <4>4. Whole(s) <=> /\ s + 2 + n \in starts /\ \A t \in starts : t <= s \/ t >= s + 2 + n
        BY <3>1, <3>5, <4>2, <4>3 DEF Whole
      <4>5. After(buf, s) = s + 2 + n
        BY <3>5, <4>2 DEF After
      <4>6. s + 2 + n \in starts => s + 1 + n <= Len(buf)
        BY <1>0, <1>1, <2>0
      <4>7. HasOption(buf, s) <=> s + 1 + n <= Len(buf)
        BY <3>1, <3>5, <4>1, <4>2 DEF HasOption
      <4> QED BY <3>2, <4>4, <4>5, <4>6, <4>7
    <3> QED BY <3>3, <3>4, <3>5
  <2> QED BY <2>1, <2>2
<1>2. starts \in Dhcp!Cuts(buf) <=>
        starts \in SUBSET (1..(Len(buf) + 1)) /\ 1 \in starts /\ \A s \in starts : Whole(s)
  BY DEF Dhcp!Cuts, Dhcp!End, Dhcp!Pad
<1>3. Cut(buf, starts, 1) <=>
        starts \in SUBSET (1..(Len(buf) + 1)) /\ 1 \in starts /\ \A s \in starts : Here(s)
  BY DEF Cut
<1> HIDE DEF Whole, Here
<1> QED BY <1>1, <1>2, <1>3

(* The types that a cut leaves, as its specification says it.              *)
LEMMA TypesAre ==
  ASSUME NEW buf \in Seq(Octet), NEW starts, Cut(buf, starts, 1), NEW last,
         LeavesType(buf, starts, -1, last), NEW type \in Octet
  PROVE  type \in Dhcp!TypesOf(buf, starts) <=> last = type
<1> DEFINE Final(s) == /\ s \in starts /\ IsType(buf, s)
                      /\ \A t \in starts : t > s => ~IsType(buf, t)
<1>0. Len(buf) \in Nat /\ \A s \in starts : s \in Nat \ {0} /\ s <= Len(buf) + 1
  BY DEF Cut
<1>1. type \in Dhcp!TypesOf(buf, starts) <=> \E s : Final(s) /\ buf[s + 1] > 0 /\ type = buf[s + 2]
  BY DEF Dhcp!TypesOf, IsType, Dhcp!MsgType
<1>2. ASSUME NEW s, Final(s)
      PROVE  /\ buf[s + 1] \in 0..255
             /\ TypeAfter(buf, s, -1) = IF buf[s + 1] = 0 THEN -1 ELSE buf[s + 2]
  <2>1. buf[s] = 53 /\ s <= Len(buf) /\ s \in starts
    BY <1>2 DEF IsType
  <2>2. ~Stops(buf, s)
    BY <1>0, <2>1 DEF Stops
  <2>3. HasOption(buf, s)
    BY <2>1, <2>2 DEF Cut
  <2>4. s + 1 <= Len(buf)
    <3>1. buf[s] # 0
      BY <2>1
    <3> QED BY <3>1, <2>3, Zenon DEF HasOption
  <2>5. s + 1 \in 1..Len(buf)
    BY <1>0, <2>1, <2>4
  <2>6. buf[s + 1] \in 0..255
    BY <2>5, OctetIs
  <2> QED BY <2>1, <2>6 DEF TypeAfter
<1>3. ASSUME NEW s, NEW t, Final(s), Final(t) PROVE s = t
  <2>1. ~(t > s) /\ ~(s > t)
    BY <1>3
  <2> QED BY <1>0, <1>3, <2>1
<1>4. \/ last = -1 /\ \A s \in starts : ~IsType(buf, s)
      \/ \E s : Final(s) /\ last = TypeAfter(buf, s, -1)
  BY DEF LeavesType
<1>5. ASSUME NEW s, Final(s), buf[s + 1] > 0, type = buf[s + 2] PROVE last = type
  <2>1. ~(\A t \in starts : ~IsType(buf, t))
    BY <1>5
  <2> HIDE DEF Final
  <2>2. PICK t : Final(t) /\ last = TypeAfter(buf, t, -1)
    BY <1>4, <2>1
  <2>3. t = s
    BY <1>3, <1>5, <2>2
  <2>4. buf[s + 1] # 0
    BY <1>2, <1>5
  <2> QED BY <1>2, <1>5, <2>2, <2>3, <2>4
<1>6. ASSUME last = type PROVE \E s : Final(s) /\ buf[s + 1] > 0 /\ type = buf[s + 2]
  <2>1. last # -1
    BY <1>6 DEF Octet
  <2> HIDE DEF Final
  <2>2. PICK s : Final(s) /\ last = TypeAfter(buf, s, -1)
    BY <1>4, <2>1
  <2>3. buf[s + 1] # 0 /\ last = buf[s + 2]
    BY <1>2, <2>1, <2>2
  <2>4. buf[s + 1] > 0
    <3>1. PICK n \in 0..255 : n = buf[s + 1]
      BY <1>2, <2>2
    <3>2. n # 0
      BY <2>3, <3>1, Zenon
    <3>3. n > 0
      BY <3>2
    <3> QED BY <3>1, <3>3
  <2> QED BY <1>6, <2>2, <2>3, <2>4
<1> HIDE DEF Final
<1> QED BY <1>1, <1>5, <1>6

(* An option is its code, its length and its bytes.                        *)
LEMMA OptionIs ==
  ASSUME NEW code \in Octet, NEW data \in Seq(Octet), Len(data) \in Octet
  PROVE  /\ Dhcp!Option(code, data) \in Seq(Octet)
         /\ Len(Dhcp!Option(code, data)) = 2 + Len(data)
         /\ Dhcp!Option(code, data)[1] = code /\ Dhcp!Option(code, data)[2] = Len(data)
         /\ Len(data) > 0 => Dhcp!Option(code, data)[3] = data[1]
<1> DEFINE head == <<code, Len(data)>>
<1>1. head \in Seq(Octet) /\ Len(head) = 2 /\ head[1] = code /\ head[2] = Len(data)
  OBVIOUS
<1>2. Dhcp!Option(code, data) = head \o data
  BY DEF Dhcp!Option
<1> HIDE DEF head
<1>3. /\ head \o data \in Seq(Octet) /\ Len(head \o data) = 2 + Len(data)
      /\ \A k \in 1..2 : (head \o data)[k] = head[k]
      /\ \A k \in 1..Len(data) : (head \o data)[k + 2] = data[k]
  <2>1. /\ head \o data \in Seq(Octet) /\ Len(head \o data) = Len(head) + Len(data)
        /\ \A k \in 1..Len(head) : (head \o data)[k] = head[k]
        /\ \A k \in 1..Len(data) : (head \o data)[k + Len(head)] = data[k]
    <3>1. head \in Seq(Octet)
      BY <1>1
    <3> QED BY <3>1, Joined
  <2>2. Len(head) = 2
    BY <1>1
  <2> QED BY <2>1, <2>2, Zenon
<1>4. Len(data) > 0 => (head \o data)[3] = data[1]
  <2>1. Len(data) > 0 => 1 \in 1..Len(data) /\ 1 + 2 = 3
    OBVIOUS
  <2> QED BY <1>3, <2>1
<1>5. 1 \in 1..2 /\ 2 \in 1..2
  OBVIOUS
<1> QED BY <1>1, <1>2, <1>3, <1>4, <1>5

(* Options, and one after them.                                            *)
LEMMA OneMore ==
  ASSUME NEW s \in Seq(Octet), NEW o \in Seq(Octet), Len(o) >= 2
  PROVE  /\ s \o o \in Seq(Octet) /\ Len(s \o o) = Len(s) + Len(o)
         /\ \A k \in 1..Len(s) : (s \o o)[k] = s[k]
         /\ (s \o o)[Len(s) + 1] = o[1]
         /\ (s \o o)[Len(s) + 2] = o[2]
<1>1. /\ s \o o \in Seq(Octet) /\ Len(s \o o) = Len(s) + Len(o)
      /\ \A k \in 1..Len(s) : (s \o o)[k] = s[k]
      /\ \A k \in 1..Len(o) : (s \o o)[k + Len(s)] = o[k]
  BY Joined
<1>2. 1 \in 1..Len(o) /\ 2 \in 1..Len(o) /\ 1 + Len(s) = Len(s) + 1 /\ 2 + Len(s) = Len(s) + 2
  OBVIOUS
<1> QED BY <1>1, <1>2, Zenon

(* The options with the data of a reply.                                   *)
LEMMA ReplyOptions ==
  /\ <<255>> \in Seq(Octet)
  /\ \A code \in Octet, data \in {NodeAddress, <<0, 0, 2, 88>>, <<255, 255, 255, 0>>} :
       /\ Dhcp!Option(code, data) \in Seq(Octet) /\ Len(Dhcp!Option(code, data)) = 6
       /\ Dhcp!Option(code, data)[1] = code /\ Dhcp!Option(code, data)[2] = 4
  /\ \A type \in Octet :
       /\ Dhcp!Option(53, <<type>>) \in Seq(Octet) /\ Len(Dhcp!Option(53, <<type>>)) = 3
       /\ Dhcp!Option(53, <<type>>)[1] = 53 /\ Dhcp!Option(53, <<type>>)[2] = 1
       /\ Dhcp!Option(53, <<type>>)[3] = type
<1>1. <<255>> \in Seq(Octet)
  BY DEF Octet
<1>2. ASSUME NEW code \in Octet, NEW data \in {NodeAddress, <<0, 0, 2, 88>>, <<255, 255, 255, 0>>}
      PROVE  /\ Dhcp!Option(code, data) \in Seq(Octet) /\ Len(Dhcp!Option(code, data)) = 6
             /\ Dhcp!Option(code, data)[1] = code /\ Dhcp!Option(code, data)[2] = 4
  <2>1. data \in Seq(Octet)
    <3>1. 10 \in Octet /\ 0 \in Octet /\ 1 \in Octet /\ 2 \in Octet /\ 88 \in Octet /\ 255 \in Octet
      BY DEF Octet
    <3>2. NodeAddress \in Seq(Octet)
      BY <3>1 DEF NodeAddress
    <3>3. <<0, 0, 2, 88>> \in Seq(Octet)
      BY <3>1
    <3>4. <<255, 255, 255, 0>> \in Seq(Octet)
      BY <3>1
    <3> QED BY <3>2, <3>3, <3>4
  <2>2. Len(data) = 4
    BY DEF NodeAddress
  <2>3. Len(data) \in Octet
    BY <2>2 DEF Octet
  <2>4. /\ Dhcp!Option(code, data) \in Seq(Octet)
        /\ Len(Dhcp!Option(code, data)) = 2 + Len(data)
        /\ Dhcp!Option(code, data)[1] = code /\ Dhcp!Option(code, data)[2] = Len(data)
    BY <2>1, <2>3, OptionIs
  <2>5. 2 + Len(data) = 6
    BY <2>2
  <2> QED BY <2>2, <2>4, <2>5
<1>3. ASSUME NEW type \in Octet
      PROVE  /\ Dhcp!Option(53, <<type>>) \in Seq(Octet) /\ Len(Dhcp!Option(53, <<type>>)) = 3
             /\ Dhcp!Option(53, <<type>>)[1] = 53 /\ Dhcp!Option(53, <<type>>)[2] = 1
             /\ Dhcp!Option(53, <<type>>)[3] = type
  <2>1. PICK data : data = <<type>>
    OBVIOUS
  <2>2. data \in Seq(Octet)
    BY <2>1
  <2>3. Len(data) = 1 /\ data[1] = type
    BY <2>1
  <2>4. Len(data) \in Octet /\ 53 \in Octet /\ 2 + Len(data) = 3 /\ Len(data) > 0
    BY <2>3 DEF Octet
  <2>5. /\ Dhcp!Option(53, data) \in Seq(Octet)
        /\ Len(Dhcp!Option(53, data)) = 2 + Len(data)
        /\ Dhcp!Option(53, data)[1] = 53 /\ Dhcp!Option(53, data)[2] = Len(data)
        /\ Len(data) > 0 => Dhcp!Option(53, data)[3] = data[1]
    BY <2>2, <2>4, OptionIs
  <2> QED BY <2>1, <2>3, <2>4, <2>5
<1> QED BY <1>1, <1>2, <1>3

(* Where the options of a reply start, and their lengths.                  *)
ReplyOf(o, type) ==
  /\ o \in Seq(Octet) /\ Len(o) = 34
  /\ o[1] = 53 /\ o[2] = 1 /\ o[3] = type
  /\ o[4] = 54 /\ o[5] = 4 /\ o[10] = 51 /\ o[11] = 4 /\ o[16] = 1 /\ o[17] = 4
  /\ o[22] = 3 /\ o[23] = 4 /\ o[28] = 6 /\ o[29] = 4 /\ o[34] = 255

(* build_reply puts them there. *)
LEMMA ReplyIs ==
  ASSUME NEW m, NEW type \in Octet
  PROVE  ReplyOf(Dhcp!BuildReply(m, type).options, type)
<1> DEFINE o1 == Dhcp!Option(53, <<type>>)
           o2 == Dhcp!Option(54, NodeAddress)
           o3 == Dhcp!Option(51, <<0, 0, 2, 88>>)
           o4 == Dhcp!Option(1, <<255, 255, 255, 0>>)
           o5 == Dhcp!Option(3, NodeAddress)
           o6 == Dhcp!Option(6, NodeAddress)
           o7 == <<255>>
           p2 == o1 \o o2
           p3 == p2 \o o3
           p4 == p3 \o o4
           p5 == p4 \o o5
           p6 == p5 \o o6
           p7 == p6 \o o7
<1>1. 54 \in Octet /\ 51 \in Octet /\ 1 \in Octet /\ 3 \in Octet /\ 6 \in Octet
  BY DEF Octet
<1>2. /\ o1 \in Seq(Octet) /\ Len(o1) = 3 /\ o1[1] = 53 /\ o1[2] = 1 /\ o1[3] = type
  BY ReplyOptions
<1>3. /\ o2 \in Seq(Octet) /\ Len(o2) = 6 /\ o2[1] = 54 /\ o2[2] = 4
      /\ o3 \in Seq(Octet) /\ Len(o3) = 6 /\ o3[1] = 51 /\ o3[2] = 4
      /\ o4 \in Seq(Octet) /\ Len(o4) = 6 /\ o4[1] = 1 /\ o4[2] = 4
      /\ o5 \in Seq(Octet) /\ Len(o5) = 6 /\ o5[1] = 3 /\ o5[2] = 4
      /\ o6 \in Seq(Octet) /\ Len(o6) = 6 /\ o6[1] = 6 /\ o6[2] = 4
  BY <1>1, ReplyOptions
<1>4. o7 \in Seq(Octet) /\ Len(o7) = 1 /\ o7[1] = 255
  BY ReplyOptions
<1>5. Dhcp!BuildReply(m, type).options = p7
  BY DEF Dhcp!BuildReply, Dhcp!MsgType, Dhcp!End
<1> HIDE DEF o1, o2, o3, o4, o5, o6, o7
<1>6. /\ p2 \in Seq(Octet) /\ Len(p2) = 9
      /\ p2[1] = 53 /\ p2[2] = 1 /\ p2[3] = type /\ p2[4] = 54 /\ p2[5] = 4
  <2>1. 1 \in 1..3 /\ 2 \in 1..3 /\ 3 \in 1..3
    OBVIOUS
  <2>2. Len(o1) = 3 /\ o1 \in Seq(Octet)
    BY <1>2
  <2> HIDE DEF o1
  <2>3. /\ p2 \in Seq(Octet) /\ Len(p2) = Len(o1) + Len(o2)
        /\ \A k \in 1..Len(o1) : p2[k] = o1[k]
        /\ p2[Len(o1) + 1] = o2[1] /\ p2[Len(o1) + 2] = o2[2]
    <3>1. o1 \in Seq(Octet)
      BY <2>2
    <3>2. o2 \in Seq(Octet) /\ Len(o2) >= 2
      BY <1>3
    <3> QED BY <3>1, <3>2, OneMore, Zenon
  <2> HIDE DEF p2
  <2>4. Len(o1) + 1 = 4 /\ Len(o1) + 2 = 5 /\ Len(o1) + Len(o2) = 9
    BY <1>3, <2>2
  <2> QED BY <1>2, <1>3, <2>1, <2>2, <2>3, <2>4
<1>7. /\ p3 \in Seq(Octet) /\ Len(p3) = 15
      /\ p3[1] = 53 /\ p3[2] = 1 /\ p3[3] = type /\ p3[4] = 54 /\ p3[5] = 4 /\ p3[10] = 51 /\ p3[11] = 4
  <2>1. 1 \in 1..9 /\ 2 \in 1..9 /\ 3 \in 1..9 /\ 4 \in 1..9 /\ 5 \in 1..9
    OBVIOUS
  <2>2. Len(p2) = 9 /\ p2 \in Seq(Octet)
    BY <1>6
  <2> HIDE DEF p2
  <2>3. /\ p3 \in Seq(Octet) /\ Len(p3) = Len(p2) + Len(o3)
        /\ \A k \in 1..Len(p2) : p3[k] = p2[k]
        /\ p3[Len(p2) + 1] = o3[1] /\ p3[Len(p2) + 2] = o3[2]
    <3>1. p2 \in Seq(Octet)
      BY <2>2
    <3>2. o3 \in Seq(Octet) /\ Len(o3) >= 2
      BY <1>3
    <3> QED BY <3>1, <3>2, OneMore, Zenon
  <2> HIDE DEF p3
  <2>4. Len(p2) + 1 = 10 /\ Len(p2) + 2 = 11 /\ Len(p2) + Len(o3) = 15
    BY <1>3, <2>2
  <2> QED BY <1>6, <1>3, <2>1, <2>2, <2>3, <2>4
<1>8. /\ p4 \in Seq(Octet) /\ Len(p4) = 21
      /\ p4[1] = 53 /\ p4[2] = 1 /\ p4[3] = type /\ p4[4] = 54 /\ p4[5] = 4 /\ p4[10] = 51 /\ p4[11] = 4 /\ p4[16] = 1 /\ p4[17] = 4
  <2>1. 1 \in 1..15 /\ 2 \in 1..15 /\ 3 \in 1..15 /\ 4 \in 1..15 /\ 5 \in 1..15 /\ 10 \in 1..15 /\ 11 \in 1..15
    OBVIOUS
  <2>2. Len(p3) = 15 /\ p3 \in Seq(Octet)
    BY <1>7
  <2> HIDE DEF p3
  <2>3. /\ p4 \in Seq(Octet) /\ Len(p4) = Len(p3) + Len(o4)
        /\ \A k \in 1..Len(p3) : p4[k] = p3[k]
        /\ p4[Len(p3) + 1] = o4[1] /\ p4[Len(p3) + 2] = o4[2]
    <3>1. p3 \in Seq(Octet)
      BY <2>2
    <3>2. o4 \in Seq(Octet) /\ Len(o4) >= 2
      BY <1>3
    <3> QED BY <3>1, <3>2, OneMore, Zenon
  <2> HIDE DEF p4
  <2>4. Len(p3) + 1 = 16 /\ Len(p3) + 2 = 17 /\ Len(p3) + Len(o4) = 21
    BY <1>3, <2>2
  <2> QED BY <1>7, <1>3, <2>1, <2>2, <2>3, <2>4
<1>9. /\ p5 \in Seq(Octet) /\ Len(p5) = 27
      /\ p5[1] = 53 /\ p5[2] = 1 /\ p5[3] = type /\ p5[4] = 54 /\ p5[5] = 4 /\ p5[10] = 51 /\ p5[11] = 4 /\ p5[16] = 1 /\ p5[17] = 4 /\ p5[22] = 3 /\ p5[23] = 4
  <2>1. 1 \in 1..21 /\ 2 \in 1..21 /\ 3 \in 1..21 /\ 4 \in 1..21 /\ 5 \in 1..21 /\ 10 \in 1..21 /\ 11 \in 1..21 /\ 16 \in 1..21 /\ 17 \in 1..21
    OBVIOUS
  <2>2. Len(p4) = 21 /\ p4 \in Seq(Octet)
    BY <1>8
  <2> HIDE DEF p4
  <2>3. /\ p5 \in Seq(Octet) /\ Len(p5) = Len(p4) + Len(o5)
        /\ \A k \in 1..Len(p4) : p5[k] = p4[k]
        /\ p5[Len(p4) + 1] = o5[1] /\ p5[Len(p4) + 2] = o5[2]
    <3>1. p4 \in Seq(Octet)
      BY <2>2
    <3>2. o5 \in Seq(Octet) /\ Len(o5) >= 2
      BY <1>3
    <3> QED BY <3>1, <3>2, OneMore, Zenon
  <2> HIDE DEF p5
  <2>4. Len(p4) + 1 = 22 /\ Len(p4) + 2 = 23 /\ Len(p4) + Len(o5) = 27
    BY <1>3, <2>2
  <2> QED BY <1>8, <1>3, <2>1, <2>2, <2>3, <2>4
<1>10. /\ p6 \in Seq(Octet) /\ Len(p6) = 33
      /\ p6[1] = 53 /\ p6[2] = 1 /\ p6[3] = type /\ p6[4] = 54 /\ p6[5] = 4 /\ p6[10] = 51 /\ p6[11] = 4 /\ p6[16] = 1 /\ p6[17] = 4 /\ p6[22] = 3 /\ p6[23] = 4 /\ p6[28] = 6 /\ p6[29] = 4
  <2>1. 1 \in 1..27 /\ 2 \in 1..27 /\ 3 \in 1..27 /\ 4 \in 1..27 /\ 5 \in 1..27 /\ 10 \in 1..27 /\ 11 \in 1..27 /\ 16 \in 1..27 /\ 17 \in 1..27 /\ 22 \in 1..27 /\ 23 \in 1..27
    OBVIOUS
  <2>2. Len(p5) = 27 /\ p5 \in Seq(Octet)
    BY <1>9
  <2> HIDE DEF p5
  <2>3. /\ p6 \in Seq(Octet) /\ Len(p6) = Len(p5) + Len(o6)
        /\ \A k \in 1..Len(p5) : p6[k] = p5[k]
        /\ p6[Len(p5) + 1] = o6[1] /\ p6[Len(p5) + 2] = o6[2]
    <3>1. p5 \in Seq(Octet)
      BY <2>2
    <3>2. o6 \in Seq(Octet) /\ Len(o6) >= 2
      BY <1>3
    <3> QED BY <3>1, <3>2, OneMore, Zenon
  <2> HIDE DEF p6
  <2>4. Len(p5) + 1 = 28 /\ Len(p5) + 2 = 29 /\ Len(p5) + Len(o6) = 33
    BY <1>3, <2>2
  <2> QED BY <1>9, <1>3, <2>1, <2>2, <2>3, <2>4
<1>11. p7 \in Seq(Octet) /\ Len(p7) = 34 /\ p7[34] = 255
      /\ p7[1] = 53 /\ p7[2] = 1 /\ p7[3] = type /\ p7[4] = 54 /\ p7[5] = 4 /\ p7[10] = 51 /\ p7[11] = 4 /\ p7[16] = 1 /\ p7[17] = 4 /\ p7[22] = 3 /\ p7[23] = 4 /\ p7[28] = 6 /\ p7[29] = 4
  <2>1. 1 \in 1..33 /\ 2 \in 1..33 /\ 3 \in 1..33 /\ 4 \in 1..33 /\ 5 \in 1..33 /\ 10 \in 1..33 /\ 11 \in 1..33 /\ 16 \in 1..33 /\ 17 \in 1..33 /\ 22 \in 1..33 /\ 23 \in 1..33 /\ 28 \in 1..33 /\ 29 \in 1..33
    OBVIOUS
  <2>2. Len(p6) = 33 /\ p6 \in Seq(Octet)
    BY <1>10
  <2> HIDE DEF p6
  <2>3. /\ p7 \in Seq(Octet) /\ Len(p7) = Len(p6) + Len(o7)
        /\ \A k \in 1..Len(p6) : p7[k] = p6[k]
        /\ \A k \in 1..Len(o7) : p7[k + Len(p6)] = o7[k]
    <3>1. p6 \in Seq(Octet)
      BY <2>2
    <3>2. o7 \in Seq(Octet)
      BY <1>4
    <3> QED BY <3>1, <3>2, Joined
  <2> HIDE DEF p7
  <2>4. 1 \in 1..Len(o7) /\ 1 + Len(p6) = 34 /\ Len(p6) + Len(o7) = 34
    BY <1>4, <2>2
  <2> QED BY <1>10, <1>4, <2>1, <2>2, <2>3, <2>4
<1> HIDE DEF p7
<1> QED BY <1>5, <1>11 DEF ReplyOf

(* A reply reads as a message of the type it was built with.               *)
LEMMA ReplyReads ==
  ASSUME NEW m, NEW type \in {2, 5}
  PROVE  Dhcp!ParseMessage(Dhcp!BuildReply(m, type)) = [ok |-> TRUE, type |-> type]
<1>0. type \in Octet
  BY DEF Octet
<1>1. PICK o : o = Dhcp!BuildReply(m, type).options
  OBVIOUS
<1>a. ReplyOf(o, type)
  BY <1>0, <1>1, ReplyIs
<1>b. /\ o \in Seq(Octet) /\ Len(o) = 34
      /\ o[1] = 53 /\ o[2] = 1 /\ o[3] = type
      /\ o[4] = 54 /\ o[5] = 4 /\ o[10] = 51 /\ o[11] = 4 /\ o[16] = 1 /\ o[17] = 4
      /\ o[22] = 3 /\ o[23] = 4 /\ o[28] = 6 /\ o[29] = 4 /\ o[34] = 255
  BY <1>a DEF ReplyOf
<1>c. o \in Seq(Octet)
  BY <1>b
<1> DEFINE starts == {1, 4, 10, 16, 22, 28, 34}
<1>2. ~IsType(o, 4) /\ ~IsType(o, 10) /\ ~IsType(o, 16) /\ ~IsType(o, 22) /\ ~IsType(o, 28)
      /\ ~IsType(o, 34) /\ IsType(o, 1)
  BY <1>b DEF IsType
<1>3. /\ ~Stops(o, 1) /\ ~Stops(o, 4) /\ ~Stops(o, 10) /\ ~Stops(o, 16) /\ ~Stops(o, 22)
      /\ ~Stops(o, 28) /\ Stops(o, 34)
  BY <1>b DEF Stops
<1>4. /\ After(o, 1) = 4 /\ After(o, 4) = 10 /\ After(o, 10) = 16 /\ After(o, 16) = 22
      /\ After(o, 22) = 28 /\ After(o, 28) = 34
  BY <1>b DEF After
<1>5. /\ HasOption(o, 1) /\ HasOption(o, 4) /\ HasOption(o, 10) /\ HasOption(o, 16)
      /\ HasOption(o, 22) /\ HasOption(o, 28)
  BY <1>b DEF HasOption
<1>6. Cut(o, starts, 1) /\ starts \in SUBSET Nat
  <2>1. starts \subseteq 1..(Len(o) + 1) /\ 1 \in starts
    BY <1>b
  <2>2. ASSUME NEW s \in starts
        PROVE  IF Stops(o, s) THEN \A t \in starts : t <= s
               ELSE /\ HasOption(o, s) /\ After(o, s) \in starts
                    /\ \A t \in starts : t <= s \/ t >= After(o, s)
    BY <1>3, <1>4, <1>5
  <2>3. starts \in SUBSET Nat
    OBVIOUS
  <2> QED BY <2>1, <2>2, <2>3 DEF Cut
<1> HIDE DEF starts
<1>7. PICK f : OptionsRead(o, f) /\ Dhcp!ReadOptions(o) = f[1][-1]
  BY <1>c, ReadOptionsIs
<1>8. PICK last : f[1][-1] = [ok |-> TRUE, type |-> last] /\ LeavesType(o, starts, -1, last)
  <2>1. 1 \in 1..(Len(o) + 1) /\ -1 \in Dhcp!Type
    BY <1>b DEF Dhcp!Type, Dhcp!NoType
  <2>2. OptionsRead(o, f)
    BY <1>7
  <2>3. \A p \in 1..(Len(o) + 1), t \in Dhcp!Type, cut \in SUBSET Nat :
          Cut(o, cut, p) =>
            \E last : f[p][t] = [ok |-> TRUE, type |-> last] /\ LeavesType(o, cut, t, last)
    BY <1>c, <2>2, OptionsAccepted
  <2> QED BY <1>6, <2>1, <2>3, Zenon
<1>9. type \in Dhcp!TypesOf(o, starts)
  <2>1. \A u \in starts : u > 1 /\ u <= Len(o) => o[u] # 53
    BY <1>b DEF starts
  <2>2. 1 \in starts /\ 1 <= Len(o) /\ o[1] = 53 /\ o[1 + 1] > 0 /\ type = o[1 + 2]
    BY <1>b DEF starts
  <2> QED BY <2>1, <2>2 DEF Dhcp!TypesOf, Dhcp!MsgType
<1>10. last = type
  <2>1. Cut(o, starts, 1)
    BY <1>6
  <2>2. LeavesType(o, starts, -1, last)
    BY <1>8
  <2> QED BY <1>0, <1>9, <1>c, <2>1, <2>2, TypesAre
<1>11. Dhcp!BuildReply(m, type).cookie = TRUE
  BY DEF Dhcp!BuildReply
<1> QED BY <1>1, <1>7, <1>8, <1>10, <1>11 DEF Dhcp!ParseMessage

(* The messages, with options of any length.                               *)
Messages == [op : {1, 2}, cookie : BOOLEAN, from : From, options : Seq(DhcpByte)]

(* The types that the ways to cut the options leave, if they are options.  *)
Asked(m) == UNION {Dhcp!TypesOf(m.options, starts) : starts \in Dhcp!Cuts(m.options)}

(* What parse_message reads of any message.                                *)
LEMMA MessageRead ==
  ASSUME Dhcp!DhcpMessagesAssumption, NEW m \in Messages
  PROVE  \A type \in {1, 3} :
           m.cookie /\ type \in Asked(m) <=> /\ Dhcp!ParseMessage(m).ok
                                            /\ Dhcp!ParseMessage(m).type = type
<1>1. PICK o : o = m.options
  OBVIOUS
<1>2. o \in Seq(Octet)
  <2>1. o \in Seq(DhcpByte) /\ DhcpByte \subseteq Octet
    BY <1>1 DEF Messages, Dhcp!DhcpMessagesAssumption, Octet
  <2> QED BY <2>1
<1>3. PICK f : OptionsRead(o, f) /\ Dhcp!ReadOptions(o) = f[1][-1]
  BY <1>2, ReadOptionsIs
<1>4. 1 \in 1..(Len(o) + 1) /\ -1 \in Dhcp!Type
  BY <1>2 DEF Dhcp!Type, Dhcp!NoType
<1>5. ASSUME NEW starts, Cut(o, starts, 1)
      PROVE  /\ f[1][-1].ok
             /\ \A type \in Octet : type \in Dhcp!TypesOf(o, starts) <=> f[1][-1].type = type
  <2>1. starts \in SUBSET Nat
    BY <1>5 DEF Cut
  <2>2. OptionsRead(o, f)
    BY <1>3
  <2>3. \A p \in 1..(Len(o) + 1), t \in Dhcp!Type, cut \in SUBSET Nat :
          Cut(o, cut, p) =>
            \E last : f[p][t] = [ok |-> TRUE, type |-> last] /\ LeavesType(o, cut, t, last)
    BY <1>2, <2>2, OptionsAccepted
  <2>4. PICK last : f[1][-1] = [ok |-> TRUE, type |-> last] /\ LeavesType(o, starts, -1, last)
    BY <1>4, <1>5, <2>1, <2>3, Zenon
  <2>5. LeavesType(o, starts, -1, last)
    BY <2>4
  <2>6. \A type \in Octet : type \in Dhcp!TypesOf(o, starts) <=> last = type
    BY <1>2, <1>5, <2>5, TypesAre
  <2>7. f[1][-1].ok /\ f[1][-1].type = last
    BY <2>4
  <2> QED BY <2>6, <2>7
<1>6. f[1][-1] = Dhcp!Fail \/ \E starts : Cut(o, starts, 1)
  BY <1>2, <1>3, <1>4, OptionsFound
<1>7. ASSUME NEW type \in {1, 3}
      PROVE  (\E starts \in Dhcp!Cuts(o) : type \in Dhcp!TypesOf(o, starts))
               <=> f[1][-1].ok /\ f[1][-1].type = type
  <2>1. type \in Octet
    BY DEF Octet
  <2>2. ASSUME NEW starts \in Dhcp!Cuts(o), type \in Dhcp!TypesOf(o, starts)
        PROVE  f[1][-1].ok /\ f[1][-1].type = type
    <3>1. Cut(o, starts, 1)
      BY <1>2, CutsAre
    <3> QED BY <1>5, <2>1, <2>2, <3>1
  <2>3. ASSUME f[1][-1].ok, f[1][-1].type = type
        PROVE  \E starts \in Dhcp!Cuts(o) : type \in Dhcp!TypesOf(o, starts)
    <3>1. f[1][-1] # Dhcp!Fail
      BY <2>3 DEF Dhcp!Fail
    <3>2. PICK starts : Cut(o, starts, 1)
      BY <1>6, <3>1
    <3>3. starts \in Dhcp!Cuts(o)
      BY <1>2, <3>2, CutsAre
    <3>4. type \in Dhcp!TypesOf(o, starts)
      BY <1>5, <2>1, <2>3, <3>2
    <3> QED BY <3>3, <3>4
  <2> QED BY <2>2, <2>3
<1>8. Dhcp!ParseMessage(m) = IF m.cookie THEN f[1][-1] ELSE Dhcp!Fail
  BY <1>1, <1>3 DEF Dhcp!ParseMessage
<1>9. ASSUME NEW type PROVE type \in Asked(m) <=>
        \E starts \in Dhcp!Cuts(o) : type \in Dhcp!TypesOf(o, starts)
  BY <1>1 DEF Asked
<1> QED BY <1>7, <1>8, <1>9 DEF Dhcp!Fail

(* handle answers what it should.                                          *)
LEMMA ServeReplies ==
  ASSUME Dhcp!DhcpMessagesAssumption, message \in Messages, free \in BOOLEAN, Dhcp!Serve
  PROVE  Dhcp!AnswersRequests'
<1> DEFINE asked == Asked(message) \cap {1, 3}
<1>1. PICK p : p = Dhcp!ParseMessage(message)
  OBVIOUS
<1>2. \A type \in {1, 3} : message.cookie /\ type \in asked <=> p.ok /\ p.type = type
  BY <1>1, MessageRead
<1>5. asked \subseteq {1, 3}
  OBVIOUS
<1> HIDE DEF asked
<1>3. message' = message /\ free' = free /\ reply' = Dhcp!Handle(message)
  BY DEF Dhcp!Serve
<1>4. Dhcp!AnswersRequests' <=>
        \/ reply' = Dhcp!Waits
        \/ /\ ~free \/ ~message.cookie \/ message.op # 1 \/ asked = {}
           /\ reply' = Dhcp!Silence
        \/ \E type \in asked :
             /\ free /\ message.cookie /\ message.op = 1
             /\ reply'.at = "sent"
             /\ Dhcp!ParseMessage(reply'.message).type = (IF type = 1 THEN 2 ELSE 5)
             /\ Dhcp!Handle(reply.message)' = Dhcp!Silence
  BY <1>3 DEF Dhcp!AnswersRequests, asked, Asked, Dhcp!OpRequest, Dhcp!Discover, Dhcp!Request,
              Dhcp!Offer, Dhcp!Ack
<1>6. CASE p.ok /\ message.op = 1 /\ p.type \in {1, 3} /\ free
  <2>1. PICK type, answered : type = p.type /\ answered = IF type = 1 THEN 2 ELSE 5
    OBVIOUS
  <2>2. type \in asked /\ message.cookie
    BY <1>2, <1>6, <2>1
  <2>3. PICK m : m = Dhcp!BuildReply(message, answered)
    OBVIOUS
  <2>4. reply' = [at |-> "sent", message |-> m]
    BY <1>1, <1>3, <1>6, <2>1, <2>3
       DEF Dhcp!Handle, Dhcp!OpRequest, Dhcp!Discover, Dhcp!Request, Dhcp!Offer, Dhcp!Ack
  <2>5. Dhcp!ParseMessage(m).type = answered
    BY <2>1, <2>3, ReplyReads
  <2>6. m.op = 2
    BY <2>3 DEF Dhcp!BuildReply, Dhcp!OpReply
  <2>7. reply'.at = "sent" /\ reply'.message = m
    BY <2>4
  <2>8. Dhcp!Handle(reply.message)' = Dhcp!Silence
    BY <2>6, <2>7 DEF Dhcp!Handle, Dhcp!OpRequest
  <2>9. Dhcp!ParseMessage(reply'.message).type = IF type = 1 THEN 2 ELSE 5
    BY <2>1, <2>5, <2>7
  <2>10. free /\ message.op = 1
    BY <1>6
  <2> QED BY <1>4, <2>2, <2>7, <2>8, <2>9, <2>10, Zenon
<1>7. CASE ~(p.ok /\ message.op = 1 /\ p.type \in {1, 3} /\ free)
  <2>1. reply' = Dhcp!Silence
    BY <1>1, <1>3, <1>7 DEF Dhcp!Handle, Dhcp!OpRequest, Dhcp!Discover, Dhcp!Request
  <2>2. message.op = 1 /\ free /\ message.cookie => asked = {}
    BY <1>2, <1>5, <1>7
  <2> QED BY <1>4, <2>1, <2>2
<1> QED BY <1>6, <1>7

(* AnswersRequests: whatever the options of a message, and however many,   *)
(* it is answered if and only if it is a request that can be cut into      *)
(* options the last type of which asks for an address, and the reply, read *)
(* as the clients read it, has the type that answers it (parse_message,    *)
(* handle, build_reply).                                                   *)
THEOREM RequestsAnswered == MCSpec => []AnswersRequests
<1> DEFINE Inv == explored = "dhcp" => message \in Messages /\ free \in BOOLEAN /\ Dhcp!AnswersRequests
<1>1. MCInit => Inv
  <2> SUFFICES ASSUME MCInit, explored = "dhcp"
               PROVE  message \in Messages /\ free \in BOOLEAN /\ reply = Dhcp!Waits
    BY DEF Dhcp!AnswersRequests
  <2>1. Dhcp!Init
    BY DEF MCInit
  <2>2. UNION {[1..n -> DhcpByte] : n \in 0..MaxOptions} \subseteq Seq(DhcpByte)
    BY MessageAssumption DEF Dhcp!DhcpMessagesAssumption
  <2> QED BY <2>1, <2>2 DEF Dhcp!Init, Messages, Dhcp!OpRequest, Dhcp!OpReply
<1>2. Inv /\ [MCNext]_mcVars => Inv'
  <2> SUFFICES ASSUME Inv, [MCNext]_mcVars, explored' = "dhcp" PROVE Inv'
    OBVIOUS
  <2>1. explored = "dhcp"
    BY DEF MCNext, mcVars
  <2>2. message \in Messages /\ free \in BOOLEAN /\ Dhcp!AnswersRequests
    BY <2>1
  <2>3. CASE Dhcp!Serve
    <3>1. message' = message /\ free' = free
      BY <2>3 DEF Dhcp!Serve
    <3> QED BY <2>2, <2>3, <3>1, MessageAssumption, ServeReplies DEF Messages
  <2>4. CASE UNCHANGED dhcpVars
    BY <2>2, <2>4 DEF dhcpVars, Dhcp!AnswersRequests, Messages, Dhcp!Handle
  <2> QED BY <2>1, <2>3, <2>4 DEF MCNext, mcVars
<1>3. Inv => AnswersRequests
  BY DEF AnswersRequests
<1> QED BY <1>1, <1>2, <1>3, PTL DEF MCSpec

===============================================================================
