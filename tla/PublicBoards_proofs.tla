------------------------- MODULE PublicBoards_proofs -------------------------
(***************************************************************************)
(* What the portal shows and keeps for the public. The inbox (AlertInbox), *)
(* for every set of sources, timestamps and texts and every value of the   *)
(* three limits with INBOX_MAX_ITEMS no greater than DEDUP_CACHE_SIZE. The *)
(* ping groups (PingBoard), for any requests, clients, groups and limits,  *)
(* and the official bulletins (OfficialCache), for any names, dates and    *)
(* capacity, in the situations of MCPublicBoards: with requests that       *)
(* overlap, and one by one.                                                *)
(***************************************************************************)
EXTENDS MCPublicBoards, InboxRules_proofs, FiniteSetTheorems

(* Every packet has an identifier.                                         *)
LEMMA UidType == \A p \in Packet : Uid(p) \in Identifier
  BY DEF Packet, Identifier, Uid

-------------------------------------------------------------------------------
(* The initial inbox is empty, and so is the history.                      *)
LEMMA InitIInv == Init => IInv
<1> SUFFICES ASSUME Init PROVE IInv
  OBVIOUS
<1>1. inbox.alerts = <<>> /\ inbox.seen = <<>> /\ log = <<>>
  BY DEF Init, EmptyInbox
<1>2. TypeOK
  BY InboxAssumption DEF Init, EmptyInbox, TypeOK
<1>3. SeenIsRecentLog /\ DisplayIsRecentLog /\ ReadmissionGap
  BY <1>1, InboxAssumption DEF SeenIsRecentLog, DisplayIsRecentLog, ReadmissionGap
<1> QED BY <1>2, <1>3 DEF IInv

(* An accepted packet is not among the last DedupSize entries of the       *)
(* history: the memory is exactly that window.                             *)
LEMMA AcceptedIsNotRecent ==
  ASSUME IInv, NEW p \in Packet, Verdict(inbox, p, now) = "Accepted",
         NEW k \in 1..Len(log), log[k] = Uid(p)
  PROVE  Len(log) + 1 - k > DedupSize
<1>1. Uid(p) \notin Seen(inbox)
  BY DEF Verdict
<1>2. inbox.seen \in Seq(Identifier) /\ log \in Seq(Identifier) /\ DedupSize \in Nat
  BY InboxAssumption DEF IInv, TypeOK
<1>3. SUFFICES ASSUME k > Len(log) - Len(inbox.seen) PROVE FALSE
  BY <1>2 DEF IInv, SeenIsRecentLog
<1> DEFINE i == k - (Len(log) - Len(inbox.seen))
<1>4. i \in DOMAIN inbox.seen
  BY <1>2, <1>3
<1>5. inbox.seen[i] = log[Len(log) - Len(inbox.seen) + i]
  BY <1>4 DEF IInv, SeenIsRecentLog
<1>6. inbox.seen[i] = log[k]
  BY <1>5, <1>2
<1> QED BY <1>1, <1>4, <1>6 DEF Seen

(* A call of admit keeps the invariant.                                    *)
LEMMA AdmitIInv ==
  ASSUME IInv, NEW p \in Packet, Admit(p)
  PROVE  IInv'
<1>1. CASE UNCHANGED vars
  BY <1>1 DEF IInv, TypeOK, SeenIsRecentLog, DisplayIsRecentLog, ReadmissionGap, vars
<1>2. CASE /\ Verdict(inbox, p, now) = "Accepted"
           /\ inbox' = Push(inbox, p)
           /\ log' = Append(log, Uid(p))
           /\ UNCHANGED now
  <2>1. /\ TypeOK /\ Uid(p) \in Identifier
        /\ inbox.alerts \in Seq(Packet) /\ inbox.seen \in Seq(Identifier)
        /\ log \in Seq(Identifier)
        /\ InboxMax \in Nat \ {0} /\ DedupSize \in Nat \ {0}
    BY InboxAssumption, UidType DEF IInv, TypeOK
  <2>0. inbox \in [alerts : Seq(Packet), seen : Seq(Identifier)]
    BY DEF IInv, TypeOK
  <2>2. /\ log' \in Seq(Identifier)
        /\ Len(log') = Len(log) + 1
        /\ log'[Len(log')] = Uid(p)
        /\ \A i \in 1..Len(log) : log'[i] = log[i]
    BY <1>2, <2>1
  <2>3. inbox' = [alerts |-> inbox'.alerts, seen |-> inbox'.seen]
    BY <1>2 DEF Push
  <2>4. /\ inbox'.alerts \in Seq(Packet)
        /\ Len(inbox'.alerts) = IF Len(inbox.alerts) + 1 <= InboxMax
                                THEN Len(inbox.alerts) + 1 ELSE InboxMax
        /\ \A i \in 1..Len(inbox'.alerts) :
             inbox'.alerts[i] = IF i = 1 THEN p ELSE inbox.alerts[i-1]
    BY <1>2, <2>0, <2>1, PushAlerts
  <2>5. /\ inbox'.seen \in Seq(Identifier)
        /\ Len(inbox'.seen) = IF Len(inbox.seen) = DedupSize
                              THEN DedupSize ELSE Len(inbox.seen) + 1
        /\ inbox'.seen[Len(inbox'.seen)] = Uid(p)
        /\ \A i \in 1..(Len(inbox'.seen) - 1) :
             inbox'.seen[i] = IF Len(inbox.seen) = DedupSize
                              THEN inbox.seen[i+1] ELSE inbox.seen[i]
    BY <1>2, <2>0, <2>1, PushSeen
  <2>6. TypeOK'
    BY <1>2, <2>1, <2>2, <2>3, <2>4, <2>5 DEF IInv, TypeOK
  <2>7. SeenIsRecentLog'
    <3>1. Len(inbox'.seen) = IF Len(log') <= DedupSize THEN Len(log') ELSE DedupSize
      BY <2>1, <2>2, <2>5 DEF IInv, SeenIsRecentLog
    <3>2. ASSUME NEW i \in 1..Len(inbox'.seen)
          PROVE  inbox'.seen[i] = log'[Len(log') - Len(inbox'.seen) + i]
      <4>1. CASE i = Len(inbox'.seen)
        BY <4>1, <2>1, <2>2, <2>5
      <4> DEFINE j == IF Len(inbox.seen) = DedupSize THEN i + 1 ELSE i
      <4>2. CASE i # Len(inbox'.seen)
        <5>1. inbox'.seen[i] = inbox.seen[j] /\ j \in DOMAIN inbox.seen
          BY <4>2, <2>1, <2>5
        <5>2. inbox.seen[j] = log[Len(log) - Len(inbox.seen) + j]
          BY <5>1 DEF IInv, SeenIsRecentLog
        <5>3. Len(log) - Len(inbox.seen) + j = Len(log') - Len(inbox'.seen) + i
          <6>1. /\ Len(log) \in Nat /\ Len(inbox.seen) \in Nat /\ i \in Int
                /\ DedupSize \in Nat /\ Len(log') = Len(log) + 1
            BY <2>1, <2>2, <2>5
          <6>2. CASE Len(inbox.seen) = DedupSize
            <7>1. j = i + 1 /\ Len(inbox'.seen) = Len(inbox.seen)
              BY <6>2, <2>5
            <7> QED BY <7>1, <6>1
          <6>3. CASE Len(inbox.seen) # DedupSize
            <7>1. j = i /\ Len(inbox'.seen) = Len(inbox.seen) + 1
              BY <6>3, <2>5
            <7> QED BY <7>1, <6>1
          <6> QED BY <6>2, <6>3
        <5>4. Len(log) - Len(inbox.seen) + j \in 1..Len(log)
          BY <5>1, <2>1 DEF IInv, SeenIsRecentLog
        <5> QED BY <5>1, <5>2, <5>3, <5>4, <2>2
      <4> QED BY <4>1, <4>2
    <3>3. DOMAIN inbox'.seen = 1..Len(inbox'.seen)
      BY <2>5
    <3> QED BY <3>1, <3>2, <3>3 DEF SeenIsRecentLog
  <2>8. DisplayIsRecentLog'
    <3>1. Len(inbox'.alerts) = IF Len(log') <= InboxMax THEN Len(log') ELSE InboxMax
      BY <2>1, <2>2, <2>4 DEF IInv, DisplayIsRecentLog
    <3>2. ASSUME NEW i \in 1..Len(inbox'.alerts)
          PROVE  Uid(inbox'.alerts[i]) = log'[Len(log') + 1 - i]
      <4>1. CASE i = 1
        BY <4>1, <2>2, <2>4
      <4>2. CASE i # 1
        <5>1. i - 1 \in DOMAIN inbox.alerts /\ inbox'.alerts[i] = inbox.alerts[i-1]
          BY <4>2, <2>1, <2>4
        <5>2. Uid(inbox.alerts[i-1]) = log[Len(log) + 1 - (i - 1)]
          BY <5>1 DEF IInv, DisplayIsRecentLog
        <5>3. Len(log) + 1 - (i - 1) \in 1..Len(log)
          BY <4>2, <2>1, <2>2, <3>1
        <5> QED BY <5>1, <5>2, <5>3, <2>1, <2>2
      <4> QED BY <4>1, <4>2
    <3>3. DOMAIN inbox'.alerts = 1..Len(inbox'.alerts)
      BY <2>4
    <3> QED BY <3>1, <3>2, <3>3 DEF DisplayIsRecentLog
  <2>9. ReadmissionGap'
    <3> SUFFICES ASSUME NEW i \in 1..Len(log'), NEW j \in 1..Len(log'),
                        i < j, log'[i] = log'[j]
                 PROVE  j - i > DedupSize
      BY <2>2 DEF ReadmissionGap
    <3>1. CASE j <= Len(log)
      <4>1. i \in 1..Len(log) /\ j \in 1..Len(log) /\ log[i] = log[j]
        BY <3>1, <2>1, <2>2
      <4> QED BY <4>1, <2>1 DEF IInv, ReadmissionGap
    <3>2. CASE j = Len(log) + 1
      <4>1. i \in 1..Len(log) /\ log[i] = Uid(p)
        BY <3>2, <2>1, <2>2
      <4> QED BY <4>1, <3>2, <1>2, AcceptedIsNotRecent
    <3> QED BY <3>1, <3>2, <2>1, <2>2
  <2> QED BY <2>6, <2>7, <2>8, <2>9 DEF IInv
<1> QED BY <1>1, <1>2 DEF Admit

(* Every step keeps the invariant.                                         *)
LEMMA NextIInv == IInv /\ [Next]_vars => IInv'
<1> SUFFICES ASSUME IInv, [Next]_vars PROVE IInv'
  OBVIOUS
<1>1. ASSUME NEW p \in Packet, Admit(p) PROVE IInv'
  BY <1>1, AdmitIInv
<1>2. ASSUME NEW t \in Time, SetClock(t) PROVE IInv'
  BY <1>2 DEF SetClock, IInv, TypeOK, SeenIsRecentLog, DisplayIsRecentLog, ReadmissionGap
<1>3. CASE Restart
  <2>1. inbox'.alerts = <<>> /\ inbox'.seen = <<>> /\ log' = <<>>
    BY <1>3 DEF Restart, EmptyInbox
  <2>2. TypeOK'
    BY <1>3, InboxAssumption DEF Restart, EmptyInbox, IInv, TypeOK
  <2> QED BY <2>1, <2>2, InboxAssumption
          DEF IInv, SeenIsRecentLog, DisplayIsRecentLog, ReadmissionGap
<1>4. CASE UNCHANGED vars
  BY <1>4 DEF IInv, TypeOK, SeenIsRecentLog, DisplayIsRecentLog, ReadmissionGap, vars
<1> QED BY <1>1, <1>2, <1>3, <1>4 DEF Next

(* Two places of the display hold the identifiers of two places of the     *)
(* history at most INBOX_MAX_ITEMS apart, hence never the same one.        *)
LEMMA IInvNoDuplicate == IInv => NoDuplicateDisplay
<1> SUFFICES ASSUME IInv,
                    NEW i \in DOMAIN inbox.alerts, NEW j \in DOMAIN inbox.alerts,
                    Uid(inbox.alerts[i]) = Uid(inbox.alerts[j]), i < j
             PROVE  FALSE
  <2>1. DOMAIN inbox.alerts \subseteq Nat
    BY DEF IInv, TypeOK
  <2> QED BY <2>1 DEF NoDuplicateDisplay
<1>1. /\ inbox.alerts \in Seq(Packet) /\ log \in Seq(Identifier)
      /\ InboxMax \in Nat /\ DedupSize \in Nat /\ InboxMax <= DedupSize
  BY InboxAssumption DEF IInv, TypeOK
<1> DEFINE a == Len(log) + 1 - j
           b == Len(log) + 1 - i
<1>2. a \in DOMAIN log /\ b \in DOMAIN log /\ a < b /\ b - a < InboxMax
  BY <1>1 DEF IInv, DisplayIsRecentLog
<1>3. log[a] = log[b]
  BY DEF IInv, DisplayIsRecentLog
<1>4. b - a > DedupSize
  BY <1>2, <1>3 DEF IInv, ReadmissionGap
<1> QED BY <1>1, <1>2, <1>4

-------------------------------------------------------------------------------
(* The invariant holds in every reachable state.                           *)
THEOREM InductiveInvariant == Spec => []IInv
  BY InitIInv, NextIInv, PTL DEF Spec

(* Type correctness, with the bounds on both collections.                  *)
THEOREM TypeCorrect == Spec => []TypeOK
<1>1. IInv => TypeOK
  BY DEF IInv
<1> QED BY <1>1, InductiveInvariant, PTL

(* No alert is ever displayed twice (AlertInbox::admit).                   *)
THEOREM NeverDisplayedTwice == Spec => []NoDuplicateDisplay
  BY IInvNoDuplicate, InductiveInvariant, PTL

(* A replay succeeds only after DEDUP_CACHE_SIZE other admissions.         *)
THEOREM ReplayNeedsFlood == Spec => []ReadmissionGap
<1>1. IInv => ReadmissionGap
  BY DEF IInv
<1> QED BY <1>1, InductiveInvariant, PTL

(* The display is the recent history, the newest admission first.          *)
THEOREM DisplayIsHistory == Spec => []DisplayIsRecentLog
<1>1. IInv => DisplayIsRecentLog
  BY DEF IInv
<1> QED BY <1>1, InductiveInvariant, PTL

-------------------------------------------------------------------------------
(* The groups, with requests that overlap (Pings): what is stored, and     *)
(* every copy on its way to the store, is within the limit.                *)
FewEnough(S) == IsFiniteSet(S) /\ Cardinality(S) <= FewGroups

GroupsInv ==
  /\ FewEnough(groups)
  /\ call = [r \in Requests |-> call[r]]
  /\ \A r \in Requests : /\ "at" \in DOMAIN call[r]
                         /\ call[r].at \in {"create", "delete"} => FewEnough(call[r].groups)

(* A handler that moves on with few enough groups, saved or in its copy, preserves the
   bound. *)
LEMMA GroupsMove ==
  ASSUME GroupsInv, NEW r \in Requests, NEW c, call' = [call EXCEPT ![r] = c],
         "at" \in DOMAIN c, c.at \in {"create", "delete"} => FewEnough(c.groups),
         FewEnough(groups')
  PROVE  GroupsInv'
<1>1. \A q \in Requests : call'[q] = IF q = r THEN c ELSE call[q] BY DEF GroupsInv
<1>2. QED BY <1>1 DEF GroupsInv, FewEnough

(* The instance counts with the same Cardinality. *)
LEMMA SameCardinality == \A S : Pings!Cardinality(S) = Cardinality(S)
BY DEF Pings!Cardinality, Cardinality

(* There are no groups at the start. *)
LEMMA GroupsInit == Pings!Init => GroupsInv
<1> SUFFICES ASSUME Pings!Init PROVE GroupsInv
  OBVIOUS
<1>1. FewEnough({}) BY FS_EmptySet, BoardsAssumption DEF FewEnough
<1>2. QED BY <1>1 DEF Pings!Init, Pings!Idle, GroupsInv

(* Every step of any number of requests preserves the bound on the groups. *)
LEMMA GroupsNext ==
  ASSUME GroupsInv, [Pings!Next]_pingVars
  PROVE  GroupsInv'
<1>1. ASSUME NEW r \in Requests, NEW g \in Group, Pings!CreateLoad(r, g)
      PROVE  GroupsInv'
  <2> DEFINE c(known) == [at |-> "create", groups |-> known \cup {g}]
  <2>1. PICK known \in {groups, {}} :
          Pings!Cardinality(known) < FewGroups /\ call' = [call EXCEPT ![r] = c(known)]
    BY <1>1 DEF Pings!CreateLoad, Pings!Loaded, Pings!Goto
  <2>2. IsFiniteSet(known) /\ Cardinality(known) \in Nat /\ Cardinality(known) < FewGroups
    BY <2>1, FS_EmptySet, FS_CardinalityType, SameCardinality DEF GroupsInv, FewEnough
  <2>3. FewEnough(known \cup {g})
    <3>1. /\ IsFiniteSet(known \cup {g})
          /\ \/ Cardinality(known \cup {g}) = Cardinality(known)
             \/ Cardinality(known \cup {g}) = Cardinality(known) + 1
      BY <2>2, FS_AddElement
    <3>2. QED BY <2>2, <3>1, BoardsAssumption DEF FewEnough
  <2>4. "at" \in DOMAIN c(known) /\ FewEnough(c(known).groups)
    BY <2>3
  <2>5. FewEnough(groups')
    BY <1>1 DEF Pings!CreateLoad, GroupsInv
  <2> HIDE DEF c
  <2>6. QED BY <2>1, <2>4, <2>5, GroupsMove
<1>2. ASSUME NEW r \in Requests, NEW g \in Group, Pings!DeleteLoad(r, g)
      PROVE  GroupsInv'
  <2> DEFINE c(known) == [at |-> "delete", groups |-> known \ {g}]
  <2>1. PICK known \in {groups, {}} : call' = [call EXCEPT ![r] = c(known)]
    BY <1>2 DEF Pings!DeleteLoad, Pings!Loaded, Pings!Goto
  <2>2. FewEnough(known)
    <3>1. FewEnough({}) BY FS_EmptySet, BoardsAssumption DEF FewEnough
    <3>2. QED BY <2>1, <3>1 DEF GroupsInv
  <2>3. FewEnough(known \ {g})
    BY <2>2, FS_Subset, FS_CardinalityType, BoardsAssumption DEF FewEnough
  <2>4. "at" \in DOMAIN c(known) /\ FewEnough(c(known).groups)
    BY <2>3
  <2>5. FewEnough(groups')
    BY <1>2 DEF Pings!DeleteLoad, GroupsInv
  <2> HIDE DEF c
  <2>6. QED BY <2>1, <2>4, <2>5, GroupsMove
<1>3. ASSUME NEW r \in Requests, Pings!SaveGroups(r) \/ Pings!SaveFails(r)
      PROVE  GroupsInv'
  <2>1. FewEnough(groups') BY <1>3 DEF Pings!SaveGroups, Pings!SaveFails, Pings!At, GroupsInv
  <2>2. call' = [call EXCEPT ![r] = Pings!Idle]
    BY <1>3 DEF Pings!SaveGroups, Pings!SaveFails, Pings!Return, Pings!Goto
  <2>3. Pings!Idle.at = "idle" /\ "at" \in DOMAIN Pings!Idle BY DEF Pings!Idle
  <2>4. QED BY <2>1, <2>2, <2>3, GroupsMove
<1>4. ASSUME NEW r \in Requests, NEW c \in Client, NEW g \in Group, Pings!SubmitPing(r, c, g)
      PROVE  GroupsInv'
  BY <1>4, GroupsMove DEF Pings!SubmitPing, Pings!Goto, GroupsInv
<1>5. ASSUME NEW r \in Requests,
             Pings!MatchGroup(r) \/ Pings!LoadPings(r) \/ Pings!SavePings(r)
      PROVE  GroupsInv'
  <2>1. groups' = groups
    BY <1>5 DEF Pings!MatchGroup, Pings!LoadPings, Pings!SavePings
  <2>2. Pings!Idle.at = "idle" /\ "at" \in DOMAIN Pings!Idle BY DEF Pings!Idle
  <2>3. \E c : /\ call' = [call EXCEPT ![r] = c]
               /\ "at" \in DOMAIN c /\ c.at \in {"idle", "ping", "save"}
    <3>1. CASE Pings!MatchGroup(r)
      <4> DEFINE c == [call[r] EXCEPT !.at = "ping"]
      <4>1. "at" \in DOMAIN c /\ c.at = "ping" BY DEF GroupsInv
      <4>2. call' = [call EXCEPT ![r] = c] \/ call' = [call EXCEPT ![r] = Pings!Idle]
        BY <3>1 DEF Pings!MatchGroup, Pings!Loaded, Pings!Goto, Pings!Return
      <4> HIDE DEF c
      <4>3. QED BY <2>2, <4>1, <4>2
    <3>2. CASE Pings!LoadPings(r)
      <4> DEFINE c(b) == [at |-> "save", ping |-> call[r].ping, blind |-> b,
                          pings |-> Pings!Newest(Append(IF b THEN <<>> ELSE pings, call[r].ping))]
      <4>1. \A b : "at" \in DOMAIN c(b) /\ c(b).at = "save" OBVIOUS
      <4>2. PICK b \in BOOLEAN : call' = [call EXCEPT ![r] = c(b)]
        BY <3>2 DEF Pings!LoadPings, Pings!Goto
      <4> HIDE DEF c
      <4>3. QED BY <4>1, <4>2
    <3>3. CASE Pings!SavePings(r)
      BY <2>2, <3>3 DEF Pings!SavePings, Pings!Goto, Pings!Return
    <3>4. QED BY <1>5, <3>1, <3>2, <3>3
  <2>4. QED BY <2>1, <2>3, GroupsMove DEF GroupsInv
<1>6. ASSUME NEW r \in Requests, Pings!ClearPings(r) \/ Pings!Reset(r)
      PROVE  GroupsInv'
  <2>1. FewEnough({}) BY FS_EmptySet, BoardsAssumption DEF FewEnough
  <2>2. QED BY <1>6, <2>1 DEF Pings!ClearPings, Pings!Reset, GroupsInv
<1>7. CASE Pings!Tick \/ UNCHANGED pingVars
  BY <1>7 DEF Pings!Tick, pingVars, GroupsInv
<1>8. CASE Pings!Restart
  BY <1>8 DEF Pings!Restart, Pings!Idle, GroupsInv
<1>9. QED BY <1>1, <1>2, <1>3, <1>4, <1>5, <1>6, <1>7, <1>8 DEF Pings!Next

-------------------------------------------------------------------------------
(* The pings, when requests come one by one (CalmPings).                   *)
Ping == [id : Nat, by : Client, at : Nat, life : Nat]

(* A list of pings as it is stored: bounded, the oldest first.             *)
PingList(s) ==
  /\ s \in Seq(Ping) /\ Len(s) <= PingMax
  /\ \A i, j \in DOMAIN s : i < j => s[i].id < s[j].id

(* What was promised of a ping p that was answered 201.                    *)
Kept(p, s) ==
  \/ \E i \in DOMAIN s : s[i] = p
  \/ Len(s) = PingMax /\ \A i \in DOMAIN s : s[i].id > p.id

(* Every ping so far has one of the first n identifiers.                   *)
Numbered(n) ==
  /\ \A i \in DOMAIN pings : pings[i].id <= n
  /\ \A p \in acked : p.id <= n

(* What the copy c of a request was made from: the stored list, or nothing *)
(* when the list could not be read.                                        *)
Base(c) == IF c.blind THEN <<>> ELSE pings

(* The request in progress carries the ping submitted last, and a list     *)
(* that is still its base with that ping at its end.                       *)
InProgress ==
  call[lone].at \in {"match", "ping", "save"} =>
    /\ call[lone].ping \in Ping /\ call[lone].ping.id = submitted
    /\ submitted > 0 /\ Numbered(submitted - 1)
    /\ call[lone].at = "save" =>
         call[lone].pings = CalmPings!Newest(Append(Base(call[lone]), call[lone].ping))

PingsInv ==
  /\ seconds \in Nat /\ life \in Nat /\ submitted \in Nat
  /\ call = [r \in {lone} |-> call[lone]] /\ "at" \in DOMAIN call[lone]
  /\ PingList(pings)
  /\ acked \subseteq Ping
  /\ Numbered(submitted)
  /\ InProgress
  /\ \A p \in acked : Kept(p, pings)

(* What a list of pings satisfies. *)
LEMMA ListBasics ==
  ASSUME NEW s, PingList(s)
  PROVE  /\ s \in Seq(Ping) /\ Len(s) \in Nat /\ Len(s) <= PingMax /\ PingMax \in Nat \ {0}
         /\ \A i \in 1..Len(s) : s[i] \in Ping /\ s[i].id \in Nat
         /\ \A i, j \in 1..Len(s) : i < j => s[i].id < s[j].id
<1>1. \A i \in 1..Len(s) : s[i] \in Ping BY DEF PingList
<1>2. \A i \in 1..Len(s) : s[i].id \in Nat BY <1>1 DEF Ping
<1>3. QED BY <1>1, <1>2, BoardsAssumption DEF PingList

(* A list without pings.                                                   *)
LEMMA EmptyList == PingList(<<>>) /\ DOMAIN <<>> = {}
<1>1. <<>> \in Seq(Ping) /\ Len(<<>>) = 0 /\ DOMAIN <<>> = {} OBVIOUS
<1>2. 0 <= PingMax BY BoardsAssumption
<1>3. QED BY <1>1, <1>2 DEF PingList

(* drain: the newest of a list with one ping more.                         *)
Dropped(s) == IF Len(s) = PingMax THEN 1 ELSE 0

(* A ping that arrives pushes out one ping, exactly when the list is full. *)
LEMMA DroppedIs ==
  ASSUME NEW s, PingList(s)
  PROVE  /\ Dropped(s) \in {0, 1}
         /\ Dropped(s) = 1 => Len(s) = PingMax
         /\ Dropped(s) = 0 => Len(s) < PingMax
<1>1. Len(s) \in Nat /\ Len(s) <= PingMax /\ PingMax \in Nat BY ListBasics
<1>2. QED BY <1>1 DEF Dropped

(* The list after a new ping, index by index. *)
LEMMA NewestIs ==
  ASSUME NEW s, PingList(s), NEW p \in Ping, NEW t,
         t = CalmPings!Newest(Append(s, p))
  PROVE  /\ t \in Seq(Ping) /\ Len(t) = Len(s) + 1 - Dropped(s)
         /\ \A i \in 1..Len(t) :
              t[i] = IF i + Dropped(s) = Len(s) + 1 THEN p ELSE s[i + Dropped(s)]
<1> DEFINE a == Append(s, p)
           d == Dropped(s)
<1>0. Len(s) \in Nat /\ Len(s) <= PingMax /\ PingMax \in Nat \ {0} BY ListBasics
<1>1. /\ a \in Seq(Ping) /\ Len(a) = Len(s) + 1
      /\ \A i \in 1..Len(a) : a[i] = IF i = Len(s) + 1 THEN p ELSE s[i]
  BY DEF PingList
<1>2. d \in {0, 1} BY DroppedIs
<1>3. t = SubSeq(a, d + 1, Len(a))
  <2>1. t = SubSeq(a, IF Len(a) > PingMax THEN Len(a) - PingMax + 1 ELSE 1, Len(a))
    BY DEF CalmPings!Newest
  <2>2. Len(a) \in Nat /\ Len(a) = Len(s) + 1 BY <1>0, <1>1
  <2>3. (IF Len(a) > PingMax THEN Len(a) - PingMax + 1 ELSE 1) = Dropped(s) + 1
    <3> HIDE DEF a
    <3>1. QED BY <1>0, <2>2 DEF Dropped
  <2>4. QED BY <2>1, <2>3
<1> HIDE DEF a, d
<1>4. /\ t \in Seq(Ping) /\ Len(t) = Len(a) - d
      /\ \A i \in 1..Len(t) : t[i] = a[i + d]
  BY <1>0, <1>1, <1>2, <1>3
<1>5. ASSUME NEW i \in 1..Len(t)
      PROVE  t[i] = IF i + d = Len(s) + 1 THEN p ELSE s[i + d]
  <2>1. i + d \in 1..Len(a) BY <1>0, <1>1, <1>2, <1>4
  <2>2. QED BY <1>1, <1>4, <2>1
<1>6. Len(t) = Len(s) + 1 - d BY <1>0, <1>1, <1>2, <1>4
<1>7. QED BY <1>4, <1>5, <1>6 DEF d

(* It is a list again, and keeps what was promised and the new ping.       *)
LEMMA NewestKeeps ==
  ASSUME NEW s, PingList(s), NEW p \in Ping, \A i \in DOMAIN s : s[i].id < p.id,
         NEW t, t = CalmPings!Newest(Append(s, p))
  PROVE  /\ PingList(t)
         /\ Kept(p, t)
         /\ \A i \in DOMAIN t : t[i].id <= p.id
         /\ \A q \in Ping : Kept(q, s) /\ q.id < p.id => Kept(q, t)
<1> DEFINE d == Dropped(s)
           n == Len(s)
           m == Len(t)
<1>1. /\ n \in Nat /\ n <= PingMax /\ PingMax \in Nat \ {0}
      /\ d \in {0, 1} /\ (d = 1 => n = PingMax) /\ (d = 0 => n < PingMax)
      /\ m = n + 1 - d
  BY ListBasics, DroppedIs, NewestIs
<1>2. \A i \in 1..n : s[i] \in Ping /\ s[i].id \in Nat BY ListBasics
<1>3. \A i, j \in 1..n : i < j => s[i].id < s[j].id BY ListBasics
<1>4. t \in Seq(Ping) /\ DOMAIN t = 1..m /\ DOMAIN s = 1..n
  BY NewestIs DEF PingList
<1>5. \A i \in 1..m : t[i] = IF i + d = n + 1 THEN p ELSE s[i + d] BY NewestIs
<1>6. p.id \in Nat /\ \A i \in 1..n : s[i].id < p.id BY <1>4 DEF Ping
<1> HIDE DEF d, n, m
(* Where the elements of t come from. *)
<1>7. ASSUME NEW i \in 1..m
      PROVE  \/ i + d = n + 1 /\ t[i] = p
             \/ i + d \in 1..n /\ t[i] = s[i + d]
  <2>1. i + d = n + 1 \/ i + d \in 1..n BY <1>1
  <2>2. i + d \in 1..n => i + d # n + 1 BY <1>1
  <2>3. QED BY <1>5, <2>1, <2>2
<1>8. ASSUME NEW i \in 1..m, NEW j \in 1..m, i < j PROVE t[i].id < t[j].id
  <2>1. i + d \in 1..n /\ t[i] = s[i + d]
    <3>1. i + d # n + 1 BY <1>1, <1>8
    <3>2. QED BY <1>7, <3>1
  <2>2. CASE j + d = n + 1 /\ t[j] = p BY <1>6, <2>1, <2>2
  <2>3. CASE j + d \in 1..n /\ t[j] = s[j + d]
    <3>1. i + d < j + d BY <1>1, <1>8
    <3>2. QED BY <1>3, <2>1, <2>3, <3>1
  <2>4. QED BY <1>7, <2>2, <2>3
<1>9. PingList(t)
  <2>1. m <= PingMax BY <1>1
  <2>2. QED BY <1>4, <1>8, <2>1 DEF PingList, m
<1>10. ASSUME NEW i \in 1..m PROVE t[i].id <= p.id
  BY <1>2, <1>6, <1>7
<1>11. Kept(p, t)
  <2>1. m \in 1..m /\ m + d = n + 1 BY <1>1
  <2>2. QED BY <1>4, <1>5, <2>1 DEF Kept
(* The oldest goes when the list is full: whatever is older is let go. *)
<1>12. ASSUME NEW q \in Ping, q.id < p.id, d = 1, n > 0 => s[1].id >= q.id
       PROVE  Kept(q, t)
  <2>1. q.id \in Nat BY DEF Ping
  <2>2. m = PingMax BY <1>1, <1>12
  <2>3. ASSUME NEW i \in 1..m PROVE t[i].id > q.id
    <3>1. CASE t[i] = p BY <1>6, <1>12, <2>1, <3>1
    <3>2. CASE i + d \in 1..n /\ t[i] = s[i + d]
      <4>1. 1 \in 1..n /\ 1 < i + d BY <1>1, <1>12, <3>2
      <4>2. s[1].id < s[i + d].id /\ s[1].id \in Nat /\ s[i + d].id \in Nat
        BY <1>2, <1>3, <3>2, <4>1
      <4>3. s[1].id >= q.id BY <1>1, <1>12, <4>1
      <4>4. QED BY <2>1, <3>2, <4>2, <4>3
    <3>3. QED BY <1>7, <3>1, <3>2
  <2>4. QED BY <1>4, <2>2, <2>3 DEF Kept, m
<1>13. ASSUME NEW q \in Ping, Kept(q, s), q.id < p.id PROVE Kept(q, t)
  <2>0. q.id \in Nat BY DEF Ping
  <2>1. CASE \E i \in 1..n : s[i] = q
    <3>1. PICK i \in 1..n : s[i] = q BY <2>1
    <3>2. CASE i > d
      <4>1. i - d \in 1..m /\ (i - d) + d = i /\ i # n + 1 BY <1>1, <3>2
      <4>2. t[i - d] = q BY <1>5, <3>1, <4>1
      <4>3. QED BY <1>4, <4>1, <4>2 DEF Kept
    <3>3. CASE ~(i > d)
      <4>1. d = 1 /\ i = 1 BY <1>1, <3>3
      <4>2. QED BY <1>12, <1>13, <2>0, <3>1, <4>1
    <3>4. QED BY <3>2, <3>3
  <2>2. CASE n = PingMax /\ \A i \in 1..n : s[i].id > q.id
    <3>1. d = 1 /\ 1 \in 1..n BY <1>1, <2>2
    <3>2. s[1].id >= q.id BY <1>2, <2>0, <2>2, <3>1
    <3>3. QED BY <1>12, <1>13, <3>1, <3>2
  <2>3. QED BY <1>4, <1>13, <2>1, <2>2 DEF Kept, n
<1>14. QED BY <1>4, <1>9, <1>10, <1>11, <1>13

-------------------------------------------------------------------------------
(* There are no pings at the start. *)
LEMMA PingsInit == CalmPings!Init => PingsInv
<1> SUFFICES ASSUME CalmPings!Init PROVE PingsInv
  OBVIOUS
<1>1. call = [r \in {lone} |-> call[lone]] /\ call[lone] = CalmPings!Idle
  BY DEF CalmPings!Init
<1>2. "at" \in DOMAIN call[lone] /\ call[lone].at = "idle"
  BY <1>1 DEF CalmPings!Idle
<1>3. PingList(<<>>) BY EmptyList
<1>4. InProgress BY <1>2 DEF InProgress
<1>5. Numbered(submitted) BY DEF CalmPings!Init, Numbered
<1>6. QED BY <1>1, <1>2, <1>3, <1>4, <1>5 DEF CalmPings!Init, PingsInv

(* A handler that returns leaves nothing in progress.                      *)
LEMMA PingsRest ==
  ASSUME PingsInv, call' = [call EXCEPT ![lone] = CalmPings!Idle],
         seconds' = seconds, life' = life, submitted' = submitted,
         PingList(pings'), acked' \subseteq Ping, Numbered(submitted)',
         \A p \in acked' : Kept(p, pings')
  PROVE  PingsInv'
<1>1. call' = [r \in {lone} |-> call'[lone]] /\ call'[lone] = CalmPings!Idle
  BY DEF PingsInv
<1>2. "at" \in DOMAIN call'[lone] /\ call'[lone].at = "idle"
  BY <1>1 DEF CalmPings!Idle
<1>3. InProgress' BY <1>2 DEF InProgress
<1>4. QED BY <1>1, <1>2, <1>3 DEF PingsInv

(* A handler that goes on with c leaves what is kept as it is.             *)
LEMMA PingsGo ==
  ASSUME PingsInv, NEW c, call' = [call EXCEPT ![lone] = c], "at" \in DOMAIN c,
         seconds' = seconds, life' = life, submitted' = submitted,
         pings' = pings, acked' = acked,
         c.at \in {"match", "ping", "save"} =>
           /\ call[lone].at \in {"match", "ping", "save"}
           /\ c.ping = call[lone].ping
           /\ c.at = "save" => c.pings = CalmPings!Newest(Append(Base(c), call[lone].ping))
  PROVE  PingsInv'
<1>1. call' = [r \in {lone} |-> call'[lone]] /\ call'[lone] = c
  BY DEF PingsInv
<1>2. InProgress' BY <1>1 DEF InProgress, Numbered, PingsInv, Base
<1>3. QED BY <1>1, <1>2 DEF PingsInv, Numbered

(* Every step of the one request preserves the invariant of the pings. *)
LEMMA PingsNext ==
  ASSUME PingsInv, [CalmPings!Next]_pingVars
  PROVE  PingsInv'
<1>0. /\ "at" \in DOMAIN CalmPings!Idle
      /\ CalmPings!Idle.at = "idle"
  BY DEF CalmPings!Idle
<1>1. ASSUME NEW g \in Group, CalmPings!CreateLoad(lone, g) \/ CalmPings!DeleteLoad(lone, g)
      PROVE  PingsInv'
  <2>1. PICK c : call' = [call EXCEPT ![lone] = c] /\ "at" \in DOMAIN c /\ c.at \in {"create", "delete"}
    <3>1. CASE CalmPings!CreateLoad(lone, g)
      <4> DEFINE c(known) == [at |-> "create", groups |-> known \cup {g}]
      <4>1. \A known : "at" \in DOMAIN c(known) /\ c(known).at = "create" OBVIOUS
      <4>2. \E known : call' = [call EXCEPT ![lone] = c(known)]
        BY <3>1 DEF CalmPings!CreateLoad, CalmPings!Loaded, CalmPings!Goto
      <4> HIDE DEF c
      <4>3. QED BY <4>1, <4>2
    <3>2. CASE CalmPings!DeleteLoad(lone, g)
      <4> DEFINE c(known) == [at |-> "delete", groups |-> known \ {g}]
      <4>1. \A known : "at" \in DOMAIN c(known) /\ c(known).at = "delete" OBVIOUS
      <4>2. \E known : call' = [call EXCEPT ![lone] = c(known)]
        BY <3>2 DEF CalmPings!DeleteLoad, CalmPings!Loaded, CalmPings!Goto
      <4> HIDE DEF c
      <4>3. QED BY <4>1, <4>2
    <3>3. QED BY <1>1, <3>1, <3>2
  <2>2. UNCHANGED <<pings, seconds, life, submitted, acked>>
    BY <1>1 DEF CalmPings!CreateLoad, CalmPings!DeleteLoad
  <2>3. QED BY <2>1, <2>2, PingsGo
<1>2. CASE CalmPings!SaveGroups(lone)
  <2>1. call' = [call EXCEPT ![lone] = CalmPings!Idle]
    BY <1>2 DEF CalmPings!SaveGroups, CalmPings!Return, CalmPings!Goto
  <2>2. UNCHANGED <<pings, seconds, life, submitted, acked>>
    BY <1>2 DEF CalmPings!SaveGroups
  <2>3. QED BY <1>0, <2>1, <2>2, PingsGo
<1>3. ASSUME NEW k \in Client, NEW g \in Group, CalmPings!SubmitPing(lone, k, g)
      PROVE  PingsInv'
  <2> DEFINE p == [id |-> submitted + 1, by |-> k, at |-> seconds, life |-> life]
             c == [at |-> "match", group |-> g, ping |-> p]
  <2>1. p \in Ping /\ p.id = submitted + 1 BY DEF PingsInv, Ping
  <2>2. "at" \in DOMAIN c /\ c.at = "match" /\ c.ping = p OBVIOUS
  <2>3. call' = [call EXCEPT ![lone] = c] /\ submitted' = submitted + 1
    BY <1>3 DEF CalmPings!SubmitPing, CalmPings!Goto
  <2> HIDE DEF p, c
  <2>4. UNCHANGED <<pings, seconds, life, acked>> BY <1>3 DEF CalmPings!SubmitPing
  <2>5. call' = [r \in {lone} |-> call'[lone]] /\ call'[lone] = c
    BY <2>3 DEF PingsInv
  <2>6. /\ submitted \in Nat /\ submitted' \in Nat /\ submitted' > 0
        /\ submitted' - 1 = submitted
    BY <2>3 DEF PingsInv
  <2>7. Numbered(submitted)' /\ Numbered(submitted - 1)'
    <3>1. \A i \in DOMAIN pings : pings[i].id \in Nat /\ pings[i].id <= submitted
      BY ListBasics DEF PingsInv, PingList, Numbered
    <3>2. \A q \in acked : q.id \in Nat /\ q.id <= submitted
      BY DEF PingsInv, Ping, Numbered
    <3>3. QED BY <2>3, <2>4, <2>6, <3>1, <3>2 DEF Numbered
  <2>8. InProgress' BY <2>1, <2>2, <2>3, <2>5, <2>6, <2>7 DEF InProgress
  <2>9. QED BY <2>2, <2>4, <2>5, <2>6, <2>7, <2>8 DEF PingsInv
<1>4. CASE CalmPings!MatchGroup(lone)
  <2> DEFINE c == [call[lone] EXCEPT !.at = "ping"]
  <2>1. "at" \in DOMAIN c /\ c.at = "ping" /\ c.ping = call[lone].ping BY DEF PingsInv
  <2>2. \/ call' = [call EXCEPT ![lone] = c]
        \/ call' = [call EXCEPT ![lone] = CalmPings!Idle]
    BY <1>4 DEF CalmPings!MatchGroup, CalmPings!Loaded, CalmPings!Goto, CalmPings!Return
  <2>3. call[lone].at = "match" /\ UNCHANGED <<pings, seconds, life, submitted, acked>>
    BY <1>4 DEF CalmPings!MatchGroup, CalmPings!At
  <2> HIDE DEF c
  <2>4. QED BY <1>0, <2>1, <2>2, <2>3, PingsGo
<1>5. CASE CalmPings!LoadPings(lone)
  <2> DEFINE c(b) == [at |-> "save", ping |-> call[lone].ping, blind |-> b,
                      pings |-> CalmPings!Newest(Append(IF b THEN <<>> ELSE pings,
                                                        call[lone].ping))]
  <2>1. \A b : /\ "at" \in DOMAIN c(b) /\ c(b).at = "save" /\ c(b).ping = call[lone].ping
               /\ c(b).pings = CalmPings!Newest(Append(Base(c(b)), call[lone].ping))
    BY DEF Base
  <2>2. \E b : call' = [call EXCEPT ![lone] = c(b)]
    BY <1>5 DEF CalmPings!LoadPings, CalmPings!Goto
  <2>3. call[lone].at = "ping" /\ UNCHANGED <<pings, seconds, life, submitted, acked>>
    BY <1>5 DEF CalmPings!LoadPings, CalmPings!At
  <2> HIDE DEF c
  <2>4. QED BY <2>1, <2>2, <2>3, PingsGo
<1>6. ASSUME call[lone].at = "save", call' = [call EXCEPT ![lone] = CalmPings!Idle],
             UNCHANGED <<seconds, life, submitted>>,
             pings' = call[lone].pings,
             acked' \in {CalmPings!Owed(lone), CalmPings!Owed(lone) \cup {call[lone].ping}}
      PROVE  PingsInv'
  <2> DEFINE p == call[lone].ping
             t == call[lone].pings
             s == Base(call[lone])
             owed == CalmPings!Owed(lone)
  <2>1. /\ p \in Ping /\ p.id = submitted /\ submitted \in Nat /\ submitted > 0
        /\ t = CalmPings!Newest(Append(s, p))
        /\ Numbered(submitted - 1)
    BY <1>6 DEF PingsInv, InProgress
  <2>2. (s = <<>> /\ owed = {}) \/ (s = pings /\ owed = acked)
    BY DEF Base, CalmPings!Owed
  <2>3. pings' = t /\ acked' \subseteq owed \cup {p}
    BY <1>6
  <2> HIDE DEF p, t, s, owed
  <2>4. PingList(s) /\ \A i \in DOMAIN s : s[i].id < p.id
    <3>1. CASE s = pings
      <4>1. \A i \in DOMAIN pings : pings[i].id \in Nat BY ListBasics DEF PingsInv, PingList
      <4>2. QED BY <2>1, <3>1, <4>1 DEF PingsInv, Numbered
    <3>2. CASE s = <<>>
      BY <3>2, EmptyList
    <3>3. QED BY <2>2, <3>1, <3>2
  <2>5. \A q \in owed : q \in Ping /\ q.id < p.id /\ Kept(q, s)
    BY <2>1, <2>2 DEF Numbered, PingsInv, Ping
  <2>6. /\ PingList(t) /\ Kept(p, t)
        /\ \A i \in DOMAIN t : t[i].id <= p.id
        /\ \A q \in owed : Kept(q, t)
    BY <2>1, <2>4, <2>5, NewestKeeps
  <2>7. PingList(pings') /\ \A q \in acked' : q \in Ping /\ Kept(q, pings')
    BY <2>1, <2>3, <2>5, <2>6
  <2>8. Numbered(submitted)'
    <3>1. \A i \in DOMAIN pings' : pings'[i].id <= submitted
      BY <2>1, <2>3, <2>6
    <3>2. \A q \in acked' : q.id <= submitted
      BY <2>1, <2>2, <2>3 DEF PingsInv, Numbered
    <3>3. QED BY <1>6, <3>1, <3>2 DEF Numbered
  <2>9. QED BY <1>6, <2>7, <2>8, PingsRest
<1>7. CASE CalmPings!SavePings(lone)
  BY <1>6, <1>7
  DEF CalmPings!SavePings, CalmPings!At, CalmPings!Return, CalmPings!Goto
<1>8. CASE CalmPings!SaveFails(lone)
  <2>1. call' = [call EXCEPT ![lone] = CalmPings!Idle] /\ UNCHANGED <<seconds, life, submitted>>
    BY <1>8 DEF CalmPings!SaveFails, CalmPings!Return, CalmPings!Goto
  <2>2. \/ pings' = pings /\ acked' = acked
        \/ call[lone].at = "save" /\ pings' = call[lone].pings /\ acked' = CalmPings!Owed(lone)
    BY <1>8 DEF CalmPings!SaveFails, CalmPings!At
  <2>3. CASE pings' = pings /\ acked' = acked BY <1>0, <2>1, <2>3, PingsGo
  <2>4. CASE /\ call[lone].at = "save" /\ pings' = call[lone].pings
             /\ acked' = CalmPings!Owed(lone)
    BY <1>6, <2>1, <2>4
  <2>5. QED BY <2>2, <2>3, <2>4
<1>9. CASE CalmPings!ClearPings(lone) \/ CalmPings!Reset(lone)
  <2>1. /\ call[lone].at = "idle" /\ call' = call /\ pings' = <<>> /\ acked' = {}
        /\ UNCHANGED <<seconds, life, submitted>>
    BY <1>9 DEF CalmPings!ClearPings, CalmPings!Reset, CalmPings!At
  <2>2. PingList(<<>>) BY EmptyList
  <2>3. Numbered(submitted)' BY <2>1 DEF Numbered
  <2>4. InProgress' BY <2>1 DEF InProgress
  <2>5. QED BY <2>1, <2>2, <2>3, <2>4 DEF PingsInv
<1>10. CASE CalmPings!Tick
  BY <1>10 DEF CalmPings!Tick, PingsInv, InProgress, Numbered, Base
<1>11. CASE CalmPings!Restart
  <2>1. call' = [r \in {lone} |-> CalmPings!Idle] /\ UNCHANGED <<pings, seconds, submitted, acked>>
    BY <1>11 DEF CalmPings!Restart
  <2>2. life' \in Nat BY <1>11 DEF CalmPings!Restart, PingsInv
  <2>3. call'[lone] = CalmPings!Idle /\ call' = [r \in {lone} |-> call'[lone]] BY <2>1
  <2>4. InProgress' BY <1>0, <2>3 DEF InProgress
  <2>5. QED BY <1>0, <2>1, <2>2, <2>3, <2>4 DEF PingsInv, Numbered
<1>12. CASE UNCHANGED pingVars
  BY <1>12 DEF pingVars, PingsInv, InProgress, Numbered, Base
<1>13. QED
  BY <1>1, <1>2, <1>3, <1>4, <1>5, <1>7, <1>8, <1>9, <1>10, <1>11, <1>12 DEF CalmPings!Next

-------------------------------------------------------------------------------
BoardInv ==
  /\ explored = "pings" => GroupsInv
  /\ explored = "calm pings" => PingsInv

(* PingBoardKeepsWord: however the requests overlap, the groups in the     *)
(* store never exceed MAX_GROUPS, for any number of requests (each saves a *)
(* list that it found within the limit); and when requests come one by     *)
(* one, a ping answered 201 (submit_ping) is in the list until it is       *)
(* emptied, full of later pings or saved over by a request that could not  *)
(* read it, whatever saves fail and whenever the process restarts.         *)
THEOREM PingBoardPromise == MCSpec => []PingBoardKeepsWord
<1>1. MCInit => BoardInv
  <2>1. ASSUME MCInit, explored = "pings" PROVE GroupsInv
    BY <2>1, GroupsInit DEF MCInit
  <2>2. ASSUME MCInit, explored = "calm pings" PROVE PingsInv
    BY <2>2, PingsInit DEF MCInit
  <2>3. QED BY <2>1, <2>2 DEF BoardInv
<1>2. BoardInv /\ [MCNext]_mcVars => BoardInv'
  <2> SUFFICES ASSUME BoardInv, [MCNext]_mcVars PROVE BoardInv'
    OBVIOUS
  <2>1. explored' = explored BY DEF MCNext, mcVars
  <2>2. ASSUME explored = "pings" PROVE [Pings!Next]_pingVars
    BY <2>2 DEF MCNext, mcVars
  <2>3. ASSUME explored = "calm pings" PROVE [CalmPings!Next]_pingVars
    BY <2>3 DEF MCNext, mcVars
  <2>4. QED BY <2>1, <2>2, <2>3, GroupsNext, PingsNext DEF BoardInv
<1>3. BoardInv => PingBoardKeepsWord
  <2>1. ASSUME GroupsInv PROVE Pings!GroupsBounded
    BY <2>1, SameCardinality DEF GroupsInv, FewEnough, Pings!GroupsBounded
  <2>2. ASSUME PingsInv PROVE CalmPings!PingsKept
    <3>1. SUFFICES ASSUME NEW p \in acked
                   PROVE  \/ p \in CalmPings!ToSet(pings)
                          \/ /\ Len(pings) = PingMax
                             /\ \A i \in DOMAIN pings : pings[i].id > p.id
      BY DEF CalmPings!PingsKept
    <3>2. Kept(p, pings) BY <2>2 DEF PingsInv
    <3>3. QED BY <3>2 DEF Kept, CalmPings!ToSet
  <2>3. QED BY <2>1, <2>2 DEF BoardInv, PingBoardKeepsWord
<1>4. QED BY <1>1, <1>2, <1>3, PTL DEF MCSpec

-------------------------------------------------------------------------------
(* Official bulletins. What the cache lists, and which of two positions of *)
(* a list a stable sort puts first.                                        *)
Bulletin == [name : Name, published : Int, fetched : Int]
Lists == Seq(Bulletin)
Goes(s, i, j) ==
  Official!Before(s[i], s[j]) \/ (~Official!Before(s[j], s[i]) /\ i < j)
Ahead(s, i) == {j \in DOMAIN s : Goes(s, j, i)}
Place(s, i) == Cardinality(Ahead(s, i)) + 1

(* The instances count with the same Cardinality. *)
LEMMA BulletinCardinality ==
  \A S : Official!Cardinality(S) = Cardinality(S) /\ CalmOfficial!Cardinality(S) = Cardinality(S)
BY DEF Official!Cardinality, CalmOfficial!Cardinality, Cardinality

(* Dates order bulletins, up to those of one date. *)
LEMMA BeforeOrders ==
  ASSUME NEW a \in Bulletin, NEW b \in Bulletin, NEW c \in Bulletin
  PROVE  /\ ~(Official!Before(a, b) /\ Official!Before(b, a))
         /\ Official!Before(a, b) /\ Official!Before(b, c) => Official!Before(a, c)
         /\ ~Official!Before(a, b) /\ ~Official!Before(b, c) => ~Official!Before(a, c)
<1>1. /\ a.published \in Int /\ b.published \in Int /\ c.published \in Int
      /\ a.fetched \in Int /\ b.fetched \in Int /\ c.fetched \in Int
  BY DEF Bulletin
<1> QED BY <1>1 DEF Official!Before

(* With the positions, the order is strict and total. *)
LEMMA GoesOrders ==
  ASSUME NEW s \in Lists, NEW i \in DOMAIN s, NEW j \in DOMAIN s, NEW k \in DOMAIN s
  PROVE  /\ ~Goes(s, i, i)
         /\ Goes(s, i, j) /\ Goes(s, j, k) => Goes(s, i, k)
         /\ i # j => Goes(s, i, j) \/ Goes(s, j, i)
<1>1. s[i] \in Bulletin /\ s[j] \in Bulletin /\ s[k] \in Bulletin /\ i \in Int /\ j \in Int /\ k \in Int
  BY DEF Lists
<1>2. ~Goes(s, i, i)
  BY <1>1, BeforeOrders DEF Goes
<1>3. i # j => Goes(s, i, j) \/ Goes(s, j, i)
  <2>1. ASSUME i # j PROVE i < j \/ j < i
    BY <1>1, <2>1
  <2> QED BY <2>1 DEF Goes
<1>4. ASSUME Goes(s, i, j), Goes(s, j, k) PROVE Goes(s, i, k)
  <2>1. ~Official!Before(s[j], s[i]) /\ ~Official!Before(s[k], s[j])
    BY <1>1, <1>4, BeforeOrders DEF Goes
  <2>2. ~Official!Before(s[k], s[i])
    BY <1>1, <2>1, BeforeOrders
  <2>3. CASE i < j /\ j < k
    BY <1>1, <2>2, <2>3 DEF Goes
  <2>4. CASE Official!Before(s[i], s[j])
    <3>1. Official!Before(s[i], s[k])
      BY <1>1, <2>1, <2>4 DEF Bulletin, Official!Before
    <3> QED BY <3>1 DEF Goes
  <2>5. CASE Official!Before(s[j], s[k])
    <3>1. Official!Before(s[i], s[k])
      BY <1>1, <2>1, <2>5 DEF Bulletin, Official!Before
    <3> QED BY <3>1 DEF Goes
  <2> QED BY <1>4, <2>3, <2>4, <2>5 DEF Goes
<1> QED BY <1>2, <1>3, <1>4

(* Every position has a place of its own, and what goes before has an earlier one. *)
LEMMA PlacesDiffer ==
  ASSUME NEW s \in Lists
  PROVE  /\ \A i \in DOMAIN s : Place(s, i) \in 1..Len(s)
         /\ \A i, j \in DOMAIN s : Goes(s, i, j) => Place(s, i) < Place(s, j)
<1>1. DOMAIN s = 1..Len(s) /\ Len(s) \in Nat
  BY DEF Lists
<1>2. IsFiniteSet(DOMAIN s) /\ Cardinality(DOMAIN s) = Len(s)
  <2>1. 1 \in Int /\ Len(s) \in Int
    BY <1>1
  <2>2. IsFiniteSet(1..Len(s)) /\ Cardinality(1..Len(s)) = IF 1 > Len(s) THEN 0 ELSE Len(s) - 1 + 1
    BY <2>1, FS_Interval
  <2> QED BY <1>1, <2>2
<1>3. ASSUME NEW i \in DOMAIN s
      PROVE  /\ IsFiniteSet(Ahead(s, i)) /\ Cardinality(Ahead(s, i)) \in Nat
             /\ Cardinality(Ahead(s, i)) < Len(s)
  <2>1. Ahead(s, i) \in SUBSET (DOMAIN s \ {i})
    BY GoesOrders DEF Ahead
  <2>2. IsFiniteSet(DOMAIN s \ {i}) /\ Cardinality(DOMAIN s \ {i}) = Len(s) - 1
    BY <1>2, FS_RemoveElement
  <2>3. IsFiniteSet(Ahead(s, i)) /\ Cardinality(Ahead(s, i)) <= Len(s) - 1
    BY <2>1, <2>2, FS_Subset
  <2>4. Cardinality(Ahead(s, i)) \in Nat
    BY <2>3, FS_CardinalityType
  <2> QED BY <2>3, <2>4, <1>1
<1>4. ASSUME NEW i \in DOMAIN s PROVE Place(s, i) \in 1..Len(s)
  BY <1>1, <1>3 DEF Place
<1>5. ASSUME NEW i \in DOMAIN s, NEW j \in DOMAIN s, Goes(s, i, j) PROVE Place(s, i) < Place(s, j)
  <2>1. Ahead(s, i) \in SUBSET Ahead(s, j)
    <3>1. ASSUME NEW k \in Ahead(s, i) PROVE k \in Ahead(s, j)
      <4>1. k \in DOMAIN s /\ Goes(s, k, i)
        BY DEF Ahead
      <4>2. Goes(s, k, j)
        BY <4>1, <1>5, GoesOrders
      <4> QED BY <4>1, <4>2 DEF Ahead
    <3> QED BY <3>1
  <2>2. i \in Ahead(s, j) /\ i \notin Ahead(s, i)
    BY <1>5, GoesOrders DEF Ahead
  <2>3. /\ Cardinality(Ahead(s, i)) <= Cardinality(Ahead(s, j))
        /\ Cardinality(Ahead(s, i)) # Cardinality(Ahead(s, j))
    BY <2>1, <2>2, <1>3, FS_Subset
  <2>4. Cardinality(Ahead(s, i)) \in Nat /\ Cardinality(Ahead(s, j)) \in Nat
    BY <1>3
  <2> QED BY <2>3, <2>4 DEF Place
<1> QED BY <1>4, <1>5

(* The position whose bulletin takes place k.                             *)
Chosen(s, k) == CHOOSE i \in DOMAIN s : Place(s, i) = k

(* Every place is taken, once. *)
LEMMA ChosenIs ==
  ASSUME NEW s \in Lists
  PROVE  /\ \A k \in 1..Len(s) : Chosen(s, k) \in DOMAIN s /\ Place(s, Chosen(s, k)) = k
         /\ \A i \in DOMAIN s : Chosen(s, Place(s, i)) = i
<1>1. DOMAIN s = 1..Len(s) /\ Len(s) \in Nat
  BY DEF Lists
<1>2. /\ \A i \in DOMAIN s : Place(s, i) \in 1..Len(s)
      /\ \A i, j \in DOMAIN s : Place(s, i) = Place(s, j) => i = j
  <2>1. ASSUME NEW i \in DOMAIN s, NEW j \in DOMAIN s, Place(s, i) = Place(s, j) PROVE i = j
    <3>1. Place(s, i) \in Int /\ ~(Place(s, i) < Place(s, j)) /\ ~(Place(s, j) < Place(s, i))
      BY <2>1, PlacesDiffer
    <3>2. ~Goes(s, i, j) /\ ~Goes(s, j, i)
      BY <3>1, PlacesDiffer
    <3> QED BY <3>2, GoesOrders
  <2> QED BY <2>1, PlacesDiffer
<1> DEFINE f == [i \in 1..Len(s) |-> Place(s, i)]
<1>3. f \in Injection(1..Len(s), 1..Len(s))
  BY <1>1, <1>2 DEF Injection, IsInjective
<1>4. IsFiniteSet(1..Len(s))
  BY <1>1, FS_Interval
<1>5. f \in Surjection(1..Len(s), 1..Len(s))
  BY <1>3, <1>4, FS_Injection
<1>6. \A k \in 1..Len(s) : \E i \in DOMAIN s : Place(s, i) = k
  BY <1>1, <1>5 DEF Surjection
<1>7. \A k \in 1..Len(s) : Chosen(s, k) \in DOMAIN s /\ Place(s, Chosen(s, k)) = k
  BY <1>6 DEF Chosen
<1>8. \A i \in DOMAIN s : Chosen(s, Place(s, i)) = i
  BY <1>2, <1>7
<1> QED BY <1>7, <1>8

(* sort_by: the same bulletins, in the order of the dates. *)
LEMMA SortedIs ==
  ASSUME NEW s \in Lists, NEW t, t = Official!SortedByDate(s)
  PROVE  /\ t \in Lists /\ Len(t) = Len(s)
         /\ \A k \in 1..Len(s) : t[k] = s[Chosen(s, k)]
         /\ \A k, m \in 1..Len(s) : k < m => ~Official!Before(t[m], t[k])
         /\ \A i \in 1..Len(s) : Place(s, i) \in 1..Len(s) /\ t[Place(s, i)] = s[i]
<1>1. DOMAIN s = 1..Len(s) /\ Len(s) \in Nat /\ \A i \in DOMAIN s : s[i] \in Bulletin
  BY DEF Lists
<1>2. t = [k \in DOMAIN s |-> s[Chosen(s, k)]]
  <2> DEFINE Taken(k) ==
               CHOOSE i \in DOMAIN s :
                 Official!Cardinality({j \in DOMAIN s :
                   Official!Before(s[j], s[i]) \/ (~Official!Before(s[i], s[j]) /\ j < i)}) + 1 = k
  <2>1. ASSUME NEW k PROVE Chosen(s, k) = Taken(k)
    BY BulletinCardinality DEF Chosen, Place, Ahead, Goes
  <2>2. t = [k \in DOMAIN s |-> s[Taken(k)]]
    BY DEF Official!SortedByDate
  <2> HIDE DEF Taken
  <2> QED BY <2>1, <2>2
<1>3. t \in Lists /\ Len(t) = Len(s)
  BY <1>1, <1>2, ChosenIs DEF Lists
<1>4. ASSUME NEW k \in 1..Len(s), NEW m \in 1..Len(s), k < m PROVE ~Official!Before(t[m], t[k])
  <2>1. ~(Place(s, Chosen(s, m)) < Place(s, Chosen(s, k)))
    BY <1>4, ChosenIs
  <2>2. ~Goes(s, Chosen(s, m), Chosen(s, k))
    BY <2>1, <1>4, ChosenIs, PlacesDiffer
  <2>3. t[k] = s[Chosen(s, k)] /\ t[m] = s[Chosen(s, m)]
    BY <1>1, <1>2
  <2> QED BY <2>2, <2>3 DEF Goes
<1>5. ASSUME NEW i \in 1..Len(s) PROVE Place(s, i) \in 1..Len(s) /\ t[Place(s, i)] = s[i]
  BY <1>1, <1>2, PlacesDiffer, ChosenIs
<1> QED BY <1>1, <1>2, <1>3, <1>4, <1>5

(* A list of bulletins of different names. *)
Distinct(s) == \A i, j \in 1..Len(s) : i # j => s[i].name # s[j].name

(* The list with a bulletin of a name it holds, or of another. *)
LEMMA ReplacedIs ==
  ASSUME NEW s \in Lists, NEW b \in Bulletin, NEW u, u = Official!Replaced(s, b)
  PROVE  /\ u \in Lists
         /\ \/ /\ Len(u) = Len(s)
               /\ \A i \in 1..Len(s) : u[i].name = s[i].name
            \/ /\ u = Append(s, b) /\ \A i \in 1..Len(s) : s[i].name # b.name
<1>1. DOMAIN s = 1..Len(s) /\ Len(s) \in Nat /\ \A i \in DOMAIN s : s[i] \in Bulletin
  BY DEF Lists
<1>2. CASE \E i \in DOMAIN s : s[i].name = b.name
  <2>1. u = [i \in DOMAIN s |-> IF s[i].name = b.name THEN b ELSE s[i]]
    BY <1>2 DEF Official!Replaced
  <2>2. /\ DOMAIN u = 1..Len(s)
        /\ \A i \in 1..Len(s) : u[i] \in Bulletin /\ u[i].name = s[i].name
    BY <1>1, <2>1
  <2>3. u = [i \in 1..Len(s) |-> u[i]]
    BY <1>1, <2>1
  <2>4. u \in Seq(Bulletin) /\ Len(u) = Len(s)
    BY <1>1, <2>2, <2>3
  <2> QED BY <2>2, <2>4 DEF Lists
<1>3. CASE ~ \E i \in DOMAIN s : s[i].name = b.name
  <2>1. u = Append(s, b)
    BY <1>3 DEF Official!Replaced
  <2>2. u \in Lists
    BY <2>1 DEF Lists
  <2> QED BY <1>1, <1>3, <2>1, <2>2
<1> QED BY <1>2, <1>3

(* ... stays one of different names. *)
LEMMA ReplacedDistinct ==
  ASSUME NEW s \in Lists, Distinct(s), NEW b \in Bulletin, NEW u, u = Official!Replaced(s, b)
  PROVE  Distinct(u)
<1>1. DOMAIN s = 1..Len(s) /\ Len(s) \in Nat
  BY DEF Lists
<1>2. CASE Len(u) = Len(s) /\ \A i \in 1..Len(s) : u[i].name = s[i].name
  BY <1>2 DEF Distinct
<1>3. CASE u = Append(s, b) /\ \A i \in 1..Len(s) : s[i].name # b.name
  <2>1. /\ Len(u) = Len(s) + 1 /\ u[Len(s) + 1] = b
        /\ \A i \in 1..Len(s) : u[i] = s[i]
        /\ \A i \in 1..(Len(s) + 1) : i \in 1..Len(s) \/ i = Len(s) + 1
    BY <1>1, <1>3 DEF Lists
  <2> QED BY <1>3, <2>1 DEF Distinct
<1> QED BY <1>2, <1>3, ReplacedIs

(* How much of a list the cut at MAX_BULLETINS keeps.                      *)
Limit(s) == IF Len(s) < MaxBulletins THEN Len(s) ELSE MaxBulletins

(* ingest: the bulletins kept are the first ones in the order of the dates. *)
LEMMA MergedIs ==
  ASSUME BulletinsAssumption, NEW s \in Lists, NEW b \in Bulletin,
         NEW u, u = Official!Replaced(s, b), NEW t, t = Official!SortedByDate(u),
         NEW m, m = Official!Merged(s, b)
  PROVE  /\ m \in Lists /\ Len(m) = Limit(u)
         /\ \A k \in 1..Limit(u) : k \in 1..Len(u) /\ m[k] = t[k]
<1>1. u \in Lists
  BY ReplacedIs
<1>2. t \in Lists /\ Len(t) = Len(u) /\ Len(u) \in Nat
  BY <1>1, SortedIs DEF Lists
<1>3. MaxBulletins \in Nat
  BY BulletinsAssumption DEF Official!OfficialAssumption
<1>4. Limit(u) \in 0..Len(u)
  BY <1>2, <1>3 DEF Limit
<1>5. m = SubSeq(t, 1, Limit(u))
  BY <1>2 DEF Official!Merged, Limit
<1>6. m \in Lists /\ Len(m) = Limit(u) /\ \A k \in 1..Limit(u) : m[k] = t[k]
  BY <1>2, <1>4, <1>5 DEF Lists
<1> QED BY <1>2, <1>4, <1>6

(* The promise of the cache, for a list.                                   *)
InOrder(s) ==
  /\ s \in Lists /\ Distinct(s) /\ Len(s) <= MaxBulletins
  /\ \A k, m \in 1..Len(s) : k < m => ~Official!Before(s[m], s[k])

(* ingest keeps the names apart, the dates in order and the list short. *)
LEMMA MergedInOrder ==
  ASSUME BulletinsAssumption, NEW s, InOrder(s), NEW b \in Bulletin
  PROVE  InOrder(Official!Merged(s, b))
<1> DEFINE u == Official!Replaced(s, b)
           t == Official!SortedByDate(u)
           m == Official!Merged(s, b)
<1>1. s \in Lists /\ Distinct(s)
  BY DEF InOrder
<1>2. u \in Lists /\ Distinct(u) /\ Len(u) \in Nat
  BY <1>1, ReplacedIs, ReplacedDistinct DEF Lists
<1>3. /\ m \in Lists /\ Len(m) = Limit(u)
      /\ \A k \in 1..Limit(u) : k \in 1..Len(u) /\ m[k] = t[k]
  BY <1>1, MergedIs
<1> HIDE DEF u, m
<1>4. /\ \A k \in 1..Len(u) : t[k] = u[Chosen(u, k)] /\ Chosen(u, k) \in 1..Len(u)
      /\ \A k, n \in 1..Len(u) : k < n => ~Official!Before(t[n], t[k])
      /\ \A k, n \in 1..Len(u) : k # n => Chosen(u, k) # Chosen(u, n)
  <2>1. \A k \in 1..Len(u) : Chosen(u, k) \in 1..Len(u) /\ Place(u, Chosen(u, k)) = k
    BY <1>2, ChosenIs DEF Lists
  <2> QED BY <1>2, <2>1, SortedIs
<1> HIDE DEF t
<1>5. Distinct(m)
  <2>1. ASSUME NEW k \in 1..Len(m), NEW n \in 1..Len(m), k # n PROVE m[k].name # m[n].name
    <3>1. k \in 1..Len(u) /\ n \in 1..Len(u) /\ m[k] = t[k] /\ m[n] = t[n]
      BY <1>3
    <3>2. t[k] = u[Chosen(u, k)] /\ t[n] = u[Chosen(u, n)] /\ Chosen(u, k) # Chosen(u, n)
      BY <1>4, <2>1, <3>1
    <3>3. Chosen(u, k) \in 1..Len(u) /\ Chosen(u, n) \in 1..Len(u)
      BY <1>4, <3>1
    <3>4. u[Chosen(u, k)].name # u[Chosen(u, n)].name
      BY <1>2, <3>2, <3>3 DEF Distinct
    <3> QED BY <3>1, <3>2, <3>4
  <2> QED BY <2>1 DEF Distinct
<1>6. Len(m) <= MaxBulletins
  <2>1. MaxBulletins \in Nat
    BY BulletinsAssumption DEF Official!OfficialAssumption
  <2> QED BY <1>2, <1>3, <2>1 DEF Limit
<1>7. ASSUME NEW k \in 1..Len(m), NEW n \in 1..Len(m), k < n PROVE ~Official!Before(m[n], m[k])
  BY <1>3, <1>4, <1>7
<1>8. InOrder(m)
  BY <1>3, <1>5, <1>6, <1>7 DEF InOrder
<1> QED BY <1>8 DEF m

(* A bulletin whose name an ingestion into a list in order takes away is   *)
(* older than all that stay.                                               *)
LEMMA OldestLeaves ==
  ASSUME BulletinsAssumption, NEW s, InOrder(s), NEW b \in Bulletin,
         NEW i \in 1..Len(s),
         \A k \in 1..Len(Official!Merged(s, b)) : Official!Merged(s, b)[k].name # s[i].name,
         NEW k \in 1..Len(Official!Merged(s, b))
  PROVE  ~Official!Before(s[i], Official!Merged(s, b)[k])
<1> DEFINE u == Official!Replaced(s, b)
           t == Official!SortedByDate(u)
           m == Official!Merged(s, b)
<1>1. s \in Lists /\ Len(s) \in Nat /\ Len(s) <= MaxBulletins
  BY DEF InOrder, Lists
<1>2. /\ u \in Lists /\ Len(u) \in Nat
      /\ \/ /\ Len(u) = Len(s)
            /\ \A j \in 1..Len(s) : u[j].name = s[j].name
         \/ u = Append(s, b)
  <2>1. /\ u \in Lists
        /\ \/ Len(u) = Len(s) /\ \A j \in 1..Len(s) : u[j].name = s[j].name
           \/ u = Append(s, b)
    BY <1>1, ReplacedIs
  <2>2. Len(u) \in Nat
    BY <2>1 DEF Lists
  <2> QED BY <2>1, <2>2
<1>3. /\ m \in Lists /\ Len(m) = Limit(u)
      /\ \A j \in 1..Limit(u) : j \in 1..Len(u) /\ m[j] = t[j]
  BY <1>1, MergedIs
<1>4. \A j \in 1..Len(m) : m[j].name # s[i].name
  OBVIOUS
<1> HIDE DEF m
<1>5. /\ \A j \in 1..Len(u) : Place(u, j) \in 1..Len(u) /\ t[Place(u, j)] = u[j]
      /\ \A j, n \in 1..Len(u) : j < n => ~Official!Before(t[n], t[j])
  BY <1>2, SortedIs
<1> HIDE DEF u, t
<1>6. i \in 1..Len(u) /\ u[i].name = s[i].name
  <2>1. CASE Len(u) = Len(s) /\ \A j \in 1..Len(s) : u[j].name = s[j].name
    BY <2>1
  <2>2. CASE u = Append(s, b)
    <3>1. s \in Seq(Bulletin)
      BY <1>1 DEF Lists
    <3>2. Len(u) = Len(s) + 1 /\ u[i] = s[i]
      BY <2>2, <3>1
    <3> QED BY <1>1, <3>2
  <2> QED BY <1>2, <2>1, <2>2
<1>7. Place(u, i) \notin 1..Limit(u)
  BY <1>3, <1>4, <1>5, <1>6
<1>8. Limit(u) < Len(u)
  <2>1. MaxBulletins \in Nat
    BY BulletinsAssumption DEF Official!OfficialAssumption
  <2>2. Place(u, i) \in 1..Len(u)
    BY <1>5, <1>6
  <2> QED BY <1>2, <1>7, <2>1, <2>2 DEF Limit
<1>9. u[i] = s[i]
  <2>1. MaxBulletins \in Nat
    BY BulletinsAssumption DEF Official!OfficialAssumption
  <2>2. Len(u) # Len(s)
    BY <1>1, <1>2, <1>8, <2>1 DEF Limit
  <2>3. u = Append(s, b)
    BY <1>2, <2>2
  <2> QED BY <1>1, <2>3 DEF Lists
<1>10. k < Place(u, i) /\ k \in 1..Len(u) /\ m[k] = t[k]
  <2>1. k \in 1..Limit(u)
    BY <1>3 DEF m
  <2>2. Limit(u) \in Int /\ Place(u, i) \in Int
    <3>1. MaxBulletins \in Nat
      BY BulletinsAssumption DEF Official!OfficialAssumption
    <3> QED BY <3>1, <1>2, <1>5, <1>6 DEF Limit
  <2> QED BY <1>3, <1>5, <1>6, <1>7, <2>1, <2>2
<1>11. ~Official!Before(t[Place(u, i)], t[k])
  BY <1>5, <1>6, <1>10
<1> QED BY <1>5, <1>6, <1>9, <1>10, <1>11 DEF m

(* Both situations ingest alike. *)
LEMMA CalmMerges == \A s, b : CalmOfficial!Merged(s, b) = Official!Merged(s, b)
<1> SUFFICES ASSUME NEW s, NEW b PROVE CalmOfficial!Merged(s, b) = Official!Merged(s, b)
  OBVIOUS
<1>1. \A x, y : CalmOfficial!Before(x, y) <=> Official!Before(x, y)
  BY DEF CalmOfficial!Before, Official!Before
<1>2. CalmOfficial!Replaced(s, b) = Official!Replaced(s, b)
  BY DEF CalmOfficial!Replaced, Official!Replaced
<1>3. \A u : CalmOfficial!SortedByDate(u) = Official!SortedByDate(u)
  BY DEF CalmOfficial!SortedByDate, Official!SortedByDate, CalmOfficial!Before, Official!Before,
         CalmOfficial!Cardinality, Official!Cardinality
<1> QED BY <1>2, <1>3 DEF CalmOfficial!Merged, Official!Merged

(* The calm situation.                                                    *)
OneByOne == explored = "calm bulletins"

(* What ingests b into the cache, or into nothing when it cannot be read.  *)
Ingested(blind, b) == Official!Merged(IF blind THEN <<>> ELSE cache.bulletins, b)

(* The cache is in order, and so is every copy about to be saved; the copy *)
(* of the only request is what its bulletin makes of the cache as it is,   *)
(* or of nothing.                                                          *)
BulletinsInv ==
  /\ InOrder(cache.bulletins)
  /\ clock \in Int
  /\ IF OneByOne
     THEN /\ ingesting = [r \in {lone} |-> ingesting[r]]
          /\ ingesting[lone].at = "save" =>
               \E b \in Bulletin :
                 ingesting[lone].cache.bulletins = Ingested(ingesting[lone].blind, b)
     ELSE /\ ingesting = [r \in Requests |-> ingesting[r]]
          /\ \A r \in Requests :
               ingesting[r].at = "save" => InOrder(ingesting[r].cache.bulletins)

(* The empty cache is in order. *)
LEMMA EmptyInOrder == BulletinsAssumption => InOrder(<<>>)
BY DEF InOrder, Lists, Distinct, Official!OfficialAssumption

(* At the start nothing is cached. *)
LEMMA InitBulletins == BulletinsAssumption /\ MCInit => BulletinsInv
<1> SUFFICES ASSUME BulletinsAssumption, MCInit PROVE BulletinsInv
  OBVIOUS
<1>1. InOrder(<<>>)
  BY EmptyInOrder
<1>2. CASE OneByOne
  <2>1. CalmOfficial!Init
    BY <1>2 DEF MCInit, OneByOne
  <2>2. /\ cache = [bulletins |-> <<>>, updated |-> 0] /\ clock = 1
        /\ ingesting = [r \in {lone} |-> [at |-> "idle"]]
    BY <2>1 DEF CalmOfficial!Init, CalmOfficial!EmptyCache, CalmOfficial!Idle
  <2>3. cache.bulletins = <<>> /\ clock \in Int
    BY <2>2
  <2>4. InOrder(cache.bulletins)
    BY <1>1, <2>3, Zenon
  <2>5. /\ ingesting = [r \in {lone} |-> ingesting[r]]
        /\ \A r \in {lone} : ingesting[r].at = "idle"
    BY <2>2
  <2> QED BY <1>2, <2>3, <2>4, <2>5 DEF BulletinsInv
<1>3. CASE ~OneByOne
  <2>1. Official!Init
    BY <1>3 DEF MCInit, OneByOne
  <2>2. /\ cache = [bulletins |-> <<>>, updated |-> 0] /\ clock = 1
        /\ ingesting = [r \in Requests |-> [at |-> "idle"]]
    BY <2>1 DEF Official!Init, Official!EmptyCache, Official!Idle
  <2>3. cache.bulletins = <<>> /\ clock \in Int
    BY <2>2
  <2>4. InOrder(cache.bulletins)
    BY <1>1, <2>3, Zenon
  <2>5. /\ ingesting = [r \in Requests |-> ingesting[r]]
        /\ \A r \in Requests : ingesting[r].at = "idle"
    BY <2>2
  <2> QED BY <1>3, <2>3, <2>4, <2>5 DEF BulletinsInv
<1> QED BY <1>2, <1>3

(* Requests that overlap: what is saved was in order when it was loaded. *)
LEMMA OverlappingBulletins ==
  ASSUME BulletinsAssumption, BulletinsInv, ~OneByOne, ~OneByOne', Official!Next
  PROVE  BulletinsInv'
<1>1. /\ InOrder(cache.bulletins) /\ clock \in Int
      /\ ingesting = [r \in Requests |-> ingesting[r]]
      /\ \A r \in Requests : ingesting[r].at = "save" => InOrder(ingesting[r].cache.bulletins)
  BY DEF BulletinsInv
<1>2. SUFFICES /\ InOrder(cache'.bulletins) /\ clock' \in Int
               /\ ingesting' = [r \in Requests |-> ingesting'[r]]
               /\ \A r \in Requests :
                    ingesting'[r].at = "save" => InOrder(ingesting'[r].cache.bulletins)
  BY DEF BulletinsInv, InOrder, Lists, Distinct
<1>3. ASSUME NEW r \in Requests, NEW n \in Name, NEW d \in FewDates, Official!Ingest(r, n, d)
      PROVE  /\ cache' = cache /\ clock' = clock
             /\ ingesting' = [q \in Requests |-> ingesting'[q]]
             /\ \A q \in Requests :
                  ingesting'[q].at = "save" => InOrder(ingesting'[q].cache.bulletins)
  <2> DEFINE b == [name |-> n, published |-> d, fetched |-> clock]
             m(blind) == Ingested(blind, b)
  <2>1. b \in Bulletin
    BY <1>1, BulletinsAssumption DEF Bulletin, Official!OfficialAssumption
  <2>2. ASSUME NEW blind PROVE InOrder(m(blind))
    <3>1. InOrder(IF blind THEN <<>> ELSE cache.bulletins)
      BY <1>1, EmptyInOrder
    <3> QED BY <2>1, <3>1, MergedInOrder DEF Ingested
  <2>3. /\ cache' = cache /\ clock' = clock
        /\ \E blind \in BOOLEAN : ingesting' = [ingesting EXCEPT ![r] =
             [at |-> "save", bulletin |-> b, blind |-> blind,
              cache |-> [bulletins |-> m(blind), updated |-> Official!Latest(m(blind))]]]
    BY <1>3 DEF Official!Ingest, Ingested
  <2> HIDE DEF b, m
  <2>4. PICK blind \in BOOLEAN : ingesting' = [ingesting EXCEPT ![r] =
             [at |-> "save", bulletin |-> b, blind |-> blind,
              cache |-> [bulletins |-> m(blind), updated |-> Official!Latest(m(blind))]]]
    BY <2>3
  <2>5. InOrder(m(blind))
    BY <2>2
  <2> QED BY <1>1, <2>3, <2>4, <2>5
<1>4. ASSUME NEW r \in Requests, Official!Save(r) \/ Official!SaveFails(r)
      PROVE  /\ InOrder(cache'.bulletins) /\ clock' = clock
             /\ ingesting' = [q \in Requests |-> ingesting'[q]]
             /\ \A q \in Requests :
                  ingesting'[q].at = "save" => InOrder(ingesting'[q].cache.bulletins)
  <2>1. /\ ingesting[r].at = "save" /\ (cache' = ingesting[r].cache \/ cache' = cache)
        /\ clock' = clock /\ ingesting' = [ingesting EXCEPT ![r] = [at |-> "idle"]]
    BY <1>4 DEF Official!Save, Official!SaveFails, Official!At, Official!Idle
  <2> QED BY <1>1, <2>1
<1>5. ASSUME NEW r \in Requests, Official!Clear(r)
      PROVE  cache'.bulletins = <<>> /\ clock' = clock /\ ingesting' = ingesting
  BY <1>5 DEF Official!Clear, Official!EmptyCache
<1>6. CASE Official!Tick
  BY <1>1, <1>6 DEF Official!Tick
<1> QED BY <1>1, <1>3, <1>4, <1>5, <1>6, EmptyInOrder DEF Official!Next

(* Requests one by one: the cache saved was loaded as it is. *)
LEMMA CalmBulletins ==
  ASSUME BulletinsAssumption, BulletinsInv, OneByOne, OneByOne', CalmOfficial!Next
  PROVE  /\ BulletinsInv'
         /\ \/ cache'.bulletins = cache.bulletins
            \/ cache'.bulletins = <<>>
            \/ CalmOfficial!Blind(lone)
            \/ \E b \in Bulletin : cache'.bulletins = Official!Merged(cache.bulletins, b)
<1>1. /\ InOrder(cache.bulletins) /\ clock \in Int
      /\ ingesting = [r \in {lone} |-> ingesting[r]]
      /\ ingesting[lone].at = "save" =>
           \E b \in Bulletin :
             ingesting[lone].cache.bulletins = Ingested(ingesting[lone].blind, b)
  BY DEF BulletinsInv
<1>2. \/ \E n \in Name, d \in ManyDates : CalmOfficial!Ingest(lone, n, d)
      \/ CalmOfficial!Save(lone) \/ CalmOfficial!SaveFails(lone) \/ CalmOfficial!Clear(lone)
      \/ CalmOfficial!Tick
  BY DEF CalmOfficial!Next
<1>3. ASSUME InOrder(cache'.bulletins), clock' \in Int,
             ingesting' = [r \in {lone} |-> ingesting'[r]],
             ingesting'[lone].at = "save" =>
               \E b \in Bulletin :
                 ingesting'[lone].cache.bulletins =
                   Official!Merged(IF ingesting'[lone].blind THEN <<>> ELSE cache'.bulletins, b)
      PROVE  BulletinsInv'
  BY <1>3 DEF BulletinsInv, InOrder, Lists, Distinct, Bulletin, Ingested
<1>4. CASE \E n \in Name, d \in ManyDates : CalmOfficial!Ingest(lone, n, d)
  <2>1. PICK n \in Name, d \in ManyDates : CalmOfficial!Ingest(lone, n, d)
    BY <1>4
  <2> DEFINE b == [name |-> n, published |-> d, fetched |-> clock]
             m(blind) == CalmOfficial!Merged(IF blind THEN <<>> ELSE cache.bulletins, b)
  <2>2. b \in Bulletin
    BY <1>1, BulletinsAssumption DEF Bulletin, CalmOfficial!OfficialAssumption
  <2>3. \A blind : m(blind) = Ingested(blind, b)
    BY CalmMerges DEF Ingested
  <2>4. /\ cache' = cache /\ clock' = clock
        /\ \E blind \in BOOLEAN : ingesting' = [ingesting EXCEPT ![lone] =
             [at |-> "save", bulletin |-> b, blind |-> blind,
              cache |-> [bulletins |-> m(blind), updated |-> CalmOfficial!Latest(m(blind))]]]
    BY <2>1 DEF CalmOfficial!Ingest
  <2> HIDE DEF b, m
  <2>5. PICK blind \in BOOLEAN : ingesting' = [ingesting EXCEPT ![lone] =
             [at |-> "save", bulletin |-> b, blind |-> blind,
              cache |-> [bulletins |-> m(blind), updated |-> CalmOfficial!Latest(m(blind))]]]
    BY <2>4
  <2>6. /\ ingesting' = [r \in {lone} |-> ingesting'[r]]
        /\ ingesting'[lone].blind = blind /\ ingesting'[lone].cache.bulletins = m(blind)
    BY <1>1, <2>5
  <2>7. ingesting'[lone].cache.bulletins =
          Official!Merged(IF ingesting'[lone].blind THEN <<>> ELSE cache'.bulletins, b)
    BY <2>3, <2>4, <2>6 DEF Ingested
  <2>8. InOrder(cache'.bulletins) /\ clock' \in Int
    BY <1>1, <2>4
  <2>9. BulletinsInv'
    BY <1>3, <2>2, <2>6, <2>7, <2>8
  <2> QED BY <2>4, <2>9
<1>5. CASE CalmOfficial!Save(lone) \/ CalmOfficial!SaveFails(lone)
  <2>1. /\ ingesting[lone].at = "save" /\ cache' \in {cache, ingesting[lone].cache}
        /\ clock' = clock /\ ingesting' = [ingesting EXCEPT ![lone] = [at |-> "idle"]]
    BY <1>5 DEF CalmOfficial!Save, CalmOfficial!SaveFails, CalmOfficial!At, CalmOfficial!Idle
  <2>2. PICK b \in Bulletin : ingesting[lone].cache.bulletins = Ingested(ingesting[lone].blind, b)
    BY <1>1, <2>1
  <2>3. InOrder(ingesting[lone].cache.bulletins)
    <3>1. InOrder(IF ingesting[lone].blind THEN <<>> ELSE cache.bulletins)
      BY <1>1, EmptyInOrder
    <3> QED BY <2>2, <3>1, MergedInOrder DEF Ingested
  <2>4. InOrder(cache'.bulletins)
    BY <1>1, <2>1, <2>3, Zenon
  <2>5. ingesting' = [r \in {lone} |-> ingesting'[r]] /\ ingesting'[lone].at = "idle"
    BY <1>1, <2>1
  <2>6. BulletinsInv'
    BY <1>1, <1>3, <2>1, <2>4, <2>5
  <2>7. \/ CalmOfficial!Blind(lone)
        \/ ingesting[lone].cache.bulletins = Official!Merged(cache.bulletins, b)
    BY <2>1, <2>2 DEF CalmOfficial!Blind, CalmOfficial!At, Ingested
  <2>8. \/ cache'.bulletins = cache.bulletins
        \/ cache'.bulletins = ingesting[lone].cache.bulletins
    BY <2>1
  <2> QED BY <2>6, <2>7, <2>8
<1>7. CASE CalmOfficial!Clear(lone)
  <2>1. /\ ingesting[lone].at = "idle" /\ cache'.bulletins = <<>> /\ clock' = clock
        /\ ingesting' = ingesting
    BY <1>7 DEF CalmOfficial!Clear, CalmOfficial!At, CalmOfficial!EmptyCache
  <2>2. InOrder(cache'.bulletins)
    BY <2>1, EmptyInOrder, Zenon
  <2> QED BY <1>1, <1>3, <2>1, <2>2
<1>8. CASE CalmOfficial!Tick
  <2>1. cache' = cache /\ clock' = clock + 1 /\ ingesting' = ingesting
    BY <1>8 DEF CalmOfficial!Tick
  <2>2. /\ InOrder(cache'.bulletins) /\ clock' \in Int
        /\ ingesting' = [r \in {lone} |-> ingesting'[r]]
    BY <1>1, <2>1
  <2>3. ingesting'[lone].at = "save" =>
          \E b \in Bulletin :
            ingesting'[lone].cache.bulletins =
              Official!Merged(IF ingesting'[lone].blind THEN <<>> ELSE cache'.bulletins, b)
    BY <1>1, <2>1 DEF Ingested
  <2> QED BY <1>3, <2>1, <2>2, <2>3
<1> QED BY <1>2, <1>4, <1>5, <1>7, <1>8

(* While the inbox or the pings are explored, the cache rests. *)
LEMMA BulletinsStep ==
  ASSUME BulletinsAssumption, BulletinsInv, [MCNext]_mcVars
  PROVE  BulletinsInv'
<1>1. OneByOne' = OneByOne
  BY DEF MCNext, mcVars, OneByOne
<1>2. CASE UNCHANGED officialVars
  <2>1. cache' = cache /\ ingesting' = ingesting /\ clock' = clock
    BY <1>2 DEF officialVars
  <2> QED BY <1>1, <2>1 DEF BulletinsInv, InOrder, Lists, Distinct, Bulletin, Ingested
<1>3. CASE ~OneByOne /\ Official!Next
  BY <1>1, <1>3, OverlappingBulletins
<1>4. CASE OneByOne /\ CalmOfficial!Next
  BY <1>1, <1>4, CalmBulletins
<1>5. UNCHANGED officialVars \/ (~OneByOne /\ Official!Next) \/ (OneByOne /\ CalmOfficial!Next)
  BY DEF MCNext, mcVars, OneByOne
<1> QED BY <1>2, <1>3, <1>4, <1>5

(* BulletinsInOrder: for any names, dates and requests that overlap, the   *)
(* cache shows one bulletin per source and title, the most recent first,   *)
(* MAX_BULLETINS at most: a request saves what it found in order and kept  *)
(* in order (ingest).                                                      *)
THEOREM BulletinsStayInOrder == MCSpec => []BulletinsInOrder
<1>1. MCInit => BulletinsInv
  BY BulletinsAssumption, InitBulletins
<1>2. BulletinsInv /\ [MCNext]_mcVars => BulletinsInv'
  BY BulletinsAssumption, BulletinsStep
<1>3. BulletinsInv => BulletinsInOrder
  <2> SUFFICES ASSUME BulletinsInv PROVE BulletinsInOrder
    OBVIOUS
  <2> DEFINE s == cache.bulletins
  <2>1. InOrder(s)
    BY DEF BulletinsInv
  <2>2. DOMAIN s = 1..Len(s)
    BY <2>1 DEF InOrder, Lists
  <2> HIDE DEF s
  <2>3. ASSUME NEW i \in DOMAIN s, NEW j \in DOMAIN s, i < j
        PROVE  s[i].name # s[j].name /\ ~Official!Before(s[j], s[i])
    <3>1. i \in 1..Len(s) /\ j \in 1..Len(s) /\ i # j
      BY <2>2, <2>3
    <3> QED BY <2>1, <2>3, <3>1 DEF InOrder, Distinct
  <2>4. Len(s) <= MaxBulletins
    BY <2>1 DEF InOrder
  <2> QED BY <2>3, <2>4 DEF BulletinsInOrder, Official!CacheInOrder, s
<1> QED BY <1>1, <1>2, <1>3, PTL DEF MCSpec

(* BoardsKeepWord: both promises, of the groups and pings and of the       *)
(* bulletins.                                                              *)
THEOREM BoardsPromise == MCSpec => []BoardsKeepWord
<1>1. PingBoardKeepsWord /\ BulletinsInOrder => BoardsKeepWord
  BY DEF BoardsKeepWord
<1> QED BY <1>1, PingBoardPromise, BulletinsStayInOrder, PTL

(* CalmDropsOldest: a bulletin that an ingestion takes out of a cache that *)
(* it could read is no more recent than any that stay, for any names,      *)
(* dates and capacity: the sort before the cut puts it last (ingest).      *)
THEOREM OldestLeavesFirst == MCSpec => CalmDropsOldest
<1> DEFINE OldestGone ==
             explored = "calm bulletins" /\ ~CalmOfficial!Blind(lone)
               /\ cache'.bulletins # <<>> =>
               \A b \in CalmOfficial!Cached :
                 (\A c \in CalmOfficial!Cached' : c.name # b.name) =>
                    \A c \in CalmOfficial!Cached' : ~CalmOfficial!Before(b, c)
<1>1. MCInit => BulletinsInv
  BY BulletinsAssumption, InitBulletins
<1>2. BulletinsInv /\ [MCNext]_mcVars => BulletinsInv'
  BY BulletinsAssumption, BulletinsStep
<1>3. ASSUME BulletinsInv, [MCNext]_mcVars, OneByOne, ~CalmOfficial!Blind(lone),
             cache'.bulletins # <<>>,
             NEW b \in CalmOfficial!Cached,
             \A c \in CalmOfficial!Cached' : c.name # b.name,
             NEW c \in CalmOfficial!Cached'
      PROVE  ~CalmOfficial!Before(b, c)
  <2> DEFINE s == cache.bulletins
             new == cache'.bulletins
  <2>1. InOrder(s) /\ InOrder(new)
    BY <1>2, <1>3 DEF BulletinsInv, InOrder, Lists, Distinct, Bulletin
  <2>2. DOMAIN s = 1..Len(s) /\ DOMAIN new = 1..Len(new)
    BY <2>1 DEF InOrder, Lists
  <2>3. PICK i \in 1..Len(s) : b = s[i]
    BY <2>2 DEF CalmOfficial!Cached, CalmOfficial!ToSet
  <2>4. PICK k \in 1..Len(new) : c = new[k]
    BY <2>2 DEF CalmOfficial!Cached, CalmOfficial!ToSet
  <2>5. \A j \in 1..Len(new) : new[j].name # s[i].name
    BY <1>3, <2>2, <2>3 DEF CalmOfficial!Cached, CalmOfficial!ToSet
  <2>6. new # s
    BY <2>5
  <2>7. \/ UNCHANGED officialVars
        \/ OneByOne' /\ CalmOfficial!Next
    BY <1>3 DEF MCNext, mcVars, OneByOne
  <2>8. PICK d \in Bulletin : new = Official!Merged(s, d)
    BY <1>3, <2>6, <2>7, BulletinsAssumption, CalmBulletins DEF officialVars
  <2> HIDE DEF s, new
  <2>9. ~Official!Before(s[i], new[k])
    BY <2>1, <2>5, <2>8, BulletinsAssumption, OldestLeaves
  <2> QED BY <2>3, <2>4, <2>9 DEF CalmOfficial!Before, Official!Before
<1>4. BulletinsInv /\ [MCNext]_mcVars => [OldestGone]_mcVars
  BY <1>3 DEF OneByOne
<1> QED BY <1>1, <1>2, <1>4, PTL DEF MCSpec, CalmDropsOldest

===============================================================================
