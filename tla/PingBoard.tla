------------------------------- MODULE PingBoard -------------------------------
(***************************************************************************)
(* The ping groups of a node and the pings citizens send to them           *)
(* (create_group, delete_group, submit_ping, clear_admin_pings and the     *)
(* share of admin_reset in crates/portal/src/lib.rs, over the tables       *)
(* "groups" and "pings" of crates/storage).                                *)
(*                                                                         *)
(* Both lists are stored whole: a handler loads the list, changes its copy *)
(* and saves it, holding the node for reading only, so that requests       *)
(* interleave between the load and the save. A request of an administrator *)
(* is taken as authorised. A group is recognised by its key, unique here.  *)
(* A list that cannot be read or parsed is taken for an empty one          *)
(* (unwrap_or(None), unwrap_or_default()), and saved as such.              *)
(***************************************************************************)
EXTENDS Integers, Sequences, FiniteSets, SequencesExt

CONSTANTS
  Request,      \* requests that may be in progress at the same time
  Client,       \* addresses pings come from
  Group,        \* identifiers drawn for groups
  MaxGroups,    \* MAX_GROUPS (20)
  PingMax,      \* PING_MAX (200)
  PingInterval, \* PING_MIN_INTERVAL (5 s)
  MaxPings,     \* bound: pings submitted
  MaxTime,      \* bound: last second explored
  MaxLives      \* bound: starts of the process

VARIABLES
  groups,    \* in the store
  pings,     \* in the store, the oldest first
  limiter,   \* limiter[c]: when c last submitted a ping, -1 if never
  call,      \* call[r]: what request r is about to do, and with what copy
  now, life, \* seconds; starts of the process so far
  submitted, \* how many pings were submitted
  drawn,     \* identifiers drawn so far
  acked      \* history: pings answered 201 since the list was last emptied,
             \* or saved over by a request that could not read it

vars == <<groups, pings, limiter, call, now, life, submitted, drawn, acked>>

Idle == [at |-> "idle"]
At(r, step) == call[r].at = step
Goto(r, c) == call' = [call EXCEPT ![r] = c]
Return(r) == Goto(r, Idle)

Init ==
  /\ groups = {} /\ pings = <<>>
  /\ limiter = [c \in Client |-> -1]
  /\ call = [r \in Request |-> Idle]
  /\ now = 0 /\ life = 1
  /\ submitted = 0 /\ drawn = {}
  /\ acked = {}

-------------------------------------------------------------------------------
(* What a handler may take the stored list for.                            *)
Loaded(stored, empty) == {stored, empty}

CreateUnlimited(r, g) ==
  /\ At(r, "idle") /\ g \notin drawn
  /\ drawn' = drawn \cup {g}
  /\ \E known \in Loaded(groups, {}) : Goto(r, [at |-> "create", groups |-> known \cup {g}])
  /\ UNCHANGED <<groups, pings, limiter, now, life, submitted, acked>>

(* create_group: refused at the maximum, by the list that was loaded.      *)
CreateLoad(r, g) ==
  /\ At(r, "idle") /\ g \notin drawn
  /\ drawn' = drawn \cup {g}
  /\ \E known \in Loaded(groups, {}) :
       /\ Cardinality(known) < MaxGroups
       /\ Goto(r, [at |-> "create", groups |-> known \cup {g}])
  /\ UNCHANGED <<groups, pings, limiter, now, life, submitted, acked>>

(* delete_group                                                            *)
DeleteLoad(r, g) ==
  /\ At(r, "idle")
  /\ \E known \in Loaded(groups, {}) : Goto(r, [at |-> "delete", groups |-> known \ {g}])
  /\ UNCHANGED <<groups, pings, limiter, now, life, submitted, drawn, acked>>

(* Both save their copy of the list.                                       *)
SaveGroups(r) ==
  /\ call[r].at \in {"create", "delete"}
  /\ groups' = call[r].groups
  /\ Return(r)
  /\ UNCHANGED <<pings, limiter, now, life, submitted, drawn, acked>>

(* submit_ping: the rate limiter is charged first, ...                     *)
SubmitPing(r, c, g) ==
  /\ At(r, "idle") /\ submitted < MaxPings
  /\ limiter[c] = -1 \/ now - limiter[c] >= PingInterval
  /\ limiter' = [limiter EXCEPT ![c] = now]
  /\ submitted' = submitted + 1
  /\ Goto(r, [at |-> "match", group |-> g,
              ping |-> [id |-> submitted + 1, by |-> c, at |-> now, life |-> life]])
  /\ UNCHANGED <<groups, pings, now, life, drawn, acked>>

(* ... the group is looked up (401 if there is none), ...                  *)
MatchGroup(r) ==
  /\ At(r, "match")
  /\ \E known \in Loaded(groups, {}) :
       IF call[r].group \in known THEN Goto(r, [call[r] EXCEPT !.at = "ping"]) ELSE Return(r)
  /\ UNCHANGED <<groups, pings, limiter, now, life, submitted, drawn, acked>>

NewestKeepsFirst(s) == SubSeq(s, 1, IF Len(s) > PingMax THEN PingMax ELSE Len(s))

(* drain: the last PING_MAX pings of a list.                               *)
Newest(s) == SubSeq(s, IF Len(s) > PingMax THEN Len(s) - PingMax + 1 ELSE 1, Len(s))

(* ... the list is loaded, or taken for empty, the ping appended, ...      *)
LoadPings(r) ==
  /\ At(r, "ping")
  /\ \E blind \in BOOLEAN :
       Goto(r, [at |-> "save", ping |-> call[r].ping, blind |-> blind,
                pings |-> Newest(Append(IF blind THEN <<>> ELSE pings, call[r].ping))])
  /\ UNCHANGED <<groups, pings, limiter, now, life, submitted, drawn, acked>>

(* The pings that a save of the copy of r still owes to their senders.     *)
Owed(r) == IF call[r].blind THEN {} ELSE acked

(* ... and the copy saved.                                                 *)
SavePings(r) ==
  /\ At(r, "save")
  /\ pings' = call[r].pings
  /\ acked' = Owed(r) \cup {call[r].ping}
  /\ Return(r)
  /\ UNCHANGED <<groups, limiter, now, life, submitted, drawn>>

(* A save that fails, before or after its transaction, answers 500.        *)
SaveFails(r) ==
  /\ \/ At(r, "save") /\ pings' = call[r].pings /\ acked' = Owed(r) /\ UNCHANGED groups
     \/ call[r].at \in {"create", "delete"} /\ groups' = call[r].groups /\ UNCHANGED <<pings, acked>>
     \/ call[r].at \in {"save", "create", "delete"} /\ UNCHANGED <<groups, pings, acked>>
  /\ Return(r)
  /\ UNCHANGED <<limiter, now, life, submitted, drawn>>

(* clear_admin_pings                                                       *)
ClearPings(r) ==
  /\ At(r, "idle")
  /\ pings' = <<>> /\ acked' = {}
  /\ UNCHANGED <<groups, limiter, call, now, life, submitted, drawn>>

(* admin_reset erases both tables.                                         *)
Reset(r) ==
  /\ At(r, "idle")
  /\ groups' = {}
  /\ pings' = <<>> /\ acked' = {}
  /\ UNCHANGED <<limiter, call, now, life, submitted, drawn>>

Tick ==
  /\ now < MaxTime
  /\ now' = now + 1
  /\ UNCHANGED <<groups, pings, limiter, call, life, submitted, drawn, acked>>

(* The process stops and is started again; the limiter was in memory.      *)
Restart ==
  /\ life < MaxLives
  /\ life' = life + 1
  /\ limiter' = [c \in Client |-> -1]
  /\ call' = [r \in Request |-> Idle]
  /\ UNCHANGED <<groups, pings, now, submitted, drawn, acked>>

Next ==
  \/ \E r \in Request :
       \/ \E g \in Group : CreateLoad(r, g) \/ DeleteLoad(r, g)
       \/ SaveGroups(r)
       \/ \E c \in Client, g \in Group : SubmitPing(r, c, g)
       \/ MatchGroup(r) \/ LoadPings(r) \/ SavePings(r)
       \/ SaveFails(r)
       \/ ClearPings(r) \/ Reset(r)
  \/ Tick \/ Restart

Spec == Init /\ [][Next]_vars

-------------------------------------------------------------------------------
(* A ping that was answered 201 is there for the administrator until the   *)
(* list is emptied ("vous etes notifie ici", admin.html), it is full of    *)
(* later ones, or a request saves a list over it that it could not read.   *)
PingsKept ==
  \A p \in acked :
    \/ p \in ToSet(pings)
    \/ Len(pings) = PingMax /\ \A i \in DOMAIN pings : pings[i].id > p.id

(* "Nombre maximal de groupes de ping" (MAX_GROUPS), even when creations   *)
(* overlap: what they overwrite they do not add.                           *)
GroupsBounded == Cardinality(groups) <= MaxGroups

(* "Intervalle minimal entre deux pings (rate-limit global)"               *)
(* (PING_MIN_INTERVAL): what is accepted while the process runs is that    *)
(* far apart.                                                              *)
PingsApartGlobally ==
  \A p, q \in acked : p.id < q.id /\ p.life = q.life => q.at - p.at >= PingInterval

===============================================================================
