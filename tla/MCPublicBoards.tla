---------------------------- MODULE MCPublicBoards ----------------------------
(* What the portal shows and keeps for the public, for TLC: the inbox of   *)
(* alerts, the pings of its groups and the official bulletins. The three   *)
(* share no state, so each is explored while the others rest. The handlers *)
(* of the last two load a whole list, change it and save it under a lock   *)
(* that they share: they are explored with requests that overlap and with  *)
(* requests that come one by one (the calm situations).                    *)
EXTENDS AlertInbox

CONSTANTS
  MaxLog,     \* bound: admissions explored in one process lifetime
  Requests,   \* those that overlap
  lone,       \* calm: the only request
  Client, Group, PingMax, PingInterval, MaxPings, \* see PingBoard
  FewGroups,  \* MAX_GROUPS where requests overlap...
  ManyGroups, \* ... and where they come one by one
  PingTime,   \* bound: last second explored with the pings...
  PingLives,  \* ... and starts of the process
  Name, MaxBulletins, \* see OfficialCache
  FewDates, BulletinTime, \* its Dates and MaxTime where requests overlap...
  ManyDates, CalmTime     \* ... and where they come one by one

ASSUME BoardsAssumption ==
  /\ FewGroups \in Nat
  /\ PingMax \in Nat \ {0}

VARIABLES
  explored,   \* one of Situations
  groups, pings, limiter, call, seconds, life, submitted, drawn, acked,
  cache, ingesting, clock, latest

Situations == {"inbox", "pings", "calm pings", "bulletins", "calm bulletins"}

pingVars == <<groups, pings, limiter, call, seconds, life, submitted, drawn, acked>>
officialVars == <<cache, ingesting, clock, latest>>
mcVars == <<explored, vars, pingVars, officialVars>>

Pings == INSTANCE PingBoard WITH
  Request <- Requests, MaxGroups <- FewGroups, MaxTime <- PingTime, MaxLives <- 1,
  now <- seconds

CalmPings == INSTANCE PingBoard WITH
  Request <- {lone}, MaxGroups <- ManyGroups, MaxTime <- PingTime, MaxLives <- PingLives,
  now <- seconds

Official == INSTANCE OfficialCache WITH
  Request <- Requests, Dates <- FewDates, MaxTime <- BulletinTime,
  call <- ingesting, now <- clock

CalmOfficial == INSTANCE OfficialCache WITH
  Request <- {lone}, Dates <- ManyDates, MaxTime <- CalmTime,
  call <- ingesting, now <- clock

ASSUME BulletinsAssumption == Official!OfficialAssumption /\ CalmOfficial!OfficialAssumption

MCTime == 0..2
LogBound == Len(log) <= MaxLog

MCInit ==
  /\ explored \in Situations
  /\ Init /\ (explored # "inbox" => now = 0)
  /\ IF explored = "calm pings" THEN CalmPings!Init ELSE Pings!Init
  /\ IF explored = "calm bulletins" THEN CalmOfficial!Init ELSE Official!Init

MCNext ==
  /\ \/ explored = "inbox" /\ Next /\ UNCHANGED <<pingVars, officialVars>>
     \/ explored = "pings" /\ Pings!Next /\ UNCHANGED <<vars, officialVars>>
     \/ explored = "calm pings" /\ CalmPings!Next /\ UNCHANGED <<vars, officialVars>>
     \/ explored = "bulletins" /\ Official!Next /\ UNCHANGED <<vars, pingVars>>
     \/ explored = "calm bulletins" /\ CalmOfficial!Next /\ UNCHANGED <<vars, pingVars>>
  /\ UNCHANGED explored

MCSpec == MCInit /\ [][MCNext]_mcVars

-------------------------------------------------------------------------------
(* Creations of groups that overlap do not exceed their number (MAX_GROUPS, *)
(* create_group), and a ping answered 201 is kept for the administrator    *)
(* while the list has room and can be read, when requests come one by one, *)
(* some of them failing (submit_ping).                                     *)
PingBoardKeepsWord ==
  /\ explored = "pings" => Pings!GroupsBounded
  /\ explored = "calm pings" => CalmPings!PingsKept

(* However requests overlap, the cache shows one bulletin per source and   *)
(* title, the most recent first, MAX_BULLETINS at most (ingest).           *)
BulletinsInOrder == Official!CacheInOrder

(* The lists the portal shows keep within their bounds, and keep what they *)
(* acknowledged, in its order.                                             *)
BoardsKeepWord == PingBoardKeepsWord /\ BulletinsInOrder

(* A bulletin that leaves a full cache is the oldest, when ingestions come *)
(* one by one and the cache could be read (ingest).                        *)
CalmDropsOldest ==
  [][explored = "calm bulletins" /\ ~CalmOfficial!Blind(lone) /\ cache'.bulletins # <<>> =>
       \A b \in CalmOfficial!Cached : (\A c \in CalmOfficial!Cached' : c.name # b.name) =>
          \A c \in CalmOfficial!Cached' : ~CalmOfficial!Before(b, c)]_mcVars

===============================================================================
