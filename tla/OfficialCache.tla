----------------------------- MODULE OfficialCache -----------------------------
(***************************************************************************)
(* The cache of official bulletins (OfficialCache, crates/core/src/        *)
(* official.rs) and the handlers that change it (ingest_official,          *)
(* clear_official in crates/portal/src/lib.rs). Like the ping lists, the   *)
(* cache is loaded, changed and saved whole, with the node locked for      *)
(* reading. A bulletin is known by its source and title together.          *)
(***************************************************************************)
EXTENDS Integers, Sequences, FiniteSets, SequencesExt

CONSTANTS
  Request,      \* requests that may be in progress at the same time
  Name,         \* source and title of a bulletin
  Dates,        \* dates of publication, 0 for a bulletin without one
  MaxBulletins, \* MAX_BULLETINS (50)
  MaxTime       \* bound: last second explored

OfficialAssumption == Dates \subseteq Int /\ MaxBulletins \in Nat

VARIABLES
  cache,    \* in the store: bulletins and `updated`
  call,     \* call[r]: the copy request r is about to save, if any
  now,
  latest    \* history: latest[n], the last bulletin of that name answered 201

vars == <<cache, call, now, latest>>

NoBulletin == [name |-> "none"]
Idle == [at |-> "idle"]
EmptyCache == [bulletins |-> <<>>, updated |-> 0]
At(r, step) == call[r].at = step

Init ==
  /\ cache = EmptyCache
  /\ call = [r \in Request |-> Idle]
  /\ now = 1
  /\ latest = [n \in Name |-> NoBulletin]

-------------------------------------------------------------------------------
(* The most recent first, by publication, then by ingestion.               *)
Before(a, b) == a.published > b.published \/ (a.published = b.published /\ a.fetched > b.fetched)

(* sort_by is stable: a bulletin comes after those that go before it, and  *)
(* positions decide between equals.                                        *)
SortedByDate(s) ==
  LET first(i, j) == Before(s[i], s[j]) \/ (~Before(s[j], s[i]) /\ i < j)
      place(i) == Cardinality({j \in DOMAIN s : first(j, i)}) + 1
  IN [k \in DOMAIN s |-> s[CHOOSE i \in DOMAIN s : place(i) = k]]

(* A bulletin takes the place of the one of the same name, or is added.    *)
Replaced(s, b) ==
  IF \E i \in DOMAIN s : s[i].name = b.name
  THEN [i \in DOMAIN s |-> IF s[i].name = b.name THEN b ELSE s[i]]
  ELSE Append(s, b)

TruncatedFirst(s, b) ==
  LET t == SubSeq(s, 1, IF Len(s) < MaxBulletins THEN Len(s) ELSE MaxBulletins - 1)
  IN SortedByDate(Replaced(t, b))

(* ingest: sorted, then cut at MAX_BULLETINS.                              *)
Merged(s, b) ==
  LET sorted == SortedByDate(Replaced(s, b))
  IN SubSeq(sorted, 1, IF Len(sorted) < MaxBulletins THEN Len(sorted) ELSE MaxBulletins)

Latest(s) ==
  LET dates == {s[i].fetched : i \in DOMAIN s} \cup {0}
  IN CHOOSE d \in dates : \A e \in dates : e <= d

(* ingest_official loads the cache, the empty one if it cannot be read or  *)
(* parsed, and ingests the bulletin, ...                                   *)
Ingest(r, n, date) ==
  LET b == [name |-> n, published |-> date, fetched |-> now]
  IN
  /\ At(r, "idle")
  /\ \E blind \in BOOLEAN :
       LET s == Merged(IF blind THEN <<>> ELSE cache.bulletins, b)
       IN call' = [call EXCEPT ![r] = [at |-> "save", bulletin |-> b, blind |-> blind,
                                       cache |-> [bulletins |-> s, updated |-> Latest(s)]]]
  /\ UNCHANGED <<cache, now, latest>>

(* Request r is about to save a cache that it could not read.              *)
Blind(r) == At(r, "save") /\ call[r].blind

(* ... then saves its copy: 201 ...                                        *)
Save(r) ==
  /\ At(r, "save")
  /\ cache' = call[r].cache
  /\ latest' = [latest EXCEPT ![call[r].bulletin.name] = call[r].bulletin]
  /\ call' = [call EXCEPT ![r] = Idle]
  /\ UNCHANGED now

(* ... or fails, before its transaction or after it (snapshot_to): 500.    *)
SaveFails(r) ==
  /\ At(r, "save")
  /\ cache' \in {cache, call[r].cache}
  /\ call' = [call EXCEPT ![r] = Idle]
  /\ UNCHANGED <<now, latest>>

(* clear_official, and the share of admin_reset.                           *)
Clear(r) ==
  /\ At(r, "idle")
  /\ cache' = EmptyCache
  /\ latest' = [n \in Name |-> NoBulletin]
  /\ UNCHANGED <<call, now>>

Tick ==
  /\ now < MaxTime
  /\ now' = now + 1
  /\ UNCHANGED <<cache, call, latest>>

Next ==
  \/ \E r \in Request :
       \/ \E n \in Name, d \in Dates : Ingest(r, n, d)
       \/ Save(r) \/ SaveFails(r) \/ Clear(r)
  \/ Tick

Spec == Init /\ [][Next]_vars

-------------------------------------------------------------------------------
Cached == ToSet(cache.bulletins)

(* However requests overlap, the cache shows one bulletin per name, the    *)
(* most recent first, MAX_BULLETINS at most.                               *)
CacheInOrder ==
  /\ Len(cache.bulletins) <= MaxBulletins
  /\ \A i, j \in DOMAIN cache.bulletins : i < j =>
       /\ cache.bulletins[i].name # cache.bulletins[j].name
       /\ ~Before(cache.bulletins[j], cache.bulletins[i])

(* A bulletin answered 201 ("bulletin mis en cache", ingest_official) is   *)
(* in the cache right after.                                               *)
IngestedIsShown ==
  [][\A r \in Request : Save(r) => call[r].bulletin \in Cached']_vars

(* "Horodatage Unix de la derniere ingestion" (OfficialCache::updated).    *)
UpdatedIsLastIngest ==
  \A n \in Name : latest[n] # NoBulletin => cache.updated >= latest[n].fetched

===============================================================================
