------------------------------- MODULE TileCache -------------------------------
(***************************************************************************)
(* The map tiles a portal keeps for use without a network                  *)
(* (crates/portal/src/lib.rs: download_map_tiles, fetch_tile_grid, the     *)
(* purge of admin_reset). They are on a partition mounted read-only: a     *)
(* handler takes tiles_lock, opens a window in which the partition is      *)
(* writable (RwWindow) and closes it when it ends, whatever way it ends.   *)
(* The commands that open and close it remount the partition; so does the  *)
(* command by which the store commits to the same partition                *)
(* (crates/storage/src/lib.rs), which knows nothing of tiles_lock.         *)
(*                                                                         *)
(* A client that hangs up drops its handler at an await: the guards are    *)
(* dropped in order, but the curl process started for a tile goes on.      *)
(***************************************************************************)
EXTENDS Integers

CONSTANTS
  Request,     \* handlers that may be in progress at the same time
  Place,       \* positions a node may be given
  None,        \* no place, no handler
  Grid,        \* number of tiles around a place
  Commits      \* whether the store commits through its own window

VARIABLES
  place,    \* position in the configuration
  online,   \* whether curl gets an answer
  mount,    \* the partition: "ro" or "rw"
  stuck,    \* whether the last remount to read-only failed
  store,    \* the commit of the store: "idle" or "copying"
  holder,   \* of tiles_lock
  call,     \* call[r]: where handler r is, its place, the tiles it has gone
            \* through, those it got, whether its window did open
  tile,     \* tile[p][i]: "none", "cut" (being written), "whole", or
            \* "spoilt": left behind by a process nobody waited for
  orphan,   \* tiles still written by such a process
  meta      \* the place meta.json tells the pages to centre on

vars == <<place, online, mount, stuck, store, holder, call, tile, orphan, meta>>
files == <<tile, orphan, meta>>
world == <<place, online, store>>

NoTiles == [p \in Place |-> [i \in 1..Grid |-> "none"]]
Done == [at |-> "idle", place |-> None, seen |-> 0, got |-> 0, open |-> FALSE]

Init ==
  /\ place \in Place /\ online \in BOOLEAN
  /\ mount = "ro" /\ stuck = FALSE /\ store = "idle"
  /\ holder = None /\ call = [r \in Request |-> Done]
  /\ tile = NoTiles /\ orphan = {} /\ meta = None

At(r, step) == call[r].at = step
Goto(r, step) == call' = [call EXCEPT ![r].at = step]
Upcoming(r) == call[r].seen + 1
Put(p, i, t) == tile' = [tile EXCEPT ![p][i] = t]

-------------------------------------------------------------------------------
(* The position is read before the lock is waited for. A factory reset     *)
(* forgets it first and purges the tiles later.                            *)
StartDownload(r) ==
  /\ At(r, "idle") /\ place # None
  /\ call' = [call EXCEPT ![r] = [Done EXCEPT !.at = "waiting", !.place = place]]
  /\ UNCHANGED <<world, mount, stuck, holder, files>>

StartPurge(r) ==
  /\ At(r, "idle")
  /\ place' = None
  /\ Goto(r, "waiting")
  /\ UNCHANGED <<online, store, mount, stuck, holder, files>>

Acquire(r) ==
  /\ At(r, "waiting") /\ holder = None
  /\ holder' = r
  /\ Goto(r, "opening")
  /\ UNCHANGED <<world, mount, stuck, files>>

(* RwWindow::open, best effort.                                            *)
OpenWindow(r) ==
  /\ At(r, "opening")
  /\ \E opens \in BOOLEAN :
       /\ mount' = IF opens THEN "rw" ELSE mount
       /\ call' = [call EXCEPT ![r].open = opens,
                               ![r].at = IF call[r].place = None
                                         THEN "purging" ELSE "fetching"]
  /\ UNCHANGED <<world, stuck, holder, files>>

(* fetch_tile_grid: on a partition that is not writable the handler ends   *)
(* with an error, or passes to the next tile if the directory was there.   *)
FetchStart(r) ==
  /\ At(r, "fetching") /\ call[r].seen < Grid
  /\ IF mount = "rw"
     THEN /\ Put(call[r].place, Upcoming(r), "cut")
          /\ Goto(r, "writing")
     ELSE /\ \/ Goto(r, "closing")
             \/ call' = [call EXCEPT ![r].seen = @ + 1]
          /\ UNCHANGED tile
  /\ UNCHANGED <<world, mount, stuck, holder, orphan, meta>>

Got(r) ==
  /\ online
  /\ Put(call[r].place, Upcoming(r), IF <<call[r].place, Upcoming(r)>> \in orphan THEN "spoilt" ELSE "whole")
  /\ call' = [call EXCEPT ![r].at = "fetching", ![r].seen = @ + 1, ![r].got = @ + 1]

Failed(r) == call' = [call EXCEPT ![r].at = "fetching", ![r].seen = @ + 1]

FetchKeepsFailed(r) ==
  /\ At(r, "writing")
  /\ Got(r) \/ (Failed(r) /\ UNCHANGED tile)
  /\ UNCHANGED <<world, mount, stuck, holder, orphan, meta>>

(* curl ends; its file is removed if it failed. A tile that an abandoned   *)
(* process writes at the same time is spoilt.                              *)
FetchEnd(r) ==
  /\ At(r, "writing")
  /\ Got(r) \/ (Failed(r) /\ Put(call[r].place, Upcoming(r), "none"))
  /\ UNCHANGED <<world, mount, stuck, holder, orphan, meta>>

(* meta.json, unless no tile was got (502).                                *)
WriteMeta(r) ==
  /\ At(r, "fetching") /\ call[r].seen = Grid
  /\ meta' = IF call[r].got > 0 /\ mount = "rw" THEN call[r].place ELSE meta
  /\ Goto(r, "closing")
  /\ UNCHANGED <<world, mount, stuck, holder, tile, orphan>>

(* remove_dir_all(tiles_dir), best effort.                                 *)
Purge(r) ==
  /\ At(r, "purging")
  /\ IF mount = "rw" THEN tile' = NoTiles /\ meta' = None ELSE UNCHANGED <<tile, meta>>
  /\ Goto(r, "closing")
  /\ UNCHANGED <<world, mount, stuck, holder, orphan>>

-------------------------------------------------------------------------------
(* A remount to read-only fails while a file is open for writing (here, by *)
(* a process left behind), or for reasons of its own.                      *)
Remount ==
  \/ orphan = {} /\ mount' = "ro" /\ stuck' = FALSE
  \/ stuck' = TRUE /\ UNCHANGED mount

(* The guards are dropped in the reverse order of their declaration: the   *)
(* window is closed, then the lock released.                               *)
CloseWindow(r) ==
  /\ At(r, "closing")
  /\ Remount
  /\ Goto(r, "releasing")
  /\ UNCHANGED <<world, holder, files>>

Release(r) ==
  /\ At(r, "releasing")
  /\ holder' = None
  /\ call' = [call EXCEPT ![r] = Done]
  /\ UNCHANGED <<world, mount, stuck, files>>

(* The client hangs up while the handler awaits the lock, the directory of *)
(* a tile, curl, or the purge (which is then done, or not).                *)
HangUp(r) ==
  /\ \/ At(r, "waiting") /\ call' = [call EXCEPT ![r] = Done] /\ UNCHANGED orphan
     \/ At(r, "fetching") /\ Goto(r, "closing") /\ UNCHANGED orphan
     \/ At(r, "purging") /\ Goto(r, "closing") /\ UNCHANGED orphan
     \/ /\ At(r, "writing")
        /\ orphan' = orphan \cup {<<call[r].place, Upcoming(r)>>}
        /\ Goto(r, "closing")
  /\ UNCHANGED <<world, mount, stuck, holder, tile, meta>>

(* An abandoned curl ends, well or badly; nobody removes its file. A file  *)
(* that was removed under it is gone, one that was fetched again is        *)
(* spoilt.                                                                 *)
OrphanEnds ==
  /\ \E o \in orphan :
       /\ orphan' = orphan \ {o}
       /\ LET beingFetched == \E r \in Request : At(r, "writing") /\ <<call[r].place, Upcoming(r)>> = o
          IN \E t \in {"whole", "spoilt"} :
               /\ t = "whole" => online /\ tile[o[1]][o[2]] # "spoilt"
               /\ IF tile[o[1]][o[2]] = "none" \/ beingFetched THEN UNCHANGED tile
                  ELSE Put(o[1], o[2], t)
  /\ UNCHANGED <<world, mount, stuck, holder, call, meta>>

(* The command by which the store commits opens and closes a window too.   *)
StoreOpens ==
  /\ Commits /\ store = "idle"
  /\ store' = "copying" /\ mount' = "rw"
  /\ UNCHANGED <<place, online, stuck, holder, call, files>>

StoreCloses ==
  /\ store = "copying"
  /\ store' = "idle"
  /\ IF \E r \in Request : At(r, "writing") THEN stuck' = TRUE /\ UNCHANGED mount ELSE Remount
  /\ UNCHANGED <<place, online, holder, call, files>>

(* An administrator moves the node; the network comes and goes.            *)
Move == place' \in Place /\ UNCHANGED <<online, mount, stuck, store, holder, call, files>>
Connectivity == online' = ~online /\ UNCHANGED <<place, mount, stuck, store, holder, call, files>>

Handle(r) ==
  \/ StartDownload(r) \/ StartPurge(r) \/ Acquire(r) \/ OpenWindow(r)
  \/ FetchStart(r) \/ FetchEnd(r) \/ WriteMeta(r) \/ Purge(r)
  \/ CloseWindow(r) \/ Release(r) \/ HangUp(r)

Next ==
  \/ \E r \in Request : Handle(r)
  \/ OrphanEnds \/ StoreOpens \/ StoreCloses \/ Move \/ Connectivity

Spec == Init /\ [][Next]_vars

-------------------------------------------------------------------------------
(* "une fenetre d'ecriture le temps du telechargement, serialisee (un seul *)
(* ecrivain)": a handler whose window opened finds the partition writable  *)
(* until it closes it.                                                     *)
WriterHasWindow ==
  \A r \in Request :
    call[r].open /\ call[r].at \in {"fetching", "writing", "purging"} => mount = "rw"

(* RwWindow: with nobody writing the partition is read-only, whatever way  *)
(* the handlers ended, unless the last remount failed.                     *)
ClosedAtRest == holder = None /\ store = "idle" /\ ~stuck => mount = "ro"

(* "pas de tuile tronquee": a truncated tile is being written, unless a    *)
(* process nobody waits for left it.                                       *)
NoCutTile ==
  \A p \in Place, i \in 1..Grid :
    tile[p][i] = "cut" =>
      \/ <<p, i>> \in orphan
      \/ \E r \in Request : At(r, "writing") /\ call[r].place = p /\ Upcoming(r) = i

===============================================================================
