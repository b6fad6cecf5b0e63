----------------------------- MODULE MCMaintenance -----------------------------
(* What keeps a node in order, for TLC: its watchdog, the update of its    *)
(* binary and the tiles of its map. They share nothing, so each is         *)
(* explored while the others rest. The tiles are explored twice: alone on  *)
(* their partition, and with a store that commits to it too.               *)
EXTENDS Integers

CONSTANTS
  Interval, ProbeTimeout, Timeout, Backlog, MaxStops, \* see Watchdog
  Versions,             \* Versions[i]: parts of the version of release i
  MaxPublish, MaxFaults, \* see OtaUpdate
  Requests, Places, NoOne, Grid \* see TileCache

VARIABLES
  explored,   \* "watchdog", "update", "tiles" or "shared tiles"
  daemon, pending, dog, timer, failed, stops,
  server, file, slot, run, puts, faults,
  place, online, mount, stuck, commit, holder, call, tile, orphan, meta

dogVars == <<daemon, pending, dog, timer, failed, stops>>
updateVars == <<server, file, slot, run, puts, faults>>
tileVars == <<place, online, mount, stuck, commit, holder, call, tile, orphan, meta>>
mcVars == <<explored, dogVars, updateVars, tileVars>>

Dog == INSTANCE Watchdog

(* Durations are positive, releases are numbered from the factory's.       *)
ASSUME MaintenanceAssumption ==
  /\ Dog!Durations
  /\ DOMAIN Versions \subseteq Nat /\ 0 \in DOMAIN Versions
  /\ NoOne \notin Requests \cup Places
  /\ Grid \in Nat

(* 0.1.9, 0.1.10 and 0.2: versions that strings would not rank.            *)
MCVersions == [i \in 0..2 |-> CASE i = 0 -> <<0, 1, 9>> [] i = 1 -> <<0, 1, 10>> [] i = 2 -> <<0, 2>>]
Crond == "crond"

Update == INSTANCE OtaUpdate WITH Updater <- {Crond}, Version <- Versions

Tiles == INSTANCE TileCache WITH
  Request <- Requests, Place <- Places, None <- NoOne, Commits <- FALSE, store <- commit

SharedTiles == INSTANCE TileCache WITH
  Request <- Requests, Place <- Places, None <- NoOne, Commits <- TRUE, store <- commit

MCInit ==
  /\ explored \in {"watchdog", "update", "tiles", "shared tiles"}
  /\ Dog!Init /\ Update!Init /\ Tiles!Init

MCNext ==
  /\ \/ explored = "watchdog" /\ Dog!Next /\ UNCHANGED <<updateVars, tileVars>>
     \/ explored = "update" /\ Update!Next /\ UNCHANGED <<dogVars, tileVars>>
     \/ explored = "tiles" /\ Tiles!Next /\ UNCHANGED <<dogVars, updateVars>>
     \/ explored = "shared tiles" /\ SharedTiles!Next /\ UNCHANGED <<dogVars, updateVars>>
  /\ UNCHANGED explored

(* The fairness of Watchdog and of OtaUpdate.                              *)
MCSpec ==
  /\ MCInit /\ [][MCNext]_mcVars
  /\ WF_dogVars(explored = "watchdog" /\ Dog!Proceed)
  /\ WF_updateVars(explored = "update" /\ Update!Advance(Crond))

-------------------------------------------------------------------------------
(* The hardware resets the board only if the last probe failed, the        *)
(* watchdog process is not there or the timer is too short for the pause   *)
(* and the probe (watchdog::run).                                          *)
ResetJustified == Dog!ResetJustified

(* With a daemon frozen while the timer is armed, the board is reset       *)
(* unless the daemon recovers (watchdog::run).                             *)
FrozenDaemonIsReset == (explored = "watchdog" /\ daemon = "frozen" /\ timer.armed) ~> daemon # "frozen"

(* The slot holds a manifest signed by the publisher and its binary        *)
(* (verify_manifest).                                                      *)
SlotVerified == Update!SlotVerified

(* The release that runs is replaced by an earlier one only by an updater  *)
(* that could not read the version installed (current_version).            *)
NeverDowngrade == Update!NeverDowngrade

(* A release offered for good is installed, or a later one (version_gt).   *)
UpdateArrives == explored = "update" => Update!UpdateArrives

(* With nobody writing the partition is read-only, unless the last remount *)
(* failed (RwWindow); a handler whose window opened finds it writable until *)
(* it closes it, when the store does not commit to it; and a truncated tile *)
(* is being written, unless a process that nobody waits for left it        *)
(* (fetch_tile_grid).                                                      *)
TilesInOrder ==
  /\ Tiles!ClosedAtRest /\ Tiles!NoCutTile
  /\ explored = "tiles" => Tiles!WriterHasWindow

===============================================================================
