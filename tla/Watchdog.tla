------------------------------- MODULE Watchdog -------------------------------
(***************************************************************************)
(* The watchdog of the board (crates/cli/src/watchdog.rs, run by           *)
(* `sos-cli watchdog`). Opening the device arms a timer in the hardware    *)
(* that resets the board when it runs out; a process pets the timer, which *)
(* starts it anew, every Interval, as long as the daemon accepts a TCP     *)
(* connection. Time is counted in units of the hardware timer.             *)
(*                                                                         *)
(* A frozen daemon accepts nothing, but the kernel goes on completing      *)
(* connections for it until its backlog is full: the probes themselves     *)
(* fill it up, and only then fail.                                         *)
(***************************************************************************)
EXTENDS Integers

CONSTANTS
  Interval,      \* pause between two probes
  ProbeTimeout,  \* PROBE_TIMEOUT: patience of a probe
  Timeout,       \* of the hardware timer: the driver's, the code never sets it
  Backlog,       \* connections the kernel completes ahead of the daemon
  MaxStops       \* bound: times the watchdog process is stopped

Durations == {Interval, ProbeTimeout, Timeout, Backlog} \subseteq Nat \ {0}

VARIABLES
  daemon,    \* the portal: "serving", "frozen" or "down"
  pending,   \* connections in its backlog
  dog,       \* the watchdog process: [at, wait]
  timer,     \* the hardware: [armed, left]
  failed,    \* whether the last probe failed
  stops      \* times the watchdog process was stopped since the last reset

vars == <<daemon, pending, dog, timer, failed, stops>>

Off == [at |-> "off", wait |-> 0]
Init ==
  /\ daemon = "serving" /\ pending = 0
  /\ dog = Off /\ timer = [armed |-> FALSE, left |-> 0]
  /\ failed = FALSE /\ stops = 0

Connects == daemon # "down" /\ pending < Backlog

RestTwice == dog' = [at |-> "asleep", wait |-> 2 * Interval]
(* thread::sleep(interval)                                                 *)
Rest == dog' = [at |-> "asleep", wait |-> Interval]
Rearm == timer' = [armed |-> TRUE, left |-> Timeout]

-------------------------------------------------------------------------------
(* Watchdog::open.                                                         *)
Open ==
  /\ dog.at = "off"
  /\ Rearm
  /\ dog' = [at |-> "probing", wait |-> 0]
  /\ UNCHANGED <<daemon, pending, failed, stops>>

(* healthy(): a connection that is made, at once or within ProbeTimeout,   *)
(* is dropped, and stays in the backlog until the daemon accepts it.       *)
ProbeConnects ==
  /\ dog.at \in {"probing", "connecting"}
  /\ Connects
  /\ pending' = pending + 1
  /\ failed' = FALSE
  /\ Rearm
  /\ Rest
  /\ UNCHANGED <<daemon, stops>>

ProbeRefused ==
  /\ dog.at \in {"probing", "connecting"}
  /\ daemon = "down"
  /\ failed' = TRUE
  /\ Rest
  /\ UNCHANGED <<daemon, pending, timer, stops>>

ProbeHangs ==
  /\ dog.at = "probing"
  /\ daemon # "down" /\ ~Connects
  /\ dog' = [at |-> "connecting", wait |-> ProbeTimeout]
  /\ UNCHANGED <<daemon, pending, timer, failed, stops>>

ProbeTimesOutPets ==
  /\ dog.at = "connecting" /\ dog.wait = 0 /\ daemon # "down" /\ ~Connects
  /\ failed' = TRUE
  /\ Rearm
  /\ Rest
  /\ UNCHANGED <<daemon, pending, stops>>

ProbeTimesOut ==
  /\ dog.at = "connecting" /\ dog.wait = 0 /\ daemon # "down" /\ ~Connects
  /\ failed' = TRUE
  /\ Rest
  /\ UNCHANGED <<daemon, pending, timer, stops>>

Wake ==
  /\ dog.at = "asleep" /\ dog.wait = 0
  /\ dog' = [at |-> "probing", wait |-> 0]
  /\ UNCHANGED <<daemon, pending, timer, failed, stops>>

(* The process ends by a signal, the only way it does: run never returns,  *)
(* so the handle is not dropped, 'V' is not written, the timer goes on.    *)
Stop ==
  /\ dog.at # "off"
  /\ stops < MaxStops
  /\ stops' = stops + 1
  /\ dog' = Off
  /\ UNCHANGED <<daemon, pending, timer, failed>>

-------------------------------------------------------------------------------
(* The daemon and its other clients (external).                            *)
Freeze == daemon = "serving" /\ daemon' = "frozen" /\ UNCHANGED <<pending, dog, timer, failed, stops>>
Die == daemon # "down" /\ daemon' = "down" /\ pending' = 0 /\ UNCHANGED <<dog, timer, failed, stops>>
Relaunch == daemon = "down" /\ daemon' = "serving" /\ UNCHANGED <<pending, dog, timer, failed, stops>>
Accept == daemon = "serving" /\ pending > 0 /\ pending' = 0 /\ UNCHANGED <<daemon, dog, timer, failed, stops>>
Connect == Connects /\ pending' = pending + 1 /\ UNCHANGED <<daemon, dog, timer, failed, stops>>

(* The hardware: the board starts over, the watchdog process not yet       *)
(* started.                                                                *)
Reset ==
  /\ timer.armed /\ timer.left = 0
  /\ daemon' = "serving" /\ pending' = 0
  /\ dog' = Off /\ timer' = [armed |-> FALSE, left |-> 0]
  /\ failed' = FALSE /\ stops' = 0

(* Time passes while the watchdog process has nothing to do.               *)
Tick ==
  /\ timer.armed /\ timer.left > 0
  /\ dog.at # "probing"
  /\ dog.at \in {"asleep", "connecting"} => dog.wait > 0
  /\ dog.at = "connecting" => daemon # "down" /\ ~Connects
  /\ timer' = [timer EXCEPT !.left = @ - 1]
  /\ dog' = IF dog.at = "off" THEN dog ELSE [dog EXCEPT !.wait = @ - 1]
  /\ UNCHANGED <<daemon, pending, failed, stops>>

Probe == ProbeConnects \/ ProbeRefused \/ ProbeHangs \/ ProbeTimesOut \/ Wake
Proceed == Probe \/ Reset \/ Tick

Next ==
  \/ Open \/ Proceed \/ Stop
  \/ Freeze \/ Die \/ Relaunch \/ Accept \/ Connect

(* The hardware timer runs down and the watchdog process is scheduled;     *)
(* nothing starts or stops it for certain.                                 *)
Spec == Init /\ [][Next]_vars /\ WF_vars(Proceed)

-------------------------------------------------------------------------------
(* "jusqu'a ce que healthy() reste faux assez longtemps": what resets the  *)
(* board is a probe that failed, or a watchdog process that is not there...*)
FailureResets == [][Reset => failed \/ dog.at = "off"]_vars

(* ... or a timer that does not outlast the pause between two probes, with *)
(* the patience of the probe under way: run never compares them.           *)
Patience == IF dog.at = "connecting" THEN ProbeTimeout ELSE 0
ResetJustified == [][Reset => failed \/ dog.at = "off" \/ Timeout <= Interval + Patience]_vars

(* "la garantie de reprise quand le demon est fige": with the timer armed, *)
(* a daemon does not stay frozen.                                          *)
FrozenIsReset == (daemon = "frozen" /\ timer.armed) ~> daemon # "frozen"

===============================================================================
