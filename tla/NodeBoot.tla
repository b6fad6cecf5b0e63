------------------------------- MODULE NodeBoot -------------------------------
(***************************************************************************)
(* How a node starts (run, apps/sos-guide/src/main.rs), stops and is       *)
(* started again by systemd: the store it opens or does without, the       *)
(* identity and the registry it loads, the state it announces and the      *)
(* portal. Each step is one call of run; the process may stop before any   *)
(* of them. Of what the portal changes while it serves, this module has    *)
(* what a start reads back; a handler is one step here (TrustRing,         *)
(* NodePortal and DurableStore have the steps of each).                    *)
(***************************************************************************)
EXTENDS Integers

CONSTANTS
  Key, NoKey,  \* identities, none
  Settings,    \* what the administrator of the system may have set, see `settings`
  MaxStops     \* bound: times the process is stopped

VARIABLES
  settings, \* environment of the service: an identity imposed at each start
            \* (SOS_PRIVATE_KEY_PEM) or NoKey, a registry file (SOS_TRUSTED_NODES) or not
  disk,     \* of the store: "fine", "unwritable" or "unreadable"
  pem,      \* the file of the imposed identity can be read
  port,     \* the port of the portal is free
  stored,   \* the tables of the store that a start reads
  at,       \* the next call of run, "serving" or "down"
  mem,      \* what the process holds
  stops,    \* times it was stopped
  last      \* history: what is in force at the next start, if it is known

vars == <<settings, disk, pem, port, stored, at, mem, stops, last>>
environment == <<settings, disk, pem, port>>

ImposedKey == settings.imposed
RegistryFile == settings.registry

Calls == {"open", "identify", "trust", "phase", "spawn", "bind"}

(* mem.sure (history): what is in force is what the store holds.           *)
Nothing == [store |-> FALSE, key |-> NoKey, peers |-> "none",
            installed |-> FALSE, alert |-> FALSE, sure |-> FALSE]
InForce == [key |-> mem.key, peers |-> mem.peers,
            installed |-> mem.installed, alert |-> mem.alert]
Blank == [key |-> NoKey, peers |-> "none", installed |-> FALSE, alert |-> FALSE]

TypeOK ==
  /\ settings \in [imposed : Key \cup {NoKey}, registry : BOOLEAN]
  /\ disk \in {"fine", "unwritable", "unreadable"} /\ {pem, port} \subseteq BOOLEAN
  /\ at \in Calls \cup {"serving", "down"}
  /\ {mem.key, stored.key, last.key} \subseteq Key \cup {NoKey}
  /\ {mem.peers, stored.peers} \subseteq {"none", "file", "admin"}
  /\ stops \in 0..MaxStops

Init ==
  /\ settings \in Settings
  /\ disk = "fine" /\ pem = TRUE /\ port = TRUE
  /\ stored = Blank /\ last = Blank
  /\ at = "open" /\ mem = Nothing
  /\ stops = 0

-------------------------------------------------------------------------------
Goto(step) == at' = step

(* What the process leaves behind: if it had no store, what it found; if   *)
(* all it did was persisted, what is in force once it serves.              *)
Leaves ==
  IF ~mem.store \/ (mem.sure /\ at # "serving") THEN last
  ELSE IF mem.sure THEN InForce ELSE Blank

(* The process ends, by an error of run or from outside.                   *)
Exit ==
  /\ Goto("down") /\ mem' = Nothing
  /\ last' = Leaves
  /\ UNCHANGED stored

(* A transaction that turns the store into s. Its caller is told whether   *)
(* it succeeded: always on a disk that is fine, never on one that cannot   *)
(* be written, and one that fails may still be there later.                *)
Written(s, ok) ==
  /\ ok => disk # "unwritable" /\ stored' = s
  /\ ~ok => disk # "fine" /\ stored' \in {stored, s}

(* A read that fails.                                                      *)
ReadFails == disk = "unreadable"

(* open_store: opening the database, which writes its tables, or nothing:  *)
(* "Un echec n'est pas fatal".                                             *)
OpenStore ==
  /\ at = "open" /\ Goto("identify")
  /\ \/ disk # "unwritable" /\ mem' = [mem EXCEPT !.store = TRUE, !.sure = TRUE]
     \/ disk # "fine" /\ UNCHANGED mem
  /\ UNCHANGED <<stored, last>>

(* persist_identity: a failure is logged.                                  *)
Persist(k) ==
  \E ok \in BOOLEAN :
    /\ Written([stored EXCEPT !.key = k], ok)
    /\ mem' = [mem EXCEPT !.key = k, !.sure = @ /\ ok]

KeepUnpersisted(k) == mem' = [mem EXCEPT !.key = k] /\ UNCHANGED stored

(* Without a store the identity lasts as long as the process.              *)
Adopt(k) ==
  IF mem.store THEN Persist(k)
  ELSE mem' = [mem EXCEPT !.key = k] /\ UNCHANGED stored

(* A new identity is none of those that are still known.                   *)
Fresh == Key \ {ImposedKey, mem.key, stored.key, last.key}
Generate == \E k \in Fresh : Adopt(k)

(* load_keyring: the imposed identity, which must be readable, or else the *)
(* stored one, the read of which must not fail, or else a new one.         *)
LoadKeyring ==
  /\ at = "identify" /\ Goto("trust")
  /\ \/ ImposedKey # NoKey /\ pem /\ Adopt(ImposedKey)
     \/ /\ ImposedKey = NoKey /\ mem.store /\ stored.key # NoKey
        /\ mem' = [mem EXCEPT !.key = stored.key]
        /\ UNCHANGED stored
     \/ ImposedKey = NoKey /\ (mem.store => stored.key = NoKey) /\ Generate
  /\ UNCHANGED last

KeyringFails ==
  /\ at = "identify"
  /\ IF ImposedKey # NoKey THEN ~pem ELSE mem.store /\ ReadFails
  /\ Exit

(* load_trusted_nodes_into: the stored registry, or else that of the file, *)
(* which is then stored; nothing is fatal.                                 *)
LoadTrusted ==
  /\ at = "trust" /\ Goto("phase")
  /\ \/ /\ mem.store /\ stored.peers # "none"
        /\ mem' = [mem EXCEPT !.peers = stored.peers]
        /\ UNCHANGED stored
     \/ /\ mem.store => stored.peers = "none" \/ ReadFails
        /\ LET swallowed == mem.store /\ stored.peers # "none"
           IN  IF ~RegistryFile
               THEN mem' = [mem EXCEPT !.sure = @ /\ ~swallowed] /\ UNCHANGED stored
               ELSE IF ~mem.store
               THEN mem' = [mem EXCEPT !.peers = "file"] /\ UNCHANGED stored
               ELSE \E ok \in BOOLEAN :
                      /\ Written([stored EXCEPT !.peers = "file"], ok)
                      /\ mem' = [mem EXCEPT !.peers = "file",
                                            !.sure = @ /\ ok /\ ~swallowed]
  /\ UNCHANGED last

(* The state announced at first is the stored one; what cannot be read is  *)
(* taken for absent.                                                       *)
Phase ==
  /\ at = "phase" /\ Goto("spawn")
  /\ \/ mem' = [mem EXCEPT !.installed = mem.store /\ stored.installed,
                           !.alert = mem.store /\ stored.alert]
     \/ /\ mem.store /\ ReadFails
        /\ \E i, a \in BOOLEAN :
             /\ i => stored.installed
             /\ a => stored.alert
             /\ mem' = [mem EXCEPT !.installed = i, !.alert = a, !.sure = FALSE]
  /\ UNCHANGED <<stored, last>>

(* The network, the gateway and the radio are tasks of their own, whose    *)
(* errors are logged: whatever they do, run goes on.                       *)
Spawn ==
  /\ at = "spawn" /\ Goto("bind")
  /\ UNCHANGED <<stored, mem, last>>

(* serve: the portal binds its port, or the process exits.                 *)
Bind ==
  /\ at = "bind"
  /\ \/ port /\ Goto("serving") /\ UNCHANGED <<stored, mem, last>>
     \/ ~port /\ Exit

Boot ==
  /\ OpenStore \/ LoadKeyring \/ KeyringFails \/ LoadTrusted \/ Phase \/ Spawn \/ Bind
  /\ UNCHANGED <<environment, stops>>

-------------------------------------------------------------------------------
(* A handler that stores a change and, if told that it is, puts it in      *)
(* force; without a store it answers 503.                                  *)
Change(s, m) ==
  /\ at = "serving" /\ mem.store
  /\ \E ok \in BOOLEAN :
       /\ Written(s, ok)
       /\ mem' = IF ok THEN m ELSE [mem EXCEPT !.sure = FALSE]
  /\ UNCHANGED <<environment, at, stops, last>>

(* install_node, which takes a read that fails for "not installed".        *)
Install ==
  /\ ~stored.installed \/ ReadFails
  /\ Change([stored EXCEPT !.installed = TRUE], [mem EXCEPT !.installed = TRUE])

(* set_alert, clear_alert                                                  *)
SetAlert(a) ==
  Change([stored EXCEPT !.alert = a], [mem EXCEPT !.alert = a])

(* admin_reset leaves the ring alone.                                      *)
Reset ==
  Change([Blank EXCEPT !.key = stored.key],
         [mem EXCEPT !.installed = FALSE, !.alert = FALSE,
                     !.sure = @ /\ mem.peers = "none"])

(* set_trusted ("admin") and clear_trusted ("none"), which do without a    *)
(* store; a registry cleared comes back from the file.                     *)
SetTrusted(peers) ==
  \/ Change([stored EXCEPT !.peers = peers],
            [mem EXCEPT !.peers = peers,
                        !.sure = @ /\ (peers = "none" => ~RegistryFile)])
  \/ /\ at = "serving" /\ ~mem.store
     /\ mem' = [mem EXCEPT !.peers = peers]
     /\ UNCHANGED <<environment, stored, at, stops, last>>

(* rotate_secrets: the new ring has the stored registry, if it can be read. *)
(* Where an identity is imposed, that one comes back at the next start.    *)
Rotate(k) ==
  \E peers \in {stored.peers} \cup (IF ReadFails THEN {"none"} ELSE {}) :
    Change([stored EXCEPT !.key = k],
           [mem EXCEPT !.key = k, !.peers = peers,
                       !.sure = @ /\ ImposedKey = NoKey /\ peers = stored.peers])

(* The process is stopped or dies, at any moment.                          *)
Stop ==
  /\ at # "down" /\ stops < MaxStops
  /\ stops' = stops + 1
  /\ Exit
  /\ UNCHANGED environment

RelaunchAfterCrash ==
  /\ at = "down" /\ stops = 0 /\ Goto("open")
  /\ UNCHANGED <<environment, stored, mem, stops, last>>

(* Restart=always: RestartSec later it is started again.                   *)
Relaunch ==
  /\ at = "down" /\ Goto("open")
  /\ UNCHANGED <<environment, stored, mem, stops, last>>

(* The disk, the file of the identity and the port of the portal come and  *)
(* go.                                                                     *)
Environment ==
  /\ \/ disk' \in {"fine", "unwritable", "unreadable"} /\ UNCHANGED <<pem, port>>
     \/ pem' = ~pem /\ UNCHANGED <<disk, port>>
     \/ port' = ~port /\ UNCHANGED <<disk, pem>>
  /\ UNCHANGED <<settings, stored, at, mem, stops, last>>

Next ==
  \/ Boot \/ Relaunch \/ Stop
  \/ Install \/ Reset
  \/ \E a \in BOOLEAN : SetAlert(a)
  \/ \E peers \in {"none", "admin"} : SetTrusted(peers)
  \/ \E k \in Fresh : Rotate(k)
  \/ Environment

(* The process takes its steps, and systemd starts it again.               *)
Spec == Init /\ [][Next]_vars /\ WF_vars(Boot) /\ WF_vars(Relaunch)

-------------------------------------------------------------------------------
(* Nothing but its port, the file of an imposed identity and a store that  *)
(* cannot be read keeps the portal from serving for good: it comes back    *)
(* without its store, its registry or its subsystems ("le noeud doit       *)
(* servir meme si le disque n'est pas inscriptible", open_store).          *)
Able == port /\ (ImposedKey # NoKey => pem) /\ disk # "unreadable"
PortalComesUp == <>[]Able => <>[](at = "serving")

(* A node that starts with its store, and reads it, is what it was when it *)
(* stopped, if every change had been acknowledged: its identity, whom it   *)
(* trusts, its phase and its alert ("coherence apres reboot", run); starts *)
(* that had to do without the store, and were served from memory, change   *)
(* nothing to that.                                                        *)
SameAsBefore ==
  Bind /\ at' = "serving" /\ mem.sure /\ last.key # NoKey => InForce = last
ComesBackAsItWas == [][SameAsBefore]_vars

===============================================================================
