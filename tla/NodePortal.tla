------------------------------ MODULE NodePortal ------------------------------
(***************************************************************************)
(* The administration of one node: the handlers of crates/portal/src/lib.rs *)
(* that change its configuration, its administrator, its active alert and  *)
(* its sessions, over the store (crates/storage) and the runtime signal    *)
(* sent to the network (crates/core/src/runtime.rs).                       *)
(*                                                                         *)
(* Requests run in parallel. They share the node under its lock: most      *)
(* handlers hold it for READING while they write in the store, so that     *)
(* only the single transactions are atomic; install_node and               *)
(* rotate_secrets hold it exclusively. A request is at "idle" or waiting   *)
(* before the next step of its handler; a refused request changes nothing and *)
(* is left out.                                                            *)
(***************************************************************************)
EXTENDS Integers, FiniteSets

CONSTANTS
  Request,      \* requests that may be in progress at the same time
  Password,     \* administrator passwords
  NoPassword,   \* none is set
  Field,        \* keys of the configuration other than "installed"
  Value,        \* their values
  Default,      \* the value of a key that is absent
  StoreMayFail, \* a read of the store may fail, and a write, before or after
                \* its transaction
  MayRestart,   \* the process may stop at any moment and be started again
  MaxEra,       \* bound: factory resets explored
  MaxMisreads   \* bound: installed nodes taken for new ones between two resets

ASSUME PortalAssumption ==
  /\ NoPassword \notin Password /\ Default \in Value
  /\ StoreMayFail \in BOOLEAN /\ MayRestart \in BOOLEAN
  /\ MaxEra \in Nat /\ MaxMisreads \in Nat

VARIABLES
  store,      \* the tables of the node's database
  signal,     \* the runtime signal last sent to the network
  sessions,   \* open administrator sessions
  call,       \* call[r]: where request r is in its handler and what it carries
  era,        \* history: factory resets so far
  installs,   \* history: install requests answered 201 in this era
  misreads,   \* history: in this era, install requests let through by a check
              \* under the lock that failed to read that the node is installed
  wanted      \* history: per key, what the last request to change it wrote

history == <<era, installs, misreads, wanted>>
vars == <<store, signal, sessions, call, era, installs, misreads, wanted>>

Blank == [f \in Field |-> Default]
FactoryStore == [installed |-> FALSE, password |-> NoPassword, alert |-> FALSE, fields |-> Blank]

(* Where a request may be: before it takes the lock of the node, ...       *)
Waiting == {"idle", "install", "config", "alert", "clear", "reset", "rotate",
            "login-open", "reset-sessions"}
(* ... holding it for reading, or holding it exclusively.                  *)
Reading == {"config-save", "config-password", "alert-on", "alert-off", "reset-signal"}
Writing == {"install-password"}

(* at: the step about to be taken; pw: the password sent, if any; keys: the *)
(* keys to change; fields: what to write; era: when a password was verified *)
Call == [at : Waiting \cup Reading \cup Writing, pw : Password \cup {NoPassword},
         keys : SUBSET Field, fields : [Field -> Value], era : 0..MaxEra]
Idle == [at |-> "idle", pw |-> NoPassword, keys |-> {}, fields |-> Blank, era |-> 0]

TypeOK ==
  /\ store \in [installed : BOOLEAN, password : Password \cup {NoPassword},
                alert : BOOLEAN, fields : [Field -> Value]]
  /\ signal \in [installed : BOOLEAN, alert : BOOLEAN]
  /\ sessions \subseteq [by : Request, era : 0..MaxEra]
  /\ call \in [Request -> Call]
  /\ era \in 0..MaxEra
  /\ installs \in Nat /\ misreads \in Nat
  /\ wanted \in [Field -> Value]

Init ==
  /\ store = FactoryStore
  /\ signal = [installed |-> FALSE, alert |-> FALSE]
  /\ sessions = {}
  /\ call = [r \in Request |-> Idle]
  /\ era = 0
  /\ installs = 0 /\ misreads = 0
  /\ wanted = Blank

-------------------------------------------------------------------------------
At(r, step) == call[r].at = step
MayRead == \A r \in Request : call[r].at \notin Writing
MayWrite == \A r \in Request : call[r].at \notin Reading \cup Writing

Goto(r, step) == call' = [call EXCEPT ![r].at = step]
Return(r) == call' = [call EXCEPT ![r] = Idle]
Receive(r, goal, password, keys, fields) ==
  call' = [call EXCEPT ![r] = [at |-> goal, pw |-> password, keys |-> keys,
                               fields |-> fields, era |-> era]]

(* A write method of the store: the transaction is committed and made      *)
(* durable; or it fails; or it is committed and the snapshot fails, which  *)
(* is an error for the caller all the same. An error ends the request.     *)
Write(r, new, next) ==
  \/ store' = new /\ (IF next = "idle" THEN Return(r) ELSE Goto(r, next))
  \/ StoreMayFail /\ store' \in {store, new} /\ Return(r)

(* A best effort read: one that fails is taken for the default.            *)
Readings(value, default) == {value} \cup (IF StoreMayFail THEN {default} ELSE {})

(* require_admin: a session, or the password in force.                     *)
Authorised(r) ==
  \/ \E s \in sessions : s.by = r
  \/ MayRead /\ store.password # NoPassword

(* A request is received; what can be checked before the lock of the node  *)
(* is taken is checked.                                                    *)
StartInstall(r) ==
  /\ At(r, "idle") /\ MayRead
  /\ FALSE \in Readings(store.installed, FALSE) \* is_installed
  /\ \E p \in Password, c \in [Field -> Value] : Receive(r, "install", p, Field, c)
  /\ UNCHANGED <<store, signal, sessions, history>>

StartAdmin(r) ==
  /\ At(r, "idle")
  /\ Authorised(r)
  /\ \/ \E goal \in {"alert", "clear", "reset"} : Receive(r, goal, NoPassword, {}, Blank)
     \/ \E p \in Password : Receive(r, "rotate", p, {}, Blank)
     \/ \E p \in Password \cup {NoPassword}, k \in SUBSET Field, v \in Value :
          Receive(r, "config", p, k, [f \in Field |-> v])
  /\ UNCHANGED <<store, signal, sessions, history>>

-------------------------------------------------------------------------------
(* The first write of install_node: the configuration, installed = true.   *)
WriteInstalled(r) ==
  /\ Write(r, [store EXCEPT !.installed = TRUE, !.fields = call[r].fields], "install-password")
  /\ wanted' = IF store' = store THEN wanted ELSE call[r].fields

InstallUnchecked(r) ==
  /\ At(r, "install") /\ MayWrite
  /\ WriteInstalled(r)
  /\ UNCHANGED <<signal, sessions, era, installs, misreads>>

(* install_node, the node locked exclusively: an installed node refuses    *)
(* (409), as long as it can read that it is installed.                     *)
Install(r) ==
  /\ At(r, "install") /\ MayWrite
  /\ \E known \in Readings(store.installed, FALSE) :
       \/ /\ known /\ Return(r)
          /\ UNCHANGED <<store, misreads, wanted>>
       \/ /\ ~known
          /\ store.installed => misreads < MaxMisreads
          /\ misreads' = IF store.installed THEN misreads + 1 ELSE misreads
          /\ WriteInstalled(r)
  /\ UNCHANGED <<signal, sessions, era, installs>>

(* Then the password, and only then the signal and the answer.             *)
InstallPassword(r) ==
  /\ At(r, "install-password")
  /\ \/ /\ store' = [store EXCEPT !.password = call[r].pw]
        /\ signal' = [signal EXCEPT !.installed = TRUE]
        /\ installs' = installs + 1
     \/ /\ StoreMayFail
        /\ store' \in {store, [store EXCEPT !.password = call[r].pw]}
        /\ UNCHANGED <<signal, installs>>
  /\ Return(r)
  /\ UNCHANGED <<sessions, era, misreads, wanted>>

Merge(r, base) ==
  [f \in Field |-> IF f \in call[r].keys THEN call[r].fields[f] ELSE base[f]]

(* admin_set_config reads the configuration, takes one that it cannot read *)
(* or parse for empty, and merges what was asked in.                       *)
ConfigLoad(r) ==
  /\ At(r, "config") /\ MayRead
  /\ \E base \in Readings(store.fields, Blank) :
       call' = [call EXCEPT ![r].fields = Merge(r, base), ![r].at = "config-save"]
  /\ UNCHANGED <<store, signal, sessions, history>>

ConfigDropsInstalled(r) ==
  /\ At(r, "config-save")
  /\ Write(r, [store EXCEPT !.installed = FALSE, !.fields = call[r].fields],
           IF call[r].pw = NoPassword THEN "idle" ELSE "config-password")
  /\ wanted' = IF store' = store THEN wanted ELSE Merge(r, wanted)
  /\ UNCHANGED <<signal, sessions, era, installs, misreads>>

(* It writes the whole object, installed = true included...                *)
ConfigSave(r) ==
  /\ At(r, "config-save")
  /\ Write(r, [store EXCEPT !.installed = TRUE, !.fields = call[r].fields],
           IF call[r].pw = NoPassword THEN "idle" ELSE "config-password")
  /\ wanted' = IF store' = store THEN wanted ELSE Merge(r, wanted)
  /\ UNCHANGED <<signal, sessions, era, installs, misreads>>

(* ... and, in a second transaction, the new password if there is one.     *)
ConfigPassword(r) ==
  /\ At(r, "config-password")
  /\ Write(r, [store EXCEPT !.password = call[r].pw], "idle")
  /\ UNCHANGED <<signal, sessions, history>>

(* rotate_secrets for the password, the node locked exclusively.           *)
Rotate(r) ==
  /\ At(r, "rotate") /\ MayWrite
  /\ Write(r, [store EXCEPT !.password = call[r].pw], "idle")
  /\ UNCHANGED <<signal, sessions, history>>

(* set_alert writes the alert, or removes it when the cause is the end of  *)
(* the alert; clear_alert removes it.                                      *)
SetAlert(r) ==
  /\ At(r, "alert") /\ MayRead
  /\ Write(r, [store EXCEPT !.alert = TRUE], "alert-on")
  /\ UNCHANGED <<signal, sessions, history>>

ClearAlert(r) ==
  /\ At(r, "clear") /\ MayRead
  /\ Write(r, [store EXCEPT !.alert = FALSE], "alert-off")
  /\ UNCHANGED <<signal, sessions, history>>

SignalForgotten(r) ==
  /\ call[r].at \in {"alert-on", "alert-off"}
  /\ signal' = IF At(r, "alert-on") THEN [signal EXCEPT !.alert = TRUE] ELSE signal
  /\ Return(r)
  /\ UNCHANGED <<store, sessions, history>>

(* The network is told.                                                    *)
SignalAlert(r) ==
  /\ call[r].at \in {"alert-on", "alert-off"}
  /\ signal' = [signal EXCEPT !.alert = At(r, "alert-on")]
  /\ Return(r)
  /\ UNCHANGED <<store, sessions, history>>

(* admin_reset: the store in one transaction, ...                          *)
Reset(r) ==
  /\ At(r, "reset") /\ MayRead
  /\ era < MaxEra
  /\ Write(r, FactoryStore, "reset-signal")
  /\ \/ /\ store' = FactoryStore
        /\ era' = era + 1 /\ installs' = 0 /\ misreads' = 0 /\ wanted' = Blank
     \/ /\ store' # FactoryStore
        /\ UNCHANGED history
  /\ UNCHANGED <<signal, sessions>>

(* ... the signal, ...                                                     *)
ResetSignal(r) ==
  /\ At(r, "reset-signal")
  /\ signal' = [installed |-> FALSE, alert |-> FALSE]
  /\ Goto(r, "reset-sessions")
  /\ UNCHANGED <<store, sessions, history>>

(* ... and, the node unlocked and the map tiles removed, the sessions.     *)
ResetSessions(r) ==
  /\ At(r, "reset-sessions")
  /\ sessions' = {}
  /\ Return(r)
  /\ UNCHANGED <<store, signal, history>>

(* admin_login verifies the password, ...                                  *)
Login(r) ==
  /\ At(r, "idle") /\ MayRead
  /\ store.password # NoPassword
  /\ Receive(r, "login-open", NoPassword, {}, Blank)
  /\ UNCHANGED <<store, signal, sessions, history>>

(* ... then, after the throttle, opens the session.                        *)
LoginOpen(r) ==
  /\ At(r, "login-open")
  /\ sessions' = sessions \cup {[by |-> r, era |-> call[r].era]}
  /\ Return(r)
  /\ UNCHANGED <<store, signal, history>>

(* A session ends by admin_logout or by expiring.                          *)
Logout(s) ==
  /\ sessions' = sessions \ {s}
  /\ UNCHANGED <<store, signal, call, history>>

(* The process stops, every request with it; at its next start the signal  *)
(* is read from the store, as well as it can be read, and there is no      *)
(* session.                                                                *)
Restart ==
  /\ MayRestart
  /\ call' = [r \in Request |-> Idle]
  /\ sessions' = {}
  /\ signal' \in [installed : Readings(store.installed, FALSE),
                 alert : Readings(store.alert, FALSE)]
  /\ UNCHANGED <<store, history>>

Next ==
  \/ \E r \in Request :
       \/ StartInstall(r) \/ StartAdmin(r)
       \/ Install(r) \/ InstallPassword(r)
       \/ ConfigLoad(r) \/ ConfigSave(r) \/ ConfigPassword(r)
       \/ Rotate(r)
       \/ SetAlert(r) \/ ClearAlert(r) \/ SignalAlert(r)
       \/ Reset(r) \/ ResetSignal(r) \/ ResetSessions(r)
       \/ Login(r) \/ LoginOpen(r)
  \/ \E s \in sessions : Logout(s)
  \/ Restart

Spec == Init /\ [][Next]_vars

-------------------------------------------------------------------------------
(* Requests that agree on nothing install the node at most once between    *)
(* two factory resets ("Disponible une seule fois", install_node), however *)
(* many passed the first check together, writes that fail included: a      *)
(* further 201 takes a further check, under the lock, that could not read  *)
(* that the node is installed.                                             *)
InstalledOnce == installs <= 1 + misreads

(* "Disponible une seule fois (refuse si deja installe)", whatever fails.  *)
InstalledOnlyOnce == installs <= 1

(* From the moment an install is answered 201 until a factory reset, the   *)
(* node stays installed and has an administrator, whatever the other       *)
(* requests do and even if the process restarts.                           *)
InstallLasts == installs > 0 => store.installed /\ store.password # NoPassword

Quiet == \A r \in Request : At(r, "idle")

(* With no request in progress, the network was told of the state that is  *)
(* in the store: "il publie ce signal a chaque changement" (runtime.rs).   *)
SignalFollowsStore ==
  Quiet => signal = [installed |-> store.installed, alert |-> store.alert]

(* The configuration holds, for every key, what the last request to change *)
(* that key wrote: "preserve `installed` et les champs absents"            *)
(* (admin_set_config).                                                     *)
FieldsMerged == store.fields = wanted

(* With no request in progress, no session is left of before a factory     *)
(* reset: "ferme toutes les sessions" (admin_reset).                       *)
ResetClosesSessions == Quiet => \A s \in sessions : s.era = era

(* With no request in progress, an installed node has an administrator,    *)
(* who can get in: install_node writes the configuration and the password. *)
InstalledHasAdmin == Quiet /\ store.installed => store.password # NoPassword

===============================================================================
