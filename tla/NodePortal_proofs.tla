-------------------------- MODULE NodePortal_proofs --------------------------
(***************************************************************************)
(* The administration of a node, in the three situations of MCNodePortal, *)
(* for any requests, passwords, fields, sessions, delays and number of     *)
(* factory resets.                                                         *)
(*                                                                         *)
(* Rough: with a store that fails and a process that stops at any moment,  *)
(* a node is installed once between two resets, and once more for every    *)
(* check under the lock that cannot read that it is, and stays installed.  *)
(* The argument is the lock of the node: while install_node is between its *)
(* two transactions, no other request is anywhere it could write from.     *)
(*                                                                         *)
(* Doors: who is let in, and that the right password never waits; what     *)
(* each request has seen since it arrived is carried along every step.     *)
(*                                                                         *)
(* Calm: one request at a time and no failure; the signal is behind the    *)
(* store only between the steps of a handler.                              *)
(***************************************************************************)
EXTENDS MCNodePortal, TLAPS

(* Between the two transactions of install_node the node is installed,     *)
(* nobody was told so yet but after a check that failed, and nobody else   *)
(* holds the lock of the node.                                             *)
InstallExclusive ==
  \A r \in Request : At(r, "install-password") =>
    /\ store.installed /\ installs <= misreads
    /\ \A q \in Request : q # r => call[q].at \notin Reading \cup Writing

(* A request that is to write a password carries one.                      *)
PasswordCarried ==
  \A r \in Request :
    call[r].at \in {"install", "install-password", "config-password", "rotate"}
      => call[r].pw # NoPassword

Store == [installed : BOOLEAN, password : Password \cup {NoPassword},
          alert : BOOLEAN, fields : [Field -> Value]]

IInv ==
  /\ TypeOK
  /\ InstalledOnce
  /\ InstallLasts
  /\ InstallExclusive
  /\ PasswordCarried

(* The values of a factory store have their types. *)
LEMMA BlankTyped == Blank \in [Field -> Value] /\ FactoryStore \in Store
BY PortalAssumption DEF Blank, FactoryStore, Store

(* A node that leaves the factory satisfies the invariant. *)
LEMMA InitInv == Init => IInv
<1> SUFFICES ASSUME Init PROVE IInv
  OBVIOUS
<1>1. Idle \in Call /\ Idle.at = "idle"
  BY BlankTyped, PortalAssumption DEF Idle, Call, Waiting
<1>2. TypeOK
  BY <1>1, BlankTyped, PortalAssumption DEF Init, TypeOK, Store
<1>3. \A r \in Request : call[r].at = "idle"
  BY <1>1 DEF Init
<1>4. QED BY <1>2, <1>3
          DEF Init, IInv, InstalledOnce, InstallLasts, InstallExclusive, PasswordCarried, At

-------------------------------------------------------------------------------
(* A request r moves to k: what every action has to show of it.            *)
MovesTo(r, k) ==
  /\ k \in Call
  /\ call' = [call EXCEPT ![r] = k]

(* A handler that returns is idle. *)
LEMMA ReturnMoves ==
  ASSUME TypeOK, NEW r \in Request, Return(r)
  PROVE  MovesTo(r, Idle) /\ Idle.at = "idle"
BY BlankTyped, PortalAssumption DEF Return, MovesTo, Idle, Call, Waiting

(* A handler that goes on keeps the password it carries. *)
LEMMA GotoMoves ==
  ASSUME TypeOK, NEW r \in Request, NEW step \in Waiting \cup Reading \cup Writing,
         Goto(r, step)
  PROVE  \E k \in Call : MovesTo(r, k) /\ k.at = step /\ k.pw = call[r].pw
<1> DEFINE k == [call[r] EXCEPT !.at = step]
<1>1. call[r] \in Call BY DEF TypeOK
<1>2. k \in Call /\ k.at = step /\ k.pw = call[r].pw BY <1>1 DEF Call
<1>3. call' = [call EXCEPT ![r] = k] BY DEF Goto
<1>4. QED BY <1>2, <1>3 DEF MovesTo

(* A transaction takes effect and the handler goes on, or fails, with or without effect,
   and the handler ends. *)
LEMMA WriteMoves ==
  ASSUME TypeOK, NEW r \in Request, NEW new, NEW next \in Waiting \cup Reading \cup Writing,
         Write(r, new, next)
  PROVE  \E k \in Call :
           /\ MovesTo(r, k)
           /\ \/ store' = new /\ k.at = next /\ k.pw \in {call[r].pw, NoPassword}
                              /\ (next # "idle" => k.pw = call[r].pw)
              \/ store' \in {store, new} /\ k.at = "idle"
<1>1. CASE store' = new /\ next = "idle" /\ Return(r)
  BY <1>1, ReturnMoves DEF Idle, MovesTo
<1>2. CASE store' = new /\ next # "idle" /\ Goto(r, next)
  BY <1>2, GotoMoves
<1>3. CASE store' \in {store, new} /\ Return(r)
  BY <1>3, ReturnMoves DEF MovesTo
<1>4. QED BY <1>1, <1>2, <1>3 DEF Write

(* The lock at work: a request that moves without having been let in past  *)
(* an install in progress leaves that install alone.                       *)
LEMMA ExclusiveKept ==
  ASSUME TypeOK, InstallExclusive, NEW r \in Request, NEW k \in Call, MovesTo(r, k),
         k.at # "install-password",
         k.at \in Reading \cup Writing => MayRead \/ call[r].at \in Reading \cup Writing,
         \A q \in Request \ {r} : At(q, "install-password") =>
            store'.installed = store.installed /\ installs' = installs /\ misreads' = misreads
  PROVE  InstallExclusive'
<1> SUFFICES ASSUME NEW q \in Request, At(q, "install-password")'
             PROVE /\ store'.installed /\ installs' <= misreads'
                   /\ \A p \in Request : p # q => call'[p].at \notin Reading \cup Writing
  BY DEF InstallExclusive, At
<1>1. call'[r] = k /\ \A p \in Request : p # r => call'[p] = call[p]
  BY DEF MovesTo, TypeOK
<1>2. q # r BY <1>1 DEF At
<1>3. At(q, "install-password") BY <1>1, <1>2 DEF At
<1>4. store.installed /\ installs <= misreads
      /\ \A p \in Request : p # q => call[p].at \notin Reading \cup Writing
  BY <1>3 DEF InstallExclusive
<1>5. ~MayRead BY <1>3 DEF MayRead, At, Writing
<1>6. k.at \notin Reading \cup Writing BY <1>2, <1>4, <1>5
<1>7. QED BY <1>1, <1>2, <1>3, <1>4, <1>6

(* A request that moves to a step that needs a password must carry one; the others are not
   concerned. *)
LEMMA CarriedKept ==
  ASSUME TypeOK, PasswordCarried, NEW r \in Request, NEW k \in Call, MovesTo(r, k),
         k.at \in {"install", "install-password", "config-password", "rotate"}
           => k.pw # NoPassword
  PROVE  PasswordCarried'
BY DEF MovesTo, TypeOK, PasswordCarried

(* Whoever is let in while an install is in progress is not about to write. *)
LEMMA NoInstallBeside ==
  ASSUME TypeOK, InstallExclusive, NEW r \in Request,
         MayRead \/ call[r].at \in Reading
  PROVE  \A q \in Request : ~At(q, "install-password")
BY DEF InstallExclusive, MayRead, At, Reading, Writing

-------------------------------------------------------------------------------
(* A request is received.                                                  *)
LEMMA ReceiveMoves ==
  ASSUME TypeOK, NEW r \in Request, NEW goal \in Waiting,
         NEW p \in Password \cup {NoPassword}, NEW ks \in SUBSET Field,
         NEW fs \in [Field -> Value], Receive(r, goal, p, ks, fs)
  PROVE  \E k \in Call : MovesTo(r, k) /\ k.at = goal /\ k.pw = p
<1> DEFINE k == [at |-> goal, pw |-> p, keys |-> ks, fields |-> fs, era |-> era]
<1>1. k \in Call /\ k.at = goal /\ k.pw = p BY DEF TypeOK, Call
<1>2. call' = [call EXCEPT ![r] = k] BY DEF Receive
<1>3. QED BY <1>1, <1>2 DEF MovesTo

(* A request that starts has written nothing. *)
LEMMA StartInv ==
  ASSUME IInv, NEW r \in Request, StartInstall(r) \/ StartAdmin(r) \/ Login(r)
  PROVE  IInv'
<1>1. \E k \in Call :
        /\ MovesTo(r, k)
        /\ k.at \in Waiting
        /\ k.at \in {"install", "rotate"} => k.pw # NoPassword
  <2>1. CASE StartInstall(r)
    <3>1. PICK p \in Password, c \in [Field -> Value] : Receive(r, "install", p, Field, c)
      BY <2>1 DEF StartInstall
    <3>2. QED BY <3>1, ReceiveMoves, PortalAssumption DEF IInv, Waiting
  <2>2. CASE StartAdmin(r)
    <3>1. CASE \E goal \in {"alert", "clear", "reset"} : Receive(r, goal, NoPassword, {}, Blank)
      BY <3>1, ReceiveMoves, BlankTyped DEF IInv, Waiting
    <3>2. CASE \E p \in Password : Receive(r, "rotate", p, {}, Blank)
      BY <3>2, ReceiveMoves, BlankTyped, PortalAssumption DEF IInv, Waiting
    <3>3. CASE \E p \in Password \cup {NoPassword}, ks \in SUBSET Field, v \in Value :
                 Receive(r, "config", p, ks, [f \in Field |-> v])
      <4>1. PICK p \in Password \cup {NoPassword}, ks \in SUBSET Field, v \in Value :
                 Receive(r, "config", p, ks, [f \in Field |-> v])
        BY <3>3
      <4>2. [f \in Field |-> v] \in [Field -> Value] OBVIOUS
      <4>3. "config" \in Waiting BY DEF Waiting
      <4>4. PICK k \in Call : MovesTo(r, k) /\ k.at = "config"
        BY <4>1, <4>2, <4>3, ReceiveMoves DEF IInv
      <4>5. QED BY <4>3, <4>4
    <3>4. QED BY <2>2, <3>1, <3>2, <3>3 DEF StartAdmin
  <2>3. CASE Login(r)
    BY <2>3, ReceiveMoves, BlankTyped DEF IInv, Login, Waiting
  <2>4. QED BY <2>1, <2>2, <2>3
<1>2. PICK k \in Call : MovesTo(r, k) /\ k.at \in Waiting
                        /\ (k.at \in {"install", "rotate"} => k.pw # NoPassword)
  BY <1>1
<1>3. UNCHANGED <<store, signal, sessions, era, installs, misreads, wanted>>
  BY DEF StartInstall, StartAdmin, Login, history
<1>4. TypeOK' BY <1>2, <1>3 DEF IInv, TypeOK, MovesTo
<1>5. InstallExclusive'
  <2>1. k.at # "install-password" /\ k.at \notin Reading \cup Writing
    BY <1>2 DEF Waiting, Reading, Writing
  <2>2. QED BY <1>2, <1>3, <2>1, ExclusiveKept DEF IInv
<1>6. PasswordCarried'
  <2>1. k.at \notin {"install-password", "config-password"} BY <1>2 DEF Waiting
  <2>2. QED BY <1>2, <2>1, CarriedKept DEF IInv
<1>7. QED BY <1>3, <1>4, <1>5, <1>6 DEF IInv, InstalledOnce, InstallLasts

(* The steps that leave alone what an install wrote, except that they may  *)
(* mark the node as installed or put a password in place of another.       *)
LEMMA HarmlessInv ==
  ASSUME IInv, NEW r \in Request, NEW k \in Call, MovesTo(r, k),
         TypeOK',
         k.at # "install-password",
         k.at \in Reading \cup Writing => MayRead \/ call[r].at \in Reading \cup Writing,
         k.at \in {"install", "config-password", "rotate"} => k.pw # NoPassword,
         installs' = installs, misreads' = misreads,
         store'.installed = store.installed
           \/ ((\A q \in Request : ~At(q, "install-password")) /\ store'.installed),
         store'.password = store.password \/ store'.password # NoPassword
  PROVE  IInv'
<1>1. InstallExclusive'
  BY ExclusiveKept DEF IInv
<1>2. PasswordCarried'
  BY CarriedKept DEF IInv
<1>3. InstallLasts' BY DEF IInv, InstallLasts
<1>4. InstalledOnce' BY DEF IInv, InstalledOnce
<1>5. QED BY <1>1, <1>2, <1>3, <1>4 DEF IInv

(* The parts of a state that has its types. *)
LEMMA Typed ==
  ASSUME TypeOK
  PROVE  /\ store \in Store /\ installs \in Nat /\ misreads \in Nat
         /\ \A r \in Request : /\ call[r] \in Call
                               /\ call[r].pw \in Password \cup {NoPassword}
                               /\ call[r].fields \in [Field -> Value]
                               /\ \A base \in [Field -> Value] : Merge(r, base) \in [Field -> Value]
BY DEF TypeOK, Store, Call, Merge

-------------------------------------------------------------------------------
(* The first transaction of an installation, under the exclusive lock. *)
LEMMA InstallInv == ASSUME IInv, NEW r \in Request, Install(r) PROVE IInv'
<1>1. TypeOK /\ At(r, "install") /\ MayWrite BY DEF IInv, Install
<1>p. call[r].pw # NoPassword BY <1>1 DEF IInv, PasswordCarried, At
<1>2. CASE Return(r) /\ UNCHANGED <<store, misreads, wanted>>
  <2>1. MovesTo(r, Idle) /\ Idle.at = "idle" /\ Idle \in Call
    BY <1>1, <1>2, ReturnMoves DEF MovesTo
  <2>2. UNCHANGED <<store, signal, sessions, era, installs, misreads, wanted>>
    BY <1>2 DEF Install
  <2>3. TypeOK' BY <1>1, <2>1, <2>2 DEF TypeOK, MovesTo
  <2>4. QED BY <2>1, <2>2, <2>3, HarmlessInv DEF Reading, Writing
<1>3. CASE /\ misreads' = IF store.installed THEN misreads + 1 ELSE misreads
           /\ WriteInstalled(r)
  <2> DEFINE new == [store EXCEPT !.installed = TRUE, !.fields = call[r].fields]
  <2>1. /\ new \in Store /\ new.installed /\ new.password = store.password
    BY <1>1, Typed DEF Store
  <2> HIDE DEF new
  <2>2. "install-password" \in Waiting \cup Reading \cup Writing BY DEF Writing
  <2>3. PICK k \in Call :
          /\ MovesTo(r, k)
          /\ \/ store' = new /\ k.at = "install-password" /\ k.pw = call[r].pw
             \/ store' \in {store, new} /\ k.at = "idle"
    BY <1>1, <1>3, <2>2, WriteMoves DEF new, WriteInstalled
  <2>4. UNCHANGED <<signal, sessions, era, installs>> BY DEF Install
  <2>5. wanted' \in [Field -> Value]
    BY <1>1, <1>3, Typed DEF WriteInstalled, TypeOK
  <2>m. misreads' \in Nat BY <1>1, <1>3, Typed
  <2>6. TypeOK' BY <1>1, <2>1, <2>3, <2>4, <2>5, <2>m, Typed DEF TypeOK, Store, MovesTo
  <2>7. installs <= misreads' /\ installs <= 1 + misreads'
        /\ (installs > 0 => store.installed /\ store.password # NoPassword)
    BY <1>1, <1>3, Typed DEF IInv, InstallLasts, InstalledOnce
  <2>8. \A q \in Request : call[q].at \notin Reading \cup Writing
    BY <1>1 DEF MayWrite
  <2>9. \A q \in Request : q # r => call'[q] = call[q] BY <2>3 DEF MovesTo, IInv, TypeOK
  <2>10. InstallExclusive'
    <3>1. ASSUME NEW q \in Request, At(q, "install-password")'
          PROVE q = r /\ store' = new
      <4>1. q = r BY <2>8, <2>9, <3>1 DEF At, Writing
      <4>2. k.at # "idle" BY <2>3, <3>1, <4>1 DEF At, MovesTo, IInv, TypeOK
      <4>3. QED BY <2>3, <4>1, <4>2
    <3>2. QED BY <2>1, <2>4, <2>7, <2>8, <2>9, <3>1 DEF InstallExclusive
  <2>11. PasswordCarried'
    BY <1>1, <1>p, <2>3, CarriedKept DEF IInv
  <2>12. InstallLasts' BY <2>1, <2>3, <2>4, <2>7 DEF InstallLasts
  <2>13. QED BY <2>4, <2>6, <2>7, <2>10, <2>11, <2>12 DEF IInv, InstalledOnce
<1>4. QED BY <1>2, <1>3 DEF Install

(* The second transaction of an installation, under the same lock. *)
LEMMA InstallPasswordInv == ASSUME IInv, NEW r \in Request, InstallPassword(r) PROVE IInv'
<1>1. TypeOK /\ At(r, "install-password") /\ Return(r)
      /\ UNCHANGED <<sessions, era, misreads, wanted>>
  BY DEF IInv, InstallPassword
<1>2. call[r].pw \in Password BY <1>1, Typed DEF IInv, PasswordCarried, At
<1>3. /\ store.installed /\ installs <= misreads
      /\ \A q \in Request : q # r => call[q].at \notin Reading \cup Writing
  BY <1>1 DEF IInv, InstallExclusive
<1>4. MovesTo(r, Idle) /\ Idle.at = "idle" BY <1>1, ReturnMoves
<1>5. store' \in Store /\ store'.installed
      /\ installs' \in Nat /\ installs' <= 1 + misreads
      /\ (installs' > 0 => store'.password # NoPassword)
      /\ signal' \in [installed : BOOLEAN, alert : BOOLEAN]
  <2>1. [store EXCEPT !.password = call[r].pw] \in Store
        /\ [store EXCEPT !.password = call[r].pw].installed
        /\ [store EXCEPT !.password = call[r].pw].password # NoPassword
    BY <1>1, <1>2, <1>3, Typed, PortalAssumption DEF Store
  <2>2. [signal EXCEPT !.installed = TRUE] \in [installed : BOOLEAN, alert : BOOLEAN]
    BY <1>1 DEF TypeOK
  <2>3. CASE store' = [store EXCEPT !.password = call[r].pw]
             /\ signal' = [signal EXCEPT !.installed = TRUE] /\ installs' = installs + 1
    BY <1>1, <1>3, <2>1, <2>2, <2>3, Typed
  <2>4. CASE store' \in {store, [store EXCEPT !.password = call[r].pw]}
             /\ UNCHANGED <<signal, installs>>
    BY <1>1, <1>3, <2>1, <2>4, Typed DEF IInv, InstallLasts, TypeOK
  <2>5. QED BY <2>3, <2>4 DEF InstallPassword
<1>6. TypeOK' BY <1>1, <1>4, <1>5 DEF TypeOK, Store, MovesTo
<1>7. InstallExclusive'
  <2>1. \A q \in Request : call'[q].at # "install-password"
    BY <1>1, <1>3, <1>4 DEF MovesTo, TypeOK, Writing
  <2>2. QED BY <2>1 DEF InstallExclusive, At
<1>8. PasswordCarried' BY <1>1, <1>4, CarriedKept DEF IInv, MovesTo
<1>9. QED BY <1>1, <1>5, <1>6, <1>7, <1>8 DEF IInv, InstalledOnce, InstallLasts

(* The handlers that write in the store while the node is locked for       *)
(* reading by them, or exclusively, when they do not erase it.             *)
LEMMA WriteInv ==
  ASSUME IInv, NEW r \in Request, NEW new \in Store,
         NEW next \in (Waiting \cup Reading \cup Writing) \ {"install", "install-password", "rotate"},
         Write(r, new, next),
         MayRead \/ call[r].at \in Reading,
         new.installed = store.installed \/ new.installed,
         new.password = store.password \/ new.password # NoPassword,
         next = "config-password" => call[r].pw # NoPassword,
         UNCHANGED <<signal, sessions, era, installs, misreads>>,
         wanted' \in [Field -> Value]
  PROVE  IInv'
<1>1. PICK k \in Call :
        /\ MovesTo(r, k)
        /\ \/ store' = new /\ k.at = next /\ (next # "idle" => k.pw = call[r].pw)
           \/ store' \in {store, new} /\ k.at = "idle"
  BY WriteMoves DEF IInv
<1>2. store' \in Store BY <1>1, Typed DEF IInv
<1>3. TypeOK' BY <1>1, <1>2 DEF IInv, TypeOK, MovesTo, Store
<1>4. \A q \in Request : ~At(q, "install-password")
  BY NoInstallBeside DEF IInv
<1>5. /\ k.at \notin {"install", "install-password", "rotate"}
      /\ k.at = "config-password" => k.pw # NoPassword
  BY <1>1
<1>6. QED BY <1>1, <1>3, <1>4, <1>5, HarmlessInv

(* The transactions that change an installed store. *)
LEMMA StoreWritesInv ==
  ASSUME IInv, NEW r \in Request,
         ConfigSave(r) \/ ConfigPassword(r) \/ Rotate(r) \/ SetAlert(r) \/ ClearAlert(r)
  PROVE  IInv'
<1>1. TypeOK BY DEF IInv
<1>w. wanted \in [Field -> Value] BY <1>1 DEF TypeOK
<1>2. CASE ConfigSave(r)
  <2> DEFINE new == [store EXCEPT !.installed = TRUE, !.fields = call[r].fields]
             next == IF call[r].pw = NoPassword THEN "idle" ELSE "config-password"
  <2>1. new \in Store /\ new.installed /\ new.password = store.password
    BY <1>1, Typed DEF Store
  <2>2. Write(r, new, next) /\ call[r].at \in Reading BY <1>2 DEF ConfigSave, At, Reading
  <2>3. next \in (Waiting \cup Reading \cup Writing) \ {"install", "install-password", "rotate"}
    BY DEF Waiting, Reading
  <2>4. next = "config-password" => call[r].pw # NoPassword OBVIOUS
  <2>5. wanted' \in [Field -> Value] BY <1>1, <1>2, <1>w, Typed DEF ConfigSave
  <2>6. UNCHANGED <<signal, sessions, era, installs, misreads>> BY <1>2 DEF ConfigSave
  <2> HIDE DEF new, next
  <2>7. QED BY <2>1, <2>2, <2>3, <2>4, <2>5, <2>6, WriteInv
<1>3. CASE ConfigPassword(r) \/ Rotate(r)
  <2> DEFINE new == [store EXCEPT !.password = call[r].pw]
  <2>1. call[r].pw # NoPassword
    BY <1>3 DEF IInv, PasswordCarried, ConfigPassword, Rotate, At
  <2>2. new \in Store /\ new.password # NoPassword /\ new.installed = store.installed
    BY <1>1, <2>1, Typed DEF Store
  <2>3. Write(r, new, "idle") BY <1>3 DEF ConfigPassword, Rotate
  <2>4. MayRead \/ call[r].at \in Reading
    BY <1>3 DEF ConfigPassword, Rotate, At, Reading, MayRead, MayWrite
  <2>5. "idle" \in (Waiting \cup Reading \cup Writing) \ {"install", "install-password", "rotate"}
    BY DEF Waiting
  <2>6. UNCHANGED <<signal, sessions, era, installs, misreads, wanted>>
    BY <1>3 DEF ConfigPassword, Rotate, history
  <2> HIDE DEF new
  <2>7. QED BY <1>w, <2>2, <2>3, <2>4, <2>5, <2>6, WriteInv
<1>4. CASE SetAlert(r) \/ ClearAlert(r)
  <2>1. PICK on \in BOOLEAN, goal \in {"alert-on", "alert-off"} :
          Write(r, [store EXCEPT !.alert = on], goal)
    BY <1>4 DEF SetAlert, ClearAlert
  <2> DEFINE new == [store EXCEPT !.alert = on]
  <2>2. new \in Store /\ new.password = store.password /\ new.installed = store.installed
    BY <1>1, Typed DEF Store
  <2>3. Write(r, new, goal) /\ MayRead BY <1>4, <2>1 DEF SetAlert, ClearAlert
  <2>4. goal \in (Waiting \cup Reading \cup Writing) \ {"install", "install-password", "rotate"}
        /\ goal # "config-password"
    BY DEF Reading
  <2>5. UNCHANGED <<signal, sessions, era, installs, misreads, wanted>>
    BY <1>4 DEF SetAlert, ClearAlert, history
  <2> HIDE DEF new
  <2>6. QED BY <1>w, <2>2, <2>3, <2>4, <2>5, WriteInv
<1>5. QED BY <1>2, <1>3, <1>4

(* The reading of the configuration that a handler will change and save. *)
LEMMA ConfigLoadInv == ASSUME IInv, NEW r \in Request, ConfigLoad(r) PROVE IInv'
<1> DEFINE fs(base) == Merge(r, base)
           k(base) == [call[r] EXCEPT !.fields = fs(base), !.at = "config-save"]
<1>1. TypeOK /\ MayRead /\ UNCHANGED <<store, signal, sessions, era, installs, misreads, wanted>>
  BY DEF IInv, ConfigLoad, history
<1>2. PICK base \in [Field -> Value] : call' = [call EXCEPT ![r] = k(base)]
  <2>1. Blank \in [Field -> Value] /\ store.fields \in [Field -> Value]
    BY <1>1, BlankTyped, Typed DEF Store
  <2>2. QED BY <1>1, <2>1 DEF ConfigLoad, Readings, TypeOK
<1>3. fs(base) \in [Field -> Value] BY <1>1, Typed
<1> HIDE DEF fs
<1>4. k(base) \in Call /\ k(base).at = "config-save" BY <1>1, <1>3, Typed DEF Call, Reading
<1> HIDE DEF k
<1>5. MovesTo(r, k(base)) BY <1>2, <1>4 DEF MovesTo
<1>6. TypeOK' BY <1>1, <1>4, <1>5 DEF TypeOK, MovesTo
<1>7. QED BY <1>1, <1>4, <1>5, <1>6, HarmlessInv

(* The steps that only touch the signal or the sessions.                   *)
LEMMA MemoryInv ==
  ASSUME IInv, NEW r \in Request,
         SignalAlert(r) \/ ResetSignal(r) \/ ResetSessions(r) \/ LoginOpen(r)
  PROVE  IInv'
<1>1. TypeOK /\ UNCHANGED <<store, era, installs, misreads, wanted>>
  BY DEF IInv, SignalAlert, ResetSignal, ResetSessions, LoginOpen, history
<1>2. \E k \in Call : MovesTo(r, k) /\ k.at \in {"idle", "reset-sessions"}
  <2>1. CASE Return(r) BY <1>1, <2>1, ReturnMoves DEF MovesTo
  <2>2. CASE Goto(r, "reset-sessions") BY <1>1, <2>2, GotoMoves DEF Waiting
  <2>3. QED BY <2>1, <2>2 DEF SignalAlert, ResetSignal, ResetSessions, LoginOpen
<1>3. PICK k \in Call : MovesTo(r, k) /\ k.at \in {"idle", "reset-sessions"}
  BY <1>2
<1>4. signal' \in [installed : BOOLEAN, alert : BOOLEAN]
  <2>1. ASSUME NEW on \in BOOLEAN
        PROVE [signal EXCEPT !.alert = on] \in [installed : BOOLEAN, alert : BOOLEAN]
    BY <1>1 DEF TypeOK
  <2>2. At(r, "alert-on") \in BOOLEAN BY DEF At
  <2>3. CASE SignalAlert(r)
    <3>1. signal' = [signal EXCEPT !.alert = At(r, "alert-on")] BY <2>3 DEF SignalAlert
    <3> HIDE DEF At
    <3>2. QED BY <2>1, <2>2, <3>1, Zenon
  <2>4. CASE ResetSignal(r) BY <2>4 DEF ResetSignal
  <2>5. CASE ResetSessions(r) \/ LoginOpen(r)
    BY <1>1, <2>5 DEF TypeOK, ResetSessions, LoginOpen
  <2>6. QED BY <2>3, <2>4, <2>5
<1>5. sessions' \subseteq [by : Request, era : 0..MaxEra]
  <2>1. call[r].era \in 0..MaxEra BY <1>1, Typed DEF Call
  <2>2. [by |-> r, era |-> call[r].era] \in [by : Request, era : 0..MaxEra] BY <2>1
  <2>3. sessions' \in {sessions, {}, sessions \cup {[by |-> r, era |-> call[r].era]}}
    BY DEF SignalAlert, ResetSignal, ResetSessions, LoginOpen
  <2>4. QED BY <1>1, <2>2, <2>3 DEF TypeOK
<1>6. TypeOK' BY <1>1, <1>3, <1>4, <1>5 DEF TypeOK, MovesTo
<1>7. QED BY <1>1, <1>3, <1>6, HarmlessInv DEF Reading, Writing

(* A factory reset empties the store and begins a new era. *)
LEMMA ResetInv == ASSUME IInv, NEW r \in Request, Reset(r) PROVE IInv'
<1>1. TypeOK /\ MayRead /\ era < MaxEra /\ Write(r, FactoryStore, "reset-signal")
      /\ UNCHANGED <<signal, sessions>>
  BY DEF IInv, Reset
<1>2. "reset-signal" \in Reading BY DEF Reading
<1>3. PICK k \in Call :
        /\ MovesTo(r, k)
        /\ k.at \in {"idle", "reset-signal"}
        /\ store' \in {store, FactoryStore}
  BY <1>1, <1>2, WriteMoves
<1>4. \/ store' = FactoryStore /\ era' = era + 1 /\ installs' = 0 /\ misreads' = 0 /\ wanted' = Blank
      \/ store' = store /\ UNCHANGED <<era, installs, misreads, wanted>>
  BY <1>3 DEF Reset, history
<1>5. TypeOK'
  <2>1. store' \in Store BY <1>1, <1>3, BlankTyped, Typed
  <2>2. era' \in 0..MaxEra /\ installs' \in Nat /\ misreads' \in Nat /\ wanted' \in [Field -> Value]
    BY <1>1, <1>4, BlankTyped, PortalAssumption DEF TypeOK
  <2>3. QED BY <1>1, <1>3, <2>1, <2>2 DEF TypeOK, Store, MovesTo
<1>6. \A q \in Request : ~At(q, "install-password")
  BY <1>1, NoInstallBeside DEF IInv
<1>7. InstallExclusive' BY <1>1, <1>3, <1>6, ExclusiveKept DEF IInv
<1>8. PasswordCarried' BY <1>1, <1>3, CarriedKept DEF IInv
<1>9. InstalledOnce' /\ InstallLasts' BY <1>4 DEF IInv, InstalledOnce, InstallLasts
<1>10. QED BY <1>5, <1>7, <1>8, <1>9 DEF IInv

(* A logout takes a session away. *)
LEMMA LogoutInv == ASSUME IInv, NEW s \in sessions, Logout(s) PROVE IInv'
<1>1. sessions' \subseteq sessions /\ UNCHANGED <<store, signal, call, era, installs, misreads, wanted>>
  BY DEF Logout, history
<1>2. TypeOK' BY <1>1 DEF IInv, TypeOK
<1>3. QED BY <1>1, <1>2
          DEF IInv, InstalledOnce, InstallLasts, InstallExclusive, PasswordCarried, At

(* A restart forgets every request and every session. *)
LEMMA RestartInv == ASSUME IInv, Restart PROVE IInv'
<1>1. Idle \in Call /\ Idle.at = "idle"
  BY BlankTyped, PortalAssumption DEF Idle, Call, Waiting
<1>2. /\ \A r \in Request : call'[r].at = "idle"
      /\ UNCHANGED <<store, era, installs, misreads, wanted>>
  BY <1>1 DEF Restart, history
<1>3. signal' \in [installed : BOOLEAN, alert : BOOLEAN]
  BY DEF IInv, TypeOK, Restart, Readings
<1>4. TypeOK' BY <1>1, <1>2, <1>3 DEF IInv, TypeOK, Restart
<1>5. QED BY <1>2, <1>4
          DEF IInv, InstalledOnce, InstallLasts, InstallExclusive, PasswordCarried, At

(* Every step of any handler preserves the invariant. *)
LEMMA NextInv == IInv /\ [Next]_vars => IInv'
<1> SUFFICES ASSUME IInv, [Next]_vars PROVE IInv'
  OBVIOUS
<1>1. ASSUME NEW r \in Request,
             \/ StartInstall(r) \/ StartAdmin(r)
             \/ Install(r) \/ InstallPassword(r)
             \/ ConfigLoad(r) \/ ConfigSave(r) \/ ConfigPassword(r)
             \/ Rotate(r)
             \/ SetAlert(r) \/ ClearAlert(r) \/ SignalAlert(r)
             \/ Reset(r) \/ ResetSignal(r) \/ ResetSessions(r)
             \/ Login(r) \/ LoginOpen(r)
      PROVE IInv'
  BY <1>1, StartInv, InstallInv, InstallPasswordInv, ConfigLoadInv, StoreWritesInv,
     MemoryInv, ResetInv
<1>2. ASSUME NEW s \in sessions, Logout(s) PROVE IInv'
  BY <1>2, LogoutInv
<1>3. CASE Restart BY <1>3, RestartInv
<1>4. CASE UNCHANGED vars
  BY <1>4 DEF vars, IInv, TypeOK, InstalledOnce, InstallLasts, InstallExclusive,
              PasswordCarried, At
<1>5. QED BY <1>1, <1>2, <1>3, <1>4 DEF Next

-------------------------------------------------------------------------------
(* Always: the strengthening from which the properties follow.             *)
THEOREM PortalInvariant == Spec => []IInv
BY InitInv, NextInv, PTL DEF Spec

(* Always, the portal is well typed.                                       *)
THEOREM PortalTypeCorrect == Spec => []TypeOK
<1>1. IInv => TypeOK BY DEF IInv
<1>2. QED BY <1>1, PortalInvariant, PTL

(* InstalledOnce: always, between two factory resets install_node answers  *)
(* 201 at most once, and once more for every check under the lock that     *)
(* could not read that the node is installed, however many requests are in *)
(* progress and whatever else fails.                                       *)
THEOREM InstallsOnce == Spec => []InstalledOnce
<1>1. IInv => InstalledOnce BY DEF IInv
<1>2. QED BY <1>1, PortalInvariant, PTL

(* Always, an install that was answered 201 stays in the store, with an    *)
(* administrator, until a factory reset (admin_reset).                     *)
THEOREM InstallIsLasting == Spec => []InstallLasts
<1>1. IInv => InstallLasts BY DEF IInv
<1>2. QED BY <1>1, PortalInvariant, PTL

-------------------------------------------------------------------------------
(* The doors (AdminAccess). What a request carries, as far as the proofs   *)
(* need it; the delay is left out.                                         *)
Carries(c) ==
  /\ DOMAIN c = DOMAIN Doors!Idle
  /\ c.at \in Doors!Steps
  /\ c.token \in Token \cup {NoToken}
  /\ c.pw \in Passwords \cup {NoPassword}
  /\ c.cred \in Passwords \cup {NoPassword}

DoorsTyped ==
  /\ password \in Passwords \cup {NoPassword}
  /\ caller = [r \in Request |-> caller[r]]
  /\ \A r \in Request : Carries(caller[r])
  /\ seen = [r \in Request |-> seen[r]]
  /\ granted \in [Token -> Nat]
  /\ open \in [Token -> Int]
  /\ issued \subseteq Token

(* A session is open exactly as long as it should admit; only one that has *)
(* expired may have been forgotten already.                                *)
SessionsGranted ==
  \A k \in Token :
    \/ open[k] = granted[k]
    \/ open[k] = Doors!Absent /\ granted[k] = 0

(* A request that carries c has seen s: as long as it looks for a session  *)
(* or a password all that admits now, g being what remains of the sessions *)
(* and p the password; then the credentials it loaded; and at last what    *)
(* let it in. One that is right never has to wait.                         *)
Sound(c, s, g, p) ==
  /\ c.at \in {"session", "load"} =>
       (\A k \in Token : g[k] > 0 => k \in s) /\ (p # NoPassword => p \in s)
  /\ c.at \in {"count", "asleep"} => c.cred \in s
  /\ c.at = "asleep" => c.pw # c.cred
  /\ c.at \in {"open", "admitted"} => s \cap {c.token, c.pw} # {}
  /\ c.right =>
       /\ c.pw # NoPassword /\ c.pw = p /\ c.waited = 0
       /\ c.at # "asleep"
       /\ c.at = "count" => c.cred = c.pw

DoorsInv ==
  /\ DoorsTyped
  /\ SessionsGranted
  /\ \A r \in Request : Sound(caller[r], seen[r], granted, password)

(* A request that has not started carries nothing, which is sound whatever the secrets are. *)
LEMMA DoorsIdle ==
  /\ Carries(Doors!Idle)
  /\ \A s, g, p : Sound(Doors!Idle, s, g, p)
BY DEF Carries, Sound, Doors!Idle, Doors!Steps

(* At the start nobody is inside. *)
LEMMA DoorsInit == Doors!Init => DoorsInv
<1> SUFFICES ASSUME Doors!Init PROVE DoorsInv
  OBVIOUS
<1>1. DoorsTyped BY DoorsIdle DEF Doors!Init, DoorsTyped, Doors!Absent
<1>2. SessionsGranted BY DEF Doors!Init, SessionsGranted
<1>3. \A r \in Request : Sound(caller[r], seen[r], granted, password)
  BY DoorsIdle DEF Doors!Init
<1>4. QED BY <1>1, <1>2, <1>3 DEF DoorsInv

(* One request moves, and neither what admits nor what was seen changes.   *)
LEMMA RequestMoves ==
  ASSUME DoorsInv, NEW r \in Request, NEW c, caller' = [caller EXCEPT ![r] = c],
         Carries(c), Sound(c, seen[r], granted, password),
         UNCHANGED <<password, granted, issued, seen>>,
         open' \in [Token -> Int], SessionsGranted'
  PROVE  DoorsInv'
<1>1. \A q \in Request : caller'[q] = IF q = r THEN c ELSE caller[q]
  BY DEF DoorsInv, DoorsTyped
<1>2. DoorsTyped' BY <1>1 DEF DoorsInv, DoorsTyped
<1>3. \A q \in Request : Sound(caller'[q], seen'[q], granted', password')
  BY <1>1 DEF DoorsInv
<1>4. QED BY <1>2, <1>3 DEF DoorsInv

(* A request that changes its step changes nothing else. *)
LEMMA StepOf ==
  ASSUME NEW c, Carries(c), NEW step \in Doors!Steps
  PROVE  /\ Carries([c EXCEPT !.at = step])
         /\ [c EXCEPT !.at = step].at = step
         /\ [c EXCEPT !.at = step].token = c.token
         /\ [c EXCEPT !.at = step].pw = c.pw
         /\ [c EXCEPT !.at = step].cred = c.cred
         /\ [c EXCEPT !.at = step].right = c.right
         /\ [c EXCEPT !.at = step].waited = c.waited
BY DEF Carries, Doors!Idle

(* A request gives up or is answered.                                      *)
LEMMA AnswerKeeps ==
  ASSUME DoorsInv, NEW r \in Request, caller' = [caller EXCEPT ![r] = Doors!Idle],
         UNCHANGED <<password, open, granted, issued, seen>>
  PROVE  DoorsInv'
<1>1. SessionsGranted' BY DEF DoorsInv, SessionsGranted
<1>2. open' \in [Token -> Int] BY DEF DoorsInv, DoorsTyped
<1>3. QED BY <1>1, <1>2, DoorsIdle, RequestMoves

(* A request arrives: it has seen what admits at this instant.             *)
LEMMA ArriveKeeps ==
  ASSUME DoorsInv, NEW r \in Request, Doors!Receive(r)
  PROVE  DoorsInv'
<1>1. PICK goal \in {"login", "admin"}, k \in issued \cup {NoToken},
           p \in Passwords \cup {NoPassword} :
        caller' = [caller EXCEPT ![r] = Doors!Arrival(goal, k, p)]
  BY DEF Doors!Receive
<1> DEFINE c == Doors!Arrival(goal, k, p)
<1>2. /\ UNCHANGED <<password, open, granted, issued>>
      /\ seen' = [seen EXCEPT ![r] = Doors!InForce]
  BY DEF Doors!Receive
<1>3. /\ Carries(c) /\ c.at \in {"load", "session"} /\ c.pw = p /\ c.waited = 0
      /\ c.right = (p # NoPassword /\ p = password)
  BY DEF Carries, Doors!Arrival, Doors!Idle, Doors!Steps, DoorsInv, DoorsTyped
<1>4. caller' = [caller EXCEPT ![r] = c] BY <1>1
<1> HIDE DEF c
<1>5. \A q \in Request : /\ caller'[q] = IF q = r THEN c ELSE caller[q]
                         /\ seen'[q] = IF q = r THEN Doors!InForce ELSE seen[q]
  BY <1>2, <1>4 DEF DoorsInv, DoorsTyped
<1>6. Sound(c, Doors!InForce, granted, password)
  BY <1>3 DEF Sound, Doors!InForce
<1>7. DoorsTyped' BY <1>2, <1>3, <1>4, <1>5 DEF DoorsInv, DoorsTyped
<1>8. SessionsGranted' BY <1>2 DEF DoorsInv, SessionsGranted
<1>9. \A q \in Request : Sound(caller'[q], seen'[q], granted', password')
  BY <1>2, <1>5, <1>6 DEF DoorsInv
<1>10. QED BY <1>7, <1>8, <1>9 DEF DoorsInv

(* A session that is open, once the expired ones are forgotten, is one     *)
(* that should admit.                                                      *)
LEMMA SessionKeeps ==
  ASSUME DoorsInv, NEW r \in Request, Doors!CheckSession(r)
  PROVE  DoorsInv'
<1> DEFINE c == caller[r]
           in == c.token # NoToken /\ Doors!Purged[c.token] # Doors!Absent
           step == IF in THEN "admitted" ELSE "load"
           d == [c EXCEPT !.at = step]
<1>1. /\ c.at = "session" /\ caller' = [caller EXCEPT ![r] = d]
      /\ open' = IF c.token = NoToken THEN open ELSE Doors!Purged
      /\ UNCHANGED <<password, granted, issued, seen>>
  BY DEF Doors!CheckSession, Doors!SessionValid, Doors!At, Doors!Goto, Doors!history
<1>2. Carries(c) /\ Sound(c, seen[r], granted, password)
  BY DEF DoorsInv, DoorsTyped
<1>3. step \in Doors!Steps BY DEF Doors!Steps
<1>4. Doors!Purged \in [Token -> Int] /\ open' \in [Token -> Int]
  BY <1>1 DEF DoorsInv, DoorsTyped, Doors!Purged, Doors!Absent
<1>5. SessionsGranted'
  BY <1>1, <1>4 DEF DoorsInv, DoorsTyped, SessionsGranted, Doors!Purged, Doors!Absent
<1>6. ASSUME in PROVE c.token \in seen[r]
  <2>1. c.token \in Token BY <1>2, <1>6 DEF Carries
  <2>2. open[c.token] # 0 /\ open[c.token] # Doors!Absent
    BY <1>6, <2>1 DEF Doors!Purged
  <2>3. granted[c.token] > 0
    BY <2>1, <2>2 DEF DoorsInv, DoorsTyped, SessionsGranted
  <2>4. QED BY <1>1, <1>2, <2>1, <2>3 DEF Sound
<1>7. Carries(d) /\ d.at = step /\ d.token = c.token /\ d.pw = c.pw /\ d.right = c.right
      /\ d.waited = c.waited
  BY <1>2, <1>3, StepOf
<1> HIDE DEF d, in
<1>8. Sound(d, seen[r], granted, password)
  BY <1>1, <1>2, <1>6, <1>7 DEF Sound
<1>9. QED BY <1>1, <1>4, <1>5, <1>7, <1>8, RequestMoves

(* Without an administrator the request ends; else it holds the password   *)
(* that is in force.                                                       *)
LEMMA LoadKeeps ==
  ASSUME DoorsInv, NEW r \in Request, Doors!LoadCredentials(r)
  PROVE  DoorsInv'
<1>1. /\ caller[r].at = "load"
      /\ UNCHANGED <<password, open, granted, issued, seen>>
  BY DEF Doors!LoadCredentials, Doors!At, Doors!history
<1>2. CASE caller' = [caller EXCEPT ![r] = Doors!Idle]
  BY <1>1, <1>2, AnswerKeeps
<1>3. CASE password # NoPassword
           /\ caller' = [caller EXCEPT ![r] = [caller[r] EXCEPT !.at = "count", !.cred = password]]
  <2> DEFINE c == caller[r]
             d == [c EXCEPT !.at = "count", !.cred = password]
  <2>1. Carries(c) /\ Sound(c, seen[r], granted, password)
    BY DEF DoorsInv, DoorsTyped
  <2>2. /\ Carries(d) /\ d.at = "count" /\ d.token = c.token /\ d.pw = c.pw
        /\ d.right = c.right /\ d.waited = c.waited /\ d.cred = password
    BY <2>1 DEF Carries, Doors!Idle, Doors!Steps, DoorsInv, DoorsTyped
  <2>3. Sound(d, seen[r], granted, password) BY <1>1, <1>3, <2>1, <2>2 DEF Sound
  <2>4. SessionsGranted' /\ open' \in [Token -> Int]
    BY <1>1 DEF DoorsInv, DoorsTyped, SessionsGranted
  <2>5. caller' = [caller EXCEPT ![r] = d] BY <1>3
  <2> HIDE DEF d
  <2>6. QED BY <1>1, <2>2, <2>3, <2>4, <2>5, RequestMoves
<1>4. QED BY <1>2, <1>3 DEF Doors!LoadCredentials

(* An attempt is counted. A request that is right finds the password in    *)
(* force, and goes on at once.                                             *)
LEMMA CountKeeps ==
  ASSUME DoorsInv, NEW r \in Request, Doors!Count(r)
  PROVE  DoorsInv'
<1> DEFINE c == caller[r]
           ok == c.pw = c.cred
           fails == IF throttle.last > Window THEN 0 ELSE throttle.fails
           delay == Doors!DelayFor(r, ok, fails)
<1>1. /\ c.at = "count"
      /\ caller' = [caller EXCEPT ![r] =
           IF delay > 0 THEN [@ EXCEPT !.at = "asleep", !.wait = delay]
           ELSE IF ~ok THEN Doors!Idle
           ELSE [@ EXCEPT !.at = Doors!Door(r)]]
      /\ UNCHANGED <<password, open, granted, issued, seen>>
  BY DEF Doors!Count, Doors!At, Doors!history
<1>2. Carries(c) /\ Sound(c, seen[r], granted, password)
  BY DEF DoorsInv, DoorsTyped
<1>3. ok => ~(delay > 0) BY DEF Doors!DelayFor
<1>4. SessionsGranted' /\ open' \in [Token -> Int]
  BY <1>1 DEF DoorsInv, DoorsTyped, SessionsGranted
<1>5. CASE delay > 0
  <2> DEFINE d == [c EXCEPT !.at = "asleep", !.wait = delay]
  <2>1. caller' = [caller EXCEPT ![r] = d] BY <1>1, <1>5
  <2>2. ~ok BY <1>3, <1>5
  <2> HIDE DEF delay
  <2>3. /\ Carries(d) /\ d.at = "asleep" /\ d.token = c.token /\ d.pw = c.pw
        /\ d.right = c.right /\ d.waited = c.waited /\ d.cred = c.cred
    BY <1>2 DEF Carries, Doors!Idle, Doors!Steps
  <2> HIDE DEF d
  <2>4. Sound(d, seen[r], granted, password) BY <1>1, <1>2, <2>2, <2>3 DEF Sound
  <2>5. QED BY <1>1, <1>4, <2>1, <2>3, <2>4, RequestMoves
<1>6. CASE ~(delay > 0) /\ ~ok
  <2>1. caller' = [caller EXCEPT ![r] = Doors!Idle] BY <1>1, <1>6
  <2>2. QED BY <1>1, <2>1, AnswerKeeps
<1>7. CASE ~(delay > 0) /\ ok
  <2> DEFINE d == [c EXCEPT !.at = Doors!Door(r)]
  <2>1. caller' = [caller EXCEPT ![r] = d] BY <1>1, <1>7
  <2>2. Doors!Door(r) \in {"open", "admitted"} /\ Doors!Door(r) \in Doors!Steps
    BY DEF Doors!Door, Doors!Steps
  <2>3. /\ Carries(d) /\ d.at = Doors!Door(r) /\ d.token = c.token /\ d.pw = c.pw
        /\ d.right = c.right /\ d.waited = c.waited
    BY <1>2, <2>2, StepOf
  <2> HIDE DEF d
  <2>4. Sound(d, seen[r], granted, password)
    BY <1>1, <1>2, <1>7, <2>2, <2>3 DEF Sound
  <2>5. QED BY <1>1, <1>4, <2>1, <2>3, <2>4, RequestMoves
<1>8. QED BY <1>5, <1>6, <1>7

(* Only wrong passwords sleep: whoever wakes is answered 401.              *)
LEMMA WakeKeeps ==
  ASSUME DoorsInv, NEW r \in Request, Doors!Wake(r)
  PROVE  DoorsInv'
<1>1. caller[r].at = "asleep" /\ UNCHANGED <<password, open, granted, issued, seen>>
  BY DEF Doors!Wake, Doors!At, Doors!history
<1>2. caller[r].pw # caller[r].cred BY <1>1 DEF DoorsInv, Sound
<1>3. caller' = [caller EXCEPT ![r] = Doors!Idle] BY <1>2 DEF Doors!Wake
<1>4. QED BY <1>1, <1>3, AnswerKeeps

(* A session is opened: every request in progress has seen its token.      *)
LEMMA OpenKeeps ==
  ASSUME DoorsInv, NEW r \in Request, Doors!Open(r)
  PROVE  DoorsInv'
<1>1. PICK k \in Token \ issued :
        /\ open' = [Doors!Purged EXCEPT ![k] = Ttl]
        /\ granted' = [granted EXCEPT ![k] = Ttl]
        /\ issued' = issued \cup {k}
        /\ seen' = [q \in Request |-> seen[q] \cup {k}]
  BY DEF Doors!Open
<1>2. caller' = [caller EXCEPT ![r] = Doors!Idle] /\ password' = password
  BY DEF Doors!Open
<1>3. \A q \in Request : /\ caller'[q] = IF q = r THEN Doors!Idle ELSE caller[q]
                         /\ seen'[q] = seen[q] \cup {k}
  BY <1>1, <1>2 DEF DoorsInv, DoorsTyped
<1>4. DoorsTyped'
  <2>1. Doors!Purged \in [Token -> Int]
    BY DEF DoorsInv, DoorsTyped, Doors!Purged, Doors!Absent
  <2>2. open' \in [Token -> Int] /\ granted' \in [Token -> Nat]
    BY <1>1, <2>1, SituationsAssumption DEF DoorsInv, DoorsTyped
  <2>3. QED BY <1>1, <1>2, <1>3, <2>2, DoorsIdle DEF DoorsInv, DoorsTyped
<1>5. SessionsGranted'
  <2>1. ASSUME NEW j \in Token
        PROVE  open'[j] = granted'[j] \/ (open'[j] = Doors!Absent /\ granted'[j] = 0)
    <3>1. CASE j = k BY <1>1, <3>1 DEF DoorsInv, DoorsTyped, Doors!Purged
    <3>2. CASE j # k
      <4>1. open'[j] = Doors!Purged[j] /\ granted'[j] = granted[j]
        BY <1>1, <3>2 DEF DoorsInv, DoorsTyped, Doors!Purged
      <4>2. QED BY <4>1 DEF DoorsInv, SessionsGranted, Doors!Purged
    <3>3. QED BY <3>1, <3>2
  <2>2. QED BY <2>1 DEF SessionsGranted
<1>6. ASSUME NEW q \in Request PROVE Sound(caller'[q], seen'[q], granted', password')
  <2>1. CASE q = r BY <1>3, <2>1, DoorsIdle
  <2>2. CASE q # r
    <3>1. Sound(caller[q], seen[q], granted, password) BY DEF DoorsInv
    <3>2. \A j \in Token : granted'[j] > 0 => j = k \/ granted[j] > 0
      BY <1>1 DEF DoorsInv, DoorsTyped
    <3>3. QED BY <1>2, <1>3, <2>2, <3>1, <3>2 DEF Sound
  <2>3. QED BY <2>1, <2>2
<1>7. QED BY <1>4, <1>5, <1>6 DEF DoorsInv

(* The password changes: every request in progress has seen the new one,   *)
(* and those that brought another one are not right any more.              *)
LEMMA PasswordKeeps ==
  ASSUME DoorsInv, NEW r \in Request, NEW p \in Passwords \cup {NoPassword},
         NEW next \in {"done", "clear"}, Doors!NewPassword(r, p, next),
         caller[r].at \in {"idle", "admitted"}, UNCHANGED open
  PROVE  DoorsInv'
<1>1. /\ password' = p /\ UNCHANGED <<granted, issued>>
      /\ caller' = [q \in Request |->
           [caller[q] EXCEPT !.right = @ /\ caller[q].pw = p,
                             !.at = IF q = r THEN next ELSE @]]
      /\ seen' = [q \in Request |-> seen[q] \cup ({p} \ {NoPassword})]
  BY DEF Doors!NewPassword
<1>2. ASSUME NEW q \in Request
      PROVE /\ Carries(caller'[q])
            /\ Sound(caller'[q], seen'[q], granted', password')
  <2> DEFINE c == caller[q]
             d == caller'[q]
  <2>1. Carries(c) /\ Sound(c, seen[q], granted, password)
    BY DEF DoorsInv, DoorsTyped
  <2>2. d = [c EXCEPT !.right = @ /\ c.pw = p, !.at = IF q = r THEN next ELSE @]
    BY <1>1
  <2>3. /\ DOMAIN d = DOMAIN c /\ d.at = (IF q = r THEN next ELSE c.at)
        /\ d.token = c.token /\ d.pw = c.pw /\ d.cred = c.cred /\ d.waited = c.waited
    BY <2>1, <2>2 DEF Carries, Doors!Idle
  <2>4. d.right = (c.right /\ c.pw = p)
    BY <2>1, <2>2 DEF Carries, Doors!Idle
  <2>5. /\ seen'[q] = seen[q] \cup ({p} \ {NoPassword})
        /\ password' = p /\ granted' = granted
    BY <1>1
  <2> HIDE DEF c, d
  <2>6. Carries(d) BY <2>1, <2>3 DEF Carries, Doors!Steps
  <2>7. q = r => c.at \in {"idle", "admitted"} BY DEF c
  <2>8. Sound(d, seen'[q], granted', password')
    <3>1. CASE q = r
      <4>1. d.at \in {"done", "clear"} BY <2>3, <3>1
      <4>2. QED BY <2>1, <2>3, <2>4, <2>5, <2>7, <3>1, <4>1 DEF Sound
    <3>2. CASE q # r
      BY <2>1, <2>3, <2>4, <2>5, <3>2 DEF Sound
    <3>3. QED BY <3>1, <3>2
  <2>9. QED BY <2>6, <2>8 DEF d
<1>3. DoorsTyped' BY <1>1, <1>2 DEF DoorsInv, DoorsTyped
<1>4. SessionsGranted' BY <1>1 DEF DoorsInv, SessionsGranted
<1>5. QED BY <1>2, <1>3, <1>4 DEF DoorsInv

(* A session ends, at logout or with all the others at a reset.            *)
LEMMA EndKeeps ==
  ASSUME DoorsInv, NEW S \in SUBSET Token,
         open' = [k \in Token |-> IF k \in S THEN Doors!Absent ELSE open[k]],
         granted' = [k \in Token |-> IF k \in S THEN 0 ELSE granted[k]],
         UNCHANGED <<password, issued, seen, caller>>
  PROVE  DoorsInv'
<1>1. DoorsTyped' BY DEF DoorsInv, DoorsTyped, Doors!Absent
<1>2. SessionsGranted' BY DEF DoorsInv, SessionsGranted
<1>3. ASSUME NEW q \in Request PROVE Sound(caller'[q], seen'[q], granted', password')
  <2>1. \A k \in Token : granted'[k] > 0 => granted[k] > 0 OBVIOUS
  <2>2. Sound(caller[q], seen[q], granted, password) BY DEF DoorsInv
  <2>3. QED BY <2>1, <2>2 DEF Sound
<1>4. QED BY <1>1, <1>2, <1>3 DEF DoorsInv

(* A reset clears the sessions, and nobody is let in by it. *)
LEMMA ClearKeeps ==
  ASSUME DoorsInv, NEW r \in Request, Doors!ResetSessions(r)
  PROVE  DoorsInv'
<1> DEFINE d == [caller[r] EXCEPT !.at = "done"]
<1>1. /\ caller' = [caller EXCEPT ![r] = d] /\ caller[r].at = "clear"
      /\ open' = [k \in Token |-> Doors!Absent] /\ granted' = [k \in Token |-> 0]
      /\ UNCHANGED <<password, issued, seen>>
  BY DEF Doors!ResetSessions, Doors!Goto, Doors!At
<1>2. \A q \in Request : /\ Carries(caller[q])
                         /\ Sound(caller[q], seen[q], granted, password)
  BY DEF DoorsInv, DoorsTyped
<1>3. /\ Carries(d) /\ d.at = "done" /\ d.pw = caller[r].pw
      /\ d.right = caller[r].right /\ d.waited = caller[r].waited
  BY <1>2, StepOf DEF Doors!Steps
<1> HIDE DEF d
<1>4. \A q \in Request : caller'[q] = IF q = r THEN d ELSE caller[q]
  BY <1>1 DEF DoorsInv, DoorsTyped
<1>5. DoorsTyped' BY <1>1, <1>3, <1>4 DEF DoorsInv, DoorsTyped, Doors!Absent
<1>6. SessionsGranted' BY <1>1 DEF SessionsGranted
<1>7. ASSUME NEW q \in Request PROVE Sound(caller'[q], seen'[q], granted', password')
  <2>1. \A k \in Token : ~(granted'[k] > 0) BY <1>1
  <2>2. Sound(caller[q], seen[q], granted, password) BY <1>2
  <2>3. CASE q = r
    <3>1. Sound(caller[r], seen[r], granted, password) BY <1>2
    <3>2. QED BY <1>1, <1>3, <1>4, <2>3, <3>1 DEF Sound
  <2>4. CASE q # r BY <1>1, <1>4, <2>1, <2>2, <2>4 DEF Sound
  <2>5. QED BY <2>3, <2>4
<1>8. QED BY <1>5, <1>6, <1>7 DEF DoorsInv

(* A restart forgets the requests, the sessions and the failures. *)
LEMMA DoorsRestart == ASSUME DoorsInv, Doors!Restart PROVE DoorsInv'
<1>1. /\ open' = [k \in Token |-> Doors!Absent] /\ granted' = [k \in Token |-> 0]
      /\ caller' = [r \in Request |-> Doors!Idle] /\ seen' = [r \in Request |-> {}]
      /\ UNCHANGED <<password, issued>>
  BY DEF Doors!Restart
<1>2. DoorsTyped' BY <1>1, DoorsIdle DEF DoorsInv, DoorsTyped, Doors!Absent
<1>3. SessionsGranted' BY <1>1 DEF SessionsGranted
<1>4. \A q \in Request : Sound(caller'[q], seen'[q], granted', password')
  BY <1>1, DoorsIdle
<1>5. QED BY <1>2, <1>3, <1>4 DEF DoorsInv

(* A second passes for everybody: whoever is not idle is asleep, and so    *)
(* not right.                                                              *)
LEMMA TickKeeps == ASSUME DoorsInv, Doors!Tick PROVE DoorsInv'
<1>1. /\ \A r \in Request : caller[r].at \in {"idle", "asleep"}
      /\ UNCHANGED <<password, issued, seen>>
      /\ open' = [k \in Token |-> IF open[k] <= 0 THEN open[k] ELSE open[k] - 1]
      /\ granted' = [k \in Token |-> IF granted[k] = 0 THEN 0 ELSE granted[k] - 1]
  BY DEF Doors!Tick, Doors!At
<1>2. ASSUME NEW q \in Request
      PROVE Carries(caller'[q]) /\ Sound(caller'[q], seen'[q], granted', password')
  <2> DEFINE c == caller[q]
             d == [c EXCEPT !.wait = @ - 1, !.waited = @ + 1]
  <2>1. Carries(c) /\ Sound(c, seen[q], granted, password)
    BY DEF DoorsInv, DoorsTyped
  <2>2. CASE c.at = "idle"
    <3>1. caller'[q] = Doors!Idle BY <2>2 DEF Doors!Tick, Doors!At
    <3>2. QED BY <3>1, DoorsIdle
  <2>3. CASE c.at = "asleep"
    <3>1. caller'[q] = d BY <2>3 DEF Doors!Tick, Doors!At
    <3>2. /\ Carries(d) /\ d.at = "asleep" /\ d.pw = c.pw /\ d.cred = c.cred
          /\ d.right = c.right
      BY <2>1, <2>3 DEF Carries, Doors!Idle
    <3> HIDE DEF d
    <3>3. Sound(d, seen'[q], granted', password') BY <1>1, <2>1, <2>3, <3>2 DEF Sound
    <3>4. QED BY <3>1, <3>2, <3>3
  <2>4. QED BY <1>1, <2>2, <2>3
<1>3. DOMAIN caller' = Request /\ caller' = [q \in Request |-> caller'[q]]
  BY DEF Doors!Tick
<1>4. open' \in [Token -> Int] /\ granted' \in [Token -> Nat]
  BY <1>1 DEF DoorsInv, DoorsTyped
<1>5. DoorsTyped' BY <1>1, <1>2, <1>3, <1>4 DEF DoorsInv, DoorsTyped
<1>6. SessionsGranted'
  BY <1>1 DEF DoorsInv, DoorsTyped, SessionsGranted, Doors!Absent
<1>7. QED BY <1>2, <1>5, <1>6 DEF DoorsInv

(* Every step of the doors preserves the invariant. *)
LEMMA DoorsNext == DoorsInv /\ [Doors!Next]_doorVars => DoorsInv'
<1> SUFFICES ASSUME DoorsInv, [Doors!Next]_doorVars PROVE DoorsInv'
  OBVIOUS
<1>1. ASSUME NEW r \in Request,
             \/ Doors!Receive(r) \/ Doors!CheckSession(r) \/ Doors!LoadCredentials(r)
             \/ Doors!Count(r) \/ Doors!Wake(r) \/ Doors!Open(r)
      PROVE DoorsInv'
  BY <1>1, ArriveKeeps, SessionKeeps, LoadKeeps, CountKeeps, WakeKeeps, OpenKeeps
<1>2. ASSUME NEW r \in Request,
             Doors!OpenBeyondBound(r) \/ Doors!Serve(r) \/ Doors!Return(r)
      PROVE DoorsInv'
  BY <1>2, AnswerKeeps DEF Doors!OpenBeyondBound, Doors!Serve, Doors!Return, Doors!history
<1>3. ASSUME NEW r \in Request, Doors!Rotate(r) \/ Doors!Reset(r) \/ Doors!Install(r)
      PROVE DoorsInv'
  <2>1. caller[r].at \in {"idle", "admitted"} /\ UNCHANGED open
    BY <1>3 DEF Doors!Rotate, Doors!Reset, Doors!Install, Doors!At
  <2>2. \E p \in Passwords \cup {NoPassword}, next \in {"done", "clear"} :
          Doors!NewPassword(r, p, next)
    BY <1>3 DEF Doors!Rotate, Doors!Reset, Doors!Install
  <2>3. QED BY <2>1, <2>2, PasswordKeeps
<1>4. ASSUME NEW r \in Request, Doors!ResetSessions(r) PROVE DoorsInv'
  BY <1>4, ClearKeeps
<1>5. ASSUME NEW k \in issued, Doors!Logout(k) PROVE DoorsInv'
  <2>1. k \in Token BY DEF DoorsInv, DoorsTyped
  <2>2. /\ open' = [j \in Token |-> IF j \in {k} THEN Doors!Absent ELSE open[j]]
        /\ granted' = [j \in Token |-> IF j \in {k} THEN 0 ELSE granted[j]]
        /\ UNCHANGED <<password, issued, seen, caller>>
    BY <1>5 DEF Doors!Logout, DoorsInv, DoorsTyped
  <2>3. QED BY <2>1, <2>2, EndKeeps
<1>6. CASE Doors!Tick BY <1>6, TickKeeps
<1>7. CASE Doors!Restart BY <1>7, DoorsRestart
<1>8. CASE UNCHANGED doorVars
  BY <1>8 DEF doorVars, DoorsInv, DoorsTyped, SessionsGranted
<1>9. QED BY <1>1, <1>2, <1>3, <1>4, <1>5, <1>6, <1>7, <1>8 DEF Doors!Next

-------------------------------------------------------------------------------
(* Always, at the doors: what the properties below follow from.            *)
THEOREM DoorsInvariant == Doors!Spec => []DoorsInv
<1>1. Doors!Spec => Doors!Init /\ [][Doors!Next]_doorVars
  BY DEF Doors!Spec, Doors!vars, doorVars
<1>2. QED BY <1>1, DoorsInit, DoorsNext, PTL

(* Always, whoever is let in brought a session or a password that would    *)
(* have let it in at some moment since it arrived (session_valid,          *)
(* require_admin, admin_login), whatever other requests rotate, reset, log *)
(* out or let expire in between.                                           *)
THEOREM AdmissionIsJustified == Doors!Spec => []AdmissionJustified
<1>1. DoorsInv => AdmissionJustified
  BY DEF DoorsInv, Sound, AdmissionJustified, Doors!AdmissionJustified
<1>2. QED BY <1>1, DoorsInvariant, PTL

(* Always, a request that brought the password in force, and found it in   *)
(* force all along, neither waits nor is refused, however many failures    *)
(* the throttle has counted (AuthThrottle).                                *)
THEOREM RightPasswordNeverWaits == Doors!Spec => []RightPasswordEnters
<1>1. DoorsInv => RightPasswordEnters
  BY DEF DoorsInv, Sound, RightPasswordEnters, Doors!RightPasswordEnters, Doors!At
<1>2. QED BY <1>1, DoorsInvariant, PTL

-------------------------------------------------------------------------------
(* One request at a time, and nothing that fails (Calm). The request that  *)
(* is in progress, if any:                                                 *)
Only == call[lone]

CalmStore == [installed : BOOLEAN, password : Passwords \cup {NoPassword},
              alert : BOOLEAN, fields : [Fields -> Value]]

CalmTyped ==
  /\ store \in CalmStore
  /\ signal \in [installed : BOOLEAN, alert : BOOLEAN]
  /\ call = [r \in {lone} |-> Only]
  /\ Only \in Calm!Call
  /\ era \in 0..CalmEra

(* What was told to the network is behind the store only where a handler   *)
(* is about to tell it.                                                    *)
SignalBehind ==
  /\ Only.at \notin {"install-password", "alert-on", "alert-off", "reset-signal", "reset-sessions"}
       => signal.installed = store.installed /\ signal.alert = store.alert
  /\ Only.at = "install-password" => store.installed /\ signal.alert = store.alert
  /\ Only.at \in {"alert-on", "alert-off"} =>
       signal.installed = store.installed /\ store.alert = (Only.at = "alert-on")
  /\ Only.at \in {"reset-signal", "reset-sessions"} => store = Calm!FactoryStore
  /\ Only.at = "reset-sessions" => ~signal.installed /\ ~signal.alert

(* An administrator, and whatever only an administrator can have started,  *)
(* is found on an installed node.                                          *)
AdminMeansInstalled ==
  /\ store.password # NoPassword => store.installed
  /\ sessions # {} => store.installed \/ Only.at \in {"reset-signal", "reset-sessions"}
  /\ Only.at \in {"config", "config-save", "config-password", "rotate", "login-open"}
       => store.installed

(* What is about to be saved differs from the store in the keys to change. *)
MergeCurrent ==
  Only.at = "config-save" =>
    \A f \in Fields \ Only.keys : Only.fields[f] = store.fields[f]

CalmInv ==
  /\ CalmTyped
  /\ SignalBehind
  /\ AdminMeansInstalled
  /\ MergeCurrent
  /\ store.fields = wanted

(* The values of a factory store and of an idle request have their types. *)
LEMMA CalmValues ==
  /\ Calm!Blank \in [Fields -> Value]
  /\ Calm!FactoryStore \in CalmStore
  /\ ~Calm!FactoryStore.installed /\ ~Calm!FactoryStore.alert
  /\ Calm!FactoryStore.password = NoPassword /\ Calm!FactoryStore.fields = Calm!Blank
  /\ Calm!Idle \in Calm!Call /\ Calm!Idle.at = "idle"
<1>1. Calm!Blank \in [Fields -> Value] BY PortalAssumption DEF Calm!Blank
<1>2. QED
  BY <1>1, SituationsAssumption
  DEF Calm!FactoryStore, CalmStore, Calm!Idle, Calm!Call, Calm!Waiting

(* A node that leaves the factory satisfies the calm invariant. *)
LEMMA CalmInit == Calm!Init => CalmInv
<1> SUFFICES ASSUME Calm!Init PROVE CalmInv
  OBVIOUS
<1>1. Only = Calm!Idle BY DEF Calm!Init, Only
<1>2. CalmTyped
  BY <1>1, CalmValues, SituationsAssumption DEF Calm!Init, CalmTyped
<1>3. /\ Only.at = "idle" /\ sessions = {}
      /\ store.installed = FALSE /\ store.alert = FALSE /\ store.password = NoPassword
      /\ signal.installed = FALSE /\ signal.alert = FALSE
      /\ store.fields = wanted
  BY <1>1, CalmValues DEF Calm!Init
<1>4. SignalBehind BY <1>3 DEF SignalBehind
<1>5. AdminMeansInstalled /\ MergeCurrent BY <1>3 DEF AdminMeansInstalled, MergeCurrent
<1>6. QED BY <1>2, <1>3, <1>4, <1>5 DEF CalmInv

(* How the only request moves on.                                          *)
LEMMA CalmMoves ==
  ASSUME CalmTyped, NEW k \in Calm!Call, call' = [call EXCEPT ![lone] = k]
  PROVE  Only' = k /\ call' = [r \in {lone} |-> Only']
BY DEF CalmTyped, Only

(* The one request that goes on keeps what it carries. *)
LEMMA CalmGoto ==
  ASSUME CalmTyped,
         NEW step \in Calm!Waiting \cup Calm!Reading \cup Calm!Writing,
         Calm!Goto(lone, step)
  PROVE  /\ Only' \in Calm!Call /\ call' = [r \in {lone} |-> Only']
         /\ Only'.at = step /\ Only'.keys = Only.keys /\ Only'.fields = Only.fields
         /\ Only'.pw = Only.pw
<1> DEFINE k == [Only EXCEPT !.at = step]
<1>1. k \in Calm!Call /\ k.at = step /\ k.keys = Only.keys /\ k.fields = Only.fields
      /\ k.pw = Only.pw
  BY DEF CalmTyped, Calm!Call
<1>2. call' = [call EXCEPT ![lone] = k] BY DEF Calm!Goto, Only, CalmTyped
<1> HIDE DEF k
<1>3. QED BY <1>1, <1>2, CalmMoves

(* The one request that returns is idle. *)
LEMMA CalmReturn ==
  ASSUME CalmTyped, Calm!Return(lone)
  PROVE  /\ Only' \in Calm!Call /\ call' = [r \in {lone} |-> Only']
         /\ Only'.at = "idle"
BY CalmValues, CalmMoves DEF Calm!Return

(* Without failures a transaction takes effect and the handler goes on. *)
LEMMA CalmWrite ==
  ASSUME CalmTyped, NEW new,
         NEW next \in Calm!Waiting \cup Calm!Reading \cup Calm!Writing,
         Calm!Write(lone, new, next)
  PROVE  /\ store' = new
         /\ Only' \in Calm!Call /\ call' = [r \in {lone} |-> Only']
         /\ Only'.at = next
<1>1. store' = new /\ (IF next = "idle" THEN Calm!Return(lone) ELSE Calm!Goto(lone, next))
  BY DEF Calm!Write
<1>2. CASE next = "idle" BY <1>1, <1>2, CalmReturn
<1>3. CASE next # "idle" BY <1>1, <1>3, CalmGoto
<1>4. QED BY <1>2, <1>3, <1>1

-------------------------------------------------------------------------------
(* A request is received by an installed node, or by one to be installed.  *)
LEMMA CalmReceive ==
  ASSUME CalmTyped, NEW goal \in Calm!Waiting, NEW p \in Passwords \cup {NoPassword},
         NEW keys \in SUBSET Fields, NEW fields \in [Fields -> Value],
         Calm!Receive(lone, goal, p, keys, fields)
  PROVE  /\ Only' \in Calm!Call /\ call' = [r \in {lone} |-> Only'] /\ Only'.at = goal
<1> DEFINE k == [at |-> goal, pw |-> p, keys |-> keys, fields |-> fields, era |-> era]
<1>1. k \in Calm!Call /\ k.at = goal BY DEF CalmTyped, Calm!Call
<1>2. call' = [call EXCEPT ![lone] = k] BY DEF Calm!Receive
<1> HIDE DEF k
<1>3. QED BY <1>1, <1>2, CalmMoves

(* The one request starts. *)
LEMMA CalmStarts ==
  ASSUME CalmInv,
         Calm!StartInstall(lone) \/ Calm!StartAdmin(lone) \/ Calm!Login(lone)
  PROVE  CalmInv'
<1>1. CalmTyped /\ Only.at = "idle"
      /\ UNCHANGED <<store, signal, sessions, era, wanted>>
  BY DEF CalmInv, Calm!StartInstall, Calm!StartAdmin, Calm!Login, Calm!At, Calm!history, Only
<1>2. /\ Only' \in Calm!Call /\ call' = [r \in {lone} |-> Only']
      /\ \/ Only'.at = "install"
         \/ Only'.at \in {"alert", "clear", "reset", "rotate", "config", "login-open"}
            /\ store.installed
  <2>1. CASE Calm!StartInstall(lone)
    <3>1. PICK p \in Passwords, c \in [Fields -> Value] :
            Calm!Receive(lone, "install", p, Fields, c)
      BY <2>1 DEF Calm!StartInstall
    <3>2. "install" \in Calm!Waiting BY DEF Calm!Waiting
    <3>3. QED BY <1>1, <3>1, <3>2, CalmReceive
  <2>2. CASE Calm!StartAdmin(lone)
    <3>1. store.installed
      BY <1>1, <2>2 DEF Calm!StartAdmin, Calm!Authorised, CalmInv, AdminMeansInstalled
    <3>2. \E goal \in {"alert", "clear", "reset", "rotate", "config"},
             p \in Passwords \cup {NoPassword}, keys \in SUBSET Fields,
             fields \in [Fields -> Value] :
            Calm!Receive(lone, goal, p, keys, fields)
      <4>1. CASE \E goal \in {"alert", "clear", "reset"} :
                   Calm!Receive(lone, goal, NoPassword, {}, Calm!Blank)
        BY <4>1, CalmValues
      <4>2. CASE \E p \in Passwords : Calm!Receive(lone, "rotate", p, {}, Calm!Blank)
        BY <4>2, CalmValues
      <4>3. CASE \E p \in Passwords \cup {NoPassword}, keys \in SUBSET Fields, v \in Value :
                   Calm!Receive(lone, "config", p, keys, [f \in Fields |-> v])
        <5>1. \A v \in Value : [f \in Fields |-> v] \in [Fields -> Value] OBVIOUS
        <5>2. QED BY <4>3, <5>1
      <4>4. QED BY <2>2, <4>1, <4>2, <4>3 DEF Calm!StartAdmin
    <3>3. QED BY <1>1, <3>1, <3>2, CalmReceive DEF Calm!Waiting
  <2>3. CASE Calm!Login(lone)
    <3>1. store.installed BY <2>3 DEF Calm!Login, CalmInv, AdminMeansInstalled
    <3>2. "login-open" \in Calm!Waiting BY DEF Calm!Waiting
    <3>3. Calm!Receive(lone, "login-open", NoPassword, {}, Calm!Blank)
      BY <2>3 DEF Calm!Login
    <3>4. QED BY <1>1, <3>1, <3>2, <3>3, CalmReceive, CalmValues
  <2>4. QED BY <2>1, <2>2, <2>3
<1>3. CalmTyped' BY <1>1, <1>2 DEF CalmTyped
<1>4. SignalBehind' BY <1>1, <1>2 DEF CalmInv, SignalBehind
<1>5. AdminMeansInstalled' BY <1>1, <1>2 DEF CalmInv, AdminMeansInstalled
<1>6. MergeCurrent' BY <1>2 DEF MergeCurrent
<1>7. store'.fields = wanted' BY <1>1 DEF CalmInv
<1>8. QED BY <1>3, <1>4, <1>5, <1>6, <1>7 DEF CalmInv

(* The first transaction of an installation. *)
LEMMA CalmInstall == ASSUME CalmInv, Calm!Install(lone) PROVE CalmInv'
<1>1. CalmTyped /\ Only.at = "install" /\ UNCHANGED <<signal, sessions, era>>
      /\ Only.fields \in [Fields -> Value] /\ store \in CalmStore
  BY DEF CalmInv, CalmTyped, Calm!Install, Calm!At, Calm!Call, Only
<1> DEFINE new == [store EXCEPT !.installed = TRUE, !.fields = call[lone].fields]
<1>2. /\ new \in CalmStore /\ new.installed /\ new.fields = Only.fields
      /\ new.password = store.password /\ new.alert = store.alert
  BY <1>1 DEF CalmStore, Only
<1>3. "install-password" \in Calm!Waiting \cup Calm!Reading \cup Calm!Writing
  BY DEF Calm!Writing
<1>4. \/ store.installed /\ Calm!Return(lone) /\ UNCHANGED store
      \/ ~store.installed /\ Calm!Write(lone, new, "install-password")
  BY DEF Calm!Install, Calm!Readings, Calm!WriteInstalled
<1>5. \/ store.installed /\ wanted' = wanted
      \/ ~store.installed /\ wanted' = IF store' = store THEN wanted ELSE Only.fields
  BY DEF Calm!Install, Calm!Readings, Calm!WriteInstalled, Only
<1> HIDE DEF new
<1>6. \/ store.installed /\ store' = store /\ Only'.at = "idle" /\ wanted' = wanted
      \/ ~store.installed /\ store' = new /\ Only'.at = "install-password"
         /\ wanted' = new.fields
  BY <1>1, <1>2, <1>3, <1>4, <1>5, CalmReturn, CalmWrite
<1>7. Only' \in Calm!Call /\ call' = [r \in {lone} |-> Only']
  BY <1>1, <1>3, <1>4, CalmReturn, CalmWrite
<1>8. CalmTyped' BY <1>1, <1>2, <1>6, <1>7 DEF CalmTyped
<1>9. SignalBehind' BY <1>1, <1>2, <1>6 DEF CalmInv, SignalBehind
<1>10. AdminMeansInstalled' BY <1>1, <1>2, <1>6 DEF CalmInv, AdminMeansInstalled
<1>11. MergeCurrent' BY <1>6 DEF MergeCurrent
<1>12. store'.fields = wanted' BY <1>6 DEF CalmInv
<1>13. QED BY <1>8, <1>9, <1>10, <1>11, <1>12 DEF CalmInv

(* The second transaction of an installation. *)
LEMMA CalmInstallPassword == ASSUME CalmInv, Calm!InstallPassword(lone) PROVE CalmInv'
<1>1. /\ CalmTyped /\ Only.at = "install-password" /\ store \in CalmStore
      /\ store' = [store EXCEPT !.password = Only.pw]
      /\ signal' = [signal EXCEPT !.installed = TRUE]
      /\ Only.pw \in Passwords \cup {NoPassword}
      /\ UNCHANGED <<sessions, era, wanted>>
  BY DEF CalmInv, CalmTyped, Calm!InstallPassword, Calm!At, Calm!Call, Only
<1>2. Only' \in Calm!Call /\ call' = [r \in {lone} |-> Only'] /\ Only'.at = "idle"
  BY <1>1, CalmReturn DEF Calm!InstallPassword
<1>3. /\ store' \in CalmStore /\ store'.installed = store.installed
      /\ store'.alert = store.alert /\ store'.fields = store.fields
  BY <1>1 DEF CalmStore
<1>4. /\ signal' \in [installed : BOOLEAN, alert : BOOLEAN]
      /\ signal'.installed /\ signal'.alert = signal.alert
  BY <1>1 DEF CalmTyped
<1>5. CalmTyped' BY <1>1, <1>2, <1>3, <1>4 DEF CalmTyped
<1>6. store.installed /\ signal.alert = store.alert
  BY <1>1 DEF CalmInv, SignalBehind
<1>7. SignalBehind' BY <1>2, <1>3, <1>4, <1>6 DEF SignalBehind
<1>8. AdminMeansInstalled' BY <1>1, <1>2, <1>3, <1>6 DEF AdminMeansInstalled
<1>9. MergeCurrent' BY <1>2 DEF MergeCurrent
<1>10. store'.fields = wanted' BY <1>1, <1>3 DEF CalmInv
<1>11. QED BY <1>5, <1>7, <1>8, <1>9, <1>10 DEF CalmInv

(* admin_set_config reads the configuration, merges, ...                   *)
LEMMA CalmConfigLoad == ASSUME CalmInv, Calm!ConfigLoad(lone) PROVE CalmInv'
<1> DEFINE fs == Calm!Merge(lone, store.fields)
           k == [Only EXCEPT !.fields = fs, !.at = "config-save"]
<1>1. /\ CalmTyped /\ Only.at = "config" /\ store \in CalmStore
      /\ UNCHANGED <<store, signal, sessions, era, wanted>>
  BY DEF CalmInv, CalmTyped, Calm!ConfigLoad, Calm!At, Calm!history, Only
<1>2. /\ fs \in [Fields -> Value]
      /\ \A f \in Fields \ Only.keys : fs[f] = store.fields[f]
  BY <1>1 DEF CalmTyped, CalmStore, Calm!Call, Calm!Merge, Only
<1>3. call' = [call EXCEPT ![lone] = k]
  BY <1>1 DEF Calm!ConfigLoad, Calm!Readings, CalmTyped, Only
<1> HIDE DEF fs
<1>4. k \in Calm!Call /\ k.at = "config-save" /\ k.keys = Only.keys /\ k.fields = fs
  BY <1>1, <1>2 DEF CalmTyped, Calm!Call, Calm!Reading
<1> HIDE DEF k
<1>5. Only' = k /\ call' = [r \in {lone} |-> Only'] BY <1>1, <1>3, <1>4, CalmMoves
<1>6. CalmTyped' BY <1>1, <1>4, <1>5 DEF CalmTyped
<1>7. SignalBehind' BY <1>1, <1>4, <1>5 DEF CalmInv, SignalBehind
<1>8. AdminMeansInstalled' BY <1>1, <1>4, <1>5 DEF CalmInv, AdminMeansInstalled
<1>9. MergeCurrent' BY <1>1, <1>2, <1>4, <1>5 DEF MergeCurrent
<1>10. QED BY <1>1, <1>6, <1>7, <1>8, <1>9 DEF CalmInv

(* ... and saves: since nobody came in between, what it saves is what the  *)
(* last changes add up to.                                                 *)
LEMMA CalmConfigSave == ASSUME CalmInv, Calm!ConfigSave(lone) PROVE CalmInv'
<1> DEFINE new == [store EXCEPT !.installed = TRUE, !.fields = call[lone].fields]
           next == IF call[lone].pw = NoPassword THEN "idle" ELSE "config-password"
<1>1. /\ CalmTyped /\ Only.at = "config-save" /\ store \in CalmStore
      /\ Only.fields \in [Fields -> Value]
      /\ UNCHANGED <<signal, sessions, era>>
      /\ wanted' = IF store' = store THEN wanted ELSE Calm!Merge(lone, wanted)
  BY DEF CalmInv, CalmTyped, Calm!ConfigSave, Calm!At, Calm!Call, Only
<1>2. /\ new \in CalmStore /\ new.installed /\ new.fields = Only.fields
      /\ new.password = store.password /\ new.alert = store.alert
  BY <1>1 DEF CalmStore, Only
<1>3. next \in Calm!Waiting \cup Calm!Reading \cup Calm!Writing
      /\ next \in {"idle", "config-password"}
  BY DEF Calm!Waiting, Calm!Reading
<1>4. Calm!Write(lone, new, next) BY DEF Calm!ConfigSave
<1> HIDE DEF new, next
<1>5. /\ store' = new /\ Only' \in Calm!Call /\ call' = [r \in {lone} |-> Only']
      /\ Only'.at = next
  BY <1>1, <1>3, <1>4, CalmWrite
<1>6. store.installed /\ signal.installed = store.installed /\ signal.alert = store.alert
  BY <1>1 DEF CalmInv, SignalBehind, AdminMeansInstalled
<1>7. CalmTyped' BY <1>1, <1>2, <1>5 DEF CalmTyped
<1>8. SignalBehind'
  <2>1. store'.installed = store.installed BY <1>2, <1>5, <1>6, <1>1 DEF CalmStore
  <2>2. QED BY <1>1, <1>2, <1>3, <1>5, <1>6, <2>1 DEF SignalBehind
<1>9. AdminMeansInstalled' BY <1>2, <1>5 DEF AdminMeansInstalled
<1>10. MergeCurrent' BY <1>3, <1>5 DEF MergeCurrent
<1>11. store'.fields = wanted'
  <2>1. store.fields = wanted BY DEF CalmInv
  <2>2. CASE store' = store BY <1>1, <2>1, <2>2
  <2>3. CASE store' # store
    <3>1. \A f \in Fields : Calm!Merge(lone, wanted)[f] = Only.fields[f]
      BY <1>1, <2>1 DEF CalmInv, MergeCurrent, Calm!Merge, Only
    <3>2. Calm!Merge(lone, wanted) = Only.fields
      BY <1>1, <3>1 DEF Calm!Merge
    <3>3. QED BY <1>1, <1>2, <1>5, <2>3, <3>2
  <2>4. QED BY <2>2, <2>3
<1>12. QED BY <1>7, <1>8, <1>9, <1>10, <1>11 DEF CalmInv

(* The transactions that change the password only. *)
LEMMA CalmPassword ==
  ASSUME CalmInv, Calm!ConfigPassword(lone) \/ Calm!Rotate(lone)
  PROVE  CalmInv'
<1> DEFINE new == [store EXCEPT !.password = call[lone].pw]
<1>1. /\ CalmTyped /\ Only.at \in {"config-password", "rotate"} /\ store \in CalmStore
      /\ Only.pw \in Passwords \cup {NoPassword}
      /\ UNCHANGED <<signal, sessions, era, wanted>>
  BY DEF CalmInv, CalmTyped, Calm!ConfigPassword, Calm!Rotate, Calm!At, Calm!Call,
         Calm!history, Only
<1>2. /\ new \in CalmStore /\ new.installed = store.installed
      /\ new.fields = store.fields /\ new.alert = store.alert
  BY <1>1 DEF CalmStore, Only
<1>3. Calm!Write(lone, new, "idle") BY DEF Calm!ConfigPassword, Calm!Rotate
<1>4. "idle" \in Calm!Waiting \cup Calm!Reading \cup Calm!Writing BY DEF Calm!Waiting
<1> HIDE DEF new
<1>5. /\ store' = new /\ Only' \in Calm!Call /\ call' = [r \in {lone} |-> Only']
      /\ Only'.at = "idle"
  BY <1>1, <1>3, <1>4, CalmWrite
<1>6. store.installed /\ signal.installed = store.installed /\ signal.alert = store.alert
  BY <1>1 DEF CalmInv, SignalBehind, AdminMeansInstalled
<1>7. CalmTyped' BY <1>1, <1>2, <1>5 DEF CalmTyped
<1>8. SignalBehind' BY <1>1, <1>2, <1>5, <1>6 DEF SignalBehind
<1>9. AdminMeansInstalled' /\ MergeCurrent'
  BY <1>2, <1>5, <1>6 DEF AdminMeansInstalled, MergeCurrent
<1>10. QED BY <1>1, <1>2, <1>5, <1>7, <1>8, <1>9 DEF CalmInv

(* An alert is written or removed, then told.                              *)
LEMMA CalmAlert ==
  ASSUME CalmInv, Calm!SetAlert(lone) \/ Calm!ClearAlert(lone)
  PROVE  CalmInv'
<1>1. /\ CalmTyped /\ Only.at \in {"alert", "clear"} /\ store \in CalmStore
      /\ UNCHANGED <<signal, sessions, era, wanted>>
  BY DEF CalmInv, CalmTyped, Calm!SetAlert, Calm!ClearAlert, Calm!At, Calm!history, Only
<1>2. PICK on \in BOOLEAN, next \in {"alert-on", "alert-off"} :
        /\ on = (next = "alert-on")
        /\ Calm!Write(lone, [store EXCEPT !.alert = on], next)
  BY DEF Calm!SetAlert, Calm!ClearAlert
<1> DEFINE new == [store EXCEPT !.alert = on]
<1>3. /\ new \in CalmStore /\ new.installed = store.installed /\ new.alert = on
      /\ new.fields = store.fields /\ new.password = store.password
  BY <1>1 DEF CalmStore
<1>4. next \in Calm!Waiting \cup Calm!Reading \cup Calm!Writing BY DEF Calm!Reading
<1>5. Calm!Write(lone, new, next) BY <1>2
<1> HIDE DEF new
<1>6. /\ store' = new /\ Only' \in Calm!Call /\ call' = [r \in {lone} |-> Only']
      /\ Only'.at = next
  BY <1>1, <1>4, <1>5, CalmWrite
<1>7. CalmTyped' BY <1>1, <1>3, <1>6 DEF CalmTyped
<1>8. SignalBehind' BY <1>1, <1>2, <1>3, <1>6 DEF CalmInv, SignalBehind
<1>9. AdminMeansInstalled' /\ MergeCurrent'
  BY <1>1, <1>3, <1>6 DEF CalmInv, AdminMeansInstalled, MergeCurrent
<1>10. QED BY <1>1, <1>3, <1>6, <1>7, <1>8, <1>9 DEF CalmInv

(* The signal that follows a change of the alert in the store. *)
LEMMA CalmSignal == ASSUME CalmInv, Calm!SignalAlert(lone) PROVE CalmInv'
<1> DEFINE on == Only.at = "alert-on"
<1>1. /\ CalmTyped /\ Only.at \in {"alert-on", "alert-off"}
      /\ signal' = [signal EXCEPT !.alert = on]
      /\ UNCHANGED <<store, sessions, era, wanted>>
  BY DEF CalmInv, CalmTyped, Calm!SignalAlert, Calm!At, Calm!history, Only
<1>2. on \in BOOLEAN /\ store.alert = on /\ signal.installed = store.installed
  BY <1>1 DEF CalmInv, SignalBehind
<1> HIDE DEF on
<1>3. /\ signal' \in [installed : BOOLEAN, alert : BOOLEAN]
      /\ signal'.installed = signal.installed /\ signal'.alert = on
  BY <1>1, <1>2 DEF CalmTyped
<1>4. Only' \in Calm!Call /\ call' = [r \in {lone} |-> Only'] /\ Only'.at = "idle"
  BY <1>1, CalmReturn DEF Calm!SignalAlert
<1>5. CalmTyped' BY <1>1, <1>3, <1>4 DEF CalmTyped
<1>6. SignalBehind' BY <1>1, <1>2, <1>3, <1>4 DEF SignalBehind
<1>7. AdminMeansInstalled' /\ MergeCurrent'
  BY <1>1, <1>4 DEF CalmInv, AdminMeansInstalled, MergeCurrent
<1>8. QED BY <1>1, <1>5, <1>6, <1>7 DEF CalmInv

(* A factory reset: the store, ...                                         *)
LEMMA CalmReset == ASSUME CalmInv, Calm!Reset(lone) PROVE CalmInv'
<1>1. /\ CalmTyped /\ era < CalmEra /\ Calm!Write(lone, Calm!FactoryStore, "reset-signal")
      /\ UNCHANGED <<signal, sessions>>
  BY DEF CalmInv, Calm!Reset
<1>2. "reset-signal" \in Calm!Waiting \cup Calm!Reading \cup Calm!Writing
  BY DEF Calm!Reading
<1>3. /\ store' = Calm!FactoryStore
      /\ Only' \in Calm!Call /\ call' = [r \in {lone} |-> Only']
      /\ Only'.at = "reset-signal"
  BY <1>1, <1>2, CalmWrite
<1>4. era' = era + 1 /\ wanted' = Calm!Blank BY <1>3 DEF Calm!Reset
<1>5. era' \in 0..CalmEra BY <1>1, <1>4, SituationsAssumption DEF CalmTyped
<1>6. CalmTyped' BY <1>1, <1>3, <1>5, CalmValues DEF CalmTyped
<1>7. SignalBehind' BY <1>3 DEF SignalBehind, Calm!FactoryStore
<1>8. AdminMeansInstalled' /\ MergeCurrent'
  BY <1>3, CalmValues DEF AdminMeansInstalled, MergeCurrent
<1>9. QED BY <1>3, <1>4, <1>6, <1>7, <1>8, CalmValues DEF CalmInv

(* ... the signal, ...                                                     *)
LEMMA CalmResetSignal == ASSUME CalmInv, Calm!ResetSignal(lone) PROVE CalmInv'
<1>1. /\ CalmTyped /\ Only.at = "reset-signal"
      /\ signal' = [installed |-> FALSE, alert |-> FALSE]
      /\ UNCHANGED <<store, sessions, era, wanted>>
  BY DEF CalmInv, Calm!ResetSignal, Calm!At, Calm!history, Only
<1>2. "reset-sessions" \in Calm!Waiting \cup Calm!Reading \cup Calm!Writing
  BY DEF Calm!Waiting
<1>3. /\ Only' \in Calm!Call /\ call' = [r \in {lone} |-> Only']
      /\ Only'.at = "reset-sessions"
  BY <1>1, <1>2, CalmGoto DEF Calm!ResetSignal
<1>4. store = Calm!FactoryStore BY <1>1 DEF CalmInv, SignalBehind
<1>5. CalmTyped' BY <1>1, <1>3 DEF CalmTyped
<1>6. SignalBehind' BY <1>1, <1>3, <1>4 DEF SignalBehind, Calm!FactoryStore
<1>7. AdminMeansInstalled' /\ MergeCurrent'
  BY <1>1, <1>3 DEF CalmInv, AdminMeansInstalled, MergeCurrent
<1>8. QED BY <1>1, <1>5, <1>6, <1>7 DEF CalmInv

(* ... and the sessions.                                                   *)
LEMMA CalmResetSessions == ASSUME CalmInv, Calm!ResetSessions(lone) PROVE CalmInv'
<1>1. /\ CalmTyped /\ Only.at = "reset-sessions" /\ sessions' = {}
      /\ UNCHANGED <<store, signal, era, wanted>>
  BY DEF CalmInv, Calm!ResetSessions, Calm!At, Calm!history, Only
<1>2. Only' \in Calm!Call /\ call' = [r \in {lone} |-> Only'] /\ Only'.at = "idle"
  BY <1>1, CalmReturn DEF Calm!ResetSessions
<1>3. /\ store.installed = FALSE /\ store.alert = FALSE
      /\ signal.installed = FALSE /\ signal.alert = FALSE
  BY <1>1 DEF CalmInv, CalmTyped, SignalBehind, Calm!FactoryStore
<1>4. CalmTyped' BY <1>1, <1>2 DEF CalmTyped
<1>5. SignalBehind' BY <1>1, <1>2, <1>3 DEF SignalBehind
<1>6. AdminMeansInstalled' /\ MergeCurrent'
  BY <1>1, <1>2 DEF CalmInv, AdminMeansInstalled, MergeCurrent
<1>7. QED BY <1>1, <1>4, <1>5, <1>6 DEF CalmInv

(* A session opens on an installed node, or ends.                          *)
LEMMA CalmSessions ==
  ASSUME CalmInv,
         Calm!LoginOpen(lone) \/ \E s \in sessions : Calm!Logout(s)
  PROVE  CalmInv'
<1>1. CASE Calm!LoginOpen(lone)
  <2>1. /\ CalmTyped /\ Only.at = "login-open" /\ UNCHANGED <<store, signal, era, wanted>>
    BY <1>1 DEF CalmInv, Calm!LoginOpen, Calm!At, Calm!history, Only
  <2>2. Only' \in Calm!Call /\ call' = [r \in {lone} |-> Only'] /\ Only'.at = "idle"
    BY <1>1, <2>1, CalmReturn DEF Calm!LoginOpen
  <2>3. CalmTyped' BY <2>1, <2>2 DEF CalmTyped
  <2>4. SignalBehind' BY <2>1, <2>2 DEF CalmInv, SignalBehind
  <2>5. AdminMeansInstalled' /\ MergeCurrent'
    BY <2>1, <2>2 DEF CalmInv, AdminMeansInstalled, MergeCurrent
  <2>6. QED BY <2>1, <2>3, <2>4, <2>5 DEF CalmInv
<1>2. CASE \E s \in sessions : Calm!Logout(s)
  <2>1. sessions' \subseteq sessions /\ UNCHANGED <<store, signal, call, era, wanted>>
    BY <1>2 DEF Calm!Logout, Calm!history
  <2>2. Only' = Only BY <2>1 DEF Only
  <2>3. CalmTyped' BY <2>1, <2>2 DEF CalmInv, CalmTyped
  <2>4. SignalBehind' BY <2>1, <2>2 DEF CalmInv, SignalBehind
  <2>5. AdminMeansInstalled' /\ MergeCurrent'
    BY <2>1, <2>2 DEF CalmInv, AdminMeansInstalled, MergeCurrent
  <2>6. QED BY <2>1, <2>3, <2>4, <2>5 DEF CalmInv
<1>3. QED BY <1>1, <1>2

(* Every step of the one request preserves the calm invariant. *)
LEMMA CalmNext == CalmInv /\ [Calm!Next]_vars => CalmInv'
<1> SUFFICES ASSUME CalmInv, [Calm!Next]_vars PROVE CalmInv'
  OBVIOUS
<1>1. CASE \/ Calm!StartInstall(lone) \/ Calm!StartAdmin(lone)
           \/ Calm!Install(lone) \/ Calm!InstallPassword(lone)
           \/ Calm!ConfigLoad(lone) \/ Calm!ConfigSave(lone) \/ Calm!ConfigPassword(lone)
           \/ Calm!Rotate(lone)
           \/ Calm!SetAlert(lone) \/ Calm!ClearAlert(lone) \/ Calm!SignalAlert(lone)
           \/ Calm!Reset(lone) \/ Calm!ResetSignal(lone) \/ Calm!ResetSessions(lone)
           \/ Calm!Login(lone) \/ Calm!LoginOpen(lone)
  BY <1>1, CalmStarts, CalmInstall, CalmInstallPassword, CalmConfigLoad, CalmConfigSave,
     CalmPassword, CalmAlert, CalmSignal, CalmReset, CalmResetSignal, CalmResetSessions,
     CalmSessions
<1>2. CASE \E s \in sessions : Calm!Logout(s) BY <1>2, CalmSessions
<1>3. CASE UNCHANGED vars
  <2>1. UNCHANGED <<store, signal, sessions, call, era, wanted>> BY <1>3 DEF vars
  <2>2. Only' = Only BY <2>1 DEF Only
  <2>3. QED BY <2>1, <2>2 DEF CalmInv, CalmTyped, SignalBehind, AdminMeansInstalled, MergeCurrent
<1>4. QED BY <1>1, <1>2, <1>3 DEF Calm!Next, Calm!Restart

(* Always, when requests come one by one and nothing fails: with none in   *)
(* progress the network was told of what is in the store, and the          *)
(* configuration is what the requests to change it add up to               *)
(* (admin_set_config, set_alert, clear_alert, install_node, admin_reset).  *)
THEOREM OneByOneInOrder == MCSpec => []CalmStoreInOrder
<1> DEFINE I == explored = "calm" => CalmInv
<1>1. MCInit => I BY CalmInit DEF MCInit
<1>2. I /\ [MCNext]_<<vars, explored, doorVars>> => I'
  <2> SUFFICES ASSUME I, [MCNext]_<<vars, explored, doorVars>>, explored' = "calm"
               PROVE  CalmInv'
    OBVIOUS
  <2>1. explored = "calm" /\ [Calm!Next]_vars BY DEF MCNext
  <2>2. QED BY <2>1, CalmNext
<1>3. I => CalmStoreInOrder
  <2> SUFFICES ASSUME CalmInv PROVE Calm!SignalFollowsStore /\ Calm!FieldsMerged
    BY DEF CalmStoreInOrder
  <2>1. ASSUME Calm!Quiet PROVE signal = [installed |-> store.installed, alert |-> store.alert]
    <3>1. Only.at = "idle" BY <2>1 DEF Calm!Quiet, Calm!At, Only
    <3>2. signal.installed = store.installed /\ signal.alert = store.alert
      BY <3>1 DEF CalmInv, SignalBehind
    <3>3. QED BY <3>2 DEF CalmInv, CalmTyped
  <2>2. QED BY <2>1 DEF CalmInv, Calm!SignalFollowsStore, Calm!FieldsMerged
<1> HIDE DEF I
<1>4. QED BY <1>1, <1>2, <1>3, PTL DEF MCSpec

===============================================================================
