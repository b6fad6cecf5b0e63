-------------------------- MODULE TrustRing_proofs --------------------------
(***************************************************************************)
(* When neither the registries administrators submit nor the registry file *)
(* of v2.5 name the node itself, the node accepts its own alerts, for any  *)
(* set of nodes and keys and any order of requests, failures and restarts. *)
(* When one administrator at a time acts and nothing fails, no restart     *)
(* changes whom the node trusts (Calm, a situation of MCTrustRing).  And a *)
(* node that starts with its store, and reads it, is what it was, whatever *)
(* is imposed on it and however its former starts ended (NodeBoot).        *)
(***************************************************************************)
EXTENDS MCTrustRing, TLAPS

(* What an operator has to see to.                                         *)
SelfLeftOut ==
  /\ \A keys \in Submitted : keys[Self] = NoKey
  /\ FileRegistry.keys[Self] = NoKey

RegistryOK(reg) ==
  reg \in Registry \cup {Nothing} /\ reg.keys \in Keys /\ reg.keys[Self] = NoKey

(* Nothing on the way to the ring names the node itself.                   *)
IInv ==
  /\ TypeOK
  /\ SelfTrusted
  /\ registry # Nothing /\ RegistryOK(registry)
  /\ \A r \in Request : RegistryOK(applying[r])

(* The registries that do not name the node.                               *)
LEMMA EmptyRegistries ==
  /\ NoKeys \in Keys /\ NoKeys[Self] = NoKey /\ Self \in Node
  /\ RegistryOK(Absent) /\ RegistryOK(Unreadable) /\ RegistryOK(Nothing)
BY DEF NoKeys, Keys, Node, RegistryOK, Registry, Absent, Unreadable, Nothing

(* A registry an administrator submits leaves the node out. *)
LEMMA SubmittedRegistries ==
  ASSUME SelfLeftOut, NEW keys \in Submitted
  PROVE  RegistryOK(Present(keys))
BY TrustAssumption DEF SelfLeftOut, RegistryOK, Registry, Present

(* So does the registry file. *)
LEMMA FileRegistryOK ==
  ASSUME SelfLeftOut
  PROVE  RegistryOK(FileRegistry) /\ FileRegistry # Nothing
<1>1. FileRegistry \in Registry BY TrustAssumption DEF Registry
<1>2. FileRegistry.keys \in Keys
  BY TrustAssumption, EmptyRegistries DEF Present, Absent
<1>3. FileRegistry # Nothing
  BY TrustAssumption DEF Present, Absent, Nothing
<1>4. QED BY <1>1, <1>2, <1>3 DEF RegistryOK, SelfLeftOut

(* A registry without the node loaded into a ring leaves it its own key.   *)
LEMMA LoadKeepsSelf ==
  ASSUME NEW key \in Key, NEW reg, RegistryOK(reg)
  PROVE  LoadOver(key, reg) \in Keys /\ LoadOver(key, reg)[Self] = key
BY EmptyRegistries DEF LoadOver, RegistryOK, Keys

(* The first start builds a ring that trusts the node. *)
LEMMA InitInv == SelfLeftOut /\ Init => IInv
<1> SUFFICES ASSUME SelfLeftOut, Init PROVE IInv
  OBVIOUS
<1>1. FirstKey \in Key BY TrustAssumption
<1>2. RegistryOK(registry) /\ registry # Nothing BY FileRegistryOK DEF Init
<1>3. ring \in Keys /\ ring[Self] = signing
  BY <1>1, FileRegistryOK, LoadKeepsSelf DEF Init
<1>4. \A r \in Request : RegistryOK(applying[r]) /\ applying[r] = Nothing
  BY EmptyRegistries DEF Init
<1>5. TypeOK BY <1>1, <1>2, <1>3, <1>4 DEF Init, TypeOK, RegistryOK
<1>6. QED BY <1>2, <1>3, <1>4, <1>5 DEF IInv, SelfTrusted

-------------------------------------------------------------------------------
(* A registry stored or not, the invariant holds of it. *)
LEMMA StoreInv ==
  ASSUME IInv, NEW r \in Request, NEW reg, RegistryOK(reg), reg # Nothing, Store(r, reg),
         UNCHANGED <<identity, signing, ring, used>>
  PROVE  IInv'
<1>1. RegistryOK(registry') /\ registry' # Nothing
  BY DEF IInv, Store
<1>2. /\ applying' \in [Request -> Registry \cup {Nothing}]
      /\ \A q \in Request : RegistryOK(applying'[q])
  BY DEF IInv, TypeOK, Store, RegistryOK
<1>3. TypeOK' BY <1>1, <1>2 DEF IInv, TypeOK, RegistryOK
<1>4. QED BY <1>1, <1>2, <1>3 DEF IInv, SelfTrusted, RegistryOK

(* Every step of any request, and every start, preserves the invariant. *)
LEMMA NextInv == SelfLeftOut /\ IInv /\ [Next]_vars => IInv'
<1> SUFFICES ASSUME SelfLeftOut, IInv, [Next]_vars PROVE IInv'
  OBVIOUS
<1>t. /\ signing \in Key /\ identity \in Key /\ registry \in Registry
      /\ used \subseteq Key /\ ring \in Keys
  BY DEF IInv, TypeOK
<1>1. ASSUME NEW r \in Request, SetTrusted(r) PROVE IInv'
  <2>1. PICK reg \in {Present(keys) : keys \in Submitted} \cup {Unreadable} : Store(r, reg)
    BY <1>1 DEF SetTrusted
  <2>2. RegistryOK(reg) BY SubmittedRegistries, EmptyRegistries
  <2>3. reg # Nothing BY DEF Present, Unreadable, Nothing
  <2>4. QED BY <1>1, <2>1, <2>2, <2>3, StoreInv DEF SetTrusted
<1>2. ASSUME NEW r \in Request, ClearTrusted(r) PROVE IInv'
  <2>1. Absent # Nothing BY DEF Absent, Nothing
  <2>2. QED BY <1>2, <2>1, EmptyRegistries, StoreInv DEF ClearTrusted
<1>3. ASSUME NEW r \in Request, Apply(r) PROVE IInv'
  <2>1. ring' \in Keys /\ ring'[Self] = signing
    BY <1>3, <1>t, LoadKeepsSelf DEF Apply, IInv
  <2>2. /\ applying' \in [Request -> Registry \cup {Nothing}]
        /\ \A q \in Request : RegistryOK(applying'[q])
    BY <1>3, EmptyRegistries DEF IInv, TypeOK, Apply
  <2>3. UNCHANGED <<registry, identity, signing, used>> BY <1>3 DEF Apply
  <2>4. TypeOK' BY <2>1, <2>2, <2>3 DEF IInv, TypeOK
  <2>5. QED BY <2>1, <2>2, <2>3, <2>4 DEF IInv, SelfTrusted, RegistryOK
<1>4. ASSUME NEW r \in Request, Rotate(r) PROVE IInv'
  <2>1. PICK k \in Key \ used :
          /\ \/ /\ identity' = k /\ signing' = k
                /\ ring' = LoadOver(k, registry)
             \/ /\ WritesMayFail
                /\ identity' \in {identity, k}
                /\ UNCHANGED <<signing, ring>>
          /\ used' = used \cup {k}
    BY <1>4 DEF Rotate
  <2>2. UNCHANGED <<registry, applying>> BY <1>4 DEF Rotate
  <2>3. signing' \in Key /\ identity' \in Key /\ ring' \in Keys /\ ring'[Self] = signing'
    BY <1>t, <2>1, LoadKeepsSelf DEF IInv, SelfTrusted
  <2>4. TypeOK' BY <1>t, <2>1, <2>2, <2>3 DEF IInv, TypeOK
  <2>5. QED BY <2>2, <2>3, <2>4 DEF IInv, SelfTrusted, RegistryOK
<1>5. ASSUME NEW r \in Request, Reset(r) PROVE IInv'
  <2>1. registry' \in {Absent, registry} /\ UNCHANGED <<identity, signing, ring, applying, used>>
    BY <1>5 DEF Reset
  <2>2. RegistryOK(registry') /\ registry' # Nothing
    BY <2>1, EmptyRegistries DEF IInv, Absent, Nothing
  <2>3. TypeOK' BY <2>1, <2>2 DEF IInv, TypeOK, RegistryOK
  <2>4. QED BY <2>1, <2>2, <2>3 DEF IInv, SelfTrusted, RegistryOK
<1>6. CASE Restart
  <2>1. BootKey \in Key BY <1>t, TrustAssumption DEF BootKey
  <2>2. RegistryOK(BootRegistry) /\ BootRegistry # Nothing
    BY FileRegistryOK DEF IInv, BootRegistry
  <2>3. ring' \in Keys /\ ring'[Self] = signing' /\ signing' \in Key
    BY <1>6, <2>1, <2>2, LoadKeepsSelf DEF Restart
  <2>4. identity' \in Key /\ used' \subseteq Key BY <1>6, <1>t, <2>1 DEF Restart
  <2>5. RegistryOK(registry') /\ registry' # Nothing
    BY <1>6, <2>2 DEF IInv, Restart
  <2>6. /\ applying' \in [Request -> Registry \cup {Nothing}]
        /\ \A q \in Request : RegistryOK(applying'[q])
    BY <1>6, EmptyRegistries DEF Restart
  <2>7. TypeOK' BY <2>3, <2>4, <2>5, <2>6 DEF TypeOK, RegistryOK
  <2>8. QED BY <2>3, <2>5, <2>6, <2>7 DEF IInv, SelfTrusted
<1>7. CASE UNCHANGED vars
  BY <1>7 DEF vars, IInv, TypeOK, SelfTrusted, RegistryOK
<1>8. QED BY <1>1, <1>2, <1>3, <1>4, <1>5, <1>6, <1>7 DEF Next

(* Always, a node whose registries leave it out trusts the key it signs    *)
(* with: rotate_secrets, set_trusted, clear_trusted, admin_reset and a     *)
(* restart all keep it in the ring.                                        *)
THEOREM AlwaysSelfTrusted ==
  ASSUME SelfLeftOut
  PROVE  Spec => []SelfTrusted
<1>1. Init => IInv BY InitInv
<1>2. IInv /\ [Next]_vars => IInv' BY NextInv
<1>3. IInv => SelfTrusted BY DEF IInv
<1>4. QED BY <1>1, <1>2, <1>3, PTL DEF Spec

-------------------------------------------------------------------------------
(* One administrator at a time, no failure, no registry file (Calm).       *)
KnownRegistry(reg) == reg.kind = "present" \/ reg.keys = Calm!NoKeys

(* Either the ring is what a restart would load, or the only request is    *)
(* about to load it with what it stored.                                   *)
CalmInv ==
  /\ signing = identity
  /\ KnownRegistry(registry) /\ registry # Calm!Nothing
  /\ applying \in [{r1} -> {Calm!Nothing, registry}]
  /\ applying[r1] = Calm!Nothing => ring = Calm!LoadOver(signing, registry)

(* The instance names the absence of a registry as the module does. *)
LEMMA SameAbsent == Calm!Absent = Absent
BY DEF Calm!Absent, Absent, Calm!NoKeys, NoKeys, Calm!Node, Node

(* A registry that does not decode counts for none.                        *)
LEMMA CalmBoot ==
  ASSUME KnownRegistry(registry), NEW key
  PROVE  Calm!LoadOver(key, Calm!BootRegistry) = Calm!LoadOver(key, registry)
<1>1. CASE registry.kind = "present" BY <1>1 DEF Calm!BootRegistry
<1>2. CASE registry.kind # "present"
  <2>1. Calm!BootRegistry.keys = registry.keys
    BY <1>2, SameAbsent DEF KnownRegistry, Calm!BootRegistry, Calm!Absent
  <2>2. QED BY <2>1 DEF Calm!LoadOver
<1>3. QED BY <1>1, <1>2

(* The registries a handler can come with are known ones, and not the absence of a
   submission. *)
LEMMA CalmRegistries ==
  /\ KnownRegistry(Calm!Absent) /\ Calm!Absent # Calm!Nothing
  /\ KnownRegistry(Calm!Unreadable) /\ Calm!Unreadable # Calm!Nothing
  /\ \A keys : KnownRegistry(Calm!Present(keys)) /\ Calm!Present(keys) # Calm!Nothing
BY DEF KnownRegistry, Calm!Absent, Calm!Unreadable, Calm!Present, Calm!Nothing

(* The first start without failures builds the ring from what is stored. *)
LEMMA CalmInit == Calm!Init => CalmInv
BY CalmRegistries, SameAbsent DEF Calm!Init, CalmInv

(* Every step of the one administrator preserves the calm invariant. *)
LEMMA CalmNext ==
  ASSUME PemKey = NoKey, CalmInv, [Calm!Next]_vars
  PROVE  CalmInv'
<1>1. CASE Calm!SetTrusted(r1) \/ Calm!ClearTrusted(r1)
  <2>1. PICK reg : /\ KnownRegistry(reg) /\ reg # Calm!Nothing
                   /\ Calm!Store(r1, reg)
    BY <1>1, CalmRegistries DEF Calm!SetTrusted, Calm!ClearTrusted
  <2>2. registry' = reg /\ applying' = [applying EXCEPT ![r1] = reg]
    BY <2>1 DEF Calm!Store
  <2>3. UNCHANGED <<identity, signing>>
    BY <1>1 DEF Calm!SetTrusted, Calm!ClearTrusted
  <2>4. applying' \in [{r1} -> {Calm!Nothing, registry'}] /\ applying'[r1] = reg
    BY <2>2 DEF CalmInv
  <2>5. QED BY <2>1, <2>2, <2>3, <2>4 DEF CalmInv, KnownRegistry
<1>2. CASE Calm!Apply(r1)
  <2>1. applying[r1] = registry BY <1>2 DEF Calm!Apply, Calm!Idle, CalmInv
  <2>2. QED BY <1>2, <2>1 DEF Calm!Apply, CalmInv, KnownRegistry
<1>3. CASE Calm!Rotate(r1)
  BY <1>3 DEF Calm!Rotate, CalmInv, KnownRegistry
<1>4. CASE Calm!Restart
  <2>1. Calm!BootKey = identity BY DEF Calm!BootKey
  <2>2. registry' = registry
    BY <1>4, SameAbsent DEF Calm!Restart, Calm!BootRegistry
  <2>3. /\ signing' = identity /\ identity' = identity
        /\ ring' = Calm!LoadOver(identity, registry)
        /\ applying' = [r \in {r1} |-> Calm!Nothing]
    BY <1>4, <2>1, CalmBoot DEF Calm!Restart, CalmInv
  <2>4. QED BY <2>2, <2>3 DEF CalmInv, KnownRegistry
<1>5. CASE UNCHANGED vars BY <1>5 DEF vars, CalmInv, KnownRegistry
<1>6. ~ Calm!Reset(r1) BY DEF Calm!Reset
<1>7. QED BY <1>1, <1>2, <1>3, <1>4, <1>5, <1>6 DEF Calm!Next

(* Always, when no identity is imposed and one administrator at a time     *)
(* acts without failure on a node that has no registry file: with no       *)
(* request in progress, a restart would change neither its identity nor    *)
(* whom it trusts (set_trusted, clear_trusted, rotate_secrets, run).       *)
THEOREM CalmRingIsDurable ==
  ASSUME PemKey = NoKey
  PROVE  MCSpec => []CalmHotIsDurable
<1> DEFINE I == situation = "calm" => CalmInv
<1>1. MCInit => I BY CalmInit DEF MCInit
<1>2. I /\ [MCNext]_mcvars => I'
  <2> SUFFICES ASSUME I, [MCNext]_mcvars, situation' = "calm" PROVE CalmInv'
    OBVIOUS
  <2>1. situation = "calm" /\ [Calm!Next]_vars BY DEF MCNext, mcvars
  <2>2. QED BY <2>1, CalmNext
<1>3. I => CalmHotIsDurable
  <2> SUFFICES ASSUME CalmInv, Calm!Quiet
               PROVE  signing = Calm!BootKey
                      /\ ring = Calm!LoadOver(Calm!BootKey, Calm!BootRegistry)
    BY DEF CalmHotIsDurable, Calm!HotIsDurable
  <2>1. applying[r1] = Calm!Nothing BY DEF Calm!Quiet, Calm!Idle
  <2>2. QED BY <2>1, CalmBoot DEF CalmInv, Calm!BootKey
<1> HIDE DEF I
<1>4. QED BY <1>1, <1>2, <1>3, PTL DEF MCSpec

-------------------------------------------------------------------------------
(* The starts of the node (NodeBoot).                                      *)
StoreShape(s) ==
  /\ s = [key |-> s.key, peers |-> s.peers, installed |-> s.installed, alert |-> s.alert]
  /\ s.installed \in BOOLEAN /\ s.alert \in BOOLEAN

MemShape(m) ==
  /\ m = [store |-> m.store, key |-> m.key, peers |-> m.peers,
          installed |-> m.installed, alert |-> m.alert, sure |-> m.sure]
  /\ m.store \in BOOLEAN /\ m.sure \in BOOLEAN
  /\ m.installed \in BOOLEAN /\ m.alert \in BOOLEAN

(* What run has read of the store so far is what the store holds, as long  *)
(* as everything was read and acknowledged.                                *)
ReadSoFar ==
  mem.sure =>
    /\ mem.store
    /\ at \in {"trust", "phase", "spawn", "bind", "serving"} =>
         mem.key = stored.key /\ (settings.imposed # NoKey => mem.key = settings.imposed)
    /\ at \in {"phase", "spawn", "bind", "serving"} =>
         mem.peers = stored.peers /\ (settings.registry => mem.peers # "none")
    /\ at \in {"spawn", "bind", "serving"} =>
         mem.installed = stored.installed /\ mem.alert = stored.alert

(* A start that has not found its store yet, or does without it, or has    *)
(* read all of it, leaves it as the last node that served from it did.     *)
StoredIsLast ==
  last.key # NoKey /\ (mem.store => mem.sure /\ at # "serving") =>
    /\ stored = last
    /\ settings.imposed # NoKey => last.key = settings.imposed
    /\ settings.registry => last.peers # "none"

BootInv ==
  /\ MemShape(mem) /\ StoreShape(stored)
  /\ at \in {"open", "identify", "trust", "down"} => mem.peers = "none"
  /\ at \in {"open", "down"} => ~mem.store
  /\ ReadSoFar
  /\ StoredIsLast

(* A node that has just been delivered has an empty store.                 *)
LEMMA BootInit == Boots!Init => BootInv
  BY DEF Boots!Init, Boots!Blank, Boots!Nothing, BootInv, MemShape, StoreShape,
         ReadSoFar, StoredIsLast

(* A transaction, acknowledged or not.                                     *)
LEMMA BootWritten ==
  ASSUME StoreShape(stored), NEW s, StoreShape(s), NEW ok \in BOOLEAN, Boots!Written(s, ok)
  PROVE  StoreShape(stored') /\ (ok => stored' = s)
  BY DEF Boots!Written

(* The process ends: the next start is held to what it found, if it had    *)
(* changed nothing yet, or to what it served.                              *)
LEMMA BootExit ==
  ASSUME BootInv, Boots!Exit, settings' = settings
  PROVE  BootInv'
<1>1. at' = "down" /\ stored' = stored /\ last' = Boots!Leaves
  BY DEF Boots!Exit, Boots!Goto
<1>2. mem' = [store |-> FALSE, key |-> NoKey, peers |-> "none",
              installed |-> FALSE, alert |-> FALSE, sure |-> FALSE]
  BY DEF Boots!Exit, Boots!Nothing
<1>3. MemShape(mem') /\ ~mem'.store /\ ~mem'.sure /\ mem'.peers = "none"
  BY <1>2 DEF MemShape
<1>4. StoredIsLast'
  <2>1. CASE ~mem.store \/ (mem.sure /\ at # "serving")
    <3>1. last' = last
      BY <1>1, <2>1 DEF Boots!Leaves
    <3> QED BY <3>1, <2>1, <1>1 DEF BootInv, StoredIsLast
  <2>2. CASE mem.store /\ mem.sure /\ at = "serving"
    <3>1. last' = [key |-> mem.key, peers |-> mem.peers,
                   installed |-> mem.installed, alert |-> mem.alert]
      BY <1>1, <2>2 DEF Boots!Leaves, Boots!InForce
    <3>2. last' = stored
      BY <3>1, <2>2 DEF BootInv, ReadSoFar, StoreShape
    <3> QED BY <3>1, <3>2, <2>2, <1>1 DEF BootInv, ReadSoFar, StoredIsLast
  <2>3. CASE mem.store /\ ~mem.sure
    <3>1. last'.key = NoKey
      BY <1>1, <2>3 DEF Boots!Leaves, Boots!Blank
    <3> QED BY <3>1 DEF StoredIsLast
  <2> QED BY <2>1, <2>2, <2>3 DEF BootInv, MemShape
<1> QED BY <1>1, <1>3, <1>4 DEF BootInv, ReadSoFar

(* open_store: the store, or none.                                         *)
LEMMA BootOpens == ASSUME BootInv, Boots!OpenStore, settings' = settings PROVE BootInv'
<1>1. at = "open" /\ at' = "identify" /\ stored' = stored /\ last' = last
  BY DEF Boots!OpenStore, Boots!Goto
<1>2. CASE mem' = mem
  BY <1>1, <1>2 DEF BootInv, ReadSoFar, StoredIsLast
<1>3. CASE mem' = [mem EXCEPT !.store = TRUE, !.sure = TRUE]
  <2>1. mem' = [store |-> TRUE, key |-> mem.key, peers |-> mem.peers,
                installed |-> mem.installed, alert |-> mem.alert, sure |-> TRUE]
    BY <1>3 DEF BootInv, MemShape
  <2> QED BY <1>1, <2>1 DEF BootInv, MemShape, ReadSoFar, StoredIsLast
<1> QED BY <1>2, <1>3 DEF Boots!OpenStore

(* A record of the store, or of what the process holds, with other values. *)
LEMMA StoreWith ==
  ASSUME NEW t, StoreShape(t), NEW v
  PROVE  /\ [t EXCEPT !.key = v]
             = [key |-> v, peers |-> t.peers, installed |-> t.installed, alert |-> t.alert]
         /\ [t EXCEPT !.installed = v]
             = [key |-> t.key, peers |-> t.peers, installed |-> v, alert |-> t.alert]
  BY DEF StoreShape

(* The phase.                                                              *)
LEMMA WithInstalled ==
  ASSUME NEW t, MemShape(t), NEW i
  PROVE  [t EXCEPT !.installed = i]
         = [store |-> t.store, key |-> t.key, peers |-> t.peers,
            installed |-> i, alert |-> t.alert, sure |-> t.sure]
<1> SUFFICES ASSUME NEW x, x = [t EXCEPT !.installed = i]
             PROVE  x = [store |-> t.store, key |-> t.key, peers |-> t.peers,
                         installed |-> i, alert |-> t.alert, sure |-> t.sure]
  OBVIOUS
<1> QED BY DEF MemShape

(* The phase, the alert and the certainty.                                 *)
LEMMA WithState ==
  ASSUME NEW t, MemShape(t), NEW i, NEW a, NEW v
  PROVE  [t EXCEPT !.installed = i, !.alert = a, !.sure = v]
         = [store |-> t.store, key |-> t.key, peers |-> t.peers,
            installed |-> i, alert |-> a, sure |-> v]
<1> SUFFICES ASSUME NEW x, x = [t EXCEPT !.installed = i, !.alert = a, !.sure = v]
             PROVE  x = [store |-> t.store, key |-> t.key, peers |-> t.peers,
                         installed |-> i, alert |-> a, sure |-> v]
  OBVIOUS
<1> QED BY DEF MemShape

(* The registry and the certainty.                                         *)
LEMMA WithRing ==
  ASSUME NEW t, MemShape(t), NEW p, NEW v
  PROVE  [t EXCEPT !.peers = p, !.sure = v]
         = [store |-> t.store, key |-> t.key, peers |-> p,
            installed |-> t.installed, alert |-> t.alert, sure |-> v]
<1> SUFFICES ASSUME NEW x, x = [t EXCEPT !.peers = p, !.sure = v]
             PROVE  x = [store |-> t.store, key |-> t.key, peers |-> p,
                         installed |-> t.installed, alert |-> t.alert, sure |-> v]
  OBVIOUS
<1> QED BY DEF MemShape

(* The identity, the registry and the certainty.                           *)
LEMMA WithSecrets ==
  ASSUME NEW t, MemShape(t), NEW k, NEW p, NEW v
  PROVE  [t EXCEPT !.key = k, !.peers = p, !.sure = v]
         = [store |-> t.store, key |-> k, peers |-> p,
            installed |-> t.installed, alert |-> t.alert, sure |-> v]
<1> SUFFICES ASSUME NEW x, x = [t EXCEPT !.key = k, !.peers = p, !.sure = v]
             PROVE  x = [store |-> t.store, key |-> k, peers |-> p,
                         installed |-> t.installed, alert |-> t.alert, sure |-> v]
  OBVIOUS
<1> QED BY DEF MemShape

(* What the process holds with an identity, and its certainty or less.     *)
LEMMA WithKey ==
  ASSUME MemShape(mem), NEW k, NEW ok \in BOOLEAN,
         \/ mem' = [mem EXCEPT !.key = k, !.sure = @ /\ ok]
         \/ ok = TRUE /\ mem' = [mem EXCEPT !.key = k]
  PROVE  /\ MemShape(mem') /\ mem'.key = k /\ mem'.store = mem.store
         /\ mem'.peers = mem.peers /\ (mem'.sure <=> mem.sure /\ ok)
<1>1. mem' = [store |-> mem.store, key |-> k, peers |-> mem.peers,
              installed |-> mem.installed, alert |-> mem.alert, sure |-> mem.sure /\ ok]
  BY DEF MemShape
<1> QED BY <1>1 DEF MemShape

(* load_keyring: an identity stored is adopted, unless one is imposed,     *)
(* which was then in force before.                                         *)
LEMMA BootIdentifies == ASSUME BootInv, Boots!LoadKeyring, settings' = settings PROVE BootInv'
<1>1. at = "identify" /\ at' = "trust" /\ last' = last
  BY DEF Boots!LoadKeyring, Boots!Goto
<1>2. ASSUME NEW k, Boots!Adopt(k), settings.imposed # NoKey => k = settings.imposed,
             last.key # NoKey /\ mem.sure => k = stored.key
      PROVE  BootInv'
  <2>1. CASE ~mem.store
    <3>1. stored' = stored /\ mem' = [mem EXCEPT !.key = k]
      BY <1>2, <2>1 DEF Boots!Adopt
    <3>2. MemShape(mem') /\ mem'.store = mem.store /\ mem'.peers = mem.peers /\ ~mem'.sure
      BY <3>1, <2>1, WithKey DEF BootInv, ReadSoFar
    <3> QED BY <1>1, <2>1, <3>1, <3>2 DEF BootInv, ReadSoFar, StoredIsLast
  <2>2. CASE mem.store
    <3>1. PICK ok \in BOOLEAN : /\ Boots!Written([stored EXCEPT !.key = k], ok)
                                /\ mem' = [mem EXCEPT !.key = k, !.sure = @ /\ ok]
      BY <1>2, <2>2 DEF Boots!Adopt, Boots!Persist
    <3> DEFINE s == [key |-> k, peers |-> stored.peers,
                     installed |-> stored.installed, alert |-> stored.alert]
    <3>2. [stored EXCEPT !.key = k] = s /\ StoreShape(s)
      BY DEF BootInv, StoreShape
    <3>3. StoreShape(stored') /\ (ok => stored' = s)
      BY <3>1, <3>2, BootWritten DEF BootInv
    <3>4. /\ MemShape(mem') /\ mem'.key = k /\ mem'.store = mem.store
          /\ mem'.peers = mem.peers /\ (mem'.sure <=> mem.sure /\ ok)
      BY <3>1, WithKey DEF BootInv
    <3>5. ReadSoFar'
      BY <1>1, <1>2, <2>2, <3>3, <3>4 DEF ReadSoFar
    <3>6. StoredIsLast'
      <4>1. last.key # NoKey /\ mem.sure /\ ok => stored' = stored
        BY <1>2, <3>3 DEF BootInv, StoreShape
      <4> QED BY <4>1, <1>1, <2>2, <3>4 DEF BootInv, StoredIsLast
    <3> QED BY <1>1, <2>2, <3>3, <3>4, <3>5, <3>6 DEF BootInv
  <2> QED BY <2>1, <2>2
<1>3. CASE settings.imposed # NoKey /\ Boots!Adopt(settings.imposed)
  BY <1>1, <1>2, <1>3 DEF BootInv, ReadSoFar, StoredIsLast
<1>4. CASE /\ settings.imposed = NoKey /\ mem.store
           /\ mem' = [mem EXCEPT !.key = stored.key] /\ stored' = stored
  <2>1. /\ MemShape(mem') /\ mem'.key = stored.key /\ mem'.store = mem.store
        /\ mem'.peers = mem.peers /\ (mem'.sure <=> mem.sure)
    BY <1>4, WithKey DEF BootInv
  <2> QED BY <1>1, <1>4, <2>1 DEF BootInv, ReadSoFar, StoredIsLast
<1>5. CASE settings.imposed = NoKey /\ (mem.store => stored.key = NoKey) /\ Boots!Generate
  <2>1. PICK k : Boots!Adopt(k)
    BY <1>5 DEF Boots!Generate
  <2>2. ~(last.key # NoKey /\ mem.sure)
    BY <1>1, <1>5 DEF BootInv, ReadSoFar, StoredIsLast
  <2> QED BY <1>2, <1>5, <2>1, <2>2
<1> QED BY <1>3, <1>4, <1>5 DEF Boots!LoadKeyring, Boots!ImposedKey

(* What the process holds with a registry, and its certainty or less.      *)
LEMMA WithPeers ==
  ASSUME MemShape(mem), NEW p, NEW ok \in BOOLEAN,
         \/ mem' = [mem EXCEPT !.peers = p, !.sure = @ /\ ok]
         \/ ok = TRUE /\ mem' = [mem EXCEPT !.peers = p]
         \/ p = mem.peers /\ mem' = [mem EXCEPT !.sure = @ /\ ok]
  PROVE  /\ MemShape(mem') /\ mem'.key = mem.key /\ mem'.store = mem.store
         /\ mem'.peers = p /\ (mem'.sure <=> mem.sure /\ ok)
         /\ mem'.installed = mem.installed /\ mem'.alert = mem.alert
<1>1. mem' = [store |-> mem.store, key |-> mem.key, peers |-> p,
              installed |-> mem.installed, alert |-> mem.alert, sure |-> mem.sure /\ ok]
  BY DEF MemShape
<1> QED BY <1>1 DEF MemShape

(* load_trusted_nodes_into: the registry of the file is stored only where  *)
(* none was, and so not in a store that a node has served from.            *)
LEMMA BootTrusts == ASSUME BootInv, Boots!LoadTrusted, settings' = settings PROVE BootInv'
<1>1. at = "trust" /\ at' = "phase" /\ last' = last
  BY DEF Boots!LoadTrusted, Boots!Goto
<1> DEFINE swallowed == mem.store /\ stored.peers # "none"
<1>2. CASE mem.store /\ stored.peers # "none" /\ mem' = [mem EXCEPT !.peers = stored.peers]
           /\ stored' = stored
  <2>1. /\ MemShape(mem') /\ mem'.key = mem.key /\ mem'.store = mem.store
        /\ mem'.peers = stored.peers /\ (mem'.sure <=> mem.sure)
    BY <1>2, WithPeers DEF BootInv
  <2> QED BY <1>1, <1>2, <2>1 DEF BootInv, ReadSoFar, StoredIsLast
<1>3. CASE ~settings.registry /\ mem' = [mem EXCEPT !.sure = @ /\ ~swallowed] /\ stored' = stored
  <2>1. /\ MemShape(mem') /\ mem'.key = mem.key /\ mem'.store = mem.store
        /\ mem'.peers = mem.peers /\ (mem'.sure <=> mem.sure /\ ~swallowed)
    BY <1>3, WithPeers DEF BootInv
  <2> QED BY <1>1, <1>3, <2>1 DEF BootInv, ReadSoFar, StoredIsLast
<1>4. CASE ~mem.store /\ mem' = [mem EXCEPT !.peers = "file"] /\ stored' = stored
  <2>1. MemShape(mem') /\ mem'.store = mem.store /\ (mem'.sure <=> mem.sure)
    BY <1>4, WithPeers DEF BootInv
  <2> QED BY <1>1, <1>4, <2>1 DEF BootInv, ReadSoFar, StoredIsLast
<1>5. CASE /\ settings.registry /\ mem.store
           /\ \E ok \in BOOLEAN :
                /\ Boots!Written([stored EXCEPT !.peers = "file"], ok)
                /\ mem' = [mem EXCEPT !.peers = "file", !.sure = @ /\ ok /\ ~swallowed]
  <2>1. PICK ok \in BOOLEAN :
          /\ Boots!Written([stored EXCEPT !.peers = "file"], ok)
          /\ mem' = [mem EXCEPT !.peers = "file", !.sure = @ /\ ok /\ ~swallowed]
    BY <1>5
  <2> DEFINE s == [key |-> stored.key, peers |-> "file",
                   installed |-> stored.installed, alert |-> stored.alert]
  <2>2. [stored EXCEPT !.peers = "file"] = s /\ StoreShape(s)
    BY DEF BootInv, StoreShape
  <2>3. StoreShape(stored') /\ (ok => stored' = s)
    BY <2>1, <2>2, BootWritten DEF BootInv
  <2>4. /\ MemShape(mem') /\ mem'.key = mem.key /\ mem'.store = mem.store
        /\ mem'.peers = "file" /\ (mem'.sure <=> mem.sure /\ ok /\ ~swallowed)
    <3>1. mem' = [store |-> mem.store, key |-> mem.key, peers |-> "file",
                  installed |-> mem.installed, alert |-> mem.alert,
                  sure |-> mem.sure /\ ok /\ ~swallowed]
      BY <2>1 DEF BootInv, MemShape
    <3> QED BY <3>1 DEF BootInv, MemShape
  <2>5. ~(last.key # NoKey /\ mem'.sure)
    BY <1>1, <1>5, <2>4 DEF BootInv, StoredIsLast
  <2> QED BY <1>1, <1>5, <2>3, <2>4, <2>5 DEF BootInv, ReadSoFar, StoredIsLast
<1> QED BY <1>2, <1>3, <1>4, <1>5 DEF Boots!LoadTrusted, Boots!RegistryFile

(* What the process holds with a phase and an alert.                       *)
LEMMA WithPhase ==
  ASSUME MemShape(mem), NEW i \in BOOLEAN, NEW a \in BOOLEAN, NEW ok \in BOOLEAN,
         mem' = [store |-> mem.store, key |-> mem.key, peers |-> mem.peers,
                 installed |-> i, alert |-> a, sure |-> mem.sure /\ ok]
  PROVE  /\ MemShape(mem') /\ mem'.key = mem.key /\ mem'.store = mem.store
         /\ mem'.peers = mem.peers /\ (mem'.sure <=> mem.sure /\ ok)
         /\ mem'.installed = i /\ mem'.alert = a
  BY DEF MemShape

(* run announces what it has read of the phase and of the alert.           *)
LEMMA BootAnnounces == ASSUME BootInv, Boots!Phase, settings' = settings PROVE BootInv'
<1>1. at = "phase" /\ at' = "spawn" /\ stored' = stored /\ last' = last
  BY DEF Boots!Phase, Boots!Goto
<1>2. CASE mem' = [mem EXCEPT !.installed = mem.store /\ stored.installed,
                              !.alert = mem.store /\ stored.alert]
  <2>1. mem' = [store |-> mem.store, key |-> mem.key, peers |-> mem.peers,
                installed |-> mem.store /\ stored.installed,
                alert |-> mem.store /\ stored.alert, sure |-> mem.sure /\ TRUE]
    BY <1>2 DEF BootInv, MemShape
  <2>2. /\ MemShape(mem') /\ mem'.key = mem.key /\ mem'.store = mem.store
        /\ mem'.peers = mem.peers /\ (mem'.sure <=> mem.sure)
        /\ mem.store => mem'.installed = stored.installed /\ mem'.alert = stored.alert
    BY <2>1 DEF BootInv, MemShape, StoreShape
  <2> QED BY <1>1, <2>2 DEF BootInv, ReadSoFar, StoredIsLast
<1>3. CASE /\ mem.store
           /\ \E i, a \in BOOLEAN :
                mem' = [mem EXCEPT !.installed = i, !.alert = a, !.sure = FALSE]
  <2>1. PICK i, a \in BOOLEAN :
          mem' = [mem EXCEPT !.installed = i, !.alert = a, !.sure = FALSE]
    BY <1>3
  <2>2. mem' = [store |-> mem.store, key |-> mem.key, peers |-> mem.peers,
                installed |-> i, alert |-> a, sure |-> FALSE]
    BY <2>1 DEF BootInv, MemShape
  <2>3. MemShape(mem') /\ mem'.store = mem.store /\ ~mem'.sure
    BY <2>2 DEF BootInv, MemShape
  <2> QED BY <1>1, <1>3, <2>3 DEF BootInv, ReadSoFar, StoredIsLast
<1> QED BY <1>2, <1>3 DEF Boots!Phase

(* A handler that serves from the store: acknowledged, it leaves memory    *)
(* and store in agreement, or the process unsure.                          *)
LEMMA BootChanges ==
  ASSUME BootInv, settings' = settings, NEW s, NEW m, Boots!Change(s, m),
         StoreShape(s), MemShape(m), m.store = mem.store,
         m.sure => /\ mem.sure
                   /\ m.key = s.key /\ m.peers = s.peers
                   /\ m.installed = s.installed /\ m.alert = s.alert
                   /\ settings.imposed # NoKey => m.key = settings.imposed
                   /\ settings.registry => m.peers # "none"
  PROVE  BootInv'
<1>1. at = "serving" /\ mem.store /\ at' = at /\ last' = last
  BY DEF Boots!Change
<1>2. PICK ok \in BOOLEAN : /\ Boots!Written(s, ok)
                            /\ mem' = IF ok THEN m ELSE [mem EXCEPT !.sure = FALSE]
  BY DEF Boots!Change
<1>3. StoreShape(stored') /\ (ok => stored' = s)
  BY <1>2, BootWritten DEF BootInv
<1>4. CASE ok = TRUE
  BY <1>1, <1>2, <1>3, <1>4 DEF BootInv, ReadSoFar, StoredIsLast
<1>5. CASE ok = FALSE
  <2>1. mem' = [store |-> mem.store, key |-> mem.key, peers |-> mem.peers,
                installed |-> mem.installed, alert |-> mem.alert, sure |-> FALSE]
    BY <1>2, <1>5 DEF BootInv, MemShape
  <2>2. MemShape(mem') /\ mem'.store = mem.store /\ ~mem'.sure
    BY <2>1 DEF BootInv, MemShape
  <2> QED BY <1>1, <1>3, <2>2 DEF BootInv, ReadSoFar, StoredIsLast
<1> QED BY <1>4, <1>5

(* install_node.                                                           *)
LEMMA BootInstalls == ASSUME BootInv, Boots!Install, settings' = settings PROVE BootInv'
<1> DEFINE s == [stored EXCEPT !.installed = TRUE]
           m == [mem EXCEPT !.installed = TRUE]
<1>1. Boots!Change(s, m) /\ at = "serving"
  BY DEF Boots!Install, Boots!Change
<1>2. s = [key |-> stored.key, peers |-> stored.peers, installed |-> TRUE, alert |-> stored.alert]
  BY StoreWith, Zenon DEF BootInv
<1>3. m = [store |-> mem.store, key |-> mem.key, peers |-> mem.peers,
           installed |-> TRUE, alert |-> mem.alert, sure |-> mem.sure]
  BY WithInstalled, Zenon DEF BootInv
<1> HIDE DEF s, m
<1>4. StoreShape(s) /\ MemShape(m)
  BY <1>2, <1>3 DEF BootInv, StoreShape, MemShape
<1> QED BY <1>1, <1>2, <1>3, <1>4, BootChanges DEF BootInv, ReadSoFar

(* set_alert, clear_alert.                                                 *)
LEMMA BootAlerts ==
  ASSUME BootInv, NEW a \in BOOLEAN, Boots!SetAlert(a), settings' = settings
  PROVE  BootInv'
<1> DEFINE s == [stored EXCEPT !.alert = a]
           m == [mem EXCEPT !.alert = a]
<1>1. Boots!Change(s, m) /\ at = "serving"
  BY DEF Boots!SetAlert, Boots!Change
<1>2. s = [key |-> stored.key, peers |-> stored.peers, installed |-> stored.installed, alert |-> a]
  BY DEF BootInv, StoreShape
<1>3. m = [store |-> mem.store, key |-> mem.key, peers |-> mem.peers,
           installed |-> mem.installed, alert |-> a, sure |-> mem.sure]
  BY DEF BootInv, MemShape
<1> HIDE DEF s, m
<1>4. StoreShape(s) /\ MemShape(m)
  BY <1>2, <1>3 DEF BootInv, StoreShape, MemShape
<1> QED BY <1>1, <1>2, <1>3, <1>4, BootChanges DEF BootInv, ReadSoFar

(* admin_reset: the registry of the ring is the stored one only if there   *)
(* was none.                                                               *)
LEMMA BootResets == ASSUME BootInv, Boots!Reset, settings' = settings PROVE BootInv'
<1> DEFINE s == [Boots!Blank EXCEPT !.key = stored.key]
           m == [mem EXCEPT !.installed = FALSE, !.alert = FALSE,
                            !.sure = @ /\ mem.peers = "none"]
<1>1. Boots!Change(s, m) /\ at = "serving"
  BY DEF Boots!Reset, Boots!Change
<1>2. s = [key |-> stored.key, peers |-> "none", installed |-> FALSE, alert |-> FALSE]
  <2>1. /\ StoreShape(Boots!Blank) /\ Boots!Blank.peers = "none"
        /\ Boots!Blank.installed = FALSE /\ Boots!Blank.alert = FALSE
    BY DEF Boots!Blank, StoreShape
  <2> QED BY <2>1, StoreWith, Zenon
<1>v. PICK v \in BOOLEAN : v <=> mem.sure /\ mem.peers = "none"
  OBVIOUS
<1>3. m = [store |-> mem.store, key |-> mem.key, peers |-> mem.peers,
           installed |-> FALSE, alert |-> FALSE, sure |-> v]
  <2>1. m = [mem EXCEPT !.installed = FALSE, !.alert = FALSE, !.sure = v]
    BY <1>v
  <2> HIDE DEF s, m
  <2>2. MemShape(mem)
    BY DEF BootInv
  <2> QED BY <2>1, <2>2, WithState, Zenon
<1> HIDE DEF s, m
<1>4. StoreShape(s) /\ MemShape(m)
  BY <1>2, <1>3 DEF BootInv, StoreShape, MemShape
<1>5. m.sure => mem.sure /\ mem.peers = "none"
  BY <1>3, <1>v
<1> QED BY <1>1, <1>2, <1>3, <1>4, <1>5, BootChanges DEF BootInv, ReadSoFar

(* set_trusted, clear_trusted, with and without a store.                   *)
LEMMA BootSetsTrusted ==
  ASSUME BootInv, NEW p, Boots!SetTrusted(p), settings' = settings
  PROVE  BootInv'
<1> DEFINE s == [stored EXCEPT !.peers = p]
           sure == p = "none" => ~settings.registry
           m == [mem EXCEPT !.peers = p, !.sure = @ /\ sure]
<1>1. CASE at = "serving" /\ Boots!Change(s, m)
  <2>1. s = [key |-> stored.key, peers |-> p, installed |-> stored.installed,
             alert |-> stored.alert]
    BY DEF BootInv, StoreShape
  <2>v. PICK v \in BOOLEAN : v <=> mem.sure /\ sure
    OBVIOUS
  <2>2. m = [store |-> mem.store, key |-> mem.key, peers |-> p,
             installed |-> mem.installed, alert |-> mem.alert, sure |-> v]
    <3>1. m = [mem EXCEPT !.peers = p, !.sure = v]
      BY <2>v
    <3> HIDE DEF s, m
    <3>2. MemShape(mem)
      BY DEF BootInv
    <3> QED BY <3>1, <3>2, WithRing, Zenon
  <2>3. m.sure => mem.sure /\ sure
    BY <2>2, <2>v
  <2> HIDE DEF s, m
  <2>4. StoreShape(s) /\ MemShape(m)
    BY <2>1, <2>2 DEF BootInv, StoreShape, MemShape
  <2> QED BY <1>1, <2>1, <2>2, <2>3, <2>4, BootChanges DEF BootInv, ReadSoFar
<1>2. CASE /\ at = "serving" /\ ~mem.store /\ mem' = [mem EXCEPT !.peers = p]
           /\ UNCHANGED <<stored, at, last>>
  <2>1. MemShape(mem') /\ mem'.store = mem.store /\ (mem'.sure <=> mem.sure)
    BY <1>2, WithPeers DEF BootInv
  <2> QED BY <1>2, <2>1 DEF BootInv, ReadSoFar, StoredIsLast
<1> QED BY <1>1, <1>2 DEF Boots!SetTrusted, Boots!RegistryFile, Boots!Change

(* rotate_secrets.                                                         *)
LEMMA BootRotates ==
  ASSUME BootInv, NEW k, Boots!Rotate(k), settings' = settings
  PROVE  BootInv'
<1>1. PICK p : Boots!Change([stored EXCEPT !.key = k],
                            [mem EXCEPT !.key = k, !.peers = p,
                                        !.sure = @ /\ settings.imposed = NoKey /\ p = stored.peers])
  BY DEF Boots!Rotate, Boots!ImposedKey
<1> DEFINE s == [stored EXCEPT !.key = k]
           m == [mem EXCEPT !.key = k, !.peers = p,
                            !.sure = @ /\ settings.imposed = NoKey /\ p = stored.peers]
<1>2. Boots!Change(s, m) /\ at = "serving"
  BY <1>1 DEF Boots!Change
<1>3. s = [key |-> k, peers |-> stored.peers, installed |-> stored.installed,
           alert |-> stored.alert]
  BY DEF BootInv, StoreShape
<1>v. PICK v \in BOOLEAN : v <=> mem.sure /\ settings.imposed = NoKey /\ p = stored.peers
  OBVIOUS
<1>4. m = [store |-> mem.store, key |-> k, peers |-> p,
           installed |-> mem.installed, alert |-> mem.alert, sure |-> v]
  <2>1. m = [mem EXCEPT !.key = k, !.peers = p, !.sure = v]
    BY <1>v
  <2> HIDE DEF s, m
  <2>2. MemShape(mem)
    BY DEF BootInv
  <2> QED BY <2>1, <2>2, WithSecrets, Zenon
<1>5. m.sure => mem.sure /\ settings.imposed = NoKey /\ p = stored.peers
  BY <1>4, <1>v
<1> HIDE DEF s, m
<1>6. StoreShape(s) /\ MemShape(m)
  BY <1>3, <1>4 DEF BootInv, StoreShape, MemShape
<1> QED BY <1>2, <1>3, <1>4, <1>5, <1>6, BootChanges DEF BootInv, ReadSoFar

(* Every step of a node that starts, serves and stops keeps the invariant. *)
LEMMA BootNext == BootInv /\ [Boots!Next]_boot => BootInv'
<1> SUFFICES ASSUME BootInv, [Boots!Next]_boot PROVE BootInv'
  OBVIOUS
<1>1. CASE boot' = boot
  BY <1>1 DEF boot, BootInv, ReadSoFar, StoredIsLast
<1>2. CASE Boots!Boot
  <2>1. settings' = settings
    BY <1>2 DEF Boots!Boot, Boots!environment
  <2>2. CASE Boots!Spawn
    BY <2>1, <2>2 DEF Boots!Spawn, Boots!Goto, BootInv, ReadSoFar, StoredIsLast
  <2>3. CASE Boots!Bind
    <3>1. CASE Boots!Exit
      BY <2>1, <3>1, BootExit
    <3>2. CASE at = "bind" /\ at' = "serving" /\ UNCHANGED <<stored, mem, last>>
      BY <2>1, <3>2 DEF BootInv, ReadSoFar, StoredIsLast
    <3> QED BY <2>3, <3>1, <3>2 DEF Boots!Bind, Boots!Goto
  <2>4. CASE Boots!KeyringFails
    BY <2>1, <2>4, BootExit DEF Boots!KeyringFails
  <2> QED BY <1>2, <2>1, <2>2, <2>3, <2>4, BootOpens, BootIdentifies, BootTrusts, BootAnnounces
          DEF Boots!Boot
<1>3. CASE Boots!Relaunch
  BY <1>3 DEF Boots!Relaunch, Boots!Goto, Boots!environment, BootInv, ReadSoFar, StoredIsLast
<1>4. CASE Boots!Stop
  BY <1>4, BootExit DEF Boots!Stop, Boots!environment
<1>5. CASE Boots!Install
  <2>1. settings' = settings
    BY <1>5 DEF Boots!Install, Boots!Change, Boots!environment
  <2> QED BY <1>5, <2>1, BootInstalls
<1>6. CASE Boots!Reset
  <2>1. settings' = settings
    BY <1>6 DEF Boots!Reset, Boots!Change, Boots!environment
  <2> QED BY <1>6, <2>1, BootResets
<1>7. CASE \E a \in BOOLEAN : Boots!SetAlert(a)
  <2>1. settings' = settings
    BY <1>7 DEF Boots!SetAlert, Boots!Change, Boots!environment
  <2> QED BY <1>7, <2>1, BootAlerts
<1>8. CASE \E p \in {"none", "admin"} : Boots!SetTrusted(p)
  <2>1. settings' = settings
    BY <1>8 DEF Boots!SetTrusted, Boots!Change, Boots!environment
  <2> QED BY <1>8, <2>1, BootSetsTrusted
<1>9. CASE \E k \in Boots!Fresh : Boots!Rotate(k)
  <2>1. settings' = settings
    BY <1>9 DEF Boots!Rotate, Boots!Change, Boots!environment
  <2> QED BY <1>9, <2>1, BootRotates
<1>10. CASE Boots!Environment
  BY <1>10 DEF Boots!Environment, BootInv, ReadSoFar, StoredIsLast
<1> QED BY <1>1, <1>2, <1>3, <1>4, <1>5, <1>6, <1>7, <1>8, <1>9, <1>10 DEF Boots!Next

(* Every step of the run does to the start of the node one of its steps.   *)
LEMMA BootSteps == [MCNext]_mcvars => [Boots!Next]_boot
  BY DEF MCNext, mcvars

(* A start that serves, after reading a store whose last process served    *)
(* from it with all its writes acknowledged, serves what that one did.     *)
LEMMA BootIsSame == BootInv => Boots!SameAsBefore
<1> SUFFICES ASSUME BootInv, Boots!Bind, at' = "serving", mem.sure, last.key # NoKey
             PROVE  Boots!InForce = last
  BY DEF Boots!SameAsBefore
<1>1. at = "bind"
  BY DEF Boots!Bind
<1>2. stored = last /\ mem.key = stored.key /\ mem.peers = stored.peers
      /\ mem.installed = stored.installed /\ mem.alert = stored.alert
  BY <1>1 DEF BootInv, ReadSoFar, StoredIsLast
<1> QED BY <1>2 DEF BootInv, StoreShape, Boots!InForce

(* A node that starts with its store, and reads it, comes back with the    *)
(* identity, the trusted nodes, the phase and the alert it had, whatever   *)
(* is imposed on it, however often it stopped, at any call of run, started *)
(* without its store or failed to write (run: "coherence apres reboot").   *)
THEOREM StartsComeBack ==
  Boots!Init /\ [][Boots!Next]_boot => [][Boots!SameAsBefore]_boot
<1>1. BootInv /\ [Boots!Next]_boot => BootInv'
  BY BootNext
<1> QED BY BootInit, <1>1, BootIsSame, PTL

(* The same of the run on a small instance, where stops are few.           *)
THEOREM NodeComesBack == MCSpec => ComesBackAsItWas
<1>1. MCInit => BootInv
  BY BootInit DEF MCInit
<1>2. BootInv /\ [MCNext]_mcvars => BootInv'
  BY BootSteps, BootNext
<1> QED BY <1>1, <1>2, BootIsSame, PTL DEF MCSpec, ComesBackAsItWas

===============================================================================
