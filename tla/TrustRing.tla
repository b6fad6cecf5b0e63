------------------------------ MODULE TrustRing ------------------------------
(***************************************************************************)
(* Whom a node trusts: the identity and the registry of trusted nodes that *)
(* are in its store, and the key ring that its portal and its radio share  *)
(* in memory (KeyRing, crates/security/src/keyring.rs). The handlers       *)
(* set_trusted, clear_trusted, rotate_secrets and admin_reset of the       *)
(* portal change them, apps/sos-guide/src/main.rs rebuilds the ring at     *)
(* each start. A registry and a ring map node identifiers to public keys;   *)
(* the key pair of a node is named by its public key.                      *)
(***************************************************************************)
EXTENDS Integers, FiniteSets

CONSTANTS
  Request,       \* administrator requests that may be in progress together
  Self,          \* identifier of this node
  Peer,          \* identifiers of other nodes
  Key,           \* public keys
  NoKey,         \* none
  FirstKey,      \* the identity of the node at first
  Submitted,     \* the registries administrators submit
  FileRegistry,  \* SOS_TRUSTED_NODES, the registry file of v2.5, or Absent
  PemKey,        \* SOS_PRIVATE_KEY_PEM, the identity imposed at each start, or NoKey
  Goals,         \* the requests explored
  WritesMayFail  \* a store write may fail, before or after its transaction

Node == Peer \cup {Self}
Keys == [Node -> Key \cup {NoKey}]
NoKeys == [n \in Node |-> NoKey]

(* What the store holds as registry: one, none, or a JSON object of nodes  *)
(* that do not decode.                                                     *)
Present(keys) == [kind |-> "present", keys |-> keys]
Absent == [kind |-> "absent", keys |-> NoKeys]
Unreadable == [kind |-> "unreadable", keys |-> NoKeys]
Nothing == [kind |-> "nothing", keys |-> NoKeys]
Registry == {Present(keys) : keys \in Keys} \cup {Absent, Unreadable}

ASSUME TrustAssumption ==
  /\ Self \notin Peer
  /\ FirstKey \in Key /\ NoKey \notin Key /\ PemKey \in Key \cup {NoKey}
  /\ Submitted \subseteq Keys
  /\ FileRegistry \in {Present(keys) : keys \in Keys} \cup {Absent}
  /\ Goals \subseteq {"set", "clear", "rotate", "reset"}
  /\ WritesMayFail \in BOOLEAN

VARIABLES
  registry,   \* in the store
  identity,   \* in the store: the key of this node
  signing,    \* in memory: the key this node signs with
  ring,       \* in memory: the keys this node trusts, by identifier
  applying,   \* applying[r]: the registry r has stored and not yet applied
  used        \* history: the keys this node ever had

vars == <<registry, identity, signing, ring, applying, used>>

TypeOK ==
  /\ registry \in Registry
  /\ identity \in Key /\ signing \in Key
  /\ ring \in Keys
  /\ applying \in [Request -> Registry \cup {Nothing}]
  /\ used \subseteq Key

(* from_signing_key or clear_trusted_nodes, then load_trusted_nodes: the   *)
(* entries of the registry are inserted over the node's own.               *)
LoadOver(key, reg) ==
  [n \in Node |-> IF reg.keys[n] # NoKey THEN reg.keys[n]
                  ELSE IF n = Self THEN key ELSE NoKey]

(* load_keyring and load_trusted_nodes_into: the imposed identity or the   *)
(* stored one; the stored registry, or else that of the file.              *)
BootKey == IF PemKey = NoKey THEN identity ELSE PemKey
BootRegistry == IF registry.kind = "present" THEN registry ELSE FileRegistry

Init ==
  /\ identity = FirstKey /\ signing = FirstKey /\ used = {FirstKey}
  /\ registry = FileRegistry
  /\ ring = LoadOver(FirstKey, FileRegistry)
  /\ applying = [r \in Request |-> Nothing]

Idle(r) == applying[r] = Nothing
Quiet == \A r \in Request : Idle(r)

(* A store write, as its caller sees it, on the way to the next step of r. *)
Store(r, reg) ==
  \/ registry' = reg /\ applying' = [applying EXCEPT ![r] = reg]
  \/ WritesMayFail /\ registry' \in {registry, reg} /\ UNCHANGED applying

(* set_trusted: the registry is persisted first...                         *)
SetTrusted(r) ==
  /\ "set" \in Goals /\ Idle(r)
  /\ \E reg \in {Present(keys) : keys \in Submitted} \cup {Unreadable} : Store(r, reg)
  /\ UNCHANGED <<identity, signing, ring, used>>

(* ... as clear_trusted removes it from the store...                       *)
ClearTrusted(r) ==
  /\ "clear" \in Goals /\ Idle(r)
  /\ Store(r, Absent)
  /\ UNCHANGED <<identity, signing, ring, used>>

ApplyOnTop(r) ==
  /\ ~Idle(r)
  /\ ring' = [n \in Node |-> IF applying[r].keys[n] # NoKey THEN applying[r].keys[n]
                             ELSE ring[n]]
  /\ applying' = [applying EXCEPT ![r] = Nothing]
  /\ UNCHANGED <<registry, identity, signing, used>>

(* ... then the ring, locked for that, is cleared and loaded with it. The  *)
(* node is locked for reading by both steps.                               *)
Apply(r) ==
  /\ ~Idle(r)
  /\ ring' = LoadOver(signing, applying[r])
  /\ applying' = [applying EXCEPT ![r] = Nothing]
  /\ UNCHANGED <<registry, identity, signing, used>>

RotateKeepsRing(r) ==
  /\ "rotate" \in Goals /\ Quiet
  /\ \E k \in Key \ used :
       /\ identity' = k /\ signing' = k
       /\ ring' = ring
       /\ used' = used \cup {k}
  /\ UNCHANGED <<registry, applying>>

(* rotate_secrets for the key, the node locked exclusively: a new identity *)
(* is persisted, a new ring is loaded with the registry and put in place.  *)
Rotate(r) ==
  /\ "rotate" \in Goals /\ Quiet
  /\ \E k \in Key \ used :
       /\ \/ /\ identity' = k /\ signing' = k
             /\ ring' = LoadOver(k, registry)
          \/ /\ WritesMayFail
             /\ identity' \in {identity, k}
             /\ UNCHANGED <<signing, ring>>
       /\ used' = used \cup {k}
  /\ UNCHANGED <<registry, applying>>

(* admin_reset erases the stored registry and leaves the ring alone.       *)
Reset(r) ==
  /\ "reset" \in Goals /\ Idle(r)
  /\ registry' \in {Absent} \cup (IF WritesMayFail THEN {registry} ELSE {})
  /\ UNCHANGED <<identity, signing, ring, applying, used>>

(* The process stops and starts again. A registry read from the file is    *)
(* stored, an imposed identity too.                                        *)
Restart ==
  /\ signing' = BootKey
  /\ ring' = LoadOver(BootKey, BootRegistry)
  /\ identity' \in {BootKey} \cup (IF WritesMayFail THEN {identity} ELSE {})
  /\ registry' \in {IF BootRegistry = Absent THEN registry ELSE BootRegistry}
                   \cup (IF WritesMayFail THEN {registry} ELSE {})
  /\ applying' = [r \in Request |-> Nothing]
  /\ used' = used \cup {BootKey}

Next ==
  \/ \E r \in Request :
       SetTrusted(r) \/ ClearTrusted(r) \/ Apply(r) \/ Rotate(r) \/ Reset(r)
  \/ Restart

Spec == Init /\ [][Next]_vars

-------------------------------------------------------------------------------
(* A node accepts the alerts it signs itself: "Le noeud reste toujours de  *)
(* confiance" (set_trusted), across rotations of its key, replacements of  *)
(* the registry, failing writes and restarts.                              *)
SelfTrusted == ring[Self] = signing

(* With no request in progress, what is in force is what is persisted: a   *)
(* restart would change neither the identity of the node nor whom it       *)
(* trusts. set_trusted "persiste dans Redb puis recharge le trousseau      *)
(* partage a chaud", clear_trusted "Persiste + a chaud", rotate_secrets    *)
(* "Persiste dans Redb".                                                   *)
HotIsDurable ==
  Quiet => signing = BootKey /\ ring = LoadOver(BootKey, BootRegistry)

===============================================================================
