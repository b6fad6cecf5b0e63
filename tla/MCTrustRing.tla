----------------------------- MODULE MCTrustRing -----------------------------
(* Identity, trust and start of a node for TLC, in one of three situations *)
(* chosen at first: rough, where requests overlap, writes fail and a       *)
(* registry file is there; calm, where one administrator at a time acts on *)
(* a node without file, nothing fails and there is no factory reset        *)
(* (admin_reset leaves the ring as it is); and starts, where the node is   *)
(* started over and over with one of the settings of its service.          *)
EXTENDS TrustRing

CONSTANTS
  n1, n2, r1, k1, k2, k3, kn1, kn2,
  Settings, MaxStops  \* starts: see NodeBoot

TwoPeers == {n1, n2}
AllKeys == {k1, k2, k3, kn1, kn2}
FirstPeer == [NoKeys EXCEPT ![n1] = kn1]
PeersOnly == {FirstPeer, [NoKeys EXCEPT ![n2] = kn2], [FirstPeer EXCEPT ![n2] = kn2]}
OldFile == Present(FirstPeer)
Identities == {k1, k2, k3, kn1}

VARIABLES situation, settings, disk, pem, port, stored, at, mem, stops, last

boot == <<settings, disk, pem, port, stored, at, mem, stops, last>>
mcvars == <<vars, boot, situation>>

Calm == INSTANCE TrustRing WITH
  Request <- {r1}, FileRegistry <- Absent, Goals <- {"set", "clear", "rotate"},
  WritesMayFail <- FALSE
Boots == INSTANCE NodeBoot WITH Key <- Identities

(* A registry file, nothing at all, an imposed identity.                   *)
UnitSettings ==
  {[imposed |-> NoKey, registry |-> TRUE], [imposed |-> NoKey, registry |-> FALSE],
   [imposed |-> kn1, registry |-> FALSE]}

(* Bound: all the stops without settings, one with them.                   *)
FewStops == settings.registry \/ settings.imposed # NoKey => stops' <= 1

MCInit ==
  /\ situation \in {"rough", "calm", "starts"}
  /\ IF situation = "rough" THEN Init ELSE Calm!Init
  /\ Boots!Init
  /\ situation # "starts" => settings = CHOOSE s \in Settings : TRUE

MCNext ==
  /\ \/ situation = "rough" /\ Next /\ UNCHANGED boot
     \/ situation = "calm" /\ Calm!Next /\ UNCHANGED boot
     \/ situation = "starts" /\ Boots!Next /\ FewStops /\ UNCHANGED vars
  /\ UNCHANGED situation

(* The fairness of NodeBoot: the process takes its steps and systemd       *)
(* starts it again.                                                        *)
Booting == situation = "starts" /\ Boots!Boot /\ UNCHANGED <<vars, situation>>
Relaunching == situation = "starts" /\ Boots!Relaunch /\ UNCHANGED <<vars, situation>>

MCSpec ==
  /\ MCInit /\ [][MCNext]_mcvars
  /\ WF_mcvars(Booting) /\ WF_mcvars(Relaunching)

-------------------------------------------------------------------------------
(* One administrator at a time: a restart would change neither the identity *)
(* of the node nor whom it trusts (set_trusted, clear_trusted,             *)
(* rotate_secrets).                                                        *)
CalmHotIsDurable == situation = "calm" => Calm!HotIsDurable

(* Nothing but its port, the file of an imposed identity and a store that  *)
(* cannot be read keeps the portal from serving for good (run).            *)
PortalComesUp == situation = "starts" => Boots!PortalComesUp

(* A node that starts with its store is what it was when it last stopped   *)
(* with it, if every change had been acknowledged ("coherence apres        *)
(* reboot", run).                                                          *)
ComesBackAsItWas == [][situation = "starts" => Boots!SameAsBefore]_mcvars

===============================================================================
