------------------------------ MODULE PortalLocks ------------------------------
(***************************************************************************)
(* The locks of the daemon (AppState, NodeState) and the order in which    *)
(* each handler of crates/portal/src/lib.rs and each branch of the radio   *)
(* loop acquires and releases them. A program is what is left of a handler *)
(* when everything but its guards is abstracted; a handler that returns    *)
(* early releases what it holds, so that its full path is kept.            *)
(***************************************************************************)
EXTENDS Sequences

(* AppState: node, sessions, auth_throttle, last_publish, ping_limiter,    *)
(* tiles_lock; NodeState, shared with the radio: keyring, inbox, pay.      *)
Locks == {"node", "keyring", "inbox", "sessions", "throttle", "publish", "ping",
          "tiles", "pay"}
LockRank == [l \in Locks |-> IF l = "node" THEN 1 ELSE IF l = "keyring" THEN 2 ELSE 3]

(* A guard: acquired, held while the body runs, dropped at the end of its  *)
(* block.                                                                  *)
Guard(mode, l, body) ==
  <<[do |-> mode, lock |-> l]>> \o body \o <<[do |-> "drop", lock |-> l]>>
Reading(l, body) == Guard("read", l, body)
Writing(l, body) == Guard("write", l, body)
Briefly(mode, l) == Guard(mode, l, <<>>)

(* require_admin by a session, or by the password and the throttle.        *)
AuthBySession == Briefly("write", "sessions")
AuthByPassword ==
  Briefly("write", "sessions") \o Briefly("read", "node") \o Briefly("write", "throttle")
Admin(body) == {AuthBySession \o body, AuthByPassword \o body}

(* Handlers that only hold the node for reading, most of them to read or   *)
(* write tables of the store.                                              *)
NodeReader == Briefly("read", "node")

IsInstalled == NodeReader
PublicConfig == NodeReader
AlertStatus == NodeReader
OfficialBulletins == NodeReader
AdminGetConfig == Admin(NodeReader)
AdminSetConfig == Admin(NodeReader)
SetAlert == Admin(NodeReader)
ClearAlert == Admin(NodeReader)
IngestOfficial == Admin(NodeReader)
ClearOfficial == Admin(NodeReader)
ListGroups == Admin(NodeReader)
CreateGroup == Admin(NodeReader)
DeleteGroup == Admin(NodeReader)
ListPings == Admin(NodeReader)
ClearAdminPings == Admin(NodeReader)

(* Those that hold nothing once the administrator is let in.               *)
AdminSession == AuthBySession
AdminVitals == Admin(<<>>)
AdminWifiQr == Admin(<<>>)

InboxJson == Reading("node", Briefly("write", "inbox"))

(* node_status that would call is_installed with the node already locked.  *)
NodeStatusRelocks ==
  Reading("node", Briefly("read", "node") \o Briefly("read", "keyring")
                  \o Briefly("write", "inbox"))

NodeStatus ==
  Reading("node", Briefly("read", "keyring") \o Briefly("write", "inbox"))

PublishAlert ==
  Briefly("write", "publish")
  \o Reading("node", Briefly("read", "keyring") \o Briefly("read", "keyring")
                     \o Briefly("write", "inbox"))

AdminLogin ==
  Briefly("read", "node") \o Briefly("write", "throttle") \o Briefly("write", "sessions")
AdminLogout == Briefly("write", "sessions")

AdminReset ==
  Briefly("read", "node") \o Briefly("write", "tiles") \o Briefly("write", "sessions")

DownloadMapTiles == Briefly("read", "node") \o Briefly("write", "tiles")

(* is_installed, then the node for writing.                                *)
InstallNode == Briefly("read", "node") \o Briefly("write", "node")

RotateSecrets ==
  Writing("node", Briefly("read", "keyring") \o Briefly("write", "keyring"))
ListTrusted == Reading("node", Briefly("read", "keyring"))
SetTrusted == Reading("node", Briefly("write", "keyring"))
ClearTrusted == Reading("node", Briefly("write", "keyring"))

SubmitPing == Briefly("write", "ping") \o Briefly("read", "node")

(* The node is locked only to find the relay.                              *)
SubmitPay == Briefly("read", "node") \o Briefly("write", "pay")
PayStatus == Briefly("read", "node") \o Briefly("write", "pay")

(* The radio loop: an alert received (handle_incoming, the keyring held    *)
(* while the inbox is), a fragment of a payment received.                  *)
RadioAlert == Reading("keyring", Briefly("write", "inbox"))
RadioPayment == Briefly("write", "pay")

Radio == {RadioAlert, RadioPayment}

Public ==
  {IsInstalled, PublicConfig, AlertStatus, OfficialBulletins, InboxJson, NodeStatus,
   PublishAlert, AdminLogin, AdminLogout, AdminSession, InstallNode, SubmitPing,
   SubmitPay, PayStatus}

Handlers ==
  Public \cup AdminVitals \cup AdminWifiQr
  \cup AdminGetConfig \cup AdminSetConfig \cup SetAlert \cup ClearAlert
  \cup IngestOfficial \cup ClearOfficial \cup ListGroups \cup CreateGroup
  \cup DeleteGroup \cup ListPings \cup ClearAdminPings
  \cup Admin(AdminReset) \cup Admin(DownloadMapTiles) \cup Admin(RotateSecrets)
  \cup Admin(ListTrusted) \cup Admin(SetTrusted) \cup Admin(ClearTrusted)

===============================================================================
