\* Two requests at a time, two peers, three keys of the node's own; two stops.
CONSTANTS
  n1 = n1
  n2 = n2
  r1 = r1
  k1 = k1
  k2 = k2
  k3 = k3
  kn1 = kn1
  kn2 = kn2
  Request = {r1, r2}
  Self = self
  Peer <- TwoPeers
  Key <- AllKeys
  FirstKey = k1
  Submitted <- PeersOnly
  FileRegistry <- OldFile
  PemKey = NoKey
  NoKey = NoKey
  Goals = {"set", "clear", "rotate", "reset"}
  WritesMayFail = TRUE
  Settings <- UnitSettings
  MaxStops = 2
SPECIFICATION MCSpec
INVARIANTS
  SelfTrusted
  CalmHotIsDurable
PROPERTIES
  PortalComesUp
  ComesBackAsItWas
CHECK_DEADLOCK FALSE
