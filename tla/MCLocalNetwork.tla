---------------------------- MODULE MCLocalNetwork ----------------------------
(* The network task of a node for TLC: its orchestrator, its DNS server    *)
(* and its DHCP server, the pool of addresses apart from the messages.     *)
(* They share nothing but the process, so each is explored while the       *)
(* others rest: the run adds their states up instead of multiplying them.  *)
(* The orchestrator is explored twice: with commands that succeed, over    *)
(* several signals and restarts, and with commands that may fail. The      *)
(* portal's redirections, to which all names lead, are a situation too.    *)
EXTENDS DhcpPool

CONSTANTS
  MaxSignals,  \* bounds of the orchestrator, see ApNetwork...
  MaxRestarts,
  FailSignals, \* ... and when its commands may fail
  FailRestarts,
  Tag, DnsByte, MaxBody, MaxLabels, \* the datagrams, see DnsServer
  From, DhcpByte, MaxOptions        \* the messages, see DhcpMessages

VARIABLES
  explored,  \* "pool", "dhcp", "dns", "pages", "steady" or "failing"
  message, free, reply,
  datagram, answer,
  webroot, tiled, installed, visit, flips,
  signal, fresh, step, todo, next, plan, net, serving, signals, restarts

dhcpVars == <<message, free, reply>>
dnsVars == <<datagram, answer>>
pageVars == <<webroot, tiled, installed, visit, flips>>
netVars == <<signal, fresh, step, todo, next, plan, net, serving, signals, restarts>>
mcVars == <<explored, vars, dhcpVars, dnsVars, pageVars, netVars>>

Steady == INSTANCE ApNetwork WITH MayFail <- FALSE
Failing == INSTANCE ApNetwork WITH
  MayFail <- TRUE, MaxSignals <- FailSignals, MaxRestarts <- FailRestarts

(* GATEWAY_IP *)
NodeAddress == <<10, 0, 0, 1>>

Dhcp == INSTANCE DhcpMessages WITH Client <- From, Byte <- DhcpByte, Node <- NodeAddress
Dns == INSTANCE DnsServer WITH Byte <- DnsByte, reply <- answer

ASSUME DatagramAssumption == Dns!DnsAssumption
ASSUME MessageAssumption == Dhcp!DhcpMessagesAssumption

(* Two probes, and two other paths.                                        *)
Pages == INSTANCE CaptivePortal WITH
  Probe <- {"/generate_204", "/hotspot-detect.html"},
  Elsewhere <- {"/guide.html", "/news"}, MaxFlips <- 3

NoRequest ==
  /\ message \in [op : {0}, cookie : {FALSE}, from : From, options : {<<>>}]
  /\ free = FALSE /\ reply = Dhcp!Waits
NoQuery ==
  /\ datagram \in [tag : Tag, questions : {0}, body : {<<>>}]
  /\ answer = Dns!Waits
NoVisit ==
  /\ webroot = {} /\ tiled = FALSE /\ installed = FALSE /\ flips = 0
  /\ visit = Pages!Asking("/", "/")

MCInit ==
  /\ Init /\ Steady!Init
  /\ \/ explored = "dhcp" /\ Dhcp!Init /\ NoQuery /\ NoVisit
     \/ explored = "dns" /\ Dns!Init /\ NoRequest /\ NoVisit
     \/ explored = "pages" /\ Pages!Init /\ NoRequest /\ NoQuery
     \/ explored \in {"pool", "steady", "failing"} /\ NoRequest /\ NoQuery /\ NoVisit

MCNext ==
  /\ \/ explored = "pool" /\ Next /\ UNCHANGED <<dhcpVars, dnsVars, pageVars, netVars>>
     \/ explored = "dhcp" /\ Dhcp!Serve /\ UNCHANGED <<vars, dnsVars, pageVars, netVars>>
     \/ explored = "dns" /\ Dns!Serve /\ UNCHANGED <<vars, dhcpVars, pageVars, netVars>>
     \/ explored = "steady" /\ Steady!Next /\ UNCHANGED <<vars, dhcpVars, dnsVars, pageVars>>
     \/ explored = "failing" /\ Failing!Next /\ UNCHANGED <<vars, dhcpVars, dnsVars, pageVars>>
     \/ explored = "pages" /\ Pages!Next /\ UNCHANGED <<vars, dhcpVars, dnsVars, netVars>>
  /\ UNCHANGED explored

(* The task of the orchestrator runs when it can; visitors follow what     *)
(* they are sent.                                                          *)
MCSpec ==
  /\ MCInit /\ [][MCNext]_mcVars
  /\ WF_netVars(explored = "steady" /\ Steady!Orchestrate)
  /\ WF_pageVars(explored = "pages" /\ Pages!Answer)

-------------------------------------------------------------------------------
(* Commands that succeed leave a portal that its users reach, and the      *)
(* filter never drops someone who keeps to the rate limit (apply_live,     *)
(* iptables_rules).                                                        *)
PortalReachable ==
  explored = "steady" => Steady!PortalReachable /\ Steady!NeverFiltered

(* Traffic above the rate limit, once blocked, stays blocked, whatever     *)
(* commands fail (iptables_rules).                                         *)
NeverReopened == Steady!NeverReopened

(* When the signals stop, the SSID on the air ends up the one they call    *)
(* for (run_live).                                                         *)
SsidFollows == <>[](explored = "steady" => net.onAir = Steady!PlanFor(signal))

(* With a home page in the webroot no visitor is redirected for ever, and  *)
(* probes and unknown paths end on it (router, install_page, admin_page).  *)
VisitsEnd == explored = "pages" => Pages!VisitsEnd

(* A datagram that holds a question is answered with it, and with the      *)
(* address of the node if it asks for one; no other is (parse_query).      *)
AnswersQuestions == explored = "dns" => Dns!AnswersQuestions

(* A request for an address is answered with the reply to it, and nothing  *)
(* else is (parse_message, handle).                                        *)
AnswersRequests == explored = "dhcp" => Dhcp!AnswersRequests

===============================================================================
