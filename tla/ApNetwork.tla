------------------------------ MODULE ApNetwork ------------------------------
(***************************************************************************)
(* The network orchestrator of a node in live mode (crates/network/src):   *)
(* it follows the runtime signal sent by the portal, decides which SSID    *)
(* the open access point shows (plan.rs), and configures the interface     *)
(* (iface.rs), the packet filter (firewall.rs) and hostapd, one external   *)
(* command after the other, while the signal may change again.             *)
(*                                                                         *)
(* Of the packet filter it models what the rules say (the first that       *)
(* matches decides); of ip, iptables and hostapd, what the commands do.    *)
(***************************************************************************)
EXTENDS Integers, Sequences, FiniteSetsExt

CONSTANTS
  MayFail,      \* a command may fail
  MaxSignals,   \* bound: signals sent by the portal
  MaxRestarts   \* bound: restarts of the process

VARIABLES
  signal,    \* the latest signal in the watch channel: is the node installed?
  fresh,     \* the orchestrator has not noticed that signal yet
  step,      \* where the orchestrator is
  todo,      \* commands of apply_live still to run
  next,      \* the plan being applied
  plan,      \* the plan last applied
  net,       \* the state of the system the commands act upon
  serving,   \* are DNS and DHCP bound to the address of the node
  signals, restarts

vars == <<signal, fresh, step, todo, next, plan, net, serving, signals, restarts>>

(* plan_for: the SSID is the whole plan, the access point is always open.  *)
Ssid == {"setup", "public"}
NoSsid == "none"
PlanFor(installed) == IF installed THEN "public" ELSE "setup"

-------------------------------------------------------------------------------
(* A rule of INPUT: which packets it matches and what becomes of them.     *)
Any == "any"
Rule(iface, state, rate, port, verdict) ==
  [iface |-> iface, state |-> state, rate |-> rate, port |-> port, verdict |-> verdict]

(* iptables_rules, after the policy of FORWARD.                            *)
Rules == <<
  Rule("lo", Any, Any, Any, "ACCEPT"),
  Rule(Any, "established", Any, Any, "ACCEPT"),
  Rule("ap", Any, "within", Any, "ACCEPT"),
  Rule("ap", Any, Any, Any, "DROP"),
  Rule(Any, Any, Any, "dot-tcp", "REJECT"),
  Rule(Any, Any, Any, "dot-udp", "REJECT")>>

Matches(rule, p) ==
  \A k \in DOMAIN p : rule[k] \in {Any, p[k]}

(* The first rule that matches decides; the policy of INPUT is ACCEPT.     *)
Decision(chain, p) ==
  LET hits == {i \in DOMAIN chain : Matches(chain[i], p)}
  IN IF hits = {} THEN "ACCEPT" ELSE chain[Min(hits)].verdict

Run(name) == [do |-> name]

(* What apply_live runs: iface_commands, iptables_rules, hostapd.          *)
Commands ==
  <<Run("flush"), Run("address"), Run("up"), Run("ipv6-off"), Run("forward-drop")>>
  \o [i \in DOMAIN Rules |-> [do |-> "append", rule |-> Rules[i]]]
  \o <<Run("conf"), Run("restart-hostapd")>>

AppendRuleAfresh(chain, r) == IF r = Rules[1] THEN <<r>> ELSE Append(chain, r)

(* iptables -A: next to the rules already there, the same ones included.   *)
AppendRule(chain, r) == Append(chain, r)

Effect(c) ==
  CASE c.do = "flush"           -> [net EXCEPT !.address = FALSE]
    [] c.do = "address"         -> [net EXCEPT !.address = TRUE]
    [] c.do = "up"              -> [net EXCEPT !.up = TRUE]
    [] c.do = "ipv6-off"        -> [net EXCEPT !.ipv6 = FALSE]
    [] c.do = "forward-drop"    -> [net EXCEPT !.forward = FALSE]
    [] c.do = "append"          -> [net EXCEPT !.chain = AppendRule(@, c.rule)]
    [] c.do = "conf"            -> [net EXCEPT !.conf = next]
    [] c.do = "restart-hostapd" -> [net EXCEPT !.onAir = net.conf]

(* A command that fails does nothing; hostapd may be left stopped.         *)
Failed(c) ==
  {net} \cup (IF c.do = "restart-hostapd" THEN {[net EXCEPT !.onAir = NoSsid]} ELSE {})

Init ==
  /\ signal \in BOOLEAN /\ fresh = FALSE
  /\ step = "boot" /\ todo = <<>>
  /\ next = PlanFor(signal) /\ plan = PlanFor(signal)
  /\ net = [address |-> FALSE, up |-> FALSE, ipv6 |-> TRUE, forward |-> TRUE,
            chain |-> <<>>, conf |-> NoSsid, onAir |-> NoSsid]
  /\ serving = "not yet"
  /\ signals = 0 /\ restarts = 0

-------------------------------------------------------------------------------
(* The portal sends a signal, at any moment: it replaces the one before,   *)
(* whether or not that one was noticed.                                    *)
Send(installed) ==
  /\ signals < MaxSignals
  /\ signal' = installed /\ fresh' = TRUE
  /\ signals' = signals + 1
  /\ UNCHANGED <<step, todo, next, plan, net, serving, restarts>>

BootWithoutApply ==
  /\ step = "boot"
  /\ plan' = PlanFor(signal) /\ next' = PlanFor(signal)
  /\ todo' = <<>> /\ step' = "apply"
  /\ UNCHANGED <<signal, fresh, net, serving, signals, restarts>>

(* The first plan, from the signal of the moment.                          *)
Boot ==
  /\ step = "boot"
  /\ plan' = PlanFor(signal) /\ next' = PlanFor(signal)
  /\ todo' = Commands /\ step' = "apply"
  /\ UNCHANGED <<signal, fresh, net, serving, signals, restarts>>

(* apply_live runs its commands, each to its end; a failure is logged.     *)
RunCommand ==
  /\ step = "apply" /\ todo # <<>>
  /\ net' \in {Effect(Head(todo))} \cup (IF MayFail THEN Failed(Head(todo)) ELSE {})
  /\ todo' = Tail(todo)
  /\ UNCHANGED <<signal, fresh, step, next, plan, serving, signals, restarts>>

AppliedForgotten ==
  /\ step = "apply" /\ todo = <<>>
  /\ step' = IF serving = "not yet" THEN "bind" ELSE "wait"
  /\ UNCHANGED <<signal, fresh, todo, next, plan, net, serving, signals, restarts>>

Applied ==
  /\ step = "apply" /\ todo = <<>>
  /\ plan' = next
  /\ step' = IF serving = "not yet" THEN "bind" ELSE "wait"
  /\ UNCHANGED <<signal, fresh, todo, next, net, serving, signals, restarts>>

(* DNS and DHCP are started once, after the first application; they can    *)
(* only be bound to an address that the interface has.                     *)
Bind ==
  /\ step = "bind" /\ step' = "wait"
  /\ serving' = IF net.address THEN "yes" ELSE "no"
  /\ UNCHANGED <<signal, fresh, todo, next, plan, net, signals, restarts>>

(* alerts.changed(): the signal is marked as seen...                       *)
Notice ==
  /\ step = "wait" /\ fresh
  /\ fresh' = FALSE /\ step' = "read"
  /\ UNCHANGED <<signal, todo, next, plan, net, serving, signals, restarts>>

(* ... then read, as it is by now: the same plan is not applied again.     *)
Read ==
  /\ step = "read"
  /\ \/ /\ PlanFor(signal) = plan
        /\ step' = "wait"
        /\ UNCHANGED <<todo, next>>
     \/ /\ PlanFor(signal) # plan
        /\ next' = PlanFor(signal)
        /\ todo' = Commands /\ step' = "apply"
  /\ UNCHANGED <<signal, fresh, plan, net, serving, signals, restarts>>

(* The process stops and is started again on a machine that kept running:  *)
(* what the commands did stays, the rules included.                        *)
Restart ==
  /\ restarts < MaxRestarts
  /\ restarts' = restarts + 1
  /\ step' = "boot" /\ todo' = <<>> /\ fresh' = FALSE /\ serving' = "not yet"
  /\ UNCHANGED <<signal, next, plan, net, signals>>

Orchestrate == Boot \/ RunCommand \/ Applied \/ Bind \/ Notice \/ Read

Next == (\E installed \in BOOLEAN : Send(installed)) \/ Orchestrate \/ Restart

(* The task of the orchestrator runs when it can.                          *)
Spec == Init /\ [][Next]_vars /\ WF_vars(Orchestrate)

-------------------------------------------------------------------------------
Citizen == [iface |-> "ap", state |-> "new", rate |-> "within", port |-> "portal"]
Flood == [Citizen EXCEPT !.rate = "above"]
Blocked(p) == Decision(net.chain, p) # "ACCEPT"

(* Whenever the orchestrator waits for a signal, someone on the access     *)
(* point who keeps to the rate limit gets through to the portal, by name:  *)
(* the interface has its address and is up, DNS and DHCP answer. Commands  *)
(* may fail, "le reseau reste l'objectif principal" (apply_live).          *)
PortalReachable ==
  step \in {"wait", "read"} =>
    net.address /\ net.up /\ serving = "yes" /\ ~Blocked(Citizen)

(* What is above the rate limit, once blocked, never gets through again,   *)
(* and who keeps to it is never filtered, not even for a moment: neither   *)
(* during a change of plan nor after a restart, which append the rules     *)
(* once more to those that are there.                                      *)
NeverReopened == [][Blocked(Flood) => Blocked(Flood)']_vars
NeverFiltered == ~Blocked(Citizen)

(* When the signals stop, the SSID on the air ends up the one they call    *)
(* for: a signal that comes while another is being applied is not lost.    *)
SsidFollows == <>[](net.onAir = PlanFor(signal))

(* "bloque DNS-over-TLS (port 853) pour forcer la resolution par le DNS    *)
(* local" (firewall.rs): in force on the access point once the rules are.  *)
DotBlocked ==
  step = "wait" =>
    Blocked([Citizen EXCEPT !.port = "dot-tcp"]) /\ Blocked([Citizen EXCEPT !.port = "dot-udp"])

===============================================================================
