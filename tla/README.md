# SOS-GUIDE: specification and verification

SOS-GUIDE is an emergency access point for a Raspberry Pi: an open Wi-Fi network
with a captive portal that informs the people around during a disaster, and a
LoRa mesh that carries signed alerts from node to node. It is a Rust workspace
(`src/sosguide/crates/*`, assembled by `apps/sos-guide/src/main.rs`) whose state
lives in a Redb database in RAM, copied to a memory card after each write.

This directory holds TLA+ models of its components, TLC configurations that check
them on small instances, and proofs by TLAPS of what matters most for every
instance. Every definition is written from the source; `PROJECT.json` names the
lines each one stands for.

## 1. Inventory

Paths are relative to `src/sosguide/`.

| Component | Source | State | Operations | Model |
|---|---|---|---|---|
| Alert inbox | `crates/core/src/inbox.rs`, `alert.rs` | 50 alerts on display, a FIFO of 200 identifiers | `admit` | `InboxRules`, `AlertInbox` |
| Alert mesh | `crates/radio/src/relay.rs`, `lib.rs`, `publish_alert` | per node: inbox, queue to the radio, key ring | publish, transmit, receive, verify, relay, restart | `AlertMesh`, `AlertBroadcast` |
| Radio loop | `crates/radio/src/lib.rs`, `link.rs` | three channels, the branch chosen, reassemblies | biased `select!` over incoming, local alerts, payments | `RadioLoop` |
| Payment relay | `crates/pay/src`, `submit_pay` | queue of 64 signed transactions with a status, reassemblies | decode, submit, fragment, push, reassemble | `PaymentRelay`, `RadioLoop` |
| Durable store | `crates/storage/src/lib.rs` | database in RAM, snapshot on the card | write methods, `atomic_copy`, `open_durable` | `DurableStore` (in part), `TransactionStore` |
| Administration | `crates/portal/src/lib.rs` | configuration, password, active alert, sessions, runtime signal | install, configure, rotate, alert on and off, login, logout, reset | `NodePortal` |
| Trust and identity | `crates/security/src/keyring.rs`, portal, `main.rs` | stored registry and identity, key ring in memory | set, clear, rotate, reset, start | `TrustRing` |
| Network orchestrator | `crates/network/src` | signal watched, plan applied, interface, packet filter | apply a plan command by command, bind DNS and DHCP | `ApNetwork` |
| DHCP server | `crates/network/src/dhcp.rs` | pool in memory | parse, discover, request, answer | `DhcpPool`, `DhcpMessages` |
| DNS server | `crates/network/src/dns.rs` | none | parse, answer | `DnsServer` |
| Captive portal | portal (`router`, `install_page`, `admin_page`) | the phase of the node, the webroot | redirect probes, unknown paths and pages of the other phase; serve pages | `CaptivePortal` |
| Ping groups | portal, storage | groups, pings, limiter | create, delete, ping, clear, reset | `PingBoard` |
| Official bulletins | `crates/core/src/official.rs`, portal | cache of 50 bulletins | ingest, clear | `OfficialCache` |
| Map tiles | portal (`download_map_tiles`, `RwWindow`) | tiles and `meta.json` on a partition mounted read-only, a lock | download, purge, open and close the window | `TileCache` |
| Update over the air | `crates/cli/src/update.rs`, `security/src/release.rs` | two files in RAM, the slot | download, decide, verify, install | `OtaUpdate` |
| Watchdog | `crates/cli/src/watchdog.rs` | hardware timer, probe | probe, pet | `Watchdog` |
| Administrator authentication | portal, `security/src/password.rs`, `token.rs` | sessions, a failure counter | login, basic authentication, session, delay | `AdminAccess`, `NodePortal` |
| Locks | `AppState`, `NodeState`, radio loop | nine fair locks and their queues | acquire, release, drop on hang-up | `LockTable`, `PortalLocks` |
| Start of the node | `apps/sos-guide/src/main.rs`, service unit | store or none, identity, registry, first signal | the calls of `run`, stop, relaunch | `NodeBoot` |
| Tor gateway, vocabulary, text validation, pages, ESP32 firmware, health report | | none that changes | | not modelled, section 8 |

### How the components meet

* **One process, many tasks.** `main.rs` starts the portal, the radio loop and the
  network task on a multi-threaded runtime. Handlers run in parallel.
* **Locks.** The node (`RwLock`) is held for *reading* by most handlers, even while
  they write the store: only single transactions are atomic, and a handler that
  loads, changes and saves is not. `install_node` and `rotate_secrets` hold it for
  writing. The inbox, the key ring, the sessions, the counter of failures, the limiters,
  the payments and the tiles have locks of their own, taken while others are held.
* **Messages.** Portal to radio: bounded channels used with `try_send`, which drop
  what does not fit. Portal to network: a `watch` channel that keeps the last signal.
  Node to node: radio frames, lost, repeated, late and out of order.
* **External commands.** `iptables`, `ip`, `hostapd`, `curl`, the commands that
  remount the partition: each may fail, and most failures are logged only.
* **Restarts.** systemd starts the process again after 2 s; everything in memory is
  lost, the store is reopened from its snapshot. A start goes on without its store,
  its registry or its subsystems; it ends for a key file, a port or a stored identity
  that it cannot have.

### What is hard about it, and what makes each part correct

* *Inbox*: a bounded memory against replays. Nothing is shown twice; an identifier
  comes back only after a flood of others.
* *Mesh*: authenticity through nodes that forget and a medium that does anything;
  floods die out; one identifier means one text; alerts spread when nothing is lost.
* *Radio loop*: alerts go before payments, and are never starved by them; fragments
  make up only transactions that were submitted, each once.
* *Store*: a power failure at any step leaves a complete database with everything
  acknowledged.
* *Administration*: an installation happens once and lasts; the network follows the
  store; a reset closes the sessions.
* *Doors*: whoever is let in had a session or the password in force; the right password
  waits for nobody else's failures.
* *Locks*: no two tasks wait for each other, no writer is starved by readers.
* *Start*: the portal serves if it can at all, and is what it was before.
* *Servers*: a datagram is answered if it is a question, and never ends the loop.
* *Captive portal*: whatever a visitor asks for ends on a page.
* *Trust*: the node trusts itself whatever is done to the registry; memory and store agree.
* *Network*: the portal stays reachable, the filter neither opens up nor cuts off,
  the SSID follows the state; addresses are not shared.
* *Boards*: what was acknowledged is kept, bounds hold under overlapping requests,
  the cache is ordered.
* *Maintenance*: only verified releases are installed, and never an older one than the
  updater knows of; a frozen board is reset, and a healthy one only by a timer that is
  too short for the interval and the probe; the partition is writable exactly while a
  writer needs it.

The `hazards` of `PROJECT.json` list the places where these could go wrong, and the
properties that watch each.

## 2. Plan

Order of work, the most important behaviour first. Done:

1. `InboxRules`, `AlertInbox` and proofs: the rule everything on the mesh rests on.
2. `AlertMesh` with its abstract specification `AlertBroadcast`; refinement by TLC; proofs.
3. `DurableStore` and proofs: what the rest assumes of the store.
4. `NodePortal` and proofs: interleaved handlers over single transactions.
5. `TrustRing` and proofs.
6. `RadioLoop`; 7. `ApNetwork`, `DhcpPool` and proofs.
8. `PingBoard`, `OfficialCache`.
9. `OtaUpdate`, `Watchdog`, `TileCache`.
10. `LockTable`, `PortalLocks` and proofs: every handler against every other.
11. `AdminAccess`: the doors of the administration.
12. `PaymentRelay`, `DnsServer`, `DhcpMessages`: what is parsed, end to end.
13. `NodeBoot`: starts and restarts; `CaptivePortal`: where visitors are sent.

14. Proofs of the radio, the boards, the doors, the network and the maintenance: the
    refinement of `AlertBroadcast` and every safety property of the runs that section 7
    lists.
15. That the programs of `PortalLocks` satisfy `ProgramsOrdered`: the absence of
    deadlocks of this node, without an assumption on its programs.
16. Proofs of what is parsed and put together, whatever its length: payments, questions,
    DHCP messages, the order of the bulletins. Every safety property of the runs that
    pass is a theorem now.
17. `TransactionStore`, what the snapshot promises, with `DurableStore` proved to implement it.

What remains open is named in section 8.

## 3. Modules and the code

Each component module declares its bounds as CONSTANTS, has one action per
handler step and names the function it stands for. A handler that takes locks,
awaits or writes in several transactions is several actions; what happens under
one exclusive lock or in one transaction is one.

* **`InboxRules`**: `AlertInbox::admit` as operators on a record `[alerts, seen]`: the
  age test, deduplication, eviction of identifiers, the bounded display.
  **`AlertInbox`** runs one inbox under any packets, any clock and restarts.
* **`AlertMesh`**: `Publish` is `publish_alert` (interval, own inbox, hand-over to the
  channel), `Transmit` the local branch of `run_with`, `Receive` is `handle_incoming`
  with `evaluate` and `relay_frame`, `Stop` a stop with systemd's pause. `air` is the
  set of frames ever sent: a set from which anything may be received at any time, or
  never, is a medium that loses, repeats, delays and reorders. A signature is the name
  of who signed; frames that their source did not sign are on the air from the start.
  The limiter and the pause of systemd count real time (`now`, `Instant` in the code),
  alerts are stamped and aged with the clock of their node (`Wall`, `SystemTime`), which
  may be wrong by `MaxSkew` and which `SetClock` sets, forwards or back; `setBack`
  remembers whose clock went back.
  **`AlertBroadcast`** is the promise: displays over a set of published alerts.
* **`RadioLoop`**: the biased `select!` polls one branch after the other
  (`PollIncoming`, `PollLocal`, `PollPay`), so messages may come between two polls;
  `Assembled`, `Placed` and `Ingest` are the reassembler; `Submit` and `Push` are
  `submit_pay` fragment by fragment. A fragment carries a chunk of its transaction.
* **`PaymentRelay`**: a transaction as the text a client submits, digit by digit
  (`Decoded`, `Valid`), its bytes cut into `Fragments`, the queue without duplicates of
  the sender and the neighbour, whose `Receive` is `handle_payment_fragment`.
* **`DurableStore`**: a file is a head and a body, each with the version that wrote it,
  so that a copy may be cut in two; names and contents are apart. `Survivors` is what a
  power loss may leave: any content of a file not synchronised, either name when the
  directory was not. **`TransactionStore`** is the promise: a database that knows neither
  files nor copies, whose transactions a power loss may take back to one of at most two
  outcomes, never past one promised.
* **`NodePortal`**: a request walks through its handler, with the copy it has read.
  `MayRead` and `MayWrite` are the lock of the node. The store is one record; where the
  code makes the best of a read that fails (`is_installed`, the check of `install_node`
  under the lock, the merge of the configuration, a start) `Readings` has its default too.
* **`AdminAccess`**: a request brings a session or a password and goes through
  `require_admin` or `admin_login` step by step; `password` and the sessions may change
  between two steps. `Penalty` is the delay after failures; time is in units of it.
* **`LockTable`**: tasks that run programs of acquisitions and releases; `Grant` is a fair
  lock (first come, first served, readers together), `HangUp` a client that leaves: the
  handler is dropped with its guards and its place in the queue. **`PortalLocks`** is the
  program of every handler and of both branches of the radio: its guards and their scopes.
* **`NodeBoot`**: one action per call of `run`; a disk that is fine, cannot be written (a
  transaction fails, and may still be there later) or cannot be read; `mem` is what the
  process holds, `stored` what the next start reads. `settings` is what the service gives
  every start: an imposed identity or not, a registry file or not. A handler is one step here.
* **`TrustRing`**: registry and identity as stored, `ring` and `signing` as in memory;
  `LoadOver` is the loading of a registry over a new ring, `BootKey` and
  `BootRegistry` the priorities of `load_keyring` and `load_trusted_nodes_into`.
* **`ApNetwork`**: `Rules` are the rules of `iptables_rules` in order, `Decision` the
  traversal of the chain; `RunCommand` runs the commands of `apply_live` one by one.
* **`DhcpPool`**: the pool and the acknowledgements in flight, which clients may use late.
* **`DnsServer`**, **`DhcpMessages`**: a datagram is a sequence of bytes (for DHCP, its fields
  and its bytes of options); `ReadName` and `ReadOptions` follow the lengths in it.
* **`CaptivePortal`**: one visitor who follows each redirection; one disjunct of `Answer` per
  kind of route; `Flip` is an installation or a reset meanwhile. Paths and files are names.
* **`PingBoard`**, **`OfficialCache`**: a handler loads the whole list, changes its copy,
  saves it; `Newest` and `Merged` are what it does to the copy. A list that cannot be read
  or parsed is taken for an empty one, and saved (`Loaded`, `blind`).
* **`OtaUpdate`**: curl opens its file, fills it, or fails; `VersionGt` compares versions as
  sequences of numbers; the helper that installs gets the files, not the bytes verified.
  `CurrentVersion` is what the updater may take for the version installed: less than it
  is when a manifest cannot be read; `run[u].current` is what it took.
* **`Watchdog`**: time in units of the hardware timer; the kernel completes connections
  for a frozen daemon until its backlog is full. Interval, probe and timer are any
  positive numbers: the code compares none of them.
* **`TileCache`**: lock, window, tiles one by one; a client that hangs up drops the
  handler at an await, and the curl process it had started goes on. The commit of
  the store opens and closes the same partition.

The `MC*` modules and their `.cfg` files give constants their values; `MCRadioLoop`, `MCMaintenance`,
`MCNodePortal`, `MCTrustRing`, `MCPublicBoards` and `MCLocalNetwork` instantiate the components
they explore and leave the sizes to the `.cfg`, so that what is proved of them holds for every size. Components that share no state are checked
in one run: a variable (`explored`, `situation`, `setting`) picks one at the start and the
others rest, so that their states add up instead of multiplying. The same means gives
*situations* of one component: overlapping requests with failures, or requests that come
one by one (*calm*). A property whose name starts with `Calm` is promised in the calm
situation only; what happens to it in the other one is in section 6.

## 4. Runs

| Run | What it shows | Bounds, and why they are enough |
|---|---|---|
| `MCAlertMesh` | authenticity, relays of published alerts only, one transmission per life, one text per identifier, refinement of `AlertBroadcast`; an alert that was transmitted reaches everyone connected through trust | ring: a one-way cycle of 3 nodes, where frames come back to their sender; `b` does not trust `c`; a queue of one; stops and a restart within the time explored; an unsigned frame and one signed with a foreign key. Drift: the same ring with one publisher, whose clock leads the others by 0 to 2 s and may be set at any moment, so that a second is shown twice and two texts share an identifier. Line: 3 nodes, so that the middle must relay, and a hop cap that just suffices; one path, and nothing gets too old |
| `MCDurableStore` | the snapshot is always complete and holds what was acknowledged; refinement of `TransactionStore` | 4 transactions over 3 files: an old, a new and a temporary one, at every cut |
| `StoreTwoWriters` | two write methods at a time break that (finding) | 2 transactions |
| `MCNodePortal` | one installation, and it lasts; one request at a time: the signal follows the store, updates merge; who is let in, and that the right password enters at once | rough: 2 overlapping requests, failing reads and writes, one installed node taken for a new one, restarts, a reset; calm: 2 resets, 2 keys; doors: 2 requests, 2 passwords, 2 sessions, which expire within the time explored |
| `MCTrustRing` | the node trusts itself; one administrator at a time: memory is what a restart gives; the portal comes up and is what it was | 2 requests, 2 peers, 3 own keys, a registry file present or not; starts: a registry file, an imposed identity or neither; 4 identities, one more than a start can meet, and one stop, or two without settings, so that a start without the store comes between two with it |
| `MCRadioLoop` | one overtaking at most, alerts leave; the neighbour holds what it heard | 2 transactions that share a chunk, of 3 and of 2 fragments, channels shorter than a transaction; 9 texts, among them both cases of one transaction, odd, empty, too long, and lengths around that of a fragment |
| `PaymentDuringAlert` | a payment leaves while an alert is active (finding) | as above |
| `MCLocalNetwork` | portal reachable, filter, SSID; addresses stable, distinct, conflicts old; questions answered; visits end on a page | 3 signals and 2 restarts, so that rules are appended three times; one application with failing commands; 3 clients for 2 addresses, 2 lives, leases of 2 s; datagrams cut at each byte; every webroot of 5 files, 3 changes of the phase |
| `MCPublicBoards` | nothing is displayed twice, readmission needs a flood; groups and pings; bulletins stay in order, and the oldest leave first, of a cache that could be read | display of 2, memory of 3, 2 sources, 2 texts, 3 seconds, 5 admissions in a life: both bounds overflow, identifiers are evicted and come back; one group or two, 3 pings for 2 places, 2 clients; 3 names for 2 places, with and without dates |
| `MCMaintenance` | resets are justified and happen; verified releases, no downgrade of a version that could be read, the release offered for good arrives; window and tiles | timer of 5 for an interval of 3 and a probe of 2: it outlasts the interval, but not with a probe that hangs; versions 0.1.9, 0.1.10, 0.2, of which text order would rank two wrong, and 5 publications of single files; 2 handlers, 2 tiles |
| `TilesSharedWindow` | the store's commit closes the window of a download (finding) | one download |
| `MCPortalLocks` | somebody can always go on, and every handler ends | any 2 programs, and 3 of those that hold one lock while they ask for another: a cycle of waits, or a reader behind a writer behind a reader, needs no more; every task starts again for ever |

The models stop where a bound on time, requests or transactions is reached, so their
configurations switch TLC's own check of deadlocks off; the deadlocks of the daemon are
`NoDeadlock`. `DurableStore` is checked up to the permutation of its files, which nothing
tells apart; it has no liveness property.

## 5. Fairness

* The line of `MCAlertMesh` (`ReliableSpec`): each node serves its queue and receives what stays
  receivable (`WF`), and nobody stops. The code promises no more: delivery is best
  effort, so `LineCovered` is stated for a medium that loses nothing.
* `RadioLoop`: `WF` of the loop and of the push. The loop is one task that always polls
  again; `Push` is a handler that runs on. Bursts of frames are bounded: the selection
  is biased, and frames that never pause would starve alerts.
* `LockTable`: `WF` of the next step of every task: the runtime runs what can run, and
  tokio's locks are granted in order. No handler is assumed to hang up.
* `NodeBoot`: `WF` of the calls of `run` and of the relaunch: `Restart=always` with
  `RestartSec=2`, too slow for systemd's own limit of starts. Stops from outside are
  bounded; exits by an error are not.
* `ApNetwork`: `WF` of the orchestrator's task.
* `CaptivePortal`: `WF` of the answer: a browser follows what it is sent, and the portal
  answers. Changes of the phase are bounded: it changes by hand only.
* `OtaUpdate`: `WF` of an update process: crond starts it again and again, and curl
  has a `--max-time`. Failures are bounded, or no release would ever arrive.
* `Watchdog`: `WF` of the probe loop, the timer and the reset. Nothing starts the
  process for certain: `FrozenDaemonIsReset` is stated from when the timer is armed.

No strong fairness is used.

## 6. Findings, and promises that hold only in calm

Three runs show the code at odds with its own words:

* **`StoreTwoWriters`**. `atomic_copy` promises "soit l'ancien contenu intact, soit le
  nouveau complet — jamais hybride". Its temporary name is always the same and write
  methods run in parallel: one renames the file another is still writing.
* **`TilesSharedWindow`**. A download opens "une fenêtre d'écriture le temps du
  téléchargement, sérialisée (un seul écrivain)". The commit of the store remounts the
  same partition without the lock, read-only at its end.

* **`PaymentDuringAlert`**. The policy says a payment "ne s'émet **jamais** tant qu'une
  alerte est active"; the radio loop sends every fragment that waits, and
  `may_send_payment` has no caller.

The models state further promises that no listed run checks, because they do not hold
of the code; each can be seen by giving a configuration the constants named here.

| Statement | Where it fails | How to see it |
|---|---|---|
| `NodePortal!SignalFollowsStore`: the signal is what the store says | an alert raised while another request clears it | 2 requests, nothing failing |
| `NodePortal!FieldsMerged`: other keys of the configuration are kept | two administrators change different keys at once | 2 requests, 2 fields |
| `NodePortal!ResetClosesSessions`: a reset closes all sessions | a login verified before the reset opens its session after it | 2 requests, `MaxEra = 1` |
| `NodePortal!InstalledHasAdmin`: an installed node has an administrator | a stop between the two transactions of an installation | `MayRestart = TRUE` |
| `NodePortal!InstalledOnlyOnce`: "disponible une seule fois (refusé si déjà installé)" | the check under the lock takes a read that fails for a new node (`config_installed().unwrap_or(false)`): a second installation is answered 201. `InstalledOnce`, which is checked and proved, is what is left: one 201, and one more per such read | 2 requests, `StoreMayFail = TRUE`, `MaxMisreads = 1` |
| `TrustRing!SelfTrusted` with a registry that names the node | a registry with the node's former key, then a rotation | `Submitted` with an entry for `Self` |
| `TrustRing!HotIsDurable` | two registries at once; a registry cleared on a node with a registry file | 2 requests; `FileRegistry` present |
| `RadioLoop!RelayedWentOut`: "Relayed" went out | fragments that do not fit are dropped after the mark | `PayQueue` below the fragments |
| `ApNetwork!PortalReachable` when commands fail | the rule that accepts traffic within the limit fails, the DROP after it does not | `MayFail = TRUE` |
| `ApNetwork!DotBlocked` | the rules for port 853 come after rules that decide the same packets | any |
| `NodeBoot!SameAsBefore` without `mem.sure` | one failing read of the stored registry makes the start store the file over it | a registry file |
| `CaptivePortal!VisitsEnd` without `index.html` | a webroot without a home page: `/` is unknown, and redirected to itself for ever | the premise dropped |
| `PingBoard!PingsKept` | two pings at once: one acknowledged ping is overwritten; and so are all of them by a request that cannot read the list | 2 requests |
| `PingBoard!PingsApartGlobally` | the limiter is per address, its comment says global | 2 clients |
| `OfficialCache!IngestedIsShown` | a bulletin without a date that comes to a full cache is cut at once, and answered 201 | any |
| `OfficialCache!UpdatedIsLastIngest` | the same cut leaves `updated` behind | any |
| `AlertMesh!OneTextPerIdentifier` without `setBack` | a portal restarts, or publishes again, after its clock was set back: the second is stamped twice. Nodes that know the identifier drop the second text as a duplicate | the setting `drift` |
| `MCPublicBoards!CalmDropsOldest` without `Blind` | a cache that cannot be read is taken for empty and saved: newer bulletins leave | one request |
| `OtaUpdate!RefusesDowngrade`: "refuse tout downgrade" | `current_version` takes a manifest of the slot that it cannot read for none: a server that offers a release between the factory's and the slot's then has it installed. `NeverDowngrade`, which is checked and proved, is what is left: only an updater that took another version for the one installed goes back | 3 versions, 4 publications |
| `Watchdog!FailureResets`: what resets the board is that "`healthy()` reste faux assez longtemps" | nothing sets, reads or compares the timeout of the driver. With the default interval of 15 s and the 15 s of `bcm2835_wdt` (a fact about Linux, not in this repository) the timer is out when the next probe of a healthy daemon is due. `ResetJustified`, which is checked and proved for any numbers, names that cause too | `Interval = 15`, `ProbeTimeout = 2`, `Timeout = 15` |
| `OtaUpdate!SlotVerified`, `NeverDowngrade` with two updaters | both use the same files, which the helper reads after they were verified | `Updater` of two |

Three more were met while modelling, without a property of their own. The
watchdog's handle is never dropped (`run` does not return, a signal ends the process),
so stopping the process never disarms the timer although `watchdog.rs` says so: in
`Watchdog`, `Stop` leaves it armed. A version such as `1.0.0-rc.1` has a fourth segment
and ranks above `1.0.0`. A download repeated without a network removes tiles that were
there and leaves `meta.json` in place.

## 7. Proofs

`tlapm` checks all of them to the last leaf; they hold for every value of the constants,
within the assumptions below. A theorem whose name differs from the property it proves is
followed by it.

| Module | Theorems | Inductive invariant, and why it is needed |
|---|---|---|
| `InboxRules_proofs` | lemmas on `Push`, `Fits` | what one admission does to display and memory, whatever the clock |
| `Radio_proofs`: mesh | `MeshTypeCorrect`, `MeshAuthentic` (`Authentic`), `MeshRelaysOnlyPublished` (`OnlyPublishedOnAir`) | `MeshInv`: displays depend on what is on the air, and that on local queues: frames that wait carry their publisher's signature, frames from outside do not |
| | `BroadcastInvariant`, `MeshOneText` (`OneTextPerIdentifier`), `MeshImplementsBroadcast` (`ImplementsBroadcast`) | `BroadcastInv` adds the clocks: what a node published is not of the future of its own clock, unless that was set back, and who published in this second cannot again, because the limiter remembers or the restart is longer than a second. Then an identifier of such a node is one alert, and each action is a step of `AlertBroadcast` or none: only `Publish`, an accepted `Receive`, `Stop` and `SetClock` backwards are seen there |
| | `MeshSendsOnce`, `FewPublishersSendOnce` (`OneTransmissionPerLife`) | `FloodInv`: what a node queued or sent is in its memory, or too old to be admitted. An identifier leaves the memory for newer ones only: were it still admissible, more alerts than the memory holds would be stamped within `Window` of it, the admissible age and the error of the clocks (a pigeonhole). The second theorem bounds their number: `Spaced` says that the stamps of a portal whose clock is not set back are apart by the interval of the limiter or by a restart, and the intervals are counted |
| `Radio_proofs`: loop | `AlertsOvertakenOnceAtMost` (`AtMostOneOvertakes`) | `LoopInv`: a fragment went before a waiting alert only if the loop has gone back to its first channel and has yet to find the alert there, or next |
| `Radio_proofs`: payments | `RelayHoldsWhatItHeard` (`HoldsWhatItHeard`) | `PaymentInv`: what is on the air are pieces of transactions submitted; a reassembly holds, at each place, the piece heard for it; a transaction is complete when its last piece is placed, and its pieces in a row are its bytes again |
| `PublicBoards_proofs` | `TypeCorrect`, `NeverDisplayedTwice` (`NoDuplicateDisplay`), `ReplayNeedsFlood` (`ReadmissionGap`), `DisplayIsHistory` | the memory of identifiers is the end of the history of admissions. Neither property is inductive alone: that an admitted identifier is not on display follows from the memory being at least as long as the display |
| | `PingBoardPromise`, half of `BoardsPromise` (`BoardsKeepWord`) | `GroupsInv`: a handler about to save has a list within the bound. `PingsInv`: the copy of the one request is the stored list, or it could not read that, identifiers increase along it, and of what was acknowledged since the list was emptied only older ones than the whole list are missing |
| | `BulletinsStayInOrder`, its other half, `OldestLeavesFirst` (`CalmDropsOldest`) | `BulletinsInv`: every list, stored or in a handler, is in order, without repetitions and within the bound. Sorting is by rank: the rank of a bulletin is the number of those that go before it, ranks are a bijection with the places (counted, over any number of bulletins), and what is cut has the last ones |
| `Maintenance_proofs` | `SnapshotNeverHybrid`, `AcknowledgedWritesSurvive` (`AckedSurvives`) | `StoreInv`: the files the two names of the snapshot stand for are whole, synchronised and never the one being written; nothing acknowledged is newer than them |
| | `SnapshotIsTransactional` (`ImplementsTransactions`) | from the same invariant: copies are written away from both names, so only the rename adds an outcome, only the fsync of the directory takes one away and promises, and a power loss picks one |
| | `ResetOnlyWhenJustified` (`ResetJustified`) | `DogInv`: after a probe that succeeded the timer has left the sleep or the probe under way, and what it is set to beyond the interval and that probe, if anything |
| | `SlotAlwaysVerified` (`SlotVerified`), `ReleasesNeverGoBack` (`NeverDowngrade`) | `UpdateInv`: from its decision on, the updater's manifest is the one in the file, and later than the version it took for the one installed; before the installation the binary in the file is the one it names |
| | `TilesStayInOrder` (`TilesInOrder`) | `TileInv`: whoever is in the window has the lock and nobody else; where a handler stands tells which tile it writes; a cut tile has its handler, or a process without one |
| `NodePortal_proofs` | `PortalTypeCorrect`, `InstallsOnce` (`InstalledOnce`), `InstallIsLasting` (`InstallLasts`) | between the two transactions of an installation no other request is anywhere it could write from: the argument is the lock |
| | `DoorsInvariant`, `AdmissionIsJustified` (`AdmissionJustified`), `RightPasswordNeverWaits` (`RightPasswordEnters`) | what a request has read of the sessions and the password is a value they had since it arrived, and what it concluded follows from it; every session open was granted |
| | `OneByOneInOrder` (`CalmStoreInOrder`) | the signal lags behind the store only while the one request is on its way to send it, and the copy it has merged is of the store as it is |
| `LockTable_proofs` | `NeverDeadlocked` (`NoDeadlock`), `AlwaysAsksInOrder` | every task that waits is in the queue of its lock, once, and nobody else is. Take the highest lock somebody waits for: its holders ask for higher ones, so they do not wait; if it has none, the head of its queue is granted it |
| | `NodeAsksInOrder`, `NodeNeverDeadlocked` (`NoDeadlock`) | every program of `PortalLocks` is *disciplined* (it asks for higher locks than it holds, and drops what it takes), which composition, scopes and early returns preserve |
| `TrustRing_proofs` | `AlwaysSelfTrusted` (`SelfTrusted`) | no registry stored, submitted or on its way names the node |
| | `CalmRingIsDurable` (`CalmHotIsDurable`) | the ring is what a start would load of the registry stored, or of the one the request in progress has stored and is about to load |
| | `StartsComeBack`, `NodeComesBack` (`ComesBackAsItWas`) | `BootInv`: as long as every read and write succeeded, what `run` has read so far is what the store holds; a start that has not served from its store leaves there what the last one that did was |
| `LocalNetwork_proofs` | `AddressesStableAndDistinct` (`StableAndDistinct`), `ConflictsRunOut` (`ConflictsAreOld`) | the pool is injective, remembers what this life acknowledged, and what it does not remember was sent before it started |
| | `QuestionsAnswered` (`AnswersQuestions`), `RequestsAnswered` (`AnswersRequests`) | the position a reader reaches is on every cut of the datagram into labels, or options, that starts at the same place; where it fails there is no such cut, and where it ends there is one |
| | `NetInvariant`, `FloodStaysBlocked` (`NeverReopened`) | what is left to do is a rest of the fourteen commands, and the chain is made of its six rules: a rule appended never comes before the one that decides |
| | `PortalStaysReachable` (`PortalReachable`) | `FlowInv`: every rule that drops has before it the rule that accepts traffic within the limit, because rules are appended in their order; how far the commands have come says what is configured |

What is not inductive by itself is found by a least element: a step that needs the first rule
that matches, or the interval a second lies in, takes the minimum of a set of numbers
(`LeastNumber`, `IntervalOf`), which the library gives for a set where an induction over a
formula would be out of the provers' reach. What a recursive function computes on data of any
length is proved the same way (`NoneLeast`, `NoLeast`): were the statement false of some
length or position there would be a first such one, and the equation of the function takes it
one step further down.

Assumptions beyond the typing of the constants:

* `AlertInbox`: the memory is at least as long as the display (200 and 50 in the code).
  Identifiers are pairs of source and time: the code joins them in one text, without
  collisions for the identifiers it accepts.
* `AlertMesh`: every node trusts itself; signatures cannot be made by others; the limiter and
  the pause of a restart are of a second at least (two in the code), without which one
  identifier could have two texts. Clocks may be wrong by `MaxSkew`, any number; that one
  clock was not set back is in the statements (`setBack`).
* `MeshSendsOnce`: `MemorySuffices`, the memory holds all alerts stamped within `Window` =
  `MaxAge` + `MaxSkew` of one another; clocks are set as they may. `FewPublishersSendOnce`
  derives it from numbers, for publishers whose clocks are not set back
  (`PortalClocksAdvance`). With those of the code (120 s, 2 s, 200 identifiers) and clocks
  within 30 s, 151 publications of one portal fit around one of them, so one portal may
  publish at full rate without pause, or more as long as they stay below 200 alerts in
  five minutes. Beyond that the code promises nothing: an identifier may be forgotten while its
  alert is still admissible, and go round once more, until the hop cap or the age ends it.
* `DurableStore`: one writer at a time (`ASSUME NEW w, Writers = {w}`), which is what the
  finding above is about; renaming is atomic; a synchronised file keeps its content.
* `LockTable`: `ProgramsOrdered`, every program asks for locks in the order of their levels
  and drops what it took; three levels are enough for this node. For the programs of this node
  it is a theorem.
* `TrustRing`: `SelfLeftOut`, no registry names the node: section 6 says what happens
  otherwise. `CalmRingIsDurable`: no imposed key (`PemKey = NoKey`), which would come before
  the identity that a rotation stores.
* `MCNodePortal`, `MCPublicBoards`: `SituationsAssumption` and `BoardsAssumption`, sizes are
  numbers, sessions live a second at least, the list of pings has a place.
* `MCRadioLoop`: `RadioAssumption`, the typing of the capacities, and `MCPaymentAssumption`: a
  fragment has room for something. `MCPublicBoards`:
  `BulletinsAssumption`, and `MCLocalNetwork`: `DatagramAssumption` and `MessageAssumption`,
  are typing only: sizes are numbers, datagrams are made of bytes.
* `MCMaintenance`: `MaintenanceAssumption` is typing: durations are positive, releases are
  numbered. `ReleasesNeverGoBack` assumes that versions are sequences of numbers of which `version_gt` ranks only later
  releases above; that its ranking is transitive, whatever the lengths, is proved
  (`VersionsAreRanked`).

Model-checked only: liveness, which the provers do not support. `LineCovered`,
`LocalAlertLeaves`, `SsidFollows`, `UpdateArrives`, `FrozenDaemonIsReset`, `EveryTaskEnds`,
`VisitsEnd` and `PortalComesUp` hold on the instances of section 4, under the fairness of
section 5.

## 8. Abstractions, and what is not modelled

* Cryptography: a signature is who signed, a digest is the binary it was taken of, a
  password is itself. Texts, names and chunks are model values.
* The medium of `AlertMesh` has no distances: that a first copy by a longer path uses the hop
  cap up, so that nodes a shorter one would have reached miss the alert, is possible in
  `AlertMesh` on other topologies than those of section 4 and breaks no promise of the code.
* A clock that shows a time before 1970, or one more than `MaxSkew` ahead, is left out.
* Every grid has two tiles, and a curl process that gets no answer counts as having
  opened its file: the code removes that file anyway.
* Commands outside the repository are modelled by what the code says of them:
  `SOS_RW_CMD` and `SOS_COMMIT_CMD` remount the partition, `sos-apply-update` installs
  two files and reboots. The periodic remount the comments mention is left out.
* The store's mode with a commit command is modelled as far as its remounts go.
* `NodeBoot` leaves out the configurations built from the environment and the tasks of
  the subsystems, whose end does not end `run`; a stored identity or registry that does
  not decode is not told from one that cannot be read.
* The Tor gateway serves one manifest made of the last signal and prints a
  configuration; `lifecycle`, `runtime` and `validate` are enumerations and pure
  tests; the pages are static; the ESP32 firmware runs no protocol; the health report
  reads `/proc`. None keeps a state that a sequence of calls could corrupt.
