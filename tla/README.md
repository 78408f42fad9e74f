# k-firewall: specifications, model checking and proofs

k-firewall is a Linux firewall in Rust. Its data plane is a pair of eBPF
programs (XDP on ingress, TC on WAN egress, `k-firewall-ebpf/src/main.rs`); its
control plane is a daemon (`k-firewalld`) that loads them, fills and empties
their maps, serves an HTTP API, follows Suricata's event log, hands out DHCPv6
leases and keeps a database. This directory holds TLA+ modules for the parts
whose correctness depends on the order in which things happen, the TLC
configurations that check them on small instances, and TLAPS proofs of the
core invariants for every value of the constants.

`src/` below is the root of the repository.

## 1. Inventory

### The system's parts, their state and their operations

| Part | State | Operations | Modelled by |
|---|---|---|---|
| Connection tracking (XDP `try_k_firewall`, TC `kfw_tc_egress`) | `CONNTRACK` (five-tuple → state, nat, counted bits, last seen), `CONN_COUNT`, `SYN_COUNT`, `ALG_EXPECT` | a packet along or against an entry, the first packet of a flow, port forwarding, an FTP data connection, a packet that leaves a WAN interface | `Conntrack` |
| Per-source limits | `CONN_LIMITS`, `CONFIG_SYN_MAX_HALFOPEN` against the two counters | check, charge, refund, recount | `Conntrack`, `ConntrackLimits`, promised by `AdmissionControl` |
| Conntrack maintenance (daemon) | the handle lock and the keys of the running pass | prune expired, delete sessions, recount | `Conntrack`, `ConntrackReconcile` |
| Block list | kernel map `BLOCKED`, `AppState.blocked`, table `blocklist` of the database | block, unblock, prune, restore at start-up | `Blocklist` |
| Token buckets | `SYN_LIMITS`, `RATE_LIMITS`, `QOS_BUCKETS` | refill and take; a change of rate and capacity | `TokenBucket` |
| Packet pipeline | the order of the checks in `try_k_firewall` | one packet | `Pipeline` |
| Zone and QoS tables | an array and its COUNT | rewritten by the daemon while XDP reads it | `Pipeline` (zone array and prefilter tables) |
| Rule lists | a list in memory, the database table, the kernel table | add, replace, enable, delete, swap, restart | `RuleSync` (all six lists) |
| DHCPv6 server | pool, leases by DUID and IAID | solicit, request, renew, release, decline, prune | `DhcpServer` |
| Fragment tracking | `FRAG_TRACK` | first and later fragments, expiry | `Pipeline` |
| Suricata events | offset in `eve.json`, allow map, expectations | connect, tail, learn, hand over | `SuricataEvents`; what is learnt acts in `Pipeline` and `Conntrack` |
| Suricata rule prefilter | LPM keys compiled from rules | expand, install, look up | `Prefilter` |
| Multi-WAN | link health, active link of a group, policy rules | probe, choose, move the route, repair | `MultiWan` |
| nftables set-up, bridge, netlink, configuration, HTTP surface, statistics, CLI | none of their own | commands, parsing, formatting | not modelled, see section 7 |

### How they interact

* The two planes share only BPF maps. XDP reads and writes `CONNTRACK` and the
  counters per packet with no lock at all; the daemon reads and writes the same
  maps with one system call per key, serialised against itself, but never
  against the data plane, by the mutex on `EbpfHandle` ("the handle lock").
* The TC program inserts into `CONNTRACK`, too: the reply direction of whatever leaves an interface
  that masquerades, be it forwarded or the firewall's own, and whatever policy let it through. It looks
  at no entry before it does.
* The daemon's periodic tasks (`k-firewalld/src/main.rs:151-204`) prune
  `CONNTRACK`, prune expired blocks and recount the counters. API handlers and
  the Suricata loop call the same `AppState` methods concurrently.
* Every list the API serves lives in three places (kernel, memory, database)
  which are written one after another under different locks. A handler whose client
  goes away is dropped at its `await`, which is where it waits for the handle lock.
* Two tasks read Suricata's records, each in its own way: the listener fills
  `SURICATA_ALLOW_MAP` and `ALG_EXPECT`, which XDP looks at before and in place of
  the policies; the alert reader blocks addresses.
* The DHCPv6 server and the multi-WAN task touch no BPF map: the one talks to
  clients over a network that loses and delays, the other to the routing tables
  of the kernel, which outlive it.

### What is hard here

Entries leave the table without giving their unit back (expiry, deletion,
overwriting); the recount then repairs the counters from an old reading of the
table while packets go on counting; passes act on keys that were read before
the wait for a lock; a database write fails after the kernel map was written;
the daemon stops anywhere and restarts from the database, or without it if it cannot be read.
A counter map is full, and what is counted is not recorded. A command fails and nobody looks. An array is rewritten
slot by slot under packets that have already read its count. A lease lives in
memory only and is believed in by a client that heard of it late. A file is
renamed, truncated or half written while two tasks read it. A probe judges one
link by the route of another. `PROJECT.json` lists each of these hazards at its
line.

### What makes each part correct

* Tracking and limits: a unit is charged once and returned at most once, no
  source exceeds its limit unless a unit of its could not be recorded or was erased by
  the recount, an established connection is never half-open again, expired entries leave the table.
* Recount: after a quiet pass counters and table agree; nothing stays charged
  for ever.
* Block list: the three places agree unless operations overlapped or the database failed; a block
  keeps its row over a restart, and is in force again once a start has read it; an expired block
  ends, a live one is not pruned.
* Rule lists: an id names one rule; list and table agree on every rule that no two
  calls touched at once; the kernel enforces the enabled rules in their order once the last
  hand-over was complete; no two rules are about the same source, port or name.
* Packet pipeline: a packet gets the verdict of the list installed last; a blocked
  source gets nothing through; a connection outlives changes of policy; only what was let through,
  forwarded or expected becomes a connection under a default of drop.
* DHCPv6: no address is leased twice; two clients use one address only for reasons
  that can be named; the unspecified address is answered only by a pool that is
  used up.
* Suricata events: no record is skipped or processed twice beyond what can be
  named; alerts keep their order and are heard in the end.
* Prefilter: it lets just the flows through that an expanded rule is about.
* Multi-WAN: the policy rules repair themselves; the default route comes to work again
  while some link works (it does not: finding 2).
* Token buckets: no more passes than burst plus rate times time, and a source that
  waits gets its rate.

## 2. Modules

| Module | Models | Extends |
|---|---|---|
| `AdmissionControl` | abstract: members admitted one at a time below their owner's quota, but for owners that are `unsure`, and released | |
| `Conntrack` | `CONNTRACK`, the counters, FTP expectations, XDP, TC egress, prune and delete passes | |
| `ConntrackReconcile` | the recount, composed with `Conntrack`: its steps interleave with every packet and pass | `Conntrack` |
| `ConntrackLimits` | the same, with the sources whose counters cannot be relied on as history: what the limits are worth | `ConntrackReconcile`, an instance of `AdmissionControl` for each counter |
| `ConntrackProofs` | the theorems about `Conntrack`, `ConntrackReconcile` and `ConntrackLimits` | `ConntrackLimits`, TLAPS |
| `Blocklist` | block, unblock, prune and restart over the three places | |
| `BlocklistProofs` | the theorems about `Blocklist` | `Blocklist`, TLAPS |
| `RuleSync` | the six rule lists: table, list and kernel table, overlapping API calls, failing database, no database, restart | |
| `RuleSyncProofs` | the theorems about `RuleSync` | `RuleSync`, TLAPS |
| `Pipeline` | the path of a packet through all checks of `try_k_firewall`, and the rewriting of zone array and prefilter tables | |
| `PipelineProofs` | the theorems about `Pipeline` | `Pipeline`, TLAPS |
| `SuricataEvents` | the two readers of Suricata's records, the socket, the file and its rotation | |
| `Prefilter` | the expansion of rule headers into keys, the four tables and their look-up | |
| `SuricataProofs` | the theorems about `SuricataEvents` and `Prefilter` | `SuricataEvents`, `Prefilter`, TLAPS |
| `DhcpServer` | one interface's DHCPv6 server, its clients and the network between them | |
| `DhcpProofs` | the theorems about `DhcpServer` | `DhcpServer`, TLAPS |
| `MultiWan` | probing, the choice and move of the default route, the policy rules, failing links | |
| `MultiWanProofs` | the theorem about `MultiWan` | `MultiWan`, TLAPS |
| `TokenBucket` | one bucket of the data plane, in any of its three uses | |
| `TokenBucketProofs` | the theorems about `TokenBucket` | `TokenBucket`, TLAPS |
| `MCConntrack`, `MCConntrackReconcile`, `MCConntrackLimits`, `MCBlocklist`, `MCRuleSync`, `MCTokenBucket`, `MCPipeline`, `MCSuricataEvents`, `MCPrefilter`, `MCDhcpServer`, `MCMultiWan` | the small instances | the module of that name |

### Conntrack

State. `ct[k]` is the table entry of five-tuple `k` or `NoEntry`. The two bits of
`CtValue.counted` are `syn` and `conn`. `last_ns` is abstracted to the one test
made on it: `idle` is true once the entry is older than its state's timeout, so
`Live` is "present and not `ct_expired`". `connCount` and `synCount` are maps with keys for some of
the addresses; without a key an address reads 0 (`Count`). A counter that falls to 0 keeps
its key, so that the maps fill up; the insertion of a new key into a full one (`CountMaxEntries`, 65536
in the code) fails, the code takes no notice and flags the flow as counted (`Put`, `Inc`). `daemon` is
the holder of the handle lock and the keys its pass has still to remove.

Actions. `ForwardPacket` and `ReplyPacket` are the two look-ups at the head of
`try_k_firewall`, each with `ct_tcp_step` and `ct_counters_tick`. `DnatPacket`,
`AlgPacket` and `NewFlow` are the three ways in which a packet with no live
entry enters the table, in the order of the code: the guards of each negate
those before it. `NewFlow` holds the checks and charges of the last part of the
function; checks that drop or pass the packet before it (block list, zones,
Suricata, rate limits: see `Pipeline`) touch none of this state, and a packet
they stop is a packet that does not occur. `TcEgress` is `kfw_tc_egress`. `Expire` is time.
`PruneBegin` and `DeleteBegin` read the table; `RemoveNext` is one system call of
the pass.

Abstractions.
* A packet is one atomic step, as on a machine whose flows go to one receive
  queue. Two CPUs that step copies of one entry are a listed hazard that is not
  modelled (section 7).
* Reading the table for a prune is one step; what makes the difference, the
  removals that come after it, is one step per key. The recount does read key
  by key.
* An endpoint is an address and port in one, because nothing here reads one
  without the other except `SrcIp`. IPv6 packets run through the same functions with a wider
  key and add no behaviour.
* The limits, CT timeouts and DNAT rules are constants: the daemon writes them
  at start-up, or through API calls which are not modelled here.
* Of `ALG_EXPECT` only the wildcard-port keys are modelled; the SYN rate bucket
  (`syn_flood_check` has a second test) is left out: it only drops more packets.
* `CONNTRACK` is a plain hash map (nothing is evicted), so that an insert
  into a full map fails; `HasRoom` says so and `CtMaxEntries` is its size.

### ConntrackReconcile

`ReconcileScan` reads one key. `ClearConns`, `WriteConns`, `ClearSyns`,
`WriteSyns` are the four loops of `reconcile_conn_counts`, each taken as one step:
packets come in between two loops but not between two addresses of one, a
coarser interleaving than the code's. The pass holds the handle lock, packets
do not wait for it: between two loops the counter map is empty, or has the tally of an earlier
reading. A map that is full takes some of the tallies and loses the others (`Takes`). `quiet` is a
history variable that only the properties read: no packet since the pass began.

### ConntrackLimits

The limits are stated with the recount going on, because that is how the daemon runs, and
there they are not unconditional. The code loses a unit in two ways:
* the counter map has no key for the source and no room for one
  (`k-firewall-ebpf/src/main.rs:381-387`, `487-493`; the recount's own insertions at
  `ebpf_loader.rs:1446-1448`, `1465-1467`);
* the flow is admitted while a pass is under way that has read its key already, so that the
  pass writes the counter back without it (`ebpf_loader.rs:1401-1470`).

`connUnsure` and `synUnsure` are history variables: the sources that hold a flow so admitted, or whose tally the
recount could not write (`ConnsMissed`, `HalfOpenMissed`). A source is sure again when it has no counted
flow left. `CountersCoverFlows`, `LimitsHold`, `ConnsAreAdmitted` and `HalfOpenAreAdmitted` speak of the other sources,
at every moment, also of a recount, but for the one at which it has emptied the map (counters only).
Two things a counted flow may meet are outside these properties, because it is no counted
flow any more: an entry that the TC program replaces by a NAT entry, and one that was deleted
or has expired while its endpoints go on.

### Blocklist

`kernel`, `memory` and `db` are the three places. `call[c]` is where a caller is
in `AppState::block` (handle lock and kernel, table, database) or `unblock`;
`prune` is where the prune task is: it reads the expired addresses, waits for
the handle lock, and keeps the lock for all of its removals (`HandleFree`). A
database write may fail (`SaveTo`): the code logs and goes on. `Restart` may
happen between any two steps and is `AppState::new` with the query
`load_active_blocklist`: rows that have expired are deleted, the others blocked
as far as the map has room (`StartLoads`). A database that does not open (`api.rs:114`) or whose rows are not read
(`api.rs:146`), before or after the deletion of the expired ones, costs a warning: the daemon goes on with
nothing blocked, and in the first case writes nothing for as long as it runs (`StartUnread`, `persist`). A client
that goes away while its call waits for the handle lock takes the call with it (`Abandon`); the alert loop has no
client. The expiry of an entry is either a moment within the model's clock or `Never`, which stands for
every later moment and for a permanent block. `disturbed` is a
history variable: the addresses on which operations overlapped, whose row was not written, or
which have a row the last start did not turn into a block, since that start.

### RuleSync

The six lists have nothing in common but the handle lock, so that a behaviour
is that of one of them: `mode` says which, whether there is a database, and
whether that may fail. `db` and `seq` are the table of the list and its
AUTOINCREMENT counter (or the counter the daemon keeps for want of a database),
`list` the list of `AppState`, `kernel` what the kernel has of it: a set of rules
for the prefilter, a sequence cut off at `Slots` for QoS classes and zone policies (with two
slots for each policy, there and back), a function by key for rate limits,
connection limits and port forwardings.

`call[t]` is where API call `t` is. Each list has its own additions and updates
(`AddSuriRule` to `UpdateZonePolicy`), because they differ in what they compare and lock:
* Most additions and replacements change table and list under the mutex of the list, in
  one step (`Insert`, `Replace`). A Suricata rule is compared with the list, inserted into the table
  and appended to the list in three steps, and replaced like a flag, in two.
* Enabling changes the table, then the list (`ChangeTable`, `ChangeList`); a deletion
  changes the list, then one row at a time.
* A swap changes the table, reads it back, and only then takes the mutex. Without a
  database zone policies change places and the others change ids
  (`SwapInMemory`).
* Each ends with the two steps of `resync_…`: the list is read under its mutex
  (`Snapshot`), and the table of the kernel is written under the handle lock
  (`Apply`, one step: how a packet sees the rewriting is in `Pipeline`). Between the two the handler waits
  for the lock, and is dropped if its client goes away (`Abandon`).
* The kernel may refuse any entry of the rewriting (`Handover`): `sync_…` gives up with `?` and leaves what it has
  written by then, a part of the keys, or an array with a count of 0 (`CutShort`). The caller hears of an error; list
  and database stay changed, and the kernel is behind until the next call on the list or the next start.

A statement of the database may fail where the code gives up with `?`, or, at a start, logs and goes on.
`Restart` may happen between any two steps; it includes the seeding from the configuration of a table
that is empty or cannot be read (all of its rules or none), and a hand-over that may be cut short, which
at a start is only logged (`api.rs:199` and its like). A database that does not *open* at a start makes a daemon without one,
which is a behaviour of its own (`mode.db`): the change from the one to the other is not modelled here
(`Blocklist` has it).

A rule is a model value with a flag, and `KeyOf` names what two rules may not
share: text, name, source or forwarded port. Policies whose interface does not
resolve are left out. `disturbed` and `calm` are history variables: the rules two
overlapping calls or a failure touched, and whether all calls since the start
came one at a time, did not fail, left the list in the order of ids and gave no
two rules one key, from a list in which no two had one. `synced` says that the hand-over asked for
last was complete; a call that was given up or refused by the kernel does not end the calm. What is read `ORDER BY id`, and a
list that keeps some of its entries, are written by ranks (`InOrder`, `Picked`), so that they
can be proved about.

### Pipeline

The first part of `try_k_firewall`, up to the Suricata prefilter, reads each table at one
place and is one step: `Arrive`, with one action for each way the packet can end
there (`Unparsed`, `Blocked`, `Fragment`, `NdFilter`, `ExemptPass`, `Limited`,
`TrackedPass`, `DnatPass`, `AlgPass`) and `GoesOn` for the rest; the guards of each
negate those before it, as the code returns early. From there on the code reads a
flag or a count and then the table it speaks of: `Lookup`, `ReadCount`, one `ReadSlot` for
each zone entry, and `DefaultDrop`, `RefuseFlow` or `NewFlow`.

The daemon's `sync_zone_policies` (`ZoneBegin`, `ZoneClear`, `ZoneWrite`) and
`sync_suricata_rules` (`RulesBegin`, `RulesClear`, `RulesWrite`, `RulesFull`) write one
slot or key per step. Both hold the handle lock (`SyncRunning`). One packet at a time is
in the second part; `torn` says that a table was rewritten during its walk.

What is let through, and what the firewall sends itself (`OwnFlows`), may leave by an interface that
masquerades, at once or later, with the five-tuple it has after routing and NAT (`EgressOf`, a parameter): it is `leaving`. `Egress` is
`kfw_tc_egress`, which enters the key of the replies to it into `CONNTRACK`
(`k-firewall-ebpf/src/main.rs:1725-1729`, `1745-1749`). It is attached to the egress interfaces that masquerade and to no
other (`config.rs:298`, `ebpf_loader.rs:499-530`).

A packet is a record of what the checks tell apart; the eleven of the instance
each stand for a kind. Rate limits, QoS, SYN and connection limits may drop any packet that
comes to them: `TokenBucket` and `Conntrack` say when. Configurations and what
Suricata reports (`LearnFlow`, `LearnData`) are inputs; entries, expectations and
fragments end at any time. `last` is history, the verdict of the last step.

### SuricataEvents

A record is a line written in two parts, and a position in the file is a number
of parts. `listener` is `spawn_suricata_listener` with its fall-back `tail_eve_file`: the length is asked for
(`Look`), the lines up to the end the file has by then are read (`ReadLines`), and
the length asked for first becomes the new position (`AssignPos`). `alerts` is the thread of
`suricata.rs`: it opens the file once and reads on from its place (`ReadAlerts`), or reads
the socket. `moved` is the file that was renamed away under it. Suricata writes,
creates the file, opens and closes its socket at will; `Rename` and `Truncate` are logrotate's.
What is read is counted (`learnt`) or appended (`handed`); what the record does is
in `Pipeline` and `Conntrack`.

A record is lost to a reader of the socket while it is not connected, so that the
properties about losses speak of the file. `late`, `excused` and `renewed` are history:
records completed while the listener was reading, records it may lose, and
whether the file changed under it since it last looked.

### Prefilter

`Expansion` is `expand_header`: the combinations of the networks and ports of a rule, each
turned into at most one key in each direction (`Orientation` is
`push_orientation`, `Entry` the prefix of a key), all or nothing (`Expressible`). A key
is a sequence of fields, with one field for each bit of an address, and a prefix a
number of fields: this is where an LPM key of bytes could go wrong. An address is itself a
function of its bits, so that a network is what agrees with it in the first ones. `Verdict` and
`Obstacles` say which specification ends the expansion first, and how (skipped or refused);
`Count` counts combinations as the code does, a port listed twice for two.
`Hit` is `suri_rules_hit` over the four tables, `Begins` the match of one key. `Add`, `Patch` and `Delete` are the calls of the API,
each with `sync_suricata_rules`. The text of a rule is taken apart already.

### DhcpServer

One task receives the messages of the interface, so that each handling is one
step: `Reuse`, `Allocate` and `RunDry` are the three ends of `alloc_addr_locked`, with the pruning that
precedes them (`Prunable`: at most `PruneLimit` expired leases, in the order of a hash map,
that is, any). `HandleRelease` is RELEASE and DECLINE, `Restart` empties the
table. Times are kept as what is left of them and a `Tick` takes one unit from all:
no clock has to be bounded.

The clients are modelled as far as the properties need them: they ask, release and
trust the lifetime in an answer from its arrival. `wire` is a set from which a message may be delivered,
again, late, or never; of the answers to one client all but one are lost.
`excused` is history: the clients whose belief outlasts the lease it came from.
A client is a pair of DUID and IAID. `addr_at` varies one group of the address,
hence `Segment` is 65536 in the code.

### MultiWan

One task ticks for ever: `Probe` for each member of each group, then `Switch` for
the group, and `KeepPbr` after the last. A probe answers if its interface has an
address and the *default route* works (`Answers`): `probe_from_interface` does not bind its socket.
`main` is the default route of metric 0, which `ip route replace` writes, `spare`
one another program may have left; `tables` and `rules` are those of policy routing. The
kernel withdraws routes over a link that goes down or loses its address.
Links change, rules are removed by others, probes and `ip` commands fail and the daemon restarts, `Faults` times in
all. The code looks at no result of a command: the route of a table, the addition of a rule, the move of the default
route and each command of the clean-up may fail, the listing of the rules among them (`Rebuilding`, `CleanUp`,
`Failing`; `CommandFails`). `ApplyPbr` is the first tick of a daemon, which cleans up and rebuilds, `EnsurePbr` every
other one, which only rebuilds: the first sets `pbr_applied` whether or not its commands succeeded (`multiwan.rs:99-101`).
`Stray` is a rule an earlier configuration left, `missed` history: a clean-up did not remove it. `worked` is history,
too: the default route carried traffic at some moment of the running tick.

The probes are taken to follow the default route. A policy rule without `src_net`, which the configuration allows (`config.rs:694-700`,
`multiwan.rs:317-319`), is about the daemon's own probes as well, and a target on the link itself needs no gateway: both are
outside the model, and so are `MovesOnlyWhileOnline` and finding 2 for them. `test-multiwan.yaml` has neither.

### TokenBucket

`tokens`, `last`, `rate` and `burst` are the fields of `RateState`, or of
`SynState` or `QosBucket` and the configuration beside them; `kind` says which.
`Refilled` is what a packet finds: the elapsed time cut off at `Window`, the
product in 64 bits, the room in the bucket in 64 bits, the sum in 32 bits, each
wrapping as in the code. `Pass` and `Drop` are the two outcomes, `Configure` the
daemon: `sync_rate_limit_entries` writes a source's entry anew, the other two
keep their tokens. `burst` stands for the capacity after `max(1)`. A QoS class
has a bucket on each CPU (`PerCpuArray`); the model is one of them, so the limit
of a class is `RateHolds` times the number of CPUs. Rate 0 (bucket off),
the eviction of an idle source from the LRU maps and packets of a source on two
CPUs at once are left out. `passed`, `since`, `passAt` and `shrunk` are history.

## 3. Runs

| Run | Specification | Instance | Shows |
|---|---|---|---|
| `conntrack_limits` | `LSpec` | two connections between two ports of a host and a server; forwarding from one port to the other, an FTP expectation, masquerading, half-open limit 1, a limit of one connection for the host, table of 2, counter maps of 1, the recount at any time | flag bits; counters and limits with the recount going on and with full counter maps, also with flows that enter unchecked; both refinements of `AdmissionControl`; settled connections stay settled |
| `reconcile` | `RFairSpec` | one TCP connection, masquerading, a limit for one side, counter maps of 1 | a quiet recount is exact but for what a full map has no key for; leaked units return; counters drain; expired entries are collected |
| `blocklist` | `FairSpec` | two addresses, two callers, one with a client that may go away, map of 1, two clock values, a database that may not open, load or save | the three places agree; a block keeps its row and comes back with a start that reads it; expired blocks end |
| `rules` | `Spec` | each list; one to three rules, two ids (also custom ones), two overlapping calls, kernel arrays of 1, no database, a sound one and a failing one, hand-overs that are cut short or given up | ids name one rule; list and table agree where calls did not overlap; calm calls leave list and table in agreement, and the kernel after a complete hand-over, and no two rules with one key |
| `bucket` | `Spec` | two rates, two bursts, two packet lengths, 3-bit words, 4-bit long words, clock to 6 | rate and capacity hold through rounding and every wrap |
| `dhcp` | `Spec` | two clients, a pool of two addresses of which an allocation tries one, lifetime 2, three messages under way, restarts | leases are exclusive; two clients use one address only for the named reasons; `::` is answered only when what is tried is leased |
| `pipeline` | `Spec` | eleven kinds of packet, two configurations, two zone lists (one longer than the array of 2), one Suricata rule, one masqueraded host | the verdict is that of the installed lists; the block list and tracked connections come before what they must precede; connections come from what was let through, forwarded or expected |
| `pipeline_torn` | `Spec` | the same with two lists that pass nothing and a default of drop | finding 1 |
| `events` | `Spec` | two alerts, every combination of socket and file, two attempts, two renewals | what each reader may lose, repeat or delay is what the properties name |
| `prefilter` | `FSpec` | 1116 headers over 2-bit addresses and 3 ports, alone and with a second rule | the tables let just the flows of expanded rules through |
| `multiwan` | `Spec` | two links, two groups, three policy rules, three faults, of links or of commands | policy rules come back; a stray rule stays only if the clean-up missed it; the default route is moved only while it works |
| `multiwan_failover` | `Spec` | the same, smaller, with commands that succeed | finding 2 |

`CHECK_DEADLOCK FALSE` in the passing runs but `rules`, `prefilter` and `multiwan`: with no
packet and no request, or with the clock or the log at its end, these systems rest. A
call of `RuleSync` or of `Prefilter` can always be made, and the task of `MultiWan` never stops.

### Bounds, and why they are enough

* `Flows`: two connections with their reverses between one server and two ports of a host, one
  in `reconcile`. A counter is touched by the flows of one source only, and every interaction between entries is between
  a flow and its reverse (`TcEgress`), its forwarded reply (`DnatPacket`) or between two flows of a
  source (the limits). The host may hold one connection and each side one half-open flow, so that both limits
  refuse; the flow an expectation opens escapes both.
* `CtMaxEntries = 2` is below the number of five-tuples (4), so inserts fail. `CountMaxEntries = 1` is below the number of
  sources: whichever of the two is counted first leaves no room for the other.
* `conntrack_limits` leaves out what would only multiply its states: `TcpFlags = Handshake` (SYN, ACK, RST), since limits are
  about the opening and the end of flows, and `NeverExpires = Answered`: only entries in SYN_SENT
  expire of themselves (0 as a timeout, which `ct_expired` takes for "never"), all others are deleted, reset or overwritten at any time. `VIEW WithoutQuiet`
  drops a history variable that nothing in this run reads. `reconcile` has every flag byte `ct_tcp_step` tells apart
  (`Segments`; a FIN that carries ACK is to it the same as the ACK) and expiry of every state. The proofs hold for any flags and any timeouts.
* `MaxTime` 2 or 3: a block that expires within the run, one that does not, and
  (with 3) one that is renewed after it expired.
* `BlockedMax = 1` with two addresses: the map is full, both for a caller and at a
  restart. One caller has a client, the other is the alert loop. Nothing in `Blocklist` grows but the clock.
* `MaxId = 2` with `Seed` of one rule: a table that is seeded, full, and seeded again
  behind a used id. `Slots = 1` is below the number of rules, so the array cuts the
  list off. Three forwardings, two of them for one port. With a sound database zone policies
  of two contents are run, with a failing one QoS classes of two contents and Suricata rules and
  rate limits of one: the calls on the other lists go through the steps of these. Two tasks: every interleaving of two calls, and as calls end, of any
  number of calls two of which overlap.
* The widths of `bucket`: 5 tokens a second for 4 ticks is 20, beyond the long
  word of 16, as 10^12 ns times 4·10^9 tokens are beyond 2^64; and a capacity of 1
  configured over 3 tokens makes `burst - tokens` wrap. `MaxTime = 6` lets the
  elapsed time pass `Window`, and leaves two ticks after it.
* `dhcp`: every conflict is between two clients; a lifetime of 2 leaves a moment in which a
  lease is old but live; `ScanLimit` 1 of two addresses makes the one that is tried now
  free, now leased although the other is free; `PruneLimit` 1 leaves expired leases behind. Three
  messages under way are a request, an older one and a late RELEASE. Larger pools and longer scans
  are covered by the proofs.
* `pipeline`: each packet stands for one outcome of each check; lists of one and three policies
  in an array of two grow, shrink and are cut off. One packet in the
  second part: packets meet only through tables whose changes `Environment` makes at any time. Only the host's
  connection is masqueraded, and the firewall sends nothing itself (`OwnFlows = {}`): the replies of any other key would be entered
  in the same way, and the proof has any routing and any own packets. `VIEW WithoutLast` takes states that differ in the
  last verdict alone for one; no action reads it, and the properties that do are about the step that wrote it.
* `events`: of two records, in two parts each, one is before or after any reading and the other
  in it, and a reading ends within either; the file is renewed twice, in both ways. A record
  that is no alert differs only in that the alert reader leaves it out. `Tries = 2` (5 in the code): an attempt that
  fails and one that is the last.
* `prefilter`: with 2-bit addresses there are prefixes of 0, 1 and all bits; the range 0–2
  contains the special port 0, which is also a port of its own, and a list holds one port twice;
  `MaxRange` and `MaxTuples` refuse the widest headers. Wider addresses are covered by the proof.
  Flows have no port 0, as the code assumes (`suricata_rules.rs:235`).
* `multiwan`: three faults are a link that fails, the other that fails or comes back, and one
  more change in the middle of a tick, or commands that fail in one tick, at a start and after it. `FailsOver` needs one,
  and commands that do not fail: the finding does not hang on them.
* Symmetry is used in `rules` over the tasks and in `dhcp` over the clients: they are interchangeable
  in the specification, and neither run has a liveness property.

### Fairness, and why the code justifies it

* The prune and recount tasks are `tokio::time::interval` loops that never end
  (`main.rs:156-204`), and the handle lock is a `tokio::sync::Mutex`, which grants
  in the order of requests. A pass that is enabled again and again therefore
  begins: strong fairness on `PruneBegin` and `ReconcileBegin`. Weak fairness
  would not do, as other passes take the lock in between, and would also be less
  than the code gives.
* A pass that holds the lock does nothing but system calls: weak fairness on its
  steps. The same for the prune task of `Blocklist`, whose steps nothing disables: weak fairness on `PruneStep`, and
  nothing of the callers, which may wait and go away as they like.
* Time passes: weak fairness on `Expire` in `ConntrackReconcile`.
* The listener and the alert reader are tasks of their own that sleep and look again
  for ever, and nothing else takes a lock from them: weak fairness on each.
* The multi-WAN task is an interval loop, and every probe ends within its
  timeout of 3 s: weak fairness on its steps. Failing links are not fair: `Faults` bounds
  them.
* Nothing is assumed of packets, of Suricata, callers, FTP events, restarts or the database.

## 4. Findings

1. `pipeline_torn`: `sync_zone_policies` sets the count to 0, clears the slots and writes
   them, "so that eBPF never reads a policy that is half new and half old"
   (`ebpf_loader.rs:917`). A packet that has read the old count before walks into
   slots that are cleared to an entry for every interface and destination whose action is
   PASS (`ebpf_loader.rs:926`): it is let through although no list, old or new, lets anything
   through. `UntornFollowsPolicy` shows that packets no rewriting overlaps are
   not affected.
2. `multiwan_failover`: `probe_from_interface` does not bind to the interface it is to judge
   (`multiwan.rs:146`), so that every probe leaves by the default route. When the
   link of that route goes dark all members look down, none is chosen and the route is never moved to the
   link that works; `test-multiwan.yaml:4` says that it is. `MovesOnlyWhileOnline`, which
   holds, is the same seen from the other side.

Seen while modelling, without a run of their own. The first three are stated as
properties that do *not* hold; put the name into the configuration named to see the behaviour.

* `PruneRemovesOnlyExpired` (`Conntrack`, PROPERTY of `conntrack_limits`): `prune_conntrack`
  copies the table, then removes the keys whose copy has expired
  (`ebpf_loader.rs:1056-1084`). A packet that came in between found the entry expired, took
  it for absent and inserted a new flow under the same key: that live entry is removed.
* `PruneUnblocksOnlyExpired` (`Blocklist`, PROPERTY of `blocklist`, with `MaxTime = 3`): `prune_expired`
  does not look at the expiry again after its wait for the handle lock (`api.rs:491-516`): an address that was
  blocked again meanwhile is unblocked and its entry deleted.
* `RateIsGranted` (`TokenBucket`, PROPERTY of `bucket`): a refill that is worth no whole token still moves `last`
  (`k-firewall-ebpf/src/main.rs:320`, `439`, `704`). A source that sends faster than its
  rate loses every fraction: after the burst it is not limited to its rate but
  shut out while it keeps sending.

Limits. The per-source limits are weaker than their configuration says; `ConntrackLimits` names the sources they hold of.
* A counter map that is full takes no new key, and a key is not removed when its counter falls to 0 but only by
  the next recount. Until then a new source is admitted without limit: its flows are flagged as counted and no unit is behind
  them (`k-firewall-ebpf/src/main.rs:381-387`, `487-493`).
* The recount reads the table, empties a counter map and writes it back while packets are counted
  (`ebpf_loader.rs:1401-1470`). A unit recorded in between is erased, and while the map is empty every source reads 0: every 30 s a
  source may take on more than its limit, and keeps it until those connections end. Only the next recount puts the
  counter right.
* The first reply that leaves an interface that masquerades replaces the counted entry of an inbound connection by a NAT entry
  (`k-firewall-ebpf/src/main.rs:1729`); the next recount skips NAT entries (`ebpf_loader.rs:1413`), the unit is gone and
  the source is admitted above its limit although the connection is open.

Block list and rule lists:
* `resync_zone_policies` and the functions like it read the list under one lock and write the kernel
  under another (`api.rs:1642`). Of two calls, the one that read first may write last: a
  deleted or disabled rule stays in force until the next change. `CalmAgree` therefore
  speaks of calls that come one at a time.
* A call whose client goes away while it waits for the handle lock has changed database and list but not the kernel
  (`api.rs:1646`), and one whose rewriting the kernel refuses part-way leaves it with part of the rules, for an array with none
  (`ebpf_loader.rs:848-858`, `919-933`, `951-984`). The next change of the list makes it good, not the daemon by itself.
* A start at which the database does not open, or the block list is not read, goes on with a warning and nothing blocked
  (`api.rs:114`, `146`); the rows stay, and come back with the next start that reads them.
* A failed read of a rule table at start is taken for an empty table, and the configuration inserted once
  more (`api.rs:336`). A rule added with a smaller id than the others is executed last
  until the next restart or swap, and then earlier (`api.rs:1685`).
* Two Suricata rules with one text can be added at once (`api.rs:556`), and an
  update may give a port forwarding the port of another (`api.rs:1470`): which of
  the two the kernel has depends on their order.

Data plane:
* The comment on the refill window (`k-firewall-ebpf/src/main.rs:310-311`) gives the product as at most
  4·10^12, but the window is 10^12 nanoseconds and the product wraps from about 18
  million tokens a second on (`RateHolds` shows that this only withholds tokens).
* A packet that a zone policy passes enters no connection itself (`k-firewall-ebpf/src/main.rs:1503`). Its replies are let
  through by `CONNTRACK`, as `k-firewall-production.yaml:40` says of all of them, only if it leaves by an interface that masquerades,
  where `kfw_tc_egress` enters them; between two routed interfaces without masquerading they need a policy of their own.
* The look-up in `LOCAL_IPS` comes before port forwarding (`k-firewall-ebpf/src/main.rs:1216`): a forwarding
  from an address of the firewall itself is never reached there. Fragments are known by addresses and
  protocol alone (`:810`), so that any later fragment between two hosts passes once a first one has.

Suricata:
* The listener ends when its socket is closed (`ebpf_loader.rs:1533`), while the alert reader goes on with
  the file. The alert reader ends if there is no file when it first needs it, and does not notice
  a rotation (`suricata.rs:104`).
* A record that was completed during a reading is processed twice: an FTP data connection is expected a second
  time. Any event with a flow object puts its flow on the allow list (`ebpf_loader.rs:1667`).
* Rules for SCTP are expanded with their ports (`suricata_rules.rs:402`), but the data plane reads the
  ports of SCTP as 0. A rule that is skipped is no longer inspected once another one switches
  the prefilter on, as its flows are dropped (`suricata_rules.rs:438`). `FilterIsExact` states both.

DHCPv6 and multi-WAN:
* A renewal is answered with the full lifetime but does not move `valid_until` (`dhcp.rs:594`): the
  address may be leased to another client while the first still uses it. An IAID of 0 is
  refused.
* A default route the kernel has withdrawn is not put back while the choice is the same as
  before; several groups move one default route; and a policy rule for a group uses its first
  member with a gateway, whether it works or not.
* The results of all `ip` commands are ignored (`multiwan.rs:184`, `206`, `211-213`, `248-267`), and `pbr_applied` is set
  regardless (`:99-101`). What `ensure_pbr` does on every tick makes up for a failed addition; a rule of an earlier
  configuration that the one clean-up failed on stays until the daemon is restarted. `PbrSettles` states both.

## 5. Proofs

`ConntrackProofs` proves, for any addresses, endpoints, finite set of five-tuples
closed under reversal, limits, sizes of the table and of the counter maps, timeouts, DNAT rules, FTP keys and
flag bytes (the assumptions `FlowsAssumption`, `LimitsAssumption`,
`FlagsAssumption` of `Conntrack`, and nothing else):

| Theorem | Statement |
|---|---|
| `TypeCorrect` | `Spec => []TypeOK` |
| `FlagsCorrect` | `Spec => []FlagsFitState` |
| `SettledCorrect` | `Spec => SettledStaysSettled` |
| `RTypeCorrect` | `RSpec => []RTypeOK` |
| `RecountCorrect` | `RSpec => QuietPassRecounts` |
| `CountersCorrect` | `LSpec => []CountersCoverFlows` |
| `LimitsCorrect` | `LSpec => []LimitsHold` |
| `ConnAdmissionRefined`, `HalfOpenAdmissionRefined` | `LSpec => ConnsAreAdmitted`, `LSpec => HalfOpenAreAdmitted`: it implements `AdmissionControl` |

`Spec` is the data plane with the prune and delete passes, `RSpec` adds the recount, `LSpec` the history of the
sources that are not sure. What is proved of `Spec` holds under the recount as well, which touches no entry.

The argument. `StepShape` reduces the whole of `Next` to what matters for
counting: a step leaves all entries and counters alone; or replaces one entry
by one that holds no more units (`TouchedShape`, `UncountedShape`) while the
source's counters go down at most by the units given up; or charges one new
flow that passed both checks (`NewFlowShape`). All later theorems argue about
these shapes and no more about packets.

`FlagsFitState` is not inductive: a refund depends on the state of the entry, and
nothing in it says that, for instance, a UDP entry cannot be in `SYN_RECV`.
`EntriesFit` adds, per entry, the states its protocol may be in.

`QuietPassRecounts` speaks of the last step of a pass, and of counters written
before it. `RInv` follows a pass: that the rest of the daemon cannot interfere is `PassHolds` (the pass has the handle
lock); it has read all keys before it writes (`AllRead`); and while no packet came in between, the tallies
count the flows it has read (`Tallied`), and each map is empty or holds the tally, by how far the pass has
got (`Rewritten`, with `Holds` for a map that may have run out of keys). `PassIsAlone` shows that what happens under the lock
only ages entries; what a read entry adds to the tallies of its source is `TallyStep`. The argument needs nothing of
what the counters were before: the recount does not rely on the counters it replaces.

The limits rest on `LInv`, which is `RInv` and `Covers`. For a source that is not unsure `ConnsCovered` and `HalfOpenCovered` say that
* the counter is at least the number of flows that hold a unit, except while the map is empty;
* those of them the pass has read are at most what it has tallied, so that the counter is still large enough
  once the tally has replaced it: this is the half without which the induction fails at the recount, and a flow
  admitted behind the pass is what it cannot be kept for;
* the number of those flows is at most the limit. The check compares the *counter* with the limit, so the
  limit on the *flows* follows only while the counter covers them; while the map is empty, whoever is admitted is behind
  the pass, hence unsure (`NotMissed`).

A refund keeps the cover only because the flow that is refunded held a unit, which is `FlagsFitState` again. One lemma for each kind of step
carries this: packets and removals (`ConnsMove`, `HalfOpenMove`, with the cardinalities in `HeldSetsStep`, `ChargeStep` and
`ReadStep`), the reading of a key (`ScanCovers`), and the writing of the tallies (`ConnsWrite`, `HalfOpenWrite`). The two refinements follow
from `LInv` and `StepShape`: a charged flow is `Admit`, a refund, removal or overwriting is `Release`, everything else
stutters.

`TokenBucketProofs` proves, for any rates, bursts, packet lengths, length of a
second, window, clock and word widths (with `ConfigAssumption` and
`WidthAssumption`: bursts fit the word, the word fits the long word):

| Theorem | Statement |
|---|---|
| `TypeCorrect` | `Spec => []TypeOK` |
| `CapacityCorrect` | `Spec => []TokensFit` |
| `RateCorrect` | `Spec => []RateHolds` |

`RateHolds` speaks of the packets passed and the time since the configuration, and
is not inductive without the tokens that remain. `Account` keeps, in tokens times
`Second`, so that nothing is rounded: what has passed plus what is held exceeds the
burst by no more than the rate times the time up to `last`; before the first packet
after a change (`last < since`) nothing has passed. `EarnedBound` shows that cut-off,
wrap and division only lose tokens, `RefilledBound` that the unsigned subtraction
and the narrowing to 32 bits do not wrap as long as the tokens fit the capacity,
`Balance` puts the two together; `Pass` and `Drop` both follow from it.

`DhcpProofs` proves, for any finite set of clients, any pool, lifetime, scan and prune limit
(`BoundsAssumption` of `DhcpServer`):

| Theorem | Statement |
|---|---|
| `TypeCorrect` | `Spec => []TypeOK` |
| `LeasesCorrect` | `Spec => []LeasesExclusive` |
| `HoldersCorrect` | `Spec => []HoldersExclusive` |
| `PoolCorrect` | `Spec => PoolIsUsedUp` |

`HoldersExclusive` speaks of what clients believe, and nothing in it says why a
belief should agree with the table. `IInv` adds two conjuncts: the belief of a
client that is not excused is backed by a live lease of the same address that ends no sooner
(`BeliefBacked`), and so is the answer on the way to it, whose remaining time the
history field `left` keeps (`AnswerBacked`). Two such beliefs in one address are
then two live leases of it, which `LeasesExclusive` excludes. There is one step
lemma for each way a message is handled (`ReuseKeeps`, `AllocateKeeps`, `RunDryKeeps`,
`ReleaseKeeps`), and for a restart, the clients and the clock (`RestartKeeps`,
`ClientKeeps`, `AcceptKeeps`, `TickKeeps`). In `AllocateKeeps` the new lease is exclusive because the probe
found its address in no live lease, and prunes nobody's backing because what is pruned has
expired.

`PoolCorrect` is a counting argument. The addresses an allocation tries are one per probe,
because `ScanLimit` does not exceed the pool and successive offsets modulo the pool differ (`ProbesDiffer`); when it answers ::, each
of them is in a live lease (`ProbesFindLeases`), and a lease has one address, so
there are at least as many live leases as probes.

`BlocklistProofs` proves, for any finite set of addresses, any callers and durations, any clock of at
least one tick and any size of the map (`BoundsAssumption` of `Blocklist`):

| Theorem | Statement |
|---|---|
| `TypeCorrect` | `Spec => []TypeOK` |
| `PlacesCorrect` | `Spec => []PlacesAgree` |
| `RestartCorrect` | `Spec => BlocksSurviveRestart` |

`PlacesAgree` speaks of addresses with nothing in flight, and to keep it the proof has to know
what happens while something is. For an address that is not disturbed `Fits` says that it has at
most one operation on it, a caller or the pass of the prune task (`Alone`), and how far the three
places have got at each point of that operation (`CallFits`, `PruneFits`); `PassFits` ties the
address the pass has in hand to what it has still to do. Each step lemma (`StartsKeeps`, `CallerKeeps`,
`PruneKeeps`, `RestartKeeps`) argues about the address the step is about and leaves the others to
`Elsewhere`. `LoadRestores` is where the size of the map comes in: with room for all rows, a
restored set that is not all of them cannot have filled it. Of a start that reads nothing the theorem
says that the row and its expiry stay (`StartKeepsRow`); `disturbed` then holds every address that has a row, so that `PlacesAgree`
does not speak of it until the next start.

`PipelineProofs` proves, for any packets, policies, lists of any length, arrays of any size, rules and
configurations (`BoundsAssumption` of `Pipeline`):

| Theorem | Statement |
|---|---|
| `TypeCorrect` | `Spec => []TypeOK` |
| `VerdictCorrect` | `Spec => UntornFollowsPolicy` |
| `BlockedCorrect` | `Spec => BlockedStaysOut` |
| `TrackedCorrect` | `Spec => TrackedPasses` |
| `DenyCorrect` | `Spec => []TrackedWasAllowed` |

`UntornFollowsPolicy` compares the verdict at the end of a walk with the list of the daemon. `ZoneFits`
says what the array holds at each point of a rewriting, so that it is the list, cut off, whenever
nothing rewrites it; `RulesFit` says the same of the prefilter, whose switch is on only then;
`PacketFits` says that none of the slots an untorn walk has passed fits the packet. `VerdictFits` puts
them together, with `FirstFitAt` and `NoFirstFit` for the position `SelectInSeq` finds.
`TrackedWasAllowed` needs to know in addition where expectations come from (`Origins`); `leaving` holds only what a step has let through,
or the firewall's own packets. The other two theorems
follow from the guards of the first step.

`SuricataProofs` proves, for any log, any number of attempts, and any configuration
(`BoundsAssumption` of `SuricataEvents`):

| Theorem | Statement |
|---|---|
| `TypeCorrect` | `Spec => []TypeOK` |
| `NothingSkipped` | `Spec => []NoneSkipped` |
| `NothingTwice` | `Spec => []NoneTwice` |

The two properties speak of records, the code of positions in a file that is renewed
under it. `FileInOrder` ties them together: the file holds, in two parts each, the
records written since it was renewed last (`Base`), so that a position is the head or the rest of one record
(`Positions`), and the records complete between two positions are those that end between
them (`WholeBetween`). On it rest the three invariants:
* `NoneLost`: as long as the file is not renewed, what begins before the listener's
  place is learnt or excused, and the record that the length it asked for cuts in two is
  excused at the moment it is asked for. Without the second half the induction
  fails where the length becomes the place.
* `LearntInOrder`: how often a record may have been learnt depends on whether it lies
  ahead of the place the listener will read from next, which is 0 once it finds the file renewed (`Place`). Between
  the reading and the assignment of the place a record ahead of it has been
  learnt only if it was completed late.
* `HandedInOrder`: what was handed over is complete and lies before the alert reader's place, in the file
  at the path or in the one that was renamed away; in the second case the file it has open
  is the run of records before some earlier renewal. `Ordered` shows that
  a set of records is handed over in increasing order, by counting the ranks.

`AttemptsLeft` bounds the attempts, which `TypeOK` alone does not.

About `Prefilter`, the module proves `PrefilterExact`:
`FSpec => []FilterIsExact`, from `FilterBounds`: addresses of any width of at least
one bit, any headers made of the specifications the module lists, any flows with ports above 0, any limits.
The invariant is small (`TablesFollow`: every change of the list writes tables and switch anew);
the work is in what a key says, in three steps.
* A key is two fields, an address or none, a network and a port. `KeyBegins` says when a key of
  one kind begins another: up to bit k of the network if the fields before it are equal and the two agree
  in the first k bits (`Agreeing`, `Middle`), up to the end if the ports are equal as well. The mutant of
  `Entry` breaks this step: a port behind a network that is no single address begins nothing.
* So a key hits the flows that agree with the combination it was made from, whichever of the four tables it
  is in (`EntryBegins`, `OrientationBegins`), and a combination with at least one key is hit in one
  direction or the other (`OtherWay`, `TuplesHit`): that `expand_header` gives up a rule as a whole if
  some combination has no key is what makes the tables complete (`ExpansionHit`).
* What is left are the specifications: a header that is expanded has no obstacle in it
  (`NothingInTheWay`), and its combinations agree with just the flows that match it (`NetsUnder`,
  `PortsTold`, `CombosAgree`). For SCTP each combination with a key tells a port, which is
  above 0, and the flow is read with 0 on both sides (`HeaderHit`).

`MultiWanProofs` proves, for any groups, links, rules and number of faults (`BoundsAssumption` of `MultiWan`), `MovesCorrect`:
`Spec => MovesOnlyWhileOnline`. The move comes after the probes of all members, so the
invariant has to carry what they showed: `Witnessed` says that whoever has answered in this tick has
shown that the route worked in it, and `Within` that a tick does not come back to its
beginning, where `worked` is forgotten, with answers in hand.

`RuleSyncProofs` proves, for any of the six lists, any rules and names, any number of ids, of overlapping
calls and of slots, with a database that may fail, one that does not, or none (`BoundsAssumption` of `RuleSync`):

| Theorem | Statement |
|---|---|
| `TypeCorrect` | `Spec => []TypeOK` |
| `UniqueCorrect` | `Spec => []IdsUnique` |
| `RowsCorrect` | `Spec => []RowsAgree` |
| `CalmCorrect` | `Spec => []CalmAgree` |
| `KeysCorrect` | `Spec => []CalmUnique` |

The properties speak of ids, or of moments, with no call in flight. Three invariants carry them through the
middle of a call, with one clause for each point a call can be at; TLC finds all three true on the
instance of run `rules`.
* `TInv`: the types, what the record of a call holds at each point (`CallFits`), and that no id is
  given twice (`IdsGiven`): every id in the table, the list, or a reading of the table is
  at most `seq`, and a row on its way to the list is not in it yet. A swap puts a whole reading of
  the table in the place of the list; `UniqueCorrect` holds because a reading has each id once.
* `AInv`: for an id that nothing has disturbed, at most one call is changing it, and `PlaceFits` says how far
  row and entry are apart at the point where it is. `IdStep` is the argument all steps
  share: a step moves one call, and touches only ids that call is changing or has just taken on.
  That a swap, which rewrites the whole list from what it has read, undoes nobody's change is the clause for
  its last two points; calls it overlaps with have disturbed their ids.
* `CInv`: while `calm`, at most one call is not idle, `OrderFits` says what it still owes the list, compared as
  *sequences* with the rows in the order of ids, and `KeysFit` that the key it is
  about to give a rule is still free. Both halves are needed at once: an addition appends at the end,
  and this is the order of ids only because its id is above all in the table.

The operators on lists rest on `Ranks` (members of a finite set of numbers have the ranks 1 to its
cardinality, each once), from which come `Ordered`, `OneOrder` (one sequence puts a set in order),
`Rowed` and `OnlyRows` (a list is the rows of a table if it has them all, in order) and
`PickedIs`. `AppendRows`, `ChangedRows`, `PickedRows` and `PatchedRows` say that appending, changing,
and filtering a list of rows gives the rows of the table after the corresponding statement. `StepCases`
reduces the additions and updates of the six lists to the few steps they have in common.

The induction showed one thing the model had left open: a rule must not be the value that stands
for an empty row, which is now part of `BoundsAssumption`.

Only model-checked are the liveness properties, `LeakedUnitsReturn`, `CountersDrain`, `ExpiredIsCollected`,
`ExpiredBlockEnds`, `AlertsHeard` and `PbrSettles`: liveness under fairness, and ENABLED, are out of the
prover's reach. Every invariant and every action property of a passing run is proved.

## 6. What is left

In order of importance.

1. Two CPUs that copy, step and write back one entry of `CONNTRACK`.
2. The close of a TCP connection by its two endpoints against the states of the tracker.
3. The matching of QoS classes, and the metadata of sessions that the maintenance passes clean up.

## 7. Not modelled, and why

* Two CPUs in the middle of one packet each: every step of a packet would be split in
  three, which is beyond what TLC can search together with counters, passes and limits. The
  hazard is listed without a property.
* The TCP endpoints: the tracker is driven by every segment in every order, which includes what real endpoints
  send; what a real close leaves behind (`k-firewall-ebpf/src/main.rs:602` tests ACK before FIN) is
  therefore no property of the model.
* Configuration parsing, the HTTP surface (requests, authentication, the
  response envelope, OpenAPI), the CLI, statistics and the session log are
  parsing and formatting with no behaviour of their own. The parser of Suricata
  rule texts and the encoding of DHCPv6 options are of that kind, too.
* The nftables set-up, bridge and netlink run external commands or system calls once at start-up.
* IPv6 goes through the same tracking, block list and limits; zone policies, the prefilter, port
  forwarding and expectations are skipped for it in `Pipeline` as they are in the code.
* With `conntrack.enabled = false` neither pruning nor recounting runs, and the
  fairness of section 3 does not hold.
