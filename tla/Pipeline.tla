-------------------------------- MODULE Pipeline --------------------------------
(***************************************************************************)
(* The path of a packet through try_k_firewall (k-firewall-ebpf/src/main.rs) *)
(* from its parsing to its verdict, in the order of the checks, and the    *)
(* tables the daemon changes meanwhile (k-firewalld/src/ebpf_loader.rs).   *)
(*                                                                         *)
(* Up to the Suricata prefilter every table is read at one place, so that  *)
(* this much of the path is one step.  From there on the packet reads a    *)
(* flag or a count first and then the table it speaks of, while the daemon *)
(* rewrites the table key by key: these reads are steps of their own.      *)
(*                                                                         *)
(* Token buckets and per-source limits, whose own modules are TokenBucket  *)
(* and Conntrack, may drop any packet that gets to them here.  What is let *)
(* through, and what the firewall sends itself, may leave by an interface  *)
(* that masquerades, where kfw_tc_egress enters the key of its replies.    *)
(***************************************************************************)
EXTENDS Integers, Sequences, SequencesExt

CONSTANTS
    Packet,       \* the packets, records of PacketType
    Addr,         \* addresses
    Iface,        \* interfaces
    LocalIps,     \* addresses of the firewall itself (LOCAL_IPS)
    LanIfaces,    \* interfaces in the role LAN
    DnatRules,    \* port forwardings, from the address and port they are for
    ZoneLists,    \* the lists of zone policies the daemon may install
    ZoneMax,      \* ZONE_MAX
    Rule,         \* Suricata rules
    Matches(_, _),  \* whether a rule's header fits a five-tuple
    Configs,      \* the values of the CONFIG slots that do not change
    Sources,      \* addresses that may be blocked
    EgressOf(_),  \* the five-tuples, after routing and NAT, with which a packet of a
                  \* five-tuple may leave by an interface that has kfw_tc_egress
    OwnFlows,     \* five-tuples of the firewall's own packets that leave by such a one
    Flows         \* five-tuples events of Suricata may be about

\* Of one protocol: packets of another differ in nothing the checks tell apart.
FiveTuple == [v4 : BOOLEAN, src : Addr, dst : Addr, sport : Nat, dport : Nat]

\* vif: the interface and VLAN are configured; bad: an IPv4 header below 20 bytes, more
\* extension headers than are followed, or a packet that ends early; nd: a router
\* advertisement or redirect; frag: how it is fragmented.  Later fragments have no ports.
PacketType == [vif : BOOLEAN, ip : BOOLEAN, bad : BOOLEAN, nd : BOOLEAN, in : Iface,
               key : FiveTuple, frag : {"no", "first", "later"}]

AnyIface == "any"
Policy   == [src : Iface \cup {AnyIface}, dsts : SUBSET Addr, action : {"pass", "drop"}]

\* The entry a slot is cleared to: from_ipv4(0, 0, 0, DEFAULT_ACTION).
ZeroEntry == [src |-> AnyIface, dsts |-> Addr, action |-> "pass"]

ASSUME BoundsAssumption ==
    /\ Packet \subseteq PacketType
    /\ Flows \subseteq FiveTuple /\ OwnFlows \subseteq FiveTuple
    /\ \A p \in Packet : EgressOf(p.key) \subseteq FiveTuple
    /\ DnatRules \subseteq [ip : Addr, port : Nat, to : Addr, toPort : Nat]
    /\ LocalIps \subseteq Addr /\ Sources \subseteq Addr /\ LanIfaces \subseteq Iface
    /\ ZoneMax \in Nat
    /\ \A list \in ZoneLists : list \in Seq(Policy)
    /\ Configs \subseteq [default : {"pass", "drop"}, fragments : {"pass", "drop", "inspect"},
                          raFilter : BOOLEAN]

VARIABLES
    config,     \* CONFIG: default action, fragment policy, RA filter
    blocked,    \* BLOCKED
    allow,      \* SURICATA_ALLOW_MAP
    expect,     \* ALG_EXPECT
    tracked,    \* the keys of the live entries of CONNTRACK
    frags,      \* FRAG_TRACK: the pairs of addresses seen within the timeout
    zone,       \* ZONE, all its slots
    count,      \* CONFIG_ZONE_COUNT
    flag,       \* CONFIG_SURICATA_PREFILTER
    rules,      \* the SURICATA_RULES_* tables
    zoneSync,   \* where sync_zone_policies is
    ruleSync,   \* where sync_suricata_rules is
    leaving,    \* five-tuples of what may leave where kfw_tc_egress is, now or later
    pkt,        \* the packet on the path, if it is past the first step; torn: a table
                \* was rewritten meanwhile
    last        \* history: the verdict of the last step

tables  == <<blocked, allow, expect>>
kernel  == <<zone, count, flag, rules>>
syncs   == <<zoneSync, ruleSync>>
vars    == <<config, blocked, allow, expect, tracked, frags, zone, count, flag, rules,
             zoneSync, ruleSync, leaving, pkt, last>>

Idle == [pc |-> "idle"]

Reversed(key) == [v4 |-> key.v4, src |-> key.dst, dst |-> key.src,
                 sport |-> key.dport, dport |-> key.sport]
Pair(key)    == <<key.v4, key.src, key.dst>>

NoVerdict == [at |-> "none"]

-----------------------------------------------------------------------------
(***************************************************************************)
(* The policy the administrator has asked for.                             *)
(***************************************************************************)
Fits(policy, p) == policy.src \in {AnyIface, p.in} /\ p.key.dst \in policy.dsts

FirstFit(list, p) == SelectInSeq(list, LAMBDA policy : Fits(policy, p))

\* What the zone policies of list, and the default action after them, say of p.
PolicyVerdict(list, p) ==
    IF p.key.v4 /\ FirstFit(list, p) # 0 THEN list[FirstFit(list, p)].action
                                         ELSE config.default

RuleHit(installed, key) ==
    \E r \in installed : Matches(r, key) \/ Matches(r, Reversed(key))

Truncated(list) == SubSeq(list, 1, IF Len(list) < ZoneMax THEN Len(list) ELSE ZoneMax)

\* The array with the policies of list in its first slots.
Filled(list) ==
    [i \in 0 .. ZoneMax - 1 |-> IF i + 1 \in DOMAIN list THEN list[i + 1] ELSE ZeroEntry]

Init ==
    /\ config \in Configs
    /\ blocked = {} /\ allow = {} /\ expect = {} /\ tracked = {} /\ frags = {}
    /\ \E list \in ZoneLists :
          /\ zone = Filled(Truncated(list))
          /\ count = Len(Truncated(list))
          /\ zoneSync = [pc |-> "idle", list |-> list]
    /\ flag = FALSE
    /\ rules = {}
    /\ ruleSync = [pc |-> "idle", todo |-> {}, wanted |-> {}, enabled |-> FALSE]
    /\ leaving = OwnFlows
    /\ pkt = Idle
    /\ last = NoVerdict

-----------------------------------------------------------------------------
(***************************************************************************)
(* The first step: parsing to DNAT and the FTP gateway.                    *)
(***************************************************************************)
SyncRunning == zoneSync.pc # "idle" \/ ruleSync.pc # "idle"

\* at: the check that decides.  What is let through the kernel routes, and may leave by
\* an interface that masquerades at any time from then on.
Decide(p, action, at) ==
    /\ last' = [p |-> p, action |-> action, at |-> at]
    /\ leaving' = IF action = "pass" THEN leaving \cup EgressOf(p.key) ELSE leaving
    /\ pkt' = Idle

\* frag_track_update
SeenFragment(p) == IF p.frag = "no" THEN {} ELSE {Pair(p.key)}

\* A packet let through: its fragments are expected from now on.
PassHere(p, at) ==
    /\ Decide(p, "pass", at)
    /\ frags' = frags \cup SeenFragment(p)

Unmapped(p) == ~p.vif \/ ~p.ip
Readable(p) == ~Unmapped(p) /\ ~p.bad

\* Mutant: the fragment policy comes before the block list.
Admissible_FragFirst(p) == Readable(p) /\ (p.key.src \notin blocked \/ p.frag = "later")

Admissible(p) == Readable(p) /\ p.key.src \notin blocked

Unparsed(p) ==
    /\ Unmapped(p) \/ ~Readable(p)
    /\ Decide(p, IF Unmapped(p) THEN "pass" ELSE "drop", "parse")
    /\ UNCHANGED <<tracked, frags>>

Blocked(p) ==
    /\ Readable(p)
    /\ ~Admissible(p)
    /\ Decide(p, "drop", "blocked")
    /\ UNCHANGED <<tracked, frags>>

\* handle_fragments decides unless the policy is to inspect and the fragment is the
\* first: any later one passes that has a pair of addresses with a recent fragment.
FragmentGoesOn(p) == p.frag = "no" \/ (config.fragments = "inspect" /\ p.frag = "first")

Fragment(p) ==
    /\ Admissible(p)
    /\ ~FragmentGoesOn(p)
    /\ Decide(p, CASE config.fragments = "drop" -> "drop"
                   [] config.fragments = "inspect" ->
                        IF Pair(p.key) \in frags THEN "pass" ELSE "drop"
                   [] OTHER -> "pass", "fragment")
    /\ UNCHANGED <<tracked, frags>>

Filtered(p)  == p.nd /\ ~p.key.v4 /\ p.in \in LanIfaces /\ config.raFilter
Inspected(p) == Admissible(p) /\ FragmentGoesOn(p) /\ ~Filtered(p)

NdFilter(p) ==
    /\ Admissible(p) /\ FragmentGoesOn(p) /\ Filtered(p)
    /\ Decide(p, "drop", "nd")
    /\ UNCHANGED <<tracked, frags>>

Exempt(p) == allow \cap {p.key, Reversed(p.key)} # {} \/ p.key.dst \in LocalIps

\* The flow is on the allow list either way, or meant for the firewall itself.
ExemptPass(p) ==
    /\ Inspected(p) /\ Exempt(p)
    /\ PassHere(p, "exempt")
    /\ UNCHANGED tracked

\* rate_limited and apply_qos may drop any packet that gets here.
Limited(p) ==
    /\ Inspected(p) /\ ~Exempt(p)
    /\ Decide(p, "drop", "limit")
    /\ UNCHANGED <<tracked, frags>>

\* Mutant: only packets of the direction that opened the connection are found.
Known_OneWay(p) == p.key \in tracked

Known(p) == tracked \cap {p.key, Reversed(p.key)} # {}

TrackedPass(p) ==
    /\ Inspected(p) /\ ~Exempt(p) /\ Known(p)
    /\ PassHere(p, "conntrack")
    /\ UNCHANGED tracked

Fresh(p) == Inspected(p) /\ ~Exempt(p) /\ ~Known(p)

Forwarding(p) == {r \in DnatRules : p.key.v4 /\ r.ip = p.key.dst /\ r.port = p.key.dport}

\* A full CONNTRACK takes no entry, and the packet passes without one.
Insert(key) == \E room \in BOOLEAN : tracked' = IF room THEN tracked \cup {key} ELSE tracked

\* The key of the replies a forwarding gives rise to.
ReplyKey(p, r) == [v4 |-> TRUE, src |-> r.to, dst |-> p.key.src,
                   sport |-> r.toPort, dport |-> p.key.sport]

DnatPass(p) ==
    /\ Fresh(p)
    /\ \E r \in Forwarding(p) : Insert(ReplyKey(p, r))
    /\ PassHere(p, "dnat")

\* The expectation of the data connection, with or without its source port.
Expected(p) == expect \cap {p.key, [p.key EXCEPT !.sport = 0]}

AlgPass(p) ==
    /\ Fresh(p) /\ Forwarding(p) = {} /\ p.key.v4 /\ Expected(p) # {}
    /\ expect' = expect \ Expected(p)
    /\ Insert(p.key)
    /\ PassHere(p, "alg")

\* The packet goes on to the prefilter with the flag it has read.
GoesOn(p) ==
    /\ Fresh(p) /\ Forwarding(p) = {} /\ (p.key.v4 => Expected(p) = {})
    /\ pkt' = [pc |-> IF flag /\ p.key.v4 THEN "lookup" ELSE "count", p |-> p,
               torn |-> SyncRunning]
    /\ last' = NoVerdict
    /\ UNCHANGED <<tracked, frags, leaving>>

Arrive(p) ==
    /\ pkt = Idle
    /\ \/ /\ \/ Unparsed(p) \/ Blocked(p) \/ Fragment(p) \/ NdFilter(p) \/ ExemptPass(p)
             \/ Limited(p) \/ TrackedPass(p) \/ DnatPass(p) \/ GoesOn(p)
          /\ UNCHANGED expect
       \/ AlgPass(p)
    /\ UNCHANGED <<config, blocked, allow, kernel, syncs>>

-----------------------------------------------------------------------------
(***************************************************************************)
(* The later steps: prefilter, zone policies, default action.              *)
(***************************************************************************)
\* A verdict on the packet on the path.
Settle(action, at) == Decide(pkt.p, action, at)

NextStage(stage) == pkt' = stage /\ last' = NoVerdict /\ UNCHANGED leaving

\* suri_rules_hit, for the packet and for its reply
Lookup ==
    /\ pkt.pc = "lookup"
    /\ IF RuleHit(rules, pkt.p.key)
       THEN NextStage([pkt EXCEPT !.pc = "count"])
       ELSE Settle("drop", "prefilter")
    /\ UNCHANGED <<tracked, frags>>

ReadCount ==
    /\ pkt.pc = "count"
    /\ NextStage(IF pkt.p.key.v4 /\ count > 0
                  THEN [pc |-> "slot", p |-> pkt.p, torn |-> pkt.torn, i |-> 0, n |-> count]
                  ELSE [pkt EXCEPT !.pc = "default"])
    /\ UNCHANGED <<tracked, frags>>

\* Mutant: the walk stops one slot early.
PastLast_Early(i, n) == i + 1 >= n

PastLast(i, n) == i >= n

\* A policy that passes a packet enters no connection.
ReadSlot ==
    /\ pkt.pc = "slot"
    /\ IF PastLast(pkt.i, pkt.n)
       THEN NextStage([pc |-> "default", p |-> pkt.p, torn |-> pkt.torn]) /\ UNCHANGED frags
       ELSE IF Fits(zone[pkt.i], pkt.p)
       THEN /\ Settle(zone[pkt.i].action, "zone")
            /\ frags' = IF zone[pkt.i].action = "pass"
                        THEN frags \cup SeenFragment(pkt.p) ELSE frags
       ELSE NextStage([pkt EXCEPT !.i = @ + 1]) /\ UNCHANGED frags
    /\ UNCHANGED tracked

DefaultDrop ==
    /\ pkt.pc = "default"
    /\ config.default = "drop"
    /\ Settle("drop", "default")
    /\ UNCHANGED <<tracked, frags>>

\* syn_flood_check and conn_limit_check may refuse a new flow.
RefuseFlow ==
    /\ pkt.pc = "default"
    /\ config.default = "pass"
    /\ Settle("drop", "limit")
    /\ UNCHANGED <<tracked, frags>>

\* Mutant: a refused flow has its entry already.
NewFlow_Always ==
    /\ pkt.pc = "default"
    /\ tracked' = tracked \cup {pkt.p.key}
    /\ Settle(config.default, "default")
    /\ UNCHANGED frags

NewFlow ==
    /\ pkt.pc = "default"
    /\ config.default = "pass"
    /\ \E room \in BOOLEAN :
          /\ tracked' = IF room THEN tracked \cup {pkt.p.key} ELSE tracked
          /\ frags' = IF room THEN frags \cup SeenFragment(pkt.p) ELSE frags
    /\ Settle("pass", "default")

Walk ==
    /\ Lookup \/ ReadCount \/ ReadSlot \/ DefaultDrop \/ RefuseFlow \/ NewFlow
    /\ UNCHANGED <<config, tables, kernel, syncs>>

-----------------------------------------------------------------------------
(***************************************************************************)
(* The daemon rewrites the tables.                                         *)
(***************************************************************************)
Tear == pkt' = IF pkt = Idle THEN pkt ELSE [pkt EXCEPT !.torn = TRUE]

\* sync_zone_policies: the count is 0 while the array is cleared and filled.
ZoneBegin ==
    /\ ~SyncRunning
    /\ \E list \in ZoneLists : zoneSync' = [pc |-> "clear", list |-> list, i |-> 0]
    /\ count' = 0
    /\ UNCHANGED zone

ZoneClear ==
    /\ zoneSync.pc = "clear"
    /\ IF zoneSync.i < ZoneMax
       THEN /\ zone' = [zone EXCEPT ![zoneSync.i] = ZeroEntry]
            /\ zoneSync' = [zoneSync EXCEPT !.i = @ + 1]
       ELSE /\ zoneSync' = [zoneSync EXCEPT !.pc = "write", !.i = 0]
            /\ UNCHANGED zone
    /\ UNCHANGED count

\* Mutant: the count is that of the list, also when the array is too small for it.
ZoneWrite_Untruncated ==
    /\ zoneSync.pc = "write"
    /\ IF zoneSync.i < Len(Truncated(zoneSync.list))
       THEN /\ zone' = [zone EXCEPT ![zoneSync.i] = zoneSync.list[zoneSync.i + 1]]
            /\ zoneSync' = [zoneSync EXCEPT !.i = @ + 1]
            /\ UNCHANGED count
       ELSE /\ count' = Len(zoneSync.list)
            /\ zoneSync' = [pc |-> "idle", list |-> zoneSync.list]
            /\ UNCHANGED zone

ZoneWrite ==
    /\ zoneSync.pc = "write"
    /\ IF zoneSync.i < Len(Truncated(zoneSync.list))
       THEN /\ zone' = [zone EXCEPT ![zoneSync.i] = zoneSync.list[zoneSync.i + 1]]
            /\ zoneSync' = [zoneSync EXCEPT !.i = @ + 1]
            /\ UNCHANGED count
       ELSE /\ count' = Len(Truncated(zoneSync.list))
            /\ zoneSync' = [pc |-> "idle", list |-> zoneSync.list]
            /\ UNCHANGED zone

\* sync_suricata_rules: the flag is off while the tables are emptied and filled; one
\* that cannot take all its keys leaves it off.
RulesBegin ==
    /\ ~SyncRunning
    /\ \E wanted \in SUBSET Rule, enabled \in BOOLEAN :
          ruleSync' = [pc |-> "clear", todo |-> rules, wanted |-> wanted, enabled |-> enabled]
    /\ flag' = FALSE
    /\ UNCHANGED rules

RulesClear ==
    /\ ruleSync.pc = "clear"
    /\ IF ruleSync.todo # {}
       THEN \E r \in ruleSync.todo :
              /\ rules' = rules \ {r}
              /\ ruleSync' = [ruleSync EXCEPT !.todo = @ \ {r}]
       ELSE /\ ruleSync' = [ruleSync EXCEPT !.pc = "write", !.todo = ruleSync.wanted]
            /\ UNCHANGED rules
    /\ UNCHANGED flag

RulesWrite ==
    /\ ruleSync.pc = "write"
    /\ IF ruleSync.todo # {}
       THEN /\ \E r \in ruleSync.todo :
                 /\ rules' = rules \cup {r}
                 /\ ruleSync' = [ruleSync EXCEPT !.todo = @ \ {r}]
            /\ UNCHANGED flag
       ELSE /\ flag' = (ruleSync.enabled /\ ruleSync.wanted # {})
            /\ ruleSync' = [ruleSync EXCEPT !.pc = "idle"]
            /\ UNCHANGED rules

RulesFull ==
    /\ ruleSync.pc = "write" /\ ruleSync.todo # {}
    /\ ruleSync' = [ruleSync EXCEPT !.pc = "idle", !.todo = {}]
    /\ UNCHANGED <<flag, rules>>

Sync ==
    /\ \/ (ZoneBegin \/ ZoneClear \/ ZoneWrite) /\ UNCHANGED <<flag, rules, ruleSync>>
       \/ (RulesBegin \/ RulesClear \/ RulesWrite \/ RulesFull)
             /\ UNCHANGED <<zone, count, zoneSync>>
    /\ Tear
    /\ last' = NoVerdict
    /\ UNCHANGED <<config, tables, tracked, frags, leaving>>

-----------------------------------------------------------------------------
\* The block list, the events of Suricata, and what time takes away.
Toggle(a) ==
    /\ blocked' = IF a \in blocked THEN blocked \ {a} ELSE blocked \cup {a}
    /\ UNCHANGED <<allow, expect, tracked, frags>>

LearnFlow(key) ==
    /\ allow' = allow \cup {key, Reversed(key)}
    /\ UNCHANGED <<blocked, expect, tracked, frags>>

LearnData(key) ==
    /\ expect' = expect \cup {[key EXCEPT !.sport = 0]}
    /\ UNCHANGED <<blocked, allow, tracked, frags>>

ExpireEntry(key) ==
    /\ tracked' = tracked \ {key}
    /\ UNCHANGED <<tables, frags>>

ExpireExpectation(key) ==
    /\ expect' = expect \ {key}
    /\ UNCHANGED <<blocked, allow, tracked, frags>>

ExpireFragments(pair) ==
    /\ frags' = frags \ {pair}
    /\ UNCHANGED <<tables, tracked>>

\* kfw_tc_egress: the replies to what leaves are a connection from now on.
Egress(key) ==
    /\ Insert(Reversed(key))
    /\ UNCHANGED <<tables, frags>>

Environment ==
    /\ \/ \E a \in Sources : Toggle(a)
       \/ \E key \in Flows : LearnFlow(key) \/ LearnData(key)
       \/ \E key \in leaving : Egress(key)
       \/ \E key \in tracked : ExpireEntry(key)
       \/ \E key \in expect : ExpireExpectation(key)
       \/ \E pair \in frags : ExpireFragments(pair)
    /\ last' = NoVerdict
    /\ UNCHANGED <<config, kernel, syncs, leaving, pkt>>

Next == (\E p \in Packet : Arrive(p)) \/ Walk \/ Sync \/ Environment

Spec == Init /\ [][Next]_vars

-----------------------------------------------------------------------------
(***************************************************************************)
(* Properties.                                                             *)
(***************************************************************************)
Stages == [pc : {"lookup", "count", "default"}, p : Packet, torn : BOOLEAN]
            \cup [pc : {"slot"}, p : Packet, torn : BOOLEAN, i : 0 .. ZoneMax, n : 1 .. ZoneMax]

TypeOK ==
    /\ config \in Configs
    /\ blocked \subseteq Sources
    /\ allow \cup expect \cup tracked \cup leaving \subseteq FiveTuple
    /\ frags \subseteq BOOLEAN \X Addr \X Addr
    /\ zone \in [0 .. ZoneMax - 1 -> Policy]
    /\ count \in 0 .. ZoneMax
    /\ flag \in BOOLEAN
    /\ rules \subseteq Rule
    /\ pkt \in {Idle} \cup Stages

\* A packet during whose walk no table is rewritten gets the verdict of the list that
\* was installed last, as far as it fits the array: nothing of an earlier, longer list
\* is left in a slot the walk reaches.  The prefilter drops none that a rule wanted
\* last fits, in either direction, and none while it is switched off.
UntornFollowsPolicy ==
    [][pkt # Idle /\ pkt' = Idle /\ ~pkt.torn /\ last'.at # "limit"
          => IF last'.at = "prefilter"
             THEN ruleSync.enabled /\ ~RuleHit(ruleSync.wanted, pkt.p.key)
             ELSE last'.action = PolicyVerdict(Truncated(zoneSync.list), pkt.p)]_vars

\* A source on the block list gets nothing through from then on: neither on an
\* established connection, nor on the allow list, nor in the later fragments of a
\* packet that was admitted before.
BlockedStaysOut ==
    [][pkt = Idle /\ last' # NoVerdict /\ last'.action = "pass"
          => last'.p.key.src \notin blocked \/ Unmapped(last'.p)]_vars

\* Packets of a tracked connection, in either direction, never get as far as the
\* prefilter, the policies and the default action, whatever these have become since
\* the connection was opened.
TrackedPasses ==
    [][pkt = Idle /\ pkt' # Idle
          => tracked \cap {pkt'.p.key, Reversed(pkt'.p.key)} = {}]_vars

\* Under a default of drop a flow becomes a connection only by a forwarding, by an
\* expectation, or because a packet it answers was let through and left: a flow the
\* default action refuses leaves no entry behind that its next packet would hit.
TrackedWasAllowed ==
    config.default = "drop" =>
        \A key \in tracked :
            \/ Reversed(key) \in leaving
            \/ \E r \in DnatRules : key.src = r.to /\ key.sport = r.toPort
            \/ [key EXCEPT !.sport = 0] \in {[k EXCEPT !.sport = 0] : k \in Flows}

\* ebpf_loader.rs:917: the count is 0 while the array is rewritten, so that no packet
\* is judged by a list that is half new and half old.  Then no packet the default
\* action drops is passed by a zone policy that no list has.
NoTornPass ==
    [][pkt # Idle /\ pkt' = Idle /\ last'.action = "pass"
          => \E list \in ZoneLists : PolicyVerdict(list, pkt.p) = "pass"]_vars
=============================================================================
