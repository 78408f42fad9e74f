------------------------------ MODULE Conntrack ------------------------------
(***************************************************************************)
(* The connection-tracking table of the XDP data plane and the per-source  *)
(* admission counters that go with it (k-firewall-ebpf/src/main.rs), with  *)
(* the daemon's pruning and session-deletion passes over the same table    *)
(* (k-firewalld/src/ebpf_loader.rs).                                       *)
(*                                                                         *)
(* A packet is one atomic step: this is the data plane of a machine whose  *)
(* flows are steered to one receive queue.  The daemon's passes are not    *)
(* atomic: they read the table first and remove keys one by one while      *)
(* packets go on.                                                          *)
(*                                                                         *)
(* A five-tuple is a pair of endpoints (address and port together) and a   *)
(* protocol.  Time is abstracted to the one test the code makes on it:     *)
(* "idle" says that an entry has been silent for longer than the timeout   *)
(* of its state.                                                           *)
(***************************************************************************)
EXTENDS Naturals, FiniteSets

CONSTANTS
    Ip,            \* addresses the limits are configured for
    Endpoint,      \* (address, port) pairs
    IpOf,          \* the address of an endpoint
    Flows,         \* the five-tuples that occur, closed under Reverse
    MaxConns,      \* CONN_LIMITS: connections allowed per address, 0 = no limit
    MaxHalfOpen,   \* CONFIG_SYN_MAX_HALFOPEN: half-open flows allowed, 0 = off
    CtMaxEntries,  \* capacity of the CONNTRACK map
    CountMaxEntries, \* capacity of each of the CONN_COUNT and SYN_COUNT maps
    NeverExpires,  \* states whose CT_TIMEOUTS slot is 0
    WanEgress,     \* five-tuples, after NAT, of packets leaving a WAN interface
    DNAT_RULES,    \* <<endpoint, protocol>> -> endpoint the port is forwarded to
    AlgKeys,       \* ALG_EXPECT keys the daemon may learn: [src: Ip, dst: Endpoint]
    TcpFlags       \* the flag bytes that occur in TCP segments

HalfOpenStates == {"SYN_SENT", "SYN_RECV"}
SettledStates  == {"ESTABLISHED", "FIN_WAIT", "TIME_WAIT"}
CtState == HalfOpenStates \cup SettledStates
              \cup {"CLOSE_WAIT", "UDP", "ICMP", "GENERIC"}
Proto     == {"TCP", "UDP", "ICMP", "OTHER"}
FiveTuple == [src : Endpoint, dst : Endpoint, proto : Proto]

Reverse(f) == [src |-> f.dst, dst |-> f.src, proto |-> f.proto]
SrcIp(f)   == IpOf[f.src]

DnatHit(f)      == <<f.dst, f.proto>> \in DOMAIN DNAT_RULES
DnatReplyKey(f) == [src   |-> DNAT_RULES[<<f.dst, f.proto>>],
                    dst   |-> f.src,
                    proto |-> f.proto]

ASSUME FlowsAssumption ==
    /\ IpOf \in [Endpoint -> Ip]
    /\ Flows \subseteq FiveTuple
    /\ IsFiniteSet(Flows)
    /\ \A f \in Flows : f.src # f.dst /\ Reverse(f) \in Flows
    /\ \A f \in Flows : DnatHit(f) => DnatReplyKey(f) \in Flows
    /\ WanEgress \subseteq Flows

ASSUME LimitsAssumption ==
    /\ MaxConns \in [Ip -> Nat]
    /\ MaxHalfOpen \in Nat
    /\ CtMaxEntries \in Nat
    /\ CountMaxEntries \in Nat
    /\ IsFiniteSet(Ip)

ASSUME FlagsAssumption == TcpFlags \subseteq SUBSET {"SYN", "ACK", "FIN", "RST"}

(***************************************************************************)
(* Table values (CtValue).  "syn" and "conn" are the two bits of the field *)
(* "counted": the flow holds a unit of SYN_COUNT, of CONN_COUNT.           *)
(***************************************************************************)
CtValue == [state : CtState \cup {"NONE"}, nat : BOOLEAN,
            syn : BOOLEAN, conn : BOOLEAN, idle : BOOLEAN]

NoEntry == [state |-> "NONE", nat |-> FALSE,
            syn |-> FALSE, conn |-> FALSE, idle |-> FALSE]

CtNew(s, syn, conn) == [state |-> s, nat |-> FALSE,
                        syn |-> syn, conn |-> conn, idle |-> FALSE]

NatReply == [state |-> "ESTABLISHED", nat |-> TRUE,
             syn |-> FALSE, conn |-> TRUE, idle |-> FALSE]

VARIABLES
    ct,         \* CONNTRACK
    connCount,  \* CONN_COUNT, which has keys for some of the addresses
    synCount,   \* SYN_COUNT
    expect,     \* ALG_EXPECT: keys of unexpired expectations
    daemon      \* the pass that holds the daemon's handle lock, and its keys

vars == <<ct, connCount, synCount, expect, daemon>>

Jobs     == {"free", "prune", "delete", "reconcile"}
FreeLock == [job |-> "free", todo |-> {}]

\* A counter map, and what an address reads from it: without a key, 0.
IsCountMap(map) == DOMAIN map \subseteq Ip /\ map \in [DOMAIN map -> Nat]
NoCounts == [ip \in {} |-> 0]
Count(map, ip) == IF ip \in DOMAIN map THEN map[ip] ELSE 0

\* The type of every table, counter and lock (the map value types of maps.rs).
TypeOK ==
    /\ ct \in [Flows -> CtValue]
    /\ IsCountMap(connCount)
    /\ IsCountMap(synCount)
    /\ expect \subseteq AlgKeys
    /\ daemon \in [job : Jobs, todo : SUBSET Flows]

Present(k) == ct[k].state # "NONE"
Live(k)    == Present(k) /\ ~ct[k].idle
Tracked    == {k \in Flows : Present(k)}

Init ==
    /\ ct = [k \in Flows |-> NoEntry]
    /\ connCount = NoCounts
    /\ synCount = NoCounts
    /\ expect = {}
    /\ daemon = FreeLock

-----------------------------------------------------------------------------
(***************************************************************************)
(* The TCP state machine and the counters that follow it.                  *)
(***************************************************************************)
\* Mutant: a late SYN takes an established connection back to SYN_SENT.
ct_tcp_step_Relapse(flags, reply, cur) ==
    IF "RST" \in flags THEN "TIME_WAIT"
    ELSE IF "SYN" \in flags
         THEN IF ~reply THEN "SYN_SENT"
              ELSE IF "ACK" \in flags THEN "ESTABLISHED" ELSE "SYN_RECV"
    ELSE IF "ACK" \in flags /\ cur \in HalfOpenStates THEN "ESTABLISHED"
    ELSE cur

ct_tcp_step(flags, reply, cur) ==
    IF "RST" \in flags THEN "TIME_WAIT"
    ELSE IF "SYN" \in flags
         THEN IF cur \in SettledStates THEN cur
              ELSE IF ~reply THEN "SYN_SENT"
              ELSE IF "ACK" \in flags THEN "ESTABLISHED" ELSE "SYN_RECV"
    ELSE IF "ACK" \in flags
         THEN IF cur \in HalfOpenStates THEN "ESTABLISHED" ELSE cur
    ELSE IF "FIN" \in flags
         THEN IF cur = "FIN_WAIT" THEN "TIME_WAIT" ELSE "FIN_WAIT"
    ELSE cur

ct_initial_state(proto, flags) ==
    CASE proto = "TCP" -> IF "SYN" \in flags THEN "SYN_SENT" ELSE "ESTABLISHED"
      [] proto = "UDP" -> "UDP"
      [] proto = "ICMP" -> "ICMP"
      [] OTHER -> "GENERIC"

\* Mutants: SYN_RECV is not seen as half-open; the NAT entries, or the flows that
\* were never counted, give a unit back.
ReturnsHalfOpen_Sent(e, new) ==
    ~e.nat /\ e.syn /\ e.state = "SYN_SENT" /\ new \notin HalfOpenStates
ReturnsConn_Nat(e, new) ==
    e.conn /\ e.state # "TIME_WAIT" /\ new = "TIME_WAIT"
ReturnsConn_Uncounted(e, new) ==
    ~e.nat /\ e.state # "TIME_WAIT" /\ new = "TIME_WAIT"

\* What ct_counters_tick gives back when entry e moves to state new.
ReturnsHalfOpen(e, new) ==
    ~e.nat /\ e.syn /\ e.state \in HalfOpenStates /\ new \notin HalfOpenStates
ReturnsConn(e, new) ==
    ~e.nat /\ e.conn /\ e.state # "TIME_WAIT" /\ new = "TIME_WAIT"

\* Mutant: the bits of "counted" are not cleared.
Touched_KeepsBits(e, new) == [e EXCEPT !.state = new, !.idle = FALSE]

Touched(e, new) ==
    [e EXCEPT !.state = new,
              !.syn   = @ /\ ~ReturnsHalfOpen(e, new),
              !.conn  = @ /\ ~ReturnsConn(e, new),
              !.idle  = FALSE]

\* An insertion of a new key into a full counter map fails, and the code goes on.
Put(map, ip, n) ==
    IF ip \in DOMAIN map \/ Cardinality(DOMAIN map) < CountMaxEntries
    THEN [key \in DOMAIN map \cup {ip} |-> IF key = ip THEN n ELSE map[key]]
    ELSE map

\* Mutant: the counter moves the wrong way.
Inc_Down(map, ip) == Put(map, ip, Count(map, ip) - 1)

\* The flow is flagged as counted whether or not a unit was recorded.
Inc(map, ip) == Put(map, ip, Count(map, ip) + 1)

\* A key is not removed when it falls to 0.
Dec(map, ip) == IF Count(map, ip) > 0 THEN [map EXCEPT ![ip] = @ - 1] ELSE map

\* Mutants: one flow too many passes.
syn_flood_check_OffByOne(ip)  == MaxHalfOpen > 0 /\ Count(synCount, ip) > MaxHalfOpen
conn_limit_check_OffByOne(ip) == MaxConns[ip] > 0 /\ Count(connCount, ip) > MaxConns[ip]

syn_flood_check(ip)  == MaxHalfOpen > 0 /\ Count(synCount, ip) >= MaxHalfOpen
conn_limit_check(ip) == MaxConns[ip] > 0 /\ Count(connCount, ip) >= MaxConns[ip]

-----------------------------------------------------------------------------
(***************************************************************************)
(* The data plane.                                                         *)
(***************************************************************************)
\* A map insert overwrites, or takes a free slot; it fails on a full map.
HasRoom(k) == Present(k) \/ Cardinality(Tracked) < CtMaxEntries

TrackedPacket(k, flags, reply) ==
    LET e   == ct[k]
        new == IF k.proto = "TCP" THEN ct_tcp_step(flags, reply, e.state) ELSE e.state
    IN  /\ ct' = [ct EXCEPT ![k] = Touched(e, new)]
        /\ synCount' = IF ReturnsHalfOpen(e, new) THEN Dec(synCount, SrcIp(k)) ELSE synCount
        /\ connCount' = IF ReturnsConn(e, new) THEN Dec(connCount, SrcIp(k)) ELSE connCount
        /\ UNCHANGED <<expect, daemon>>

\* A packet in the direction of a live entry.
ForwardPacket(p, flags) ==
    /\ Live(p)
    /\ TrackedPacket(p, flags, FALSE)

\* A packet against the direction of a live entry.
ReplyPacket(p, flags) ==
    /\ ~Live(p)
    /\ Live(Reverse(p))
    /\ TrackedPacket(Reverse(p), flags, TRUE)

Untracked(p) == ~Live(p) /\ ~Live(Reverse(p))

AlgKey(p) == [src |-> SrcIp(p), dst |-> p.dst]
AlgHit(p) == p.proto = "TCP" /\ AlgKey(p) \in expect

\* Port forwarding: the packet passes, its reply is expected; a full map only
\* loses the expectation.
DnatPacket(p) ==
    /\ Untracked(p)
    /\ DnatHit(p)
    /\ HasRoom(DnatReplyKey(p))
    /\ ct' = [ct EXCEPT ![DnatReplyKey(p)] = NatReply]
    /\ UNCHANGED <<connCount, synCount, expect, daemon>>

\* An expected FTP data connection: tracked, but neither checked nor counted.
AlgPacket(p, flags) ==
    /\ Untracked(p)
    /\ ~DnatHit(p)
    /\ AlgHit(p)
    /\ expect' = expect \ {AlgKey(p)}
    /\ ct' = IF HasRoom(p)
             THEN [ct EXCEPT ![p] = CtNew(ct_initial_state(p.proto, flags), FALSE, FALSE)]
             ELSE ct
    /\ UNCHANGED <<connCount, synCount, daemon>>

\* The first packet of a flow that no earlier rule drops or passes.
NewFlow(p, flags) ==
    LET ip      == SrcIp(p)
        initial == ct_initial_state(p.proto, flags)
        syn     == initial = "SYN_SENT" /\ MaxHalfOpen > 0
        conn    == MaxConns[ip] > 0
    IN  /\ Untracked(p)
        /\ ~DnatHit(p)
        /\ ~AlgHit(p)
        /\ ~(initial = "SYN_SENT" /\ syn_flood_check(ip))
        /\ ~conn_limit_check(ip)
        /\ HasRoom(p)
        /\ ct' = [ct EXCEPT ![p] = CtNew(initial, syn, conn)]
        /\ synCount' = IF syn THEN Inc(synCount, ip) ELSE synCount
        /\ connCount' = IF conn THEN Inc(connCount, ip) ELSE connCount
        /\ UNCHANGED <<expect, daemon>>

\* kfw_tc_egress: packet q leaves a WAN interface, its reply becomes known.
TcEgress(q) ==
    /\ HasRoom(Reverse(q))
    /\ ct' = [ct EXCEPT ![Reverse(q)] = NatReply]
    /\ UNCHANGED <<connCount, synCount, expect, daemon>>

\* Time passes until the entry of k has outlived its state's timeout.
Expire(k) ==
    /\ Live(k)
    /\ ct[k].state \notin NeverExpires
    /\ ct' = [ct EXCEPT ![k].idle = TRUE]
    /\ UNCHANGED <<connCount, synCount, expect, daemon>>

-----------------------------------------------------------------------------
(***************************************************************************)
(* The daemon: FTP expectations learned from Suricata, and the two passes  *)
(* that remove entries.  The handle lock admits one pass at a time.        *)
(***************************************************************************)
AlgLearn(a) ==
    /\ expect' = expect \cup {a}
    /\ UNCHANGED <<ct, connCount, synCount, daemon>>

AlgTimeout(a) ==
    /\ a \in expect
    /\ expect' = expect \ {a}
    /\ UNCHANGED <<ct, connCount, synCount, daemon>>

\* Mutant: the timeouts of the half-open states are not looked at.
PruneBegin_SettledOnly ==
    LET expired == {k \in Flows : ct[k].idle /\ ct[k].state \notin HalfOpenStates}
    IN  /\ daemon.job = "free"
        /\ expired # {}
        /\ daemon' = [job |-> "prune", todo |-> expired]
        /\ UNCHANGED <<ct, connCount, synCount, expect>>

PruneBegin ==
    /\ daemon.job = "free"
    /\ \E k \in Flows : ct[k].idle
    /\ daemon' = [job |-> "prune", todo |-> {k \in Flows : ct[k].idle}]
    /\ UNCHANGED <<ct, connCount, synCount, expect>>

\* delete_sessions removes the keys its filter selects, delete_session_by_id
\* a key and its reverse.
DeleteBegin(S) ==
    /\ daemon.job = "free"
    /\ S # {}
    /\ S \subseteq Tracked \/ \E k \in Flows : S = {k, Reverse(k)}
    /\ daemon' = [job |-> "delete", todo |-> S]
    /\ UNCHANGED <<ct, connCount, synCount, expect>>

RemoveNext(k) ==
    /\ daemon.job \in {"prune", "delete"}
    /\ k \in daemon.todo
    /\ ct' = [ct EXCEPT ![k] = NoEntry]
    /\ daemon' = IF daemon.todo = {k} THEN FreeLock
                 ELSE [daemon EXCEPT !.todo = @ \ {k}]
    /\ UNCHANGED <<connCount, synCount, expect>>

-----------------------------------------------------------------------------
Packet ==
    \/ \E p \in Flows, flags \in TcpFlags :
          \/ ForwardPacket(p, flags)
          \/ ReplyPacket(p, flags)
          \/ AlgPacket(p, flags)
          \/ NewFlow(p, flags)
    \/ \E p \in Flows : DnatPacket(p)
    \/ \E q \in WanEgress : TcEgress(q)

Daemon ==
    \/ \E a \in AlgKeys : AlgLearn(a) \/ AlgTimeout(a)
    \/ PruneBegin
    \/ \E S \in SUBSET Flows : DeleteBegin(S)
    \/ \E k \in Flows : RemoveNext(k)

Next == Packet \/ Daemon \/ \E k \in Flows : Expire(k)

Spec == Init /\ [][Next]_vars

-----------------------------------------------------------------------------
(***************************************************************************)
(* Properties.                                                             *)
(***************************************************************************)
CountedConns    == {k \in Flows : ct[k].conn /\ ~ct[k].nat}
CountedHalfOpen == {k \in Flows : ct[k].syn}

ConnsOf(ip)    == {k \in CountedConns : SrcIp(k) = ip}
HalfOpenOf(ip) == {k \in CountedHalfOpen : SrcIp(k) = ip}

\* Flows no FTP expectation can open: all of them pass the admission checks.
Checked(k) == AlgKey(k) \notin AlgKeys

\* The bits of "counted" agree with the state of the entry: a flow holds a unit
\* of SYN_COUNT only while half-open, a unit of CONN_COUNT only until TIME_WAIT,
\* and with the half-open limit on no half-open flow escapes the count
\* (ct_counters_tick, and the flags set where a new flow is inserted).
FlagsFitState ==
    \A k \in Flows :
        /\ ct[k].syn => ct[k].state \in HalfOpenStates /\ ~ct[k].nat
        /\ ct[k].conn /\ ~ct[k].nat => ct[k].state \notin {"NONE", "TIME_WAIT"}
        /\ ct[k].state \in HalfOpenStates /\ Checked(k) /\ MaxHalfOpen > 0 => ct[k].syn

\* A connection that was established is never tracked as half-open again while
\* its entry lives, whichever SYN, DNAT, ALG or egress packet comes late.
SettledStaysSettled ==
    [][\A k \in Flows :
          Live(k) /\ ct[k].state \in SettledStates
              => ct'[k].state \notin HalfOpenStates]_vars

\* A pass that prunes removes what has expired, nothing else ("清理过期的连接跟踪条目").
\* Not so: README, section 4.
PruneRemovesOnlyExpired ==
    [][\A k \in Flows :
          daemon.job = "prune" /\ k \in daemon.todo /\ ct'[k] = NoEntry => ~Live(k)]_vars

\* An expired entry does not stay in the table: it is pruned, or a new packet of
\* the flow replaces it.
ExpiredIsCollected ==
    \A k \in Flows : ct[k].idle ~> ~ct[k].idle
=============================================================================
