------------------------------- MODULE Prefilter -------------------------------
(***************************************************************************)
(* The Suricata prefilter (k-firewalld/src/suricata_rules.rs,              *)
(* k-firewall-ebpf/src/main.rs: suri_rules_hit).  The header of a rule is  *)
(* expanded into keys of four longest-prefix tables, and the data plane    *)
(* drops a new flow none of the tables knows in either direction.          *)
(*                                                                         *)
(* A key is a sequence of fields, an address being one field for each bit, *)
(* and its prefix a number of fields; the text of a rule is taken apart    *)
(* already.                                                                *)
(***************************************************************************)
EXTENDS Integers, Sequences, FiniteSets

CONSTANTS
    Bits,        \* the width of an address
    MaxRange,    \* the widest port range that is expanded (256 in the code)
    MaxTuples,   \* MAX_TUPLES_PER_RULE
    Headers,     \* rule headers: proto, and specifications of the addresses and ports
    Companions,  \* headers the others are put in a list with
    Flows        \* new flows of IPv4

\* The most significant bit first.
Address == [1 .. Bits -> {0, 1}]
Protos  == {"tcp", "udp", "icmp", "sctp"}

\* What a specification is made of.  "odd" stands for what is valid and not expanded,
\* such as a variable, a negation or an IPv6 address, "bad" for what is not valid.
Word     == [kind : {"any", "odd", "bad"}]
AddrItem == Word \cup [kind : {"net"}, net : Address, pfx : 0 .. Bits]
PortItem == Word \cup [kind : {"port"}, port : Nat] \cup [kind : {"range"}, lo : Nat, hi : Nat]
SpecOf(S) == S \cup [kind : {"list"}, items : Seq(S)]

Header == [proto : STRING, src : SpecOf(AddrItem), sport : SpecOf(PortItem),
           dst : SpecOf(AddrItem), dport : SpecOf(PortItem)]

\* The code takes no packet to have port 0; of a protocol without ports the two mean nothing.
Flow == [proto : Protos, src : Address, sport : Nat \ {0}, dst : Address, dport : Nat \ {0}]

ASSUME FilterBounds ==
    /\ Bits \in Nat \ {0} /\ MaxRange \in Nat /\ MaxTuples \in Nat
    /\ Headers \subseteq Header /\ Companions \subseteq Header
    /\ Flows \subseteq Flow

VARIABLES
    rules,   \* suricata_rules: the headers in the list, and which are enabled
    tables,  \* SURICATA_RULES_DST, _DST_ANY, _SRC and _SRC_ANY
    on       \* CONFIG_SURICATA_PREFILTER

fvars == <<rules, tables, on>>

-----------------------------------------------------------------------------
(***************************************************************************)
(* Specifications.                                                         *)
(***************************************************************************)
Items(spec) == IF spec.kind = "list" THEN spec.items ELSE <<spec>>

\* Protocols without ports: the data plane reads them as 0.
Portless(proto) == proto = "icmp"

\* Everything there is to be expanded, in the order of the code.
Expanded(h) ==
    Items(h.src) \o Items(h.dst)
        \o (IF Portless(h.proto) THEN <<>> ELSE Items(h.sport) \o Items(h.dport))

Verdict(item) ==
    CASE item.kind \in {"odd", "bad"} -> item.kind
      [] item.kind = "range" /\ item.hi < item.lo -> "bad"
      [] item.kind = "range" /\ item.hi - item.lo + 1 > MaxRange -> "odd"
      [] OTHER -> "fine"

Obstacles(h) == {i \in DOMAIN Expanded(h) : Verdict(Expanded(h)[i]) # "fine"}

\* A network by its prefix, the other bits 0; any address is the prefix of no bits.
Net(item) ==
    IF item.kind = "any" THEN [net |-> [i \in 1 .. Bits |-> 0], pfx |-> 0]
    ELSE [net |-> [i \in 1 .. Bits |-> IF i <= item.pfx THEN item.net[i] ELSE 0], pfx |-> item.pfx]
Nets(spec) == {Net(Items(spec)[i]) : i \in DOMAIN Items(spec)}

\* The port 0 stands for any port, so that a range leaves it out.
PortsOf(item) ==
    CASE item.kind = "any" -> {0}
      [] item.kind = "port" -> {item.port}
      [] item.kind = "range" -> (item.lo .. item.hi) \ {0}
Ports(spec) == UNION {PortsOf(Items(spec)[i]) : i \in DOMAIN Items(spec)}

NoPort == -1

\* What the ports of a combination become: any port is none at all.
Wild(port) == IF port = 0 THEN NoPort ELSE port

Combos(h) ==
    {[src |-> s, dst |-> d, sport |-> sp, dport |-> dp] :
        s \in Nets(h.src), d \in Nets(h.dst),
        sp \in IF Portless(h.proto) THEN {NoPort} ELSE {Wild(p) : p \in Ports(h.sport)},
        dp \in IF Portless(h.proto) THEN {0} ELSE {Wild(p) : p \in Ports(h.dport)}}

Opposite(c) == [src |-> c.dst, dst |-> c.src, sport |-> c.dport, dport |-> c.sport]

-----------------------------------------------------------------------------
(***************************************************************************)
(* Keys.                                                                   *)
(***************************************************************************)
\* Mutant: the source port follows a network of any length.
Entry_AnyPrefix(table, front, exact, tail, sport) ==
    {[table |-> table,
      data  |-> front \o (exact \o tail.net) \o <<IF sport = NoPort THEN 0 ELSE sport>>,
      len   |-> 2 + Len(exact) + tail.pfx + IF sport = NoPort THEN 0 ELSE 1]}

\* The fields of front are exact, an address behind them may be, and the one at the tail
\* is a network; the source port behind it can be told only if that is a single address.
Entry(table, front, exact, tail, sport) ==
    IF sport # NoPort /\ tail.pfx < Bits THEN {}
    ELSE {[table |-> table,
           data  |-> front \o (exact \o tail.net) \o <<IF sport = NoPort THEN 0 ELSE sport>>,
           len   |-> 2 + Len(exact) + tail.pfx + IF sport = NoPort THEN 0 ELSE 1]}

\* push_orientation: at most one key, in one of the tables.
Orientation(proto, c) ==
    LET front == <<proto, c.dport>>
    IN  IF c.dport = NoPort THEN {}
        ELSE CASE c.src.pfx = Bits /\ c.dst.pfx > 0 ->
                      Entry("dst", front, c.src.net, c.dst, c.sport)
               [] c.src.pfx = 0 -> Entry("dst_any", front, <<>>, c.dst, c.sport)
               [] c.src.pfx \in 1 .. Bits - 1 /\ c.dst.pfx = Bits ->
                      Entry("src", front, c.dst.net, c.src, c.sport)
               [] c.src.pfx > 0 /\ c.dst.pfx = 0 -> Entry("src_any", front, <<>>, c.src, c.sport)
               [] OTHER -> {}

Tuples(proto, combos) ==
    UNION {Orientation(proto, c) \cup Orientation(proto, Opposite(c)) : c \in combos}

Expressible(proto, combos) == \A c \in combos : Tuples(proto, {c}) # {}

\* The first obstacle decides whether a rule is refused or only not expanded.
Skipped(h) ==
    \/ h.proto \notin Protos
    \/ \E i \in Obstacles(h) : /\ Verdict(Expanded(h)[i]) = "odd"
                              /\ \A j \in Obstacles(h) : i <= j

\* The combinations as they are counted: a list may hold a port or network twice.
Places(spec) == UNION {{i} \X PortsOf(Items(spec)[i]) : i \in DOMAIN Items(spec)}
Count(h) ==
    Len(Items(h.src)) * Len(Items(h.dst))
        * IF Portless(h.proto) THEN 1
          ELSE Cardinality(Places(h.sport)) * Cardinality(Places(h.dport))

\* parse_rule and expand_header fail: an unfit specification or too many keys.
Refused(h) == ~Skipped(h) /\ (Obstacles(h) # {} \/ 2 * Count(h) > MaxTuples)

\* expand_header; a header that cannot be expressed in full is given no keys at all.
Expansion(h) ==
    IF Skipped(h) \/ Refused(h) \/ ~Expressible(h.proto, Combos(h)) THEN {}
    ELSE Tuples(h.proto, Combos(h))

-----------------------------------------------------------------------------
(***************************************************************************)
(* The list and the tables.                                                *)
(***************************************************************************)
FInit == rules = {} /\ tables = {} /\ on = FALSE

\* sync_suricata_rules with suricata.prefilter on.
Sync ==
    /\ tables' = UNION {Expansion(r.header) : r \in {x \in rules' : x.enabled}}
    /\ on' = (tables' # {})

\* Bound: at most one rule that is none of the companions.
Bounded == Cardinality({r \in rules' : r.header \notin Companions}) <= 1

Add(h) ==
    /\ \A r \in rules : r.header # h
    /\ rules' = rules \cup {[header |-> h, enabled |-> TRUE]}
    /\ Bounded
    /\ ~Refused(h)
    /\ Sync

Patch(r, enabled) ==
    /\ rules' = (rules \ {r}) \cup {[r EXCEPT !.enabled = enabled]}
    /\ Sync

Delete(r) ==
    /\ rules' = rules \ {r}
    /\ Sync

FNext ==
    \/ \E h \in Headers \cup Companions : Add(h)
    \/ \E r \in rules : Delete(r) \/ \E enabled \in BOOLEAN : Patch(r, enabled)

FSpec == FInit /\ [][FNext]_fvars

-----------------------------------------------------------------------------
(***************************************************************************)
(* The data plane.                                                         *)
(***************************************************************************)
\* read_ports: of TCP and UDP only.
Seen(f) ==
    IF f.proto \in {"tcp", "udp"} THEN f ELSE [f EXCEPT !.sport = 0, !.dport = 0]

Reply(f) == [f EXCEPT !.src = f.dst, !.dst = f.src, !.sport = f.dport, !.dport = f.sport]

\* The full keys suri_rules_hit looks up.
LookupKey(table, f) ==
    <<f.proto, f.dport>>
        \o (CASE table = "dst" -> f.src \o f.dst
              [] table = "dst_any" -> f.dst
              [] table = "src" -> f.dst \o f.src
              [] table = "src_any" -> f.src)
        \o <<f.sport>>

\* The key agrees with the entry up to the length of its prefix.
Begins(e, f) ==
    LET key == LookupKey(e.table, f) IN \A i \in 1 .. e.len : e.data[i] = key[i]

Hit(f) == \E e \in tables : Begins(e, f)

\* A new flow is looked up in both directions.
Passes(f) == on => Hit(Seen(f)) \/ Hit(Seen(Reply(f)))

-----------------------------------------------------------------------------
(***************************************************************************)
(* Properties.                                                             *)
(***************************************************************************)
InNet(a, item) ==
    item.kind = "any" \/ \A i \in 1 .. item.pfx : a[i] = item.net[i]

\* The port 0, which no flow has, says that any will do.
InPorts(p, item) ==
    CASE item.kind = "any" -> TRUE
      [] item.kind = "port" -> item.port \in {0, p}
      [] item.kind = "range" -> p \in item.lo .. item.hi

Fits(spec, Is(_)) == \E i \in DOMAIN Items(spec) : Is(Items(spec)[i])

\* What the header of a rule says of a flow, with its own ports.
Matches(h, f) ==
    /\ h.proto = f.proto
    /\ Fits(h.src, LAMBDA item : InNet(f.src, item))
    /\ Fits(h.dst, LAMBDA item : InNet(f.dst, item))
    /\ Portless(h.proto) \/ (/\ Fits(h.sport, LAMBDA item : InPorts(f.sport, item))
                             /\ Fits(h.dport, LAMBDA item : InPorts(f.dport, item)))

Prefiltered == {r \in rules : r.enabled /\ Expansion(r.header) # {}}

\* Once the prefilter is on, a new flow passes it just if it matches the header of an
\* enabled rule that was expanded, in one direction or the other ("四个方向全部命中同一
\* 批元组，覆盖双向流且不误判"): no flow such a rule is to inspect is dropped, whichever
\* networks, ports and lists the header combines, and no other flow passes.  SCTP is
\* different: its rules are expanded with their ports, which the data plane reads as 0,
\* so that not even the flows they are about pass.
FilterIsExact ==
    on => \A f \in Flows :
              Passes(f) <=> /\ f.proto # "sctp"
                            /\ \E r \in Prefiltered : Matches(r.header, f) \/ Matches(r.header, Reply(f))
=============================================================================
