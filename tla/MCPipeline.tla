------------------------------- MODULE MCPipeline -------------------------------
(***************************************************************************)
(* Two LAN hosts, one of them the server of a forwarding, a host outside,  *)
(* an address of the firewall itself and one it only forwards; fragments,  *)
(* a router advertisement, and frames nothing is known of.  The host is    *)
(* masqueraded behind the forwarded address, which is that of the WAN.     *)
(***************************************************************************)
EXTENDS Pipeline

MCAddr    == {"host", "server", "outside", "own", "forwarded"}
Lan       == "lan0"
Wan       == "wan0"
MCDnat    == {[ip |-> "forwarded", port |-> 9, to |-> "server", toPort |-> 2]}

Tuple(src, sport, dst, dport) ==
    [v4 |-> TRUE, src |-> src, dst |-> dst, sport |-> sport, dport |-> dport]

On(iface, key) == [vif |-> TRUE, ip |-> TRUE, bad |-> FALSE, nd |-> FALSE, in |-> iface,
                   key |-> key, frag |-> "no"]

Out      == On(Lan, Tuple("host", 1, "outside", 2))
Back     == On(Wan, Tuple("outside", 2, "host", 1))
First    == [Out EXCEPT !.frag = "first"]
Rest     == [On(Lan, Tuple("host", 0, "outside", 0)) EXCEPT !.frag = "later"]
ToServer == On(Wan, Tuple("outside", 1, "forwarded", 9))
Served   == On(Lan, Tuple("server", 2, "outside", 1))
ToSelf   == On(Wan, Tuple("outside", 1, "own", 2))
Reply    == On(Wan, Tuple("outside", 2, "forwarded", 1))
Advert   == [On(Lan, [Tuple("host", 0, "outside", 0) EXCEPT !.v4 = FALSE]) EXCEPT !.nd = TRUE]
Unknown  == [Out EXCEPT !.vif = FALSE]
Short    == [Out EXCEPT !.bad = TRUE]

MCPackets == {Out, Back, First, Rest, ToServer, Served, ToSelf, Reply, Advert, Unknown, Short}

\* Masquerading, which here only the host's connection needs.
MCEgressOf(key) == IF key = Out.key THEN {[key EXCEPT !.src = "forwarded"]} ELSE {}

MCFlows   == {Back.key}
MCSources == {"host"}

LanOut     == [src |-> Lan, dsts |-> {"outside"}, action |-> "pass"]
NoHost     == [src |-> "any", dsts |-> {"host", "outside"}, action |-> "drop"]
NoServices == [src |-> Wan, dsts |-> MCAddr, action |-> "drop"]
MCZones    == {<<LanOut>>, <<NoServices, NoHost, LanOut>>}

\* Lists that pass nothing at all.
DenyZones  == {<<NoServices>>, <<NoHost, NoServices>>}

MCMatches(rule, key) == IF rule = "web" THEN key.dport = 2 ELSE key.dst = "server"

MCConfigs ==
    {[default |-> "drop", fragments |-> "inspect", raFilter |-> FALSE],
     [default |-> "pass", fragments |-> "drop", raFilter |-> TRUE]}
\* No step reads the last verdict: states that differ in it alone are one.
WithoutLast == <<config, tables, tracked, frags, kernel, syncs, leaving, pkt>>

DenyConfigs == {c \in MCConfigs : c.default = "drop"}
=============================================================================
