------------------------------ MODULE MCPrefilter ------------------------------
(***************************************************************************)
(* An instance of Prefilter: four addresses and three ports, headers with  *)
(* every kind of specification.                                            *)
(***************************************************************************)
EXTENDS Prefilter

AnySpec  == [kind |-> "any"]
Odd      == [kind |-> "odd"]
Bad      == [kind |-> "bad"]
Host     == [kind |-> "net", net |-> <<0, 1>>, pfx |-> 2]
Other    == [kind |-> "net", net |-> <<1, 1>>, pfx |-> 2]
Half     == [kind |-> "net", net |-> <<1, 1>>, pfx |-> 1]
Port(p)  == [kind |-> "port", port |-> p]
Range12  == [kind |-> "range", lo |-> 0, hi |-> 2]
Backward == [kind |-> "range", lo |-> 2, hi |-> 1]
Wide     == [kind |-> "range", lo |-> 0, hi |-> 3]
List(items) == [kind |-> "list", items |-> items]

AddrSpecs == {AnySpec, Host, Half, Odd, List(<<Host, Half>>), List(<<Bad, Odd>>)}
PortSpecs == {AnySpec, Port(1), Range12, Wide, List(<<Port(1), Port(3), Port(1)>>), List(<<Odd, Backward>>)}

MCHeaders ==
    [proto : {"tcp"}, src : AddrSpecs, sport : (PortSpecs \ {Wide}) \cup {Port(0)},
     dst : AddrSpecs \ {Odd}, dport : PortSpecs]
        \cup [proto : {"icmp", "sctp", "ip"}, src : {AnySpec, Host, Half}, sport : {AnySpec},
              dst : {AnySpec, Other}, dport : {AnySpec, Port(1)}]

MCCompanions ==
    {[proto |-> "tcp", src |-> Half, sport |-> AnySpec, dst |-> AnySpec, dport |-> Port(2)]}

MCFlows ==
    [proto : {"tcp"}, src : Address, sport : 1 .. 3, dst : Address, dport : 1 .. 3]
        \cup [proto : {"icmp", "sctp"}, src : Address, sport : {2}, dst : Address, dport : {1}]
=============================================================================
