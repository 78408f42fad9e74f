----------------------------- MODULE MCConntrack -----------------------------
(***************************************************************************)
(* Small instances of Conntrack: a host A with two ports and a server B.   *)
(***************************************************************************)
EXTENDS Conntrack

CONSTANTS A, B, a1, a2, b1

Endpoints == {a1, a2, b1}
Addresses == {A, B}
AddressOf == [e \in Endpoints |-> IF e = b1 THEN B ELSE A]

Both(src, dst, p) == {[src |-> src, dst |-> dst, proto |-> p],
                      [src |-> dst, dst |-> src, proto |-> p]}

\* Two TCP connections between A and B.
TwoTcp == Both(a1, b1, "TCP") \cup Both(a2, b1, "TCP")

OneTcp == Both(a1, b1, "TCP")

\* A is limited to one connection.
LimitA1 == [ip \in Addresses |-> IF ip = A THEN 1 ELSE 0]

\* A is outside: what B sends to a1 leaves a WAN interface.
OutsideA == {f \in TwoTcp : f.src = b1 /\ f.dst = a1}

NoDnat  == [x \in {} |-> b1]
\* A port of A is forwarded to the other one.
PortFwd == [x \in {<<a2, "TCP">>} |-> a1]

\* The flag bytes ct_tcp_step tells apart; as it looks for ACK first, a FIN that carries
\* ACK is one with the ACK.
Segments == {{"SYN"}, {"SYN", "ACK"}, {"ACK"}, {"FIN"}, {"RST"}, {}}

\* Those that open a connection, confirm it and reset it.
Handshake == {{"SYN"}, {"ACK"}, {"RST"}}

\* Of the states a handshake reaches, all but the first have their timeout off.
Answered == {"SYN_RECV", "ESTABLISHED", "TIME_WAIT"}

NoAlg  == {}
\* Active FTP: the server opens the data connection to A.
AlgFtp == {[src |-> B, dst |-> a1]}
=============================================================================
