------------------------------- MODULE MCMultiWan -------------------------------
(***************************************************************************)
(* Two links in one group (test-multiwan.yaml), and the second of them in  *)
(* a group of its own behind an interface that has no gateway.             *)
(***************************************************************************)
EXTENDS MultiWan

CONSTANTS wan0, wan1, lan0

Links == {wan0, wan1}

Pair  == <<[name |-> wan0, weight |-> 2], [name |-> wan1, weight |-> 1]>>
Other == <<[name |-> lan0, weight |-> 1], [name |-> wan1, weight |-> 1]>>

OneGroup  == <<Pair>>
TwoGroups == <<Pair, Other>>

\* A rule for a link, one for a group, and one that names no WAN.
Rules == <<[kind |-> "wan", wan |-> wan0], [kind |-> "group", group |-> 2],
           [kind |-> "wan", wan |-> lan0]>>
OneRule == <<[kind |-> "wan", wan |-> wan0]>>

AnySpare == {NoWan, wan1}
NoSpare  == {NoWan}
=============================================================================
