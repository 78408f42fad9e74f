------------------------------- MODULE MCRuleSync -------------------------------
(***************************************************************************)
(* RuleSync for model checking: every list without a database; with one,   *)
(* which may fail, the QoS classes of two contents and the Suricata rules   *)
(* and rate limits of one, and zone policies of one where it does not; the  *)
(* calls on the others go through the steps of these.  Rules have keys of   *)
(* their own, but two of three forwardings are for one port.               *)
(*                                                                         *)
(* Tasks are interchangeable and no property is a liveness property, so    *)
(* Task is a symmetry set; rules are not: the configuration holds one.     *)
(***************************************************************************)
EXTENDS RuleSync, TLC

CONSTANTS r1, r2, r3

OneRule == <<r1>>
MCRulesOf(m) ==
    CASE m.kind = "nat" -> {r1, r2, r3}
      [] m.db /\ m.kind # "qos" -> {r1}
      [] OTHER -> {r1, r2}
MCKeyOf(kind, rule) == IF kind = "nat" /\ rule = r3 THEN r1 ELSE rule

MCModes ==
    [kind : Kinds, db : {FALSE}, fails : {FALSE}]
        \cup [kind : {"zone"}, db : {TRUE}, fails : {FALSE}]
        \cup [kind : {"suricata", "qos", "rate"}, db : {TRUE}, fails : {TRUE}]

Interchangeable == Permutations(Task)
=============================================================================
