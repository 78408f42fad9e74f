---------------------------- MODULE ConntrackLimits ----------------------------
(***************************************************************************)
(* What the per-source limits are worth: Conntrack and its recount, with   *)
(* the history of the sources whose counters cannot be relied on.          *)
(*                                                                         *)
(* The code has two ways of losing a unit.  A counter map is full, and the *)
(* insertion of a new key fails: the flow is admitted and flagged all the  *)
(* same.  Or a flow is admitted while the recount is under way: the pass,  *)
(* which has read the key of the flow before, rewrites the counter without *)
(* it.  The limits are stated of every source but those.                   *)
(***************************************************************************)
EXTENDS ConntrackReconcile

VARIABLES
    connUnsure, \* history: sources with counted connections, of one of which CONN_COUNT
                \* may have no unit: there was no key left for it, or it was admitted
                \* while a pass was under way
    synUnsure   \* history: the same of half-open flows and SYN_COUNT

lvars == <<ct, connCount, synCount, expect, daemon, recon, quiet, connUnsure, synUnsure>>

LInit == RInit /\ connUnsure = {} /\ synUnsure = {}

\* The sources of which a step leaves a connection, or a half-open flow, without a unit,
\* or may do so in the end: the map has no key for it, or the pass has read past it.
ConnsMissed ==
    {SrcIp(k) : k \in {new \in CountedConns' \ CountedConns :
                          \/ SrcIp(new) \notin DOMAIN connCount'
                          \/ /\ recon.phase \in {"scan", "clear_conns", "write_conns"}
                             /\ new \notin recon.left}}
    \cup {ip \in Charged(recon.conns) :
             recon.phase = "write_conns" /\ recon'.phase = "clear_syns" /\ ip \notin DOMAIN connCount'}

HalfOpenMissed ==
    {SrcIp(k) : k \in {new \in CountedHalfOpen' \ CountedHalfOpen :
                          \/ SrcIp(new) \notin DOMAIN synCount'
                          \/ recon.phase # "idle" /\ new \notin recon.left}}
    \cup {ip \in Charged(recon.syns) :
             recon.phase = "write_syns" /\ recon'.phase = "idle" /\ ip \notin DOMAIN synCount'}

\* A source is sure again when it has no counted flow left.
Track ==
    /\ connUnsure' = {ip \in connUnsure \cup ConnsMissed : ConnsOf(ip)' # {}}
    /\ synUnsure' = {ip \in synUnsure \cup HalfOpenMissed : HalfOpenOf(ip)' # {}}

LNext == RNext /\ Track

LSpec == LInit /\ [][LNext]_lvars

-----------------------------------------------------------------------------
\* A counter is never behind the flows that hold a unit of it, whatever entries are
\* overwritten, pruned or deleted, and however the recount comes in between: a unit
\* is returned at most once.  Of the sources that are not unsure, and but for the
\* moment in which the recount has emptied the map.
CountersCoverFlows ==
    \A ip \in Ip :
        /\ ip \notin connUnsure /\ recon.phase # "write_conns" =>
              Cardinality(ConnsOf(ip)) <= Count(connCount, ip)
        /\ ip \notin synUnsure /\ recon.phase # "write_syns" =>
              Cardinality(HalfOpenOf(ip)) <= Count(synCount, ip)

\* What the limits are for: no address holds more counted connections than
\* CONN_LIMITS allows it, nor more half-open flows than syn_max_half_open, unless one
\* of those it holds was admitted uncounted, or while the recount was under way.
LimitsHold ==
    \A ip \in Ip :
        /\ MaxConns[ip] > 0 /\ ip \notin connUnsure =>
              Cardinality(ConnsOf(ip)) <= MaxConns[ip]
        /\ MaxHalfOpen > 0 /\ ip \notin synUnsure =>
              Cardinality({k \in Flows : /\ SrcIp(k) = ip
                                         /\ Checked(k)
                                         /\ ct[k].state \in HalfOpenStates}) <= MaxHalfOpen

\* The counted connections, and the counted half-open flows, are admitted one at a
\* time and below their quota, unless their source is unsure.
ConnAdmission == INSTANCE AdmissionControl
    WITH Member <- Flows, Owner <- [k \in Flows |-> SrcIp(k)], Quota <- MaxConns,
         admitted <- CountedConns, unsure <- connUnsure
HalfOpenAdmission == INSTANCE AdmissionControl
    WITH Member <- Flows, Owner <- [k \in Flows |-> SrcIp(k)],
         Quota <- [ip \in Ip |-> MaxHalfOpen],
         admitted <- CountedHalfOpen, unsure <- synUnsure

ConnsAreAdmitted    == ConnAdmission!Spec
HalfOpenAreAdmitted == HalfOpenAdmission!Spec
=============================================================================
