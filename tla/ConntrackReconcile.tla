-------------------------- MODULE ConntrackReconcile --------------------------
(***************************************************************************)
(* Conntrack together with the daemon's periodic recount of the per-source *)
(* counters (EbpfHandle::reconcile_conn_counts, main.rs every 30 s).  The  *)
(* recount reads CONNTRACK key by key, then empties and rewrites           *)
(* CONN_COUNT, then SYN_COUNT, all while the data plane goes on counting.  *)
(***************************************************************************)
EXTENDS Conntrack

VARIABLES
    recon,   \* the running pass: what it still has to read, what it has tallied
    quiet    \* history: no packet since the running pass began

rvars == <<ct, connCount, synCount, expect, daemon, recon, quiet>>

NoTally == [ip \in Ip |-> 0]
NoPass  == [phase |-> "idle", left |-> {}, conns |-> NoTally, syns |-> NoTally]

Phases == {"idle", "scan", "clear_conns", "write_conns", "clear_syns", "write_syns"}

\* The types of Conntrack, and of the running pass and its history
\* (reconcile_conn_counts).
RTypeOK ==
    /\ TypeOK
    /\ recon \in [phase : Phases, left : SUBSET Flows,
                  conns : [Ip -> Nat], syns : [Ip -> Nat]]
    /\ quiet \in BOOLEAN

RInit ==
    /\ Init
    /\ recon = NoPass
    /\ quiet = TRUE

-----------------------------------------------------------------------------
ReconcileBegin ==
    /\ daemon.job = "free"
    /\ daemon' = [job |-> "reconcile", todo |-> {}]
    /\ recon' = [NoPass EXCEPT !.phase = "scan", !.left = Flows]
    /\ UNCHANGED <<ct, connCount, synCount, expect>>

OneMore(tally, ip) == [tally EXCEPT ![ip] = @ + 1]

\* Every entry but the NAT replies counts as a connection of its source, and
\* as a half-open one in the states SYN_SENT and SYN_RECV.
ReconcileScan(k) ==
    LET tracked == Present(k) /\ ~ct[k].nat
        half    == tracked /\ ct[k].state \in HalfOpenStates
    IN  /\ recon.phase = "scan"
        /\ k \in recon.left
        /\ recon' = [phase |-> IF recon.left = {k} THEN "clear_conns" ELSE "scan",
                     left  |-> recon.left \ {k},
                     conns |-> IF tracked THEN OneMore(recon.conns, SrcIp(k)) ELSE recon.conns,
                     syns  |-> IF half THEN OneMore(recon.syns, SrcIp(k)) ELSE recon.syns]
        /\ UNCHANGED <<ct, connCount, synCount, expect, daemon>>

Charged(tally) == {ip \in Ip : tally[ip] > 0}

\* Mutant: the drift is taken off with the wrong sign.
Overwritten_Drift(count, tally, taken) ==
    [ip \in DOMAIN count \cup taken |-> Count(count, ip) - tally[ip]]

Overwritten(count, tally, taken) ==
    [ip \in DOMAIN count \cup taken |->
        IF ip \in Charged(tally) THEN tally[ip] ELSE count[ip]]

\* The sources of a tally, written one after the other over what the map holds by
\* then: it takes new keys as long as there is room, and the rest is lost.
Takes(count, tally, taken) ==
    LET new  == Charged(tally) \ DOMAIN count
        keys == DOMAIN count \cup taken
    IN  /\ taken \subseteq new
        /\ taken # {} => Cardinality(keys) <= CountMaxEntries
        /\ taken = new \/ Cardinality(keys) >= CountMaxEntries

\* Mutants: the keys that are not in the tally keep their old value.
ClearConns_NoReset ==
    /\ recon.phase = "clear_conns"
    /\ recon' = [recon EXCEPT !.phase = "write_conns"]
    /\ UNCHANGED <<ct, connCount, synCount, expect, daemon>>
ClearSyns_NoReset ==
    /\ recon.phase = "clear_syns"
    /\ recon' = [recon EXCEPT !.phase = "write_syns"]
    /\ UNCHANGED <<ct, connCount, synCount, expect, daemon>>

ClearConns ==
    /\ recon.phase = "clear_conns"
    /\ connCount' = NoCounts
    /\ recon' = [recon EXCEPT !.phase = "write_conns"]
    /\ UNCHANGED <<ct, synCount, expect, daemon>>

WriteConns ==
    /\ recon.phase = "write_conns"
    /\ \E taken \in SUBSET Ip : /\ Takes(connCount, recon.conns, taken)
                                /\ connCount' = Overwritten(connCount, recon.conns, taken)
    /\ recon' = [recon EXCEPT !.phase = "clear_syns"]
    /\ UNCHANGED <<ct, synCount, expect, daemon>>

ClearSyns ==
    /\ recon.phase = "clear_syns"
    /\ synCount' = NoCounts
    /\ recon' = [recon EXCEPT !.phase = "write_syns"]
    /\ UNCHANGED <<ct, connCount, expect, daemon>>

WriteSyns ==
    /\ recon.phase = "write_syns"
    /\ \E taken \in SUBSET Ip : /\ Takes(synCount, recon.syns, taken)
                                /\ synCount' = Overwritten(synCount, recon.syns, taken)
    /\ recon' = NoPass
    /\ daemon' = FreeLock
    /\ UNCHANGED <<ct, connCount, expect>>

ReconcileStep ==
    \/ \E k \in Flows : ReconcileScan(k)
    \/ ClearConns
    \/ WriteConns
    \/ ClearSyns
    \/ WriteSyns

RNext ==
    \/ Packet /\ UNCHANGED recon /\ quiet' = FALSE
    \/ (Daemon \/ \E k \in Flows : Expire(k)) /\ UNCHANGED <<recon, quiet>>
    \/ ReconcileBegin /\ quiet' = TRUE
    \/ ReconcileStep /\ UNCHANGED quiet

RSpec == RInit /\ [][RNext]_rvars

\* The prune and the recount task of main.rs tick for ever and the handle lock is
\* granted in the order of the requests (tokio::sync::Mutex), so a pass that is due again
\* and again does get the lock; once it has it, it runs to its end.  Time passes.
RFairness ==
    /\ SF_rvars(PruneBegin /\ UNCHANGED <<recon, quiet>>)
    /\ SF_rvars(ReconcileBegin /\ quiet' = TRUE)
    /\ WF_rvars((\E k \in Flows : RemoveNext(k)) /\ UNCHANGED <<recon, quiet>>)
    /\ WF_rvars(ReconcileStep /\ UNCHANGED quiet)
    /\ \A k \in Flows : WF_rvars(Expire(k) /\ UNCHANGED <<recon, quiet>>)

RFairSpec == RSpec /\ RFairness

-----------------------------------------------------------------------------
(***************************************************************************)
(* Properties.                                                             *)
(***************************************************************************)
PassEnds == recon.phase = "write_syns" /\ recon'.phase = "idle"

OfSource(ip, S) == {k \in S : SrcIp(k) = ip}
TrackedFlows    == {k \in Flows : Present(k) /\ ~ct[k].nat}
HalfOpenFlows   == {k \in TrackedFlows : ct[k].state \in HalfOpenStates}

\* What is read from a recounted map: the flows of the source, unless it has no key and
\* the map no room for one.
Recounted(map, ip, flows) ==
    \/ Count(map, ip) = Cardinality(flows)
    \/ ip \notin DOMAIN map /\ Cardinality(DOMAIN map) >= CountMaxEntries

\* A pass no packet interferes with leaves both counters equal to what the table
\* holds ("按 CONNTRACK 真实条目重算覆盖"), whatever had leaked or been lost before.
QuietPassRecounts ==
    [][PassEnds /\ quiet =>
          \A ip \in Ip :
              /\ Recounted(connCount, ip, OfSource(ip, TrackedFlows))'
              /\ Recounted(synCount, ip, OfSource(ip, HalfOpenFlows))']_rvars

\* Units leaked by expired, deleted or overwritten entries come back: a source
\* none of whose flows is tracked does not stay charged for connections.
LeakedUnitsReturn ==
    \A ip \in Ip :
        Count(connCount, ip) > 0 /\ OfSource(ip, Tracked) = {}
            ~> Count(connCount, ip) = 0 \/ OfSource(ip, Tracked) # {}

\* When the traffic stops, the table empties and every counter returns to zero.
CountersDrain ==
    <>[][~Packet]_rvars =>
        <>[](/\ Tracked = {}
             /\ \A ip \in Ip : Count(connCount, ip) = 0 /\ Count(synCount, ip) = 0)
=============================================================================
