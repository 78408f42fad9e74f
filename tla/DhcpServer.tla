------------------------------- MODULE DhcpServer -------------------------------
(***************************************************************************)
(* The DHCPv6 server of one interface (k-firewalld/src/dhcp.rs) and its    *)
(* clients.  One task receives the messages of the interface and answers   *)
(* each from a table of leases that lives in memory only.  Messages get    *)
(* lost, are delivered again and are delayed; the clients believe in the   *)
(* lifetime the answer carries, which is always the full one.              *)
(*                                                                         *)
(* Times are kept as what is left of them, so that the clock needs no      *)
(* bound: a Tick takes one unit from all.                                  *)
(***************************************************************************)
EXTENDS Integers, FiniteSets

CONSTANTS
    Client,      \* pairs of DUID and IAID
    ZeroIaid,    \* those whose IAID is 0
    Segment,     \* addresses addr_at can form (65536: it varies one group)
    ScanLimit,   \* addresses an allocation tries
    PruneLimit,  \* expired leases an allocation removes
    Valid,       \* lifetime of a lease
    WireMax,     \* bound on the messages under way to the server
    MayRestart   \* whether the daemon may be restarted

ASSUME BoundsAssumption ==
    /\ IsFiniteSet(Client)
    /\ ZeroIaid \subseteq Client
    /\ Segment \in Nat \ {0}
    /\ ScanLimit \in 1 .. Segment
    /\ PruneLimit \in Nat \ {0}
    /\ Valid \in Nat \ {0}
    /\ WireMax \in Nat
    /\ MayRestart \in BOOLEAN

Addr        == 0 .. Segment - 1
Unspecified == -1              \* the address ::
Lifetime    == 0 .. Valid

Lease   == [addr : Addr, left : Lifetime]
NoLease == [addr |-> Unspecified, left |-> 0]

\* "request" is a SOLICIT, REQUEST, RENEW or REBIND, "release" a RELEASE or DECLINE;
\* current: it belongs to the exchange its client is waiting for.
Message == [type : {"request", "release"}, client : Client, current : BOOLEAN]

\* A REPLY with an address; left is history: what is left of the lease it was made
\* from.
Answer   == [addr : Addr \cup {Unspecified}, left : Lifetime]
NoAnswer == [addr |-> -2, left |-> 0]

VARIABLES
    leases,       \* IfaceServer.leases
    next_offset,  \* IfaceServer.next_offset, modulo Segment
    wire,         \* messages that may (still, or again) reach the server
    answer,       \* the answer that may reach each client: of several, all but one
                  \* are lost
    belief,       \* the address each client takes for its own, and for how long
    excused       \* history: clients whose belief outlasts the lease it came from

vars == <<leases, next_offset, wire, answer, belief, excused>>

Live(l) == l.left > 0

TypeOK ==
    /\ leases \in [Client -> Lease \cup {NoLease}]
    /\ next_offset \in Addr
    /\ wire \subseteq Message
    /\ answer \in [Client -> Answer \cup {NoAnswer}]
    /\ belief \in [Client -> Lease \cup {NoLease}]
    /\ excused \subseteq Client

Init ==
    /\ leases = [c \in Client |-> NoLease]
    /\ next_offset = 0
    /\ wire = {}
    /\ answer = [c \in Client |-> NoAnswer]
    /\ belief = [c \in Client |-> NoLease]
    /\ excused = {}

-----------------------------------------------------------------------------
(***************************************************************************)
(* The server.                                                             *)
(***************************************************************************)
\* Mutant: the group is not truncated.
AddrAt_Wide(offset) == offset + 1

AddrAt(offset) == (offset + 1) % Segment

\* Mutant: an expired lease holds its address until it is pruned.
InUse_Expired(addr) == \E c \in Client : leases[c].addr = addr

InUse(addr) == \E c \in Client : leases[c].addr = addr /\ Live(leases[c])

\* The address of the k-th probe.
Scanned(k) == AddrAt(next_offset + k)

\* Mutant: what the offset points to is taken for free.
FreeProbes_Unchecked == 0 .. ScanLimit - 1

FreeProbes == {k \in 0 .. ScanLimit - 1 : ~InUse(Scanned(k))}

\* Mutant: a lease in its last unit of time has expired.
Expired_Early == {c \in Client : leases[c] # NoLease /\ leases[c].left <= 1}

Expired == {c \in Client : leases[c] # NoLease /\ ~Live(leases[c])}

\* What prune_expired_locked may remove: it stops at PruneLimit, in the order of a
\* hash map.
Prunable ==
    {S \in SUBSET Expired :
        Cardinality(S) = PruneLimit \/ (S = Expired /\ Cardinality(S) < PruneLimit)}

Without(S) == [c \in Client |-> IF c \in S THEN NoLease ELSE leases[c]]

\* A message stays under way when the network delivers it again, or the client
\* repeats it for want of an answer.
Taken(m) == \E again \in BOOLEAN : wire' = IF again THEN wire ELSE wire \ {m}

\* A SOLICIT without rapid commit is answered by an ADVERTISE, which gives the client
\* nothing yet.
Answered(m, addr, left) ==
    \E advertise \in BOOLEAN :
        answer' = IF m.current /\ ~advertise
                  THEN [answer EXCEPT ![m.client] = [addr |-> addr, left |-> left]]
                  ELSE answer

\* The client has a lease that has not run out: it is told the same address, and
\* the full lifetime, but the lease is not prolonged.
Reuse(m) ==
    /\ Live(leases[m.client])
    /\ \E S \in Prunable : leases' = Without(S)
    /\ UNCHANGED next_offset
    /\ Answered(m, leases[m.client].addr, leases[m.client].left)

\* The first probe k that finds a free address.
Allocate(m) ==
    \E k \in FreeProbes, S \in Prunable :
        /\ ~Live(leases[m.client])
        /\ \A j \in FreeProbes : k <= j
        /\ leases' = [Without(S) EXCEPT ![m.client] = [addr |-> Scanned(k), left |-> Valid]]
        /\ next_offset' = (next_offset + k + 1) % Segment
        /\ Answered(m, Scanned(k), Valid)

\* Every address tried is in use: the answer carries the address ::.
RunDry(m) ==
    /\ ~Live(leases[m.client])
    /\ FreeProbes = {}
    /\ \E S \in Prunable : leases' = [Without(S) EXCEPT ![m.client] = NoLease]
    /\ UNCHANGED next_offset
    /\ Answered(m, Unspecified, 0)

AllocFor(m) == Reuse(m) \/ Allocate(m) \/ RunDry(m)

\* A SOLICIT takes a lease out too, whether or not the client will come back for it.
HandleRequest(m) ==
    /\ m.type = "request"
    /\ m.client \notin ZeroIaid
    /\ AllocFor(m)
    /\ Taken(m)
    /\ UNCHANGED <<belief, excused>>

\* Refused is an IAID of 0, and a request for an address that is not of the pool (any
\* may be one: the address a client asks for matters for nothing else).
Refuse(m) ==
    /\ m.type = "request"
    /\ Taken(m)
    /\ UNCHANGED <<leases, next_offset, answer, belief, excused>>

\* Of the leases the answers on the way to the clients C were made from nothing is left.
Voided(C) == [c \in Client |-> IF c \in C THEN [answer[c] EXCEPT !.left = 0] ELSE answer[c]]

\* A late RELEASE ends the lease its client has meanwhile asked for again.
HandleRelease(m) ==
    /\ m.type = "release"
    /\ leases' = IF m.client \in ZeroIaid THEN leases ELSE Without({m.client})
    /\ answer' = Voided({m.client})
    /\ excused' = excused \cup {c \in {m.client} : Live(belief[c])}
    /\ Taken(m)
    /\ UNCHANGED <<next_offset, belief>>

\* The leases and the offset are in memory only.
Restart ==
    /\ MayRestart
    /\ leases' = [c \in Client |-> NoLease]
    /\ next_offset' = 0
    /\ answer' = Voided(Client)
    /\ excused' = {c \in Client : Live(belief[c])}
    /\ UNCHANGED <<wire, belief>>

-----------------------------------------------------------------------------
(***************************************************************************)
(* The clients and the network.                                            *)
(***************************************************************************)
Believes(c) == Live(belief[c])

\* The messages of c are no longer of an exchange it waits for.
Outdated(c) == {IF m.client = c THEN [m EXCEPT !.current = FALSE] ELSE m : m \in wire}

\* A new exchange: answers to earlier ones are ignored from now on, but their
\* messages may still reach the server.
Ask(c) ==
    /\ Cardinality(wire) < WireMax
    /\ wire' = Outdated(c) \cup {[type |-> "request", client |-> c, current |-> TRUE]}
    /\ answer' = [answer EXCEPT ![c] = NoAnswer]
    /\ UNCHANGED <<leases, next_offset, belief, excused>>

\* A client that releases its address stops using it first.
GiveUp(c) ==
    /\ Believes(c)
    /\ Cardinality(wire) < WireMax
    /\ wire' = Outdated(c) \cup {[type |-> "release", client |-> c, current |-> TRUE]}
    /\ answer' = [answer EXCEPT ![c] = NoAnswer]
    /\ belief' = [belief EXCEPT ![c] = NoLease]
    /\ excused' = excused \ {c}
    /\ UNCHANGED <<leases, next_offset>>

\* The client trusts the lifetime in the answer, from the moment it arrives.
Accept(c) ==
    /\ answer[c].addr \in Addr
    /\ answer' = [answer EXCEPT ![c] = NoAnswer]
    /\ wire' = Outdated(c)
    /\ belief' = [belief EXCEPT ![c] = [addr |-> answer[c].addr, left |-> Valid]]
    /\ excused' = IF answer[c].left < Valid THEN excused \cup {c} ELSE excused \ {c}
    /\ UNCHANGED <<leases, next_offset>>

LoseMessage(m) ==
    /\ wire' = wire \ {m}
    /\ UNCHANGED <<leases, next_offset, answer, belief, excused>>

LoseAnswer(c) ==
    /\ answer' = [answer EXCEPT ![c] = NoAnswer]
    /\ UNCHANGED <<leases, next_offset, wire, belief, excused>>

Later(l) == [l EXCEPT !.left = IF @ > 0 THEN @ - 1 ELSE 0]
Ended(l) == IF l.left <= 1 THEN NoLease ELSE Later(l)

Tick ==
    /\ leases' = [c \in Client |-> Later(leases[c])]
    /\ answer' = [c \in Client |-> Later(answer[c])]
    /\ belief' = [c \in Client |-> Ended(belief[c])]
    /\ excused' = excused \ {c \in Client : belief[c].left <= 1}
    /\ UNCHANGED <<next_offset, wire>>

Next ==
    \/ \E m \in wire : HandleRequest(m) \/ Refuse(m) \/ HandleRelease(m) \/ LoseMessage(m)
    \/ Restart
    \/ \E c \in Client : Ask(c) \/ GiveUp(c) \/ Accept(c) \/ LoseAnswer(c)
    \/ Tick

Spec == Init /\ [][Next]_vars

-----------------------------------------------------------------------------
(***************************************************************************)
(* Properties.                                                             *)
(***************************************************************************)
\* No address is leased to two clients at the same time: alloc_addr_locked probes
\* under the lock of the table and skips what any live lease holds, wherever
\* next_offset stands after the range has been used up once, or after a restart.
LeasesExclusive ==
    \A c, d \in Client :
        Live(leases[c]) /\ Live(leases[d]) /\ leases[c].addr = leases[d].addr => c = d

\* Two clients use one address only if one of them is excused: its answer was made
\* from a lease already under way (a renewal, l.594), or was delayed, or the daemon
\* was restarted, or a late RELEASE ended its lease.  Nothing else does it: neither
\* an expired entry overwritten or pruned, nor a SOLICIT that takes a lease out
\* nobody uses, nor a message that is handled twice.
HoldersExclusive ==
    \A c, d \in Client \ excused :
        Live(belief[c]) /\ Live(belief[d]) /\ belief[c].addr = belief[d].addr => c = d

\* The address :: is answered only when as many leases are live as an allocation
\* tries addresses: expired leases, pruned or not, and refused requests hold none.
PoolIsUsedUp ==
    [][\A c \in Client :
          answer'[c].addr = Unspecified /\ answer[c].addr # Unspecified
              => Cardinality({d \in Client : Live(leases[d])}) >= ScanLimit]_vars
=============================================================================
