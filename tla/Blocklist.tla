------------------------------- MODULE Blocklist -------------------------------
(***************************************************************************)
(* The block list of source addresses (AppState::block, unblock and        *)
(* prune_expired of k-firewalld/src/api.rs).  An address is blocked in     *)
(* three places: the kernel map BLOCKED, written under the handle lock;    *)
(* the daemon's own table, under a lock of its own; and the database.      *)
(* Every operation visits them one after the other, so that API calls,     *)
(* Suricata alerts and the prune task interleave between any two of them.  *)
(***************************************************************************)
EXTENDS Naturals, FiniteSets

CONSTANTS
    Ip,          \* source addresses
    Caller,      \* who blocks: the API's tasks, the alert loop
    Client,      \* those of them that serve a client of the API: they also unblock
    Seconds,     \* durations a caller may ask for
    MaxTime,     \* bound on the clock
    BlockedMax,  \* capacity of the BLOCKED map
    DbMayFail    \* whether the database may fail to open, load or save

ASSUME BoundsAssumption ==
    /\ IsFiniteSet(Ip)
    /\ Client \subseteq Caller
    /\ MaxTime \in Nat \ {0}
    /\ BlockedMax \in Nat
    /\ Seconds \subseteq Nat \ {0}
    /\ DbMayFail \in BOOLEAN

\* expire_unix: a moment the clock reaches, or Never for a permanent block.  No
\* entry is NotListed.
Never     == MaxTime + 1
NotListed == 0
Entry     == 1 .. Never
Row       == Entry \cup {NotListed}

VARIABLES
    clock,      \* now_unix
    kernel,     \* BLOCKED
    memory,     \* AppState.blocked: expire_unix of each entry
    db,         \* the table blocklist of the database
    persist,    \* AppState.persist: whether the daemon has the database open
    call,       \* where each caller is in its operation
    prune,      \* where the prune task is in its pass
    disturbed   \* history: addresses on which operations overlapped, whose row
                \* was not written, or not loaded, since the daemon started

vars == <<clock, kernel, memory, db, persist, call, prune, disturbed>>

Idle   == [pc |-> "idle"]
NoPass == [pc |-> "idle", todo |-> {}]

\* The operations in flight, and the addresses they are about.
Calls ==
    {Idle} \cup [pc : {"block", "list", "save"}, ip : Ip, until : Entry]
           \cup [pc : {"unblock", "unlist", "unsave"}, ip : Ip]
Passes ==
    [pc : {"idle", "wait", "remove"}, todo : SUBSET Ip]
        \cup [pc : {"forget", "unsave"}, todo : SUBSET Ip, ip : Ip]

\* The type of every table, and of the operations in flight (BlockEntry).
TypeOK ==
    /\ clock \in 1 .. MaxTime
    /\ kernel \subseteq Ip
    /\ memory \in [Ip -> Row]
    /\ db \in [Ip -> Row]
    /\ persist \in BOOLEAN
    /\ call \in [Caller -> Calls]
    /\ prune \in Passes
    /\ disturbed \subseteq Ip

Init ==
    /\ clock = 1
    /\ kernel = {}
    /\ memory = [ip \in Ip |-> NotListed]
    /\ db = [ip \in Ip |-> NotListed]
    /\ persist \in BOOLEAN
    /\ call = [c \in Caller |-> Idle]
    /\ prune = NoPass
    /\ disturbed = {}

-----------------------------------------------------------------------------
\* The prune task keeps the handle lock from its first removal to its last.
HandleFree == prune.pc \in {"idle", "wait"}

Expired(table) == {ip \in Ip : table[ip] # NotListed /\ table[ip] <= clock}

CallOn(ip)  == \E c \in Caller : call[c].pc # "idle" /\ call[c].ip = ip
PruneOn(ip) == ip \in prune.todo
Quiet(ip)   == ~CallOn(ip) /\ ~PruneOn(ip)

Goto(c, op) == call' = [call EXCEPT ![c] = op]

\* A write that fails only costs a warning, and a daemon without a database
\* writes nothing.
SaveTo(ip, row) ==
    /\ \/ persist /\ db' = [db EXCEPT ![ip] = row] /\ UNCHANGED disturbed
       \/ (DbMayFail \/ ~persist) /\ UNCHANGED db /\ disturbed' = disturbed \cup {ip}
    /\ UNCHANGED persist

Starts(c, ip, op) ==
    /\ call[c].pc = "idle"
    /\ Goto(c, op)
    /\ disturbed' = IF Quiet(ip) THEN disturbed ELSE disturbed \cup {ip}
    /\ UNCHANGED <<clock, kernel, memory, db, persist, prune>>

-----------------------------------------------------------------------------
(***************************************************************************)
(* AppState::block                                                         *)
(***************************************************************************)
\* The moment of expiry is computed before the handle lock is asked for.
BlockCall(c, ip, seconds) ==
    LET until == IF clock + seconds > MaxTime THEN Never ELSE clock + seconds
    IN  Starts(c, ip, [pc |-> "block", ip |-> ip, until |-> until])

BlockCallForever(c, ip) ==
    Starts(c, ip, [pc |-> "block", ip |-> ip, until |-> Never])

HasRoom(ip) == ip \in kernel \/ Cardinality(kernel) < BlockedMax

BlockKernel(c) ==
    /\ call[c].pc = "block"
    /\ HandleFree
    /\ IF HasRoom(call[c].ip)
       THEN /\ kernel' = kernel \cup {call[c].ip}
            /\ Goto(c, [call[c] EXCEPT !.pc = "list"])
       ELSE /\ UNCHANGED kernel
            /\ Goto(c, Idle)
    /\ UNCHANGED <<clock, memory, db, persist, prune, disturbed>>

BlockList(c) ==
    /\ call[c].pc = "list"
    /\ memory' = [memory EXCEPT ![call[c].ip] = call[c].until]
    /\ Goto(c, [call[c] EXCEPT !.pc = "save"])
    /\ UNCHANGED <<clock, kernel, db, persist, prune, disturbed>>

BlockSave(c) ==
    /\ call[c].pc = "save"
    /\ SaveTo(call[c].ip, call[c].until)
    /\ Goto(c, Idle)
    /\ UNCHANGED <<clock, kernel, memory, prune>>

(***************************************************************************)
(* AppState::unblock.  Removing a key the kernel map does not have is an   *)
(* error that ends the operation.                                          *)
(***************************************************************************)
UnblockCall(c, ip) ==
    /\ c \in Client
    /\ Starts(c, ip, [pc |-> "unblock", ip |-> ip])

\* Mutant: the operation goes on as a block that has no expiry to write.
UnblockKernel_Falls(c) ==
    /\ call[c].pc = "unblock"
    /\ HandleFree
    /\ kernel' = kernel \ {call[c].ip}
    /\ Goto(c, IF call[c].ip \in kernel THEN [call[c] EXCEPT !.pc = "list"] ELSE Idle)
    /\ UNCHANGED <<clock, memory, db, persist, prune, disturbed>>

UnblockKernel(c) ==
    /\ call[c].pc = "unblock"
    /\ HandleFree
    /\ kernel' = kernel \ {call[c].ip}
    /\ Goto(c, IF call[c].ip \in kernel THEN [call[c] EXCEPT !.pc = "unlist"] ELSE Idle)
    /\ UNCHANGED <<clock, memory, db, persist, prune, disturbed>>

\* Mutant: the table of the daemon is not updated.
UnblockList_Skipped(c) ==
    /\ call[c].pc = "unlist"
    /\ Goto(c, [call[c] EXCEPT !.pc = "unsave"])
    /\ UNCHANGED <<clock, kernel, memory, db, persist, prune, disturbed>>

UnblockList(c) ==
    /\ call[c].pc = "unlist"
    /\ memory' = [memory EXCEPT ![call[c].ip] = NotListed]
    /\ Goto(c, [call[c] EXCEPT !.pc = "unsave"])
    /\ UNCHANGED <<clock, kernel, db, persist, prune, disturbed>>

UnblockSave(c) ==
    /\ call[c].pc = "unsave"
    /\ SaveTo(call[c].ip, NotListed)
    /\ Goto(c, Idle)
    /\ UNCHANGED <<clock, kernel, memory, prune>>

\* A client that goes away while its call waits for the handle lock, the one
\* await of both operations: the runtime drops the handler.
Abandon(c) ==
    /\ c \in Client
    /\ call[c].pc \in {"block", "unblock"}
    /\ Goto(c, Idle)
    /\ UNCHANGED <<clock, kernel, memory, db, persist, prune, disturbed>>

-----------------------------------------------------------------------------
(***************************************************************************)
(* AppState::prune_expired                                                 *)
(***************************************************************************)
\* The expired entries are read under the table's lock, before the handle lock.
PruneSnapshot ==
    /\ prune.pc = "idle"
    /\ Expired(memory) # {}
    /\ prune' = [pc |-> "wait", todo |-> Expired(memory)]
    /\ disturbed' = disturbed \cup {ip \in Expired(memory) : CallOn(ip)}
    /\ UNCHANGED <<clock, kernel, memory, db, persist, call>>

PruneLock ==
    /\ prune.pc = "wait"
    /\ prune' = [prune EXCEPT !.pc = "remove"]
    /\ UNCHANGED <<clock, kernel, memory, db, persist, call, disturbed>>

\* The rest of the pass once ip has been dealt with.
PassWithout(ip) ==
    IF prune.todo = {ip} THEN NoPass
    ELSE [pc |-> "remove", todo |-> prune.todo \ {ip}]

\* Mutant: a failed removal ends the pass.
PruneRemove_GivesUp(ip) ==
    /\ prune.pc = "remove"
    /\ ip \in prune.todo
    /\ kernel' = kernel \ {ip}
    /\ prune' = IF ip \in kernel THEN [pc |-> "forget", todo |-> prune.todo, ip |-> ip]
                ELSE NoPass
    /\ UNCHANGED <<clock, memory, db, persist, call, disturbed>>

\* An address the kernel does not block any more is skipped.
PruneRemove(ip) ==
    /\ prune.pc = "remove"
    /\ ip \in prune.todo
    /\ kernel' = kernel \ {ip}
    /\ prune' = IF ip \in kernel THEN [pc |-> "forget", todo |-> prune.todo, ip |-> ip]
                ELSE PassWithout(ip)
    /\ UNCHANGED <<clock, memory, db, persist, call, disturbed>>

PruneForget ==
    /\ prune.pc = "forget"
    /\ memory' = [memory EXCEPT ![prune.ip] = NotListed]
    /\ prune' = [prune EXCEPT !.pc = "unsave"]
    /\ UNCHANGED <<clock, kernel, db, persist, call, disturbed>>

PruneSave ==
    /\ prune.pc = "unsave"
    /\ SaveTo(prune.ip, NotListed)
    /\ prune' = PassWithout(prune.ip)
    /\ UNCHANGED <<clock, kernel, memory, call>>

-----------------------------------------------------------------------------
Tick ==
    /\ clock < MaxTime
    /\ clock' = clock + 1
    /\ UNCHANGED <<kernel, memory, db, persist, call, prune, disturbed>>

\* The daemon stops at any point and starts again (AppState::new): the maps and
\* the tables of the process are new.
Starting ==
    /\ call' = [c \in Caller |-> Idle]
    /\ prune' = NoPass
    /\ UNCHANGED clock

Listed == {ip \in Ip : db[ip] # NotListed}

\* Mutant: the rows of all blocks that expire at some time are deleted.
Unexpired_Permanent == [ip \in Ip |-> IF db[ip] # Never THEN NotListed ELSE db[ip]]

\* load_active_blocklist deletes the rows that have expired.
Unexpired == [ip \in Ip |-> IF ip \in Expired(db) THEN NotListed ELSE db[ip]]

\* The rows that have not expired are blocked again as long as the map has room.
StartLoads ==
    LET active == Listed \ Expired(db)
    IN  /\ Starting
        /\ \E restored \in SUBSET active :
              /\ \/ restored = active /\ Cardinality(active) <= BlockedMax
                 \/ Cardinality(restored) = BlockedMax
              /\ kernel' = restored
              /\ memory' = [ip \in Ip |-> IF ip \in restored THEN db[ip] ELSE NotListed]
              /\ disturbed' = active \ restored
        /\ db' = Unexpired
        /\ persist' = TRUE

\* The database does not open, or its rows are not read, before or after the
\* deletion of the expired ones: the daemon warns and goes on with nothing
\* blocked.
StartUnread ==
    /\ DbMayFail
    /\ Starting
    /\ kernel' = {}
    /\ memory' = [ip \in Ip |-> NotListed]
    /\ persist' \in BOOLEAN
    /\ db' \in IF persist' THEN {db, Unexpired} ELSE {db}
    /\ disturbed' = {ip \in Ip : db'[ip] # NotListed}

Restart == StartLoads \/ StartUnread

CallerStep(c) ==
    \/ BlockKernel(c) \/ BlockList(c) \/ BlockSave(c)
    \/ UnblockKernel(c) \/ UnblockList(c) \/ UnblockSave(c)

PruneStep ==
    \/ PruneSnapshot
    \/ PruneLock
    \/ \E ip \in Ip : PruneRemove(ip)
    \/ PruneForget
    \/ PruneSave

Next ==
    \/ \E c \in Caller, ip \in Ip :
          \/ \E seconds \in Seconds : BlockCall(c, ip, seconds)
          \/ BlockCallForever(c, ip)
          \/ UnblockCall(c, ip)
    \/ \E c \in Caller : CallerStep(c) \/ Abandon(c)
    \/ PruneStep
    \/ Tick
    \/ Restart

Spec == Init /\ [][Next]_vars

\* The prune task ticks for ever, and the runtime polls it when it can go on.  No
\* more is assumed: callers may wait and clients go away at any point.
Fairness == WF_vars(PruneStep)

FairSpec == Spec /\ Fairness

-----------------------------------------------------------------------------
(***************************************************************************)
(* Properties.                                                             *)
(***************************************************************************)
\* The kernel map, the table and the database disagree on an address only while
\* an operation on it is in flight, after two operations on it overlapped, or
\* when its row could not be written or loaded: disjoint operations, passes of
\* the prune task and restarts never part them (block, unblock, prune_expired,
\* AppState::new).
PlacesAgree ==
    \A ip \in Ip \ disturbed :
        Quiet(ip) => /\ ip \in kernel <=> memory[ip] # NotListed
                     /\ db[ip] = memory[ip]

\* A crash of the daemon never costs a block that nothing has disturbed and that
\* has not expired ("避免重启导致已封禁 IP 自动解封"): a start that reads rows the map
\* has room for blocks the address again, and one that does not read them
\* leaves the row, with its expiry, for a start that does.
BlocksSurviveRestart ==
    [][Restart =>
          \A ip \in kernel \ disturbed :
              Quiet(ip) /\ ip \notin Expired(memory) =>
                 /\ db'[ip] = memory[ip]
                 /\ StartLoads /\ Cardinality(Listed) <= BlockedMax => ip \in kernel']_vars

\* An address that is blocked beyond the expiry of its entry is eventually
\* unblocked, or its block renewed, whatever else goes on and fails
\* (prune_expired).
ExpiredBlockEnds ==
    \A ip \in Ip :
        ip \in kernel /\ ip \in Expired(memory)
            ~> ip \notin kernel \/ ip \notin Expired(memory)

\* What prune_expired removes has expired ("移除已过期的封禁").  Not so: README, section 4.
PruneUnblocksOnlyExpired ==
    [][\A ip \in Ip :
          PruneRemove(ip) /\ ip \in kernel => memory[ip] = NotListed \/ memory[ip] <= clock]_vars
=============================================================================
