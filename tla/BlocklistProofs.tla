---------------------------- MODULE BlocklistProofs ----------------------------
(***************************************************************************)
(* Proofs about Blocklist: its types, the agreement of kernel map, table   *)
(* and database, and the restoration of blocks at a restart, for any       *)
(* addresses, callers, durations, clock and size of the map.               *)
(***************************************************************************)
EXTENDS Blocklist, FiniteSetTheorems, TLAPS

-----------------------------------------------------------------------------
(***************************************************************************)
(* The inductive invariant.  An address that is not disturbed has at most  *)
(* one operation in flight, and the three places have got just as far as   *)
(* that operation has.                                                     *)
(***************************************************************************)
On(c, ip) == call[c].pc # "idle" /\ call[c].ip = ip

Agree(ip) == (ip \in kernel <=> memory[ip] # NotListed) /\ db[ip] = memory[ip]

\* The address the prune task has removed from the kernel map and not yet from the rest.
InHand(ip) == prune.pc \in {"forget", "unsave"} /\ prune.ip = ip

PassFits ==
    /\ prune.pc = "idle" => prune.todo = {}
    /\ prune.pc \in {"forget", "unsave"} => prune.ip \in prune.todo

Alone(ip) ==
    /\ \A c, d \in Caller : On(c, ip) /\ On(d, ip) => c = d
    /\ \A c \in Caller : On(c, ip) => ~PruneOn(ip)

CallFits(c, ip) ==
    /\ call[c].pc \in {"block", "unblock"} => Agree(ip)
    /\ call[c].pc = "list" => ip \in kernel
    /\ call[c].pc = "save" => ip \in kernel /\ memory[ip] = call[c].until
    /\ call[c].pc = "unlist" => ip \notin kernel
    /\ call[c].pc = "unsave" => ip \notin kernel /\ memory[ip] = NotListed

PruneFits(ip) ==
    /\ ~InHand(ip) => Agree(ip)
    /\ InHand(ip) => ip \notin kernel
    /\ InHand(ip) /\ prune.pc = "unsave" => memory[ip] = NotListed

Fits(ip) ==
    /\ Alone(ip)
    /\ \A c \in Caller : On(c, ip) => CallFits(c, ip)
    /\ PruneOn(ip) => PruneFits(ip)
    /\ Quiet(ip) => Agree(ip)

PlacesFit == \A ip \in Ip \ disturbed : Fits(ip)

IInv == TypeOK /\ PassFits /\ PlacesFit

-----------------------------------------------------------------------------
(***************************************************************************)
(* Types.                                                                  *)
(***************************************************************************)
\* What can be said of an operation in flight, and how it moves on.
LEMMA OpTypes ==
    ASSUME NEW op \in Calls
    PROVE  /\ op.pc \in {"idle", "block", "list", "save", "unblock", "unlist", "unsave"}
           /\ op.pc # "idle" => op.ip \in Ip
           /\ op.pc \in {"block", "list", "save"} => op.until \in Entry
           /\ op.pc = "block" => [op EXCEPT !.pc = "list"] \in Calls
           /\ op.pc = "list" => [op EXCEPT !.pc = "save"] \in Calls
           /\ op.pc = "unblock" => [op EXCEPT !.pc = "unlist"] \in Calls
           /\ op.pc = "unlist" => [op EXCEPT !.pc = "unsave"] \in Calls
BY DEF Calls, Idle

\* The same of a pass of the prune task.
LEMMA PassTypes ==
    ASSUME NEW pass \in Passes
    PROVE  /\ pass.pc \in {"idle", "wait", "remove", "forget", "unsave"}
           /\ pass.todo \subseteq Ip
           /\ pass.pc \in {"forget", "unsave"} => pass.ip \in Ip
           /\ pass.pc = "wait" => [pass EXCEPT !.pc = "remove"] \in Passes
           /\ pass.pc = "forget" => [pass EXCEPT !.pc = "unsave"] \in Passes
BY DEF Passes

\* The rest of a pass is a pass.
LEMMA PassWithoutType ==
    ASSUME prune \in Passes, NEW ip
    PROVE  PassWithout(ip) \in Passes
BY DEF Passes, PassWithout, NoPass

\* A caller that moves on keeps the operations typed.
LEMMA GotoType ==
    ASSUME call \in [Caller -> Calls], NEW c \in Caller, NEW op \in Calls, Goto(c, op)
    PROVE  call' \in [Caller -> Calls]
BY DEF Goto

\* A write of the database keeps the types.
LEMMA SaveToType ==
    ASSUME TypeOK, NEW ip \in Ip, NEW row \in Row, SaveTo(ip, row)
    PROVE  db' \in [Ip -> Row] /\ persist' \in BOOLEAN /\ disturbed' \subseteq Ip
BY DEF TypeOK, SaveTo

\* The start of an operation keeps the types.
LEMMA StartsType ==
    ASSUME TypeOK, NEW c \in Caller, NEW ip \in Ip, NEW op \in Calls, Starts(c, ip, op)
    PROVE  TypeOK'
<1>1. call' \in [Caller -> Calls]
  BY GotoType DEF Starts, TypeOK
<1>2. disturbed' \subseteq Ip
  BY DEF Starts, TypeOK
<1> QED
  BY <1>1, <1>2 DEF Starts, TypeOK

\* Each step of a caller keeps the types.
LEMMA CallerType ==
    ASSUME TypeOK, NEW c \in Caller, CallerStep(c)
    PROVE  TypeOK'
<1> DEFINE op == call[c]
<1>1. op \in Calls
  BY DEF TypeOK
<1>2. Idle \in Calls /\ NotListed \in Row /\ Entry \subseteq Row
  BY DEF Calls, Row
<1>3. CASE BlockKernel(c)
  <2>1. call' \in [Caller -> Calls]
    BY <1>1, <1>2, <1>3, OpTypes, GotoType DEF BlockKernel, TypeOK
  <2>2. kernel' \subseteq Ip
    BY <1>1, <1>3, OpTypes DEF BlockKernel, TypeOK
  <2> QED
    BY <2>1, <2>2, <1>3 DEF BlockKernel, TypeOK
<1>4. CASE BlockList(c)
  <2>1. call' \in [Caller -> Calls]
    BY <1>1, <1>4, OpTypes, GotoType DEF BlockList, TypeOK
  <2>2. memory' \in [Ip -> Row]
    BY <1>1, <1>2, <1>4, OpTypes DEF BlockList, TypeOK
  <2> QED
    BY <2>1, <2>2, <1>4 DEF BlockList, TypeOK
<1>5. CASE BlockSave(c)
  <2>1. call' \in [Caller -> Calls]
    BY <1>2, <1>5, GotoType DEF BlockSave, TypeOK
  <2>2. db' \in [Ip -> Row] /\ persist' \in BOOLEAN /\ disturbed' \subseteq Ip
    BY <1>1, <1>2, <1>5, OpTypes, SaveToType DEF BlockSave
  <2> QED
    BY <2>1, <2>2, <1>5 DEF BlockSave, TypeOK
<1>6. CASE UnblockKernel(c)
  <2>1. call' \in [Caller -> Calls]
    BY <1>1, <1>2, <1>6, OpTypes, GotoType DEF UnblockKernel, TypeOK
  <2> QED
    BY <2>1, <1>6 DEF UnblockKernel, TypeOK
<1>7. CASE UnblockList(c)
  <2>1. call' \in [Caller -> Calls]
    BY <1>1, <1>7, OpTypes, GotoType DEF UnblockList, TypeOK
  <2>2. memory' \in [Ip -> Row]
    BY <1>2, <1>7 DEF UnblockList, TypeOK
  <2> QED
    BY <2>1, <2>2, <1>7 DEF UnblockList, TypeOK
<1>8. CASE UnblockSave(c)
  <2>1. call' \in [Caller -> Calls]
    BY <1>2, <1>8, GotoType DEF UnblockSave, TypeOK
  <2>2. db' \in [Ip -> Row] /\ persist' \in BOOLEAN /\ disturbed' \subseteq Ip
    BY <1>1, <1>2, <1>8, OpTypes, SaveToType DEF UnblockSave
  <2> QED
    BY <2>1, <2>2, <1>8 DEF UnblockSave, TypeOK
<1> QED
  BY <1>3, <1>4, <1>5, <1>6, <1>7, <1>8 DEF CallerStep

\* Each step of the prune task keeps the types.
LEMMA PruneType ==
    ASSUME TypeOK, PruneStep
    PROVE  TypeOK'
<1>1. prune \in Passes /\ NotListed \in Row
  BY DEF TypeOK, Row
<1>2. CASE PruneSnapshot
  <2>1. Expired(memory) \subseteq Ip
    BY DEF Expired
  <2>2. prune' \in Passes /\ disturbed' \subseteq Ip
    BY <2>1, <1>2 DEF PruneSnapshot, Passes, TypeOK
  <2> QED
    BY <2>2, <1>2 DEF PruneSnapshot, TypeOK
<1>3. CASE PruneLock
  <2>1. prune' \in Passes
    BY <1>1, <1>3, PassTypes DEF PruneLock
  <2> QED
    BY <2>1, <1>3 DEF PruneLock, TypeOK
<1>4. ASSUME NEW ip \in Ip, PruneRemove(ip)
      PROVE  TypeOK'
  <2>1. [pc |-> "forget", todo |-> prune.todo, ip |-> ip] \in Passes
    BY <1>1, PassTypes DEF Passes
  <2>2. prune' \in Passes
    BY <2>1, <1>1, <1>4, PassWithoutType DEF PruneRemove
  <2> QED
    BY <2>2, <1>4 DEF PruneRemove, TypeOK
<1>5. CASE PruneForget
  <2>1. prune' \in Passes
    BY <1>1, <1>5, PassTypes DEF PruneForget
  <2>2. memory' \in [Ip -> Row]
    BY <1>1, <1>5 DEF PruneForget, TypeOK
  <2> QED
    BY <2>1, <2>2, <1>5 DEF PruneForget, TypeOK
<1>6. CASE PruneSave
  <2>1. prune' \in Passes
    BY <1>1, <1>6, PassWithoutType DEF PruneSave
  <2>2. db' \in [Ip -> Row] /\ persist' \in BOOLEAN /\ disturbed' \subseteq Ip
    BY <1>1, <1>6, PassTypes, SaveToType DEF PruneSave
  <2> QED
    BY <2>1, <2>2, <1>6 DEF PruneSave, TypeOK
<1> QED
  BY <1>2, <1>3, <1>4, <1>5, <1>6 DEF PruneStep

\* A client that goes away keeps the types.
LEMMA AbandonType ==
    ASSUME TypeOK, NEW c \in Caller, Abandon(c)
    PROVE  TypeOK'
<1>1. Idle \in Calls
  BY DEF Calls
<1>2. call' \in [Caller -> Calls]
  BY <1>1, GotoType DEF Abandon, TypeOK
<1> QED
  BY <1>2 DEF Abandon, TypeOK

\* The rows that have not expired are rows.
LEMMA UnexpiredType ==
    ASSUME db \in [Ip -> Row]
    PROVE  Unexpired \in [Ip -> Row]
BY DEF Unexpired, Row

\* What a start leaves of calls and passes is typed.
LEMMA StartingType ==
    ASSUME Starting, clock \in 1 .. MaxTime
    PROVE  clock' \in 1 .. MaxTime /\ call' \in [Caller -> Calls] /\ prune' \in Passes
BY DEF Starting, Calls, Passes, NoPass

\* A restart keeps the types.
LEMMA RestartType ==
    ASSUME TypeOK, Restart
    PROVE  TypeOK'
<1>1. NotListed \in Row /\ Unexpired \in [Ip -> Row]
  BY UnexpiredType DEF TypeOK, Row
<1>2. CASE StartLoads
  <2> DEFINE active == Listed \ Expired(db)
  <2>1. PICK restored \in SUBSET active :
          /\ kernel' = restored
          /\ memory' = [ip \in Ip |-> IF ip \in restored THEN db[ip] ELSE NotListed]
          /\ disturbed' = active \ restored
    BY <1>2 DEF StartLoads
  <2>2. db' = Unexpired /\ persist' = TRUE /\ active \subseteq Ip
    BY <1>2 DEF StartLoads, Listed
  <2> QED
    BY <1>1, <1>2, <2>1, <2>2, StartingType DEF StartLoads, TypeOK
<1>3. CASE StartUnread
  <2>1. db' \in {db, Unexpired} /\ persist' \in BOOLEAN
    BY <1>3 DEF StartUnread
  <2> QED
    BY <1>1, <1>3, <2>1, StartingType DEF StartUnread, TypeOK
<1> QED
  BY <1>2, <1>3 DEF Restart

\* Every step keeps the types.
LEMMA NextType ==
    ASSUME TypeOK, [Next]_vars
    PROVE  TypeOK'
<1>1. Never \in Entry
  BY BoundsAssumption DEF Never, Entry
<1>2. ASSUME NEW c \in Caller, NEW ip \in Ip, NEW seconds \in Seconds,
             BlockCall(c, ip, seconds)
      PROVE  TypeOK'
  <2>1. (IF clock + seconds > MaxTime THEN Never ELSE clock + seconds) \in Entry
    BY <1>1, BoundsAssumption DEF TypeOK, Entry, Never
  <2>2. [pc |-> "block", ip |-> ip,
         until |-> IF clock + seconds > MaxTime THEN Never ELSE clock + seconds] \in Calls
    BY <2>1 DEF Calls
  <2> QED
    BY <2>2, <1>2, StartsType DEF BlockCall
<1>3. ASSUME NEW c \in Caller, NEW ip \in Ip, BlockCallForever(c, ip)
      PROVE  TypeOK'
  <2>1. [pc |-> "block", ip |-> ip, until |-> Never] \in Calls
    BY <1>1 DEF Calls
  <2> QED
    BY <2>1, <1>3, StartsType DEF BlockCallForever
<1>4. ASSUME NEW c \in Caller, NEW ip \in Ip, UnblockCall(c, ip)
      PROVE  TypeOK'
  <2>1. [pc |-> "unblock", ip |-> ip] \in Calls
    BY DEF Calls
  <2> QED
    BY <2>1, <1>4, StartsType DEF UnblockCall
<1>5. CASE Tick
  BY <1>5, BoundsAssumption DEF Tick, TypeOK
<1>6. CASE UNCHANGED vars
  BY <1>6 DEF vars, TypeOK
<1> QED
  BY <1>2, <1>3, <1>4, <1>5, <1>6, CallerType, AbandonType, PruneType, RestartType DEF Next

\* Tables, operations in flight and passes keep their types (BlockEntry), for any
\* addresses, callers and durations.
THEOREM TypeCorrect == Spec => []TypeOK
<1>1. Init => TypeOK
  BY BoundsAssumption DEF Init, TypeOK, Calls, Passes, NoPass, Row
<1>2. TypeOK /\ [Next]_vars => TypeOK'
  BY NextType
<1> QED
  BY <1>1, <1>2, PTL DEF Spec

-----------------------------------------------------------------------------
(***************************************************************************)
(* Steps and the addresses they are about.                                 *)
(***************************************************************************)
\* What a step leaves alone for an address leaves it fit.
LEMMA Elsewhere ==
    ASSUME NEW ip, Fits(ip),
           ip \in kernel' <=> ip \in kernel,
           memory'[ip] = memory[ip], db'[ip] = db[ip],
           \A c \in Caller : On(c, ip)' <=> On(c, ip),
           \A c \in Caller : On(c, ip) => call'[c] = call[c],
           PruneOn(ip)' <=> PruneOn(ip),
           InHand(ip)' <=> InHand(ip),
           InHand(ip) => prune'.pc = prune.pc
    PROVE  Fits(ip)'
<1>1. Agree(ip)' <=> Agree(ip)
  BY DEF Agree
<1>2. Alone(ip)'
  BY DEF Fits, Alone
<1>3. \A c \in Caller : On(c, ip)' => CallFits(c, ip)'
  BY <1>1 DEF Fits, CallFits
<1>4. PruneOn(ip)' => PruneFits(ip)'
  BY <1>1 DEF Fits, PruneFits, InHand
<1>5. Quiet(ip) <=> Quiet(ip)'
  BY DEF Quiet, CallOn, On
<1> QED
  BY <1>1, <1>2, <1>3, <1>4, <1>5 DEF Fits

\* An address with one caller and no pass on it is fit after a step if its
\* caller is.
LEMMA OneCaller ==
    ASSUME NEW c \in Caller, NEW ip, On(c, ip)',
           \A d \in Caller : On(d, ip)' => d = c,
           ~PruneOn(ip)', CallFits(c, ip)'
    PROVE  Fits(ip)'
BY DEF Fits, Alone, Quiet, CallOn, On

\* An address with nothing on it is fit after a step if the places agree.
LEMMA NoOne ==
    ASSUME NEW ip, \A d \in Caller : ~On(d, ip)', ~PruneOn(ip)', Agree(ip)'
    PROVE  Fits(ip)'
BY DEF Fits, Alone, Quiet, CallOn, On

\* How an operation that moves on changes what is in flight.
LEMMA GotoOn ==
    ASSUME call \in [Caller -> Calls], NEW c \in Caller, NEW op, Goto(c, op)
    PROVE  /\ call'[c] = op
           /\ \A d \in Caller \ {c} : call'[d] = call[d]
BY DEF Goto

\* A caller about ip0 that moves on leaves all other addresses fit.
LEMMA CallerElsewhere ==
    ASSUME IInv, NEW c \in Caller, NEW ip0 \in Ip, NEW op, Goto(c, op),
           call[c].pc = "idle" \/ call[c].ip = ip0,
           op.pc = "idle" \/ op.ip = ip0,
           \A ip \in Ip \ {ip0} : /\ ip \in kernel' <=> ip \in kernel
                                  /\ memory'[ip] = memory[ip] /\ db'[ip] = db[ip],
           prune' = prune,
           NEW ip \in Ip \ {ip0}, Fits(ip)
    PROVE  Fits(ip)'
<1>1. /\ call'[c] = op
      /\ \A d \in Caller \ {c} : call'[d] = call[d]
  BY GotoOn DEF IInv, TypeOK
<1>2. ~On(c, ip) /\ ~On(c, ip)'
  BY <1>1 DEF On
<1>3. \A d \in Caller : (On(d, ip)' <=> On(d, ip)) /\ (On(d, ip) => call'[d] = call[d])
  BY <1>1, <1>2 DEF On
<1>4. /\ PruneOn(ip)' <=> PruneOn(ip)
      /\ InHand(ip)' <=> InHand(ip)
  BY DEF PruneOn, InHand
<1> QED
  BY <1>3, <1>4, Elsewhere

\* A database write disturbs its address or succeeds, and changes no other row.
LEMMA SaveToOther ==
    ASSUME TypeOK, NEW ip0 \in Ip, NEW row, SaveTo(ip0, row)
    PROVE  /\ \A ip \in Ip \ {ip0} : db'[ip] = db[ip]
           /\ disturbed \subseteq disturbed'
           /\ ip0 \notin disturbed' => db'[ip0] = row
BY DEF SaveTo, TypeOK

-----------------------------------------------------------------------------
(***************************************************************************)
(* Each step keeps the places fit.                                         *)
(***************************************************************************)
\* An operation begins: the address is quiet and agrees, or is disturbed from now on.
LEMMA StartsKeeps ==
    ASSUME IInv, NEW c \in Caller, NEW ip0 \in Ip, NEW op, op.ip = ip0,
           op.pc \in {"block", "unblock"}, Starts(c, ip0, op)
    PROVE  PlacesFit' /\ PassFits'
<1>1. PassFits'
  BY DEF Starts, IInv, PassFits
<1>2. SUFFICES ASSUME NEW ip \in Ip, ip \notin disturbed'
               PROVE  Fits(ip)'
  BY <1>1 DEF PlacesFit
<1>3. ip \notin disturbed /\ Fits(ip)
  BY <1>2 DEF Starts, IInv, PlacesFit
<1>4. CASE ip # ip0
  BY <1>3, <1>4, CallerElsewhere DEF Starts
<1>5. CASE ip = ip0
  <2>1. Quiet(ip) /\ Agree(ip)
    BY <1>2, <1>3, <1>5 DEF Starts, Fits
  <2>2. /\ call'[c] = op
        /\ \A d \in Caller \ {c} : call'[d] = call[d]
    BY GotoOn DEF Starts, IInv, TypeOK
  <2>3. On(c, ip)' /\ \A d \in Caller : On(d, ip)' => d = c
    BY <2>1, <2>2, <1>5 DEF On, Quiet, CallOn
  <2>4. ~PruneOn(ip)'
    BY <2>1 DEF Starts, Quiet, PruneOn
  <2>5. Agree(ip)'
    BY <2>1 DEF Starts, Agree
  <2>6. CallFits(c, ip)'
    BY <2>2, <2>5 DEF CallFits
  <2> QED
    BY <2>3, <2>4, <2>6, OneCaller
<1> QED
  BY <1>4, <1>5

\* A caller with an address that is not disturbed is alone with it, and stays so.
LEMMA CallerAlone ==
    ASSUME IInv, NEW c \in Caller, call[c].pc # "idle", NEW op, Goto(c, op), prune' = prune,
           NEW ip, ip = call[c].ip, Fits(ip)
    PROVE  /\ CallFits(c, ip)
           /\ \A d \in Caller : On(d, ip)' => d = c
           /\ ~PruneOn(ip)'
           /\ call'[c] = op
<1>1. On(c, ip) /\ CallFits(c, ip)
  BY DEF On, Fits
<1>2. \A d \in Caller : On(d, ip) => d = c
  BY <1>1 DEF Fits, Alone
<1>3. ~PruneOn(ip)'
  BY <1>1 DEF Fits, Alone, PruneOn
<1>4. /\ call'[c] = op
      /\ \A d \in Caller \ {c} : call'[d] = call[d]
  BY GotoOn DEF IInv, TypeOK
<1>5. \A d \in Caller : On(d, ip)' => d = c
  BY <1>2, <1>4 DEF On
<1> QED
  BY <1>1, <1>3, <1>4, <1>5

\* The operation of a caller goes on, and stays about its address.
LEMMA CallerGoesOn ==
    ASSUME IInv, NEW c \in Caller, call[c].pc # "idle", NEW op, Goto(c, op), prune' = prune,
           op.pc # "idle" => op.ip = call[c].ip,
           disturbed \subseteq disturbed',
           \A ip \in Ip \ {call[c].ip} : /\ ip \in kernel' <=> ip \in kernel
                                         /\ memory'[ip] = memory[ip] /\ db'[ip] = db[ip],
           ASSUME NEW ip, ip \in Ip, ip = call[c].ip, ip \notin disturbed', CallFits(c, ip),
                  call'[c] = op
           PROVE  IF op.pc = "idle" THEN Agree(ip)' ELSE CallFits(c, ip)'
    PROVE  PlacesFit' /\ PassFits'
<1>1. PassFits'
  BY DEF IInv, PassFits
<1>2. SUFFICES ASSUME NEW ip \in Ip, ip \notin disturbed'
               PROVE  Fits(ip)'
  BY <1>1 DEF PlacesFit
<1>3. Fits(ip)
  BY <1>2 DEF IInv, PlacesFit
<1>4. call[c].ip \in Ip
  BY OpTypes DEF IInv, TypeOK
<1>5. CASE ip # call[c].ip
  BY <1>3, <1>4, <1>5, CallerElsewhere
<1>6. CASE ip = call[c].ip
  <2>1. /\ CallFits(c, ip)
        /\ \A d \in Caller : On(d, ip)' => d = c
        /\ ~PruneOn(ip)'
        /\ call'[c] = op
    BY <1>3, <1>6, CallerAlone
  <2>2. CASE op.pc = "idle"
    <3>1. Agree(ip)'
      BY <1>2, <1>6, <2>1, <2>2
    <3>2. \A d \in Caller : ~On(d, ip)'
      BY <2>1, <2>2 DEF On
    <3> QED
      BY <2>1, <3>1, <3>2, NoOne
  <2>3. CASE op.pc # "idle"
    <3>1. CallFits(c, ip)'
      BY <1>2, <1>6, <2>1, <2>3
    <3>2. On(c, ip)'
      BY <1>6, <2>1, <2>3 DEF On
    <3> QED
      BY <2>1, <3>1, <3>2, OneCaller
  <2> QED
    BY <2>2, <2>3
<1> QED
  BY <1>5, <1>6

\* Each step of a caller keeps the places fit.
LEMMA CallerKeeps ==
    ASSUME IInv, NEW c \in Caller, CallerStep(c)
    PROVE  PlacesFit' /\ PassFits'
<1> USE DEF IInv
<1>0. /\ TypeOK /\ call[c] \in Calls
      /\ call[c].pc # "idle" => call[c].ip \in Ip
  BY OpTypes DEF TypeOK
<1>1. CASE BlockKernel(c)
  <2> DEFINE op == IF HasRoom(call[c].ip) THEN [call[c] EXCEPT !.pc = "list"] ELSE Idle
  <2>1. call[c].pc = "block" /\ Goto(c, op) /\ UNCHANGED <<memory, db, prune, disturbed>>
    BY <1>1 DEF BlockKernel
  <2>2. op.pc # "idle" => op.pc = "list" /\ op.ip = call[c].ip
    BY <1>0, <2>1 DEF Calls, Idle
  <2>3. kernel' = IF HasRoom(call[c].ip) THEN kernel \cup {call[c].ip} ELSE kernel
    BY <1>1 DEF BlockKernel
  <2>4. ASSUME NEW ip, ip = call[c].ip, CallFits(c, ip), call'[c] = op
        PROVE  IF op.pc = "idle" THEN Agree(ip)' ELSE CallFits(c, ip)'
    <3>1. CASE HasRoom(call[c].ip)
      <4>1. op.pc = "list"
        BY <1>0, <2>1, <3>1 DEF Calls, Idle
      <4> QED
        BY <2>3, <2>4, <3>1, <4>1 DEF CallFits
    <3>2. CASE ~HasRoom(call[c].ip)
      <4>1. op.pc = "idle"
        BY <3>2 DEF Idle
      <4> QED
        BY <2>1, <2>3, <2>4, <3>2, <4>1 DEF CallFits, Agree
    <3> QED
      BY <3>1, <3>2
  <2> HIDE DEF op
  <2> QED
    BY <2>1, <2>2, <2>3, <2>4, CallerGoesOn
<1>2. CASE BlockList(c)
  <2> DEFINE op == [call[c] EXCEPT !.pc = "save"]
  <2>1. call[c].pc = "list" /\ Goto(c, op) /\ UNCHANGED <<kernel, db, prune, disturbed>>
    BY <1>2 DEF BlockList
  <2>2. op.pc = "save" /\ op.ip = call[c].ip /\ op.until = call[c].until
    BY <1>0, <2>1 DEF Calls, Idle
  <2>3. memory' = [memory EXCEPT ![call[c].ip] = call[c].until]
    BY <1>2 DEF BlockList
  <2>4. ASSUME NEW ip \in Ip, ip = call[c].ip, CallFits(c, ip), call'[c] = op
        PROVE  CallFits(c, ip)'
    BY <1>0, <2>1, <2>2, <2>3, <2>4 DEF CallFits, TypeOK
  <2>5. \A ip \in Ip \ {call[c].ip} : memory'[ip] = memory[ip]
    BY <2>3 DEF TypeOK
  <2> HIDE DEF op
  <2> QED
    BY <2>1, <2>2, <2>4, <2>5, CallerGoesOn
<1>3. CASE BlockSave(c)
  <2>1. call[c].pc = "save" /\ Goto(c, Idle) /\ UNCHANGED <<kernel, memory, prune>>
    BY <1>3 DEF BlockSave
  <2>2. call[c].until \in Entry
    BY <1>0, <2>1, OpTypes
  <2>3. /\ \A ip \in Ip \ {call[c].ip} : db'[ip] = db[ip]
        /\ disturbed \subseteq disturbed'
        /\ call[c].ip \notin disturbed' => db'[call[c].ip] = call[c].until
    BY <1>0, <1>3, <2>1, SaveToOther DEF BlockSave
  <2>4. ASSUME NEW ip, ip = call[c].ip, ip \notin disturbed', CallFits(c, ip)
        PROVE  Agree(ip)'
    BY <2>1, <2>2, <2>3, <2>4 DEF CallFits, Agree, Entry, NotListed
  <2>5. Idle.pc = "idle"
    BY DEF Idle
  <2> QED
    BY <2>1, <2>3, <2>4, <2>5, CallerGoesOn
<1>4. CASE UnblockKernel(c)
  <2> DEFINE op == IF call[c].ip \in kernel THEN [call[c] EXCEPT !.pc = "unlist"] ELSE Idle
  <2>1. /\ call[c].pc = "unblock" /\ Goto(c, op) /\ UNCHANGED <<memory, db, prune, disturbed>>
        /\ kernel' = kernel \ {call[c].ip}
    BY <1>4 DEF UnblockKernel
  <2>2. op.pc # "idle" => op.pc = "unlist" /\ op.ip = call[c].ip
    BY <1>0, <2>1 DEF Calls, Idle
  <2>3. ASSUME NEW ip, ip = call[c].ip, CallFits(c, ip), call'[c] = op
        PROVE  IF op.pc = "idle" THEN Agree(ip)' ELSE CallFits(c, ip)'
    <3>1. CASE call[c].ip \in kernel
      <4>1. op.pc = "unlist"
        BY <1>0, <2>1, <3>1 DEF Calls, Idle
      <4> QED
        BY <2>1, <2>3, <3>1, <4>1 DEF CallFits
    <3>2. CASE call[c].ip \notin kernel
      <4>1. op.pc = "idle"
        BY <3>2 DEF Idle
      <4> QED
        BY <2>1, <2>3, <3>2, <4>1 DEF CallFits, Agree
    <3> QED
      BY <3>1, <3>2
  <2> HIDE DEF op
  <2> QED
    BY <2>1, <2>2, <2>3, CallerGoesOn
<1>5. CASE UnblockList(c)
  <2> DEFINE op == [call[c] EXCEPT !.pc = "unsave"]
  <2>1. call[c].pc = "unlist" /\ Goto(c, op) /\ UNCHANGED <<kernel, db, prune, disturbed>>
    BY <1>5 DEF UnblockList
  <2>2. op.pc = "unsave" /\ op.ip = call[c].ip
    BY <1>0, <2>1 DEF Calls, Idle
  <2>3. memory' = [memory EXCEPT ![call[c].ip] = NotListed]
    BY <1>5 DEF UnblockList
  <2>4. ASSUME NEW ip \in Ip, ip = call[c].ip, CallFits(c, ip), call'[c] = op
        PROVE  CallFits(c, ip)'
    BY <1>0, <2>1, <2>2, <2>3, <2>4 DEF CallFits, TypeOK
  <2>5. \A ip \in Ip \ {call[c].ip} : memory'[ip] = memory[ip]
    BY <2>3 DEF TypeOK
  <2> HIDE DEF op
  <2> QED
    BY <2>1, <2>2, <2>4, <2>5, CallerGoesOn
<1>6. CASE UnblockSave(c)
  <2>1. call[c].pc = "unsave" /\ Goto(c, Idle) /\ UNCHANGED <<kernel, memory, prune>>
    BY <1>6 DEF UnblockSave
  <2>2. /\ \A ip \in Ip \ {call[c].ip} : db'[ip] = db[ip]
        /\ disturbed \subseteq disturbed'
        /\ call[c].ip \notin disturbed' => db'[call[c].ip] = NotListed
    BY <1>0, <1>6, <2>1, SaveToOther DEF UnblockSave
  <2>3. ASSUME NEW ip, ip = call[c].ip, ip \notin disturbed', CallFits(c, ip)
        PROVE  Agree(ip)'
    BY <2>1, <2>2, <2>3 DEF CallFits, Agree
  <2>4. Idle.pc = "idle"
    BY DEF Idle
  <2> QED
    BY <2>1, <2>2, <2>3, <2>4, CallerGoesOn
<1> QED
  BY <1>1, <1>2, <1>3, <1>4, <1>5, <1>6 DEF CallerStep

\* What the prune task leaves alone for an address leaves it fit.
LEMMA PruneElsewhere ==
    ASSUME NEW ip, Fits(ip), call' = call,
           ip \in kernel' <=> ip \in kernel,
           memory'[ip] = memory[ip], db'[ip] = db[ip],
           PruneOn(ip)' <=> PruneOn(ip), ~InHand(ip), ~InHand(ip)'
    PROVE  Fits(ip)'
<1>1. \A c \in Caller : (On(c, ip)' <=> On(c, ip)) /\ call'[c] = call[c]
  BY DEF On
<1> QED
  BY <1>1, Elsewhere

\* An address the pass is on, and no caller, is fit after a step if the pass is.
LEMMA OnlyPass ==
    ASSUME NEW ip, Fits(ip), call' = call, PruneOn(ip), PruneOn(ip)', PruneFits(ip)'
    PROVE  Fits(ip)'
<1>1. \A c \in Caller : ~On(c, ip) /\ ~On(c, ip)'
  BY DEF Fits, Alone, On
<1> QED
  BY <1>1 DEF Fits, Alone, Quiet

\* An address the pass has done with is fit after the step if the places agree.
LEMMA PassOver ==
    ASSUME NEW ip, Fits(ip), call' = call, PruneOn(ip), ~PruneOn(ip)', Agree(ip)'
    PROVE  Fits(ip)'
<1>1. \A c \in Caller : ~On(c, ip)'
  BY DEF Fits, Alone, On
<1> QED
  BY <1>1, NoOne

\* What remains of a pass.
LEMMA PassWithoutFits ==
    ASSUME NEW ip, ip \in prune.todo, prune' = PassWithout(ip)
    PROVE  /\ PassFits'
           /\ \A other : PruneOn(other)' <=> PruneOn(other) /\ other # ip
           /\ \A other : ~InHand(other)'
BY DEF PassWithout, NoPass, PassFits, PruneOn, InHand

\* Each step of the prune task keeps the places fit.
LEMMA PruneKeeps ==
    ASSUME IInv, PruneStep
    PROVE  PlacesFit' /\ PassFits'
<1> USE DEF IInv
<1>0. TypeOK /\ PassFits /\ prune \in Passes
  BY DEF TypeOK
<1>1. CASE PruneSnapshot
  <2>1. /\ prune.pc = "idle" /\ prune.todo = {}
        /\ prune'.pc = "wait" /\ prune'.todo = Expired(memory)
        /\ UNCHANGED <<kernel, memory, db, call>>
        /\ disturbed' = disturbed \cup {ip \in Expired(memory) : CallOn(ip)}
    BY <1>0, <1>1 DEF PruneSnapshot, PassFits
  <2>2. PassFits'
    BY <2>1 DEF PassFits
  <2>3. SUFFICES ASSUME NEW ip \in Ip, ip \notin disturbed'
                 PROVE  Fits(ip)'
    BY <2>2 DEF PlacesFit
  <2>4. Fits(ip)
    BY <2>1, <2>3 DEF PlacesFit
  <2>5. ~PruneOn(ip) /\ ~InHand(ip) /\ ~InHand(ip)'
    BY <2>1 DEF PruneOn, InHand
  <2>6. CASE ip \notin Expired(memory)
    <3>1. ~PruneOn(ip)'
      BY <2>1, <2>6 DEF PruneOn
    <3> QED
      BY <2>1, <2>4, <2>5, <3>1, PruneElsewhere
  <2>7. CASE ip \in Expired(memory)
    <3>1. ~CallOn(ip)
      BY <2>1, <2>3, <2>7
    <3>2. Agree(ip)
      BY <2>4, <2>5, <3>1 DEF Fits, Quiet
    <3>3. \A c \in Caller : ~On(c, ip)'
      BY <2>1, <3>1 DEF CallOn, On
    <3>4. PruneOn(ip)' /\ Agree(ip)'
      BY <2>1, <2>7, <3>2 DEF PruneOn, Agree
    <3>5. PruneFits(ip)'
      BY <2>5, <3>4 DEF PruneFits
    <3> QED
      BY <3>3, <3>4, <3>5 DEF Fits, Alone, Quiet
  <2> QED
    BY <2>6, <2>7
<1>2. CASE PruneLock
  <2>1. /\ prune.pc = "wait" /\ prune'.pc = "remove" /\ prune'.todo = prune.todo
        /\ UNCHANGED <<kernel, memory, db, call, disturbed>>
    BY <1>0, <1>2 DEF PruneLock, Passes
  <2>2. PassFits'
    BY <2>1 DEF PassFits
  <2>3. \A ip : ~InHand(ip) /\ ~InHand(ip)' /\ (PruneOn(ip)' <=> PruneOn(ip))
    BY <2>1 DEF InHand, PruneOn
  <2> QED
    BY <2>1, <2>2, <2>3, PruneElsewhere DEF PlacesFit
<1>3. ASSUME NEW ip0 \in Ip, PruneRemove(ip0)
      PROVE  PlacesFit' /\ PassFits'
  <2>1. /\ prune.pc = "remove" /\ ip0 \in prune.todo
        /\ kernel' = kernel \ {ip0}
        /\ UNCHANGED <<memory, db, call, disturbed>>
    BY <1>3 DEF PruneRemove
  <2>2. \A ip : ~InHand(ip)
    BY <2>1 DEF InHand
  <2>3. CASE ip0 \in kernel
    <3>1. prune' = [pc |-> "forget", todo |-> prune.todo, ip |-> ip0]
      BY <1>3, <2>3 DEF PruneRemove
    <3>2. PassFits'
      BY <2>1, <3>1 DEF PassFits
    <3>3. SUFFICES ASSUME NEW ip \in Ip, ip \notin disturbed'
                   PROVE  Fits(ip)'
      BY <3>2 DEF PlacesFit
    <3>4. Fits(ip)
      BY <2>1, <3>3 DEF PlacesFit
    <3>5. PruneOn(ip)' <=> PruneOn(ip)
      BY <3>1 DEF PruneOn
    <3>6. CASE ip # ip0
      <4>1. ~InHand(ip)'
        BY <3>1, <3>6 DEF InHand
      <4> QED
        BY <2>1, <2>2, <3>4, <3>5, <3>6, <4>1, PruneElsewhere
    <3>7. CASE ip = ip0
      <4>1. PruneOn(ip) /\ PruneOn(ip)'
        BY <2>1, <3>5, <3>7 DEF PruneOn
      <4>2. PruneFits(ip)'
        BY <2>1, <3>1, <3>7 DEF PruneFits, InHand
      <4> QED
        BY <2>1, <3>4, <4>1, <4>2, OnlyPass
    <3> QED
      BY <3>6, <3>7
  <2>4. CASE ip0 \notin kernel
    <3>1. /\ PassFits'
          /\ \A ip : PruneOn(ip)' <=> PruneOn(ip) /\ ip # ip0
          /\ \A ip : ~InHand(ip)'
      BY <1>3, <2>1, <2>4, PassWithoutFits DEF PruneRemove
    <3>2. SUFFICES ASSUME NEW ip \in Ip, ip \notin disturbed'
                   PROVE  Fits(ip)'
      BY <3>1 DEF PlacesFit
    <3>3. Fits(ip)
      BY <2>1, <3>2 DEF PlacesFit
    <3>4. CASE ip # ip0
      BY <2>1, <2>2, <3>1, <3>3, <3>4, PruneElsewhere
    <3>5. CASE ip = ip0
      <4>1. PruneOn(ip) /\ ~PruneOn(ip)'
        BY <2>1, <3>1, <3>5 DEF PruneOn
      <4>2. Agree(ip)
        BY <2>2, <3>3, <4>1 DEF Fits, PruneFits
      <4>3. Agree(ip)'
        BY <2>1, <2>4, <3>5, <4>2 DEF Agree
      <4> QED
        BY <2>1, <3>3, <4>1, <4>3, PassOver
    <3> QED
      BY <3>4, <3>5
  <2> QED
    BY <2>3, <2>4
<1>4. CASE PruneForget
  <2>1. /\ prune.pc = "forget" /\ prune'.pc = "unsave"
        /\ prune'.todo = prune.todo /\ prune'.ip = prune.ip
        /\ memory' = [memory EXCEPT ![prune.ip] = NotListed]
        /\ UNCHANGED <<kernel, db, call, disturbed>>
    BY <1>0, <1>4 DEF PruneForget, Passes
  <2>2. PassFits' /\ prune.ip \in prune.todo
    BY <1>0, <2>1 DEF PassFits
  <2>3. SUFFICES ASSUME NEW ip \in Ip, ip \notin disturbed'
                 PROVE  Fits(ip)'
    BY <2>2 DEF PlacesFit
  <2>4. Fits(ip)
    BY <2>1, <2>3 DEF PlacesFit
  <2>5. PruneOn(ip)' <=> PruneOn(ip)
    BY <2>1 DEF PruneOn
  <2>6. CASE ip # prune.ip
    <3>1. ~InHand(ip) /\ ~InHand(ip)' /\ memory'[ip] = memory[ip]
      BY <1>0, <2>1, <2>6 DEF InHand, TypeOK
    <3> QED
      BY <2>1, <2>4, <2>5, <3>1, PruneElsewhere
  <2>7. CASE ip = prune.ip
    <3>1. InHand(ip) /\ InHand(ip)' /\ PruneOn(ip)
      BY <2>1, <2>2, <2>7 DEF InHand, PruneOn
    <3>2. ip \notin kernel' /\ memory'[ip] = NotListed
      BY <1>0, <2>1, <2>4, <2>7, <3>1 DEF Fits, PruneFits, TypeOK
    <3>3. PruneFits(ip)'
      BY <3>1, <3>2 DEF PruneFits
    <3> QED
      BY <2>1, <2>4, <2>5, <3>1, <3>3, OnlyPass
  <2> QED
    BY <2>6, <2>7
<1>5. CASE PruneSave
  <2>1. /\ prune.pc = "unsave" /\ prune' = PassWithout(prune.ip)
        /\ UNCHANGED <<kernel, memory, call>>
        /\ prune.ip \in prune.todo /\ prune.ip \in Ip
    BY <1>0, <1>5, PassTypes DEF PruneSave, PassFits
  <2>2. /\ PassFits'
        /\ \A ip : PruneOn(ip)' <=> PruneOn(ip) /\ ip # prune.ip
        /\ \A ip : ~InHand(ip)'
    BY <2>1, PassWithoutFits
  <2>3. /\ \A ip \in Ip \ {prune.ip} : db'[ip] = db[ip]
        /\ disturbed \subseteq disturbed'
        /\ prune.ip \notin disturbed' => db'[prune.ip] = NotListed
    BY <1>0, <1>5, <2>1, SaveToOther DEF PruneSave
  <2>4. SUFFICES ASSUME NEW ip \in Ip, ip \notin disturbed'
                 PROVE  Fits(ip)'
    BY <2>2 DEF PlacesFit
  <2>5. Fits(ip)
    BY <2>3, <2>4 DEF PlacesFit
  <2>6. CASE ip # prune.ip
    <3>1. ~InHand(ip)
      BY <2>6 DEF InHand
    <3> QED
      BY <2>1, <2>2, <2>3, <2>5, <2>6, <3>1, PruneElsewhere
  <2>7. CASE ip = prune.ip
    <3>1. InHand(ip) /\ PruneOn(ip) /\ ~PruneOn(ip)'
      BY <2>1, <2>2, <2>7 DEF InHand, PruneOn
    <3>2. ip \notin kernel /\ memory[ip] = NotListed
      BY <2>1, <2>5, <3>1 DEF Fits, PruneFits
    <3>3. Agree(ip)'
      BY <2>1, <2>3, <2>4, <2>7, <3>2 DEF Agree
    <3> QED
      BY <2>1, <2>5, <3>1, <3>3, PassOver
  <2> QED
    BY <2>6, <2>7
<1> QED
  BY <1>1, <1>2, <1>3, <1>4, <1>5 DEF PruneStep

\* A client that goes away leaves the places as they were.
LEMMA AbandonKeeps ==
    ASSUME IInv, NEW c \in Caller, Abandon(c)
    PROVE  PlacesFit' /\ PassFits'
<1>1. /\ call[c].pc \in {"block", "unblock"} /\ Goto(c, Idle) /\ Idle.pc = "idle"
      /\ UNCHANGED <<kernel, memory, db, prune, disturbed>>
  BY DEF Abandon, Idle
<1>2. ASSUME NEW ip, CallFits(c, ip)
      PROVE  Agree(ip)'
  BY <1>1, <1>2 DEF CallFits, Agree
<1> QED
  BY <1>1, <1>2, CallerGoesOn

\* After a start nothing is in flight: an address is fit if the places agree.
LEMMA StartingFits ==
    ASSUME Starting, NEW ip, Agree(ip)'
    PROVE  PassFits' /\ Fits(ip)'
BY NoOne DEF Starting, PassFits, NoPass, On, PruneOn, Idle

\* A restart leaves the places agreeing, but for rows that were not loaded.
LEMMA RestartKeeps ==
    ASSUME IInv, Restart
    PROVE  PlacesFit' /\ PassFits'
<1>1. Starting
  BY DEF Restart, StartLoads, StartUnread
<1>2. SUFFICES ASSUME NEW ip \in Ip, ip \notin disturbed'
               PROVE  Agree(ip)'
  <2>1. PassFits'
    BY <1>1 DEF Starting, PassFits, NoPass
  <2> QED
    BY <1>1, <1>2, <2>1, StartingFits DEF PlacesFit
<1>3. CASE StartLoads
  <2> DEFINE active == Listed \ Expired(db)
  <2>1. PICK restored \in SUBSET active :
          /\ kernel' = restored
          /\ memory' = [x \in Ip |-> IF x \in restored THEN db[x] ELSE NotListed]
          /\ disturbed' = active \ restored
    BY <1>3 DEF StartLoads
  <2>2. db' = Unexpired
    BY <1>3 DEF StartLoads
  <2> QED
    BY <1>2, <2>1, <2>2 DEF Agree, Unexpired, Listed
<1>4. CASE StartUnread
  BY <1>2, <1>4 DEF StartUnread, Agree
<1> QED
  BY <1>3, <1>4 DEF Restart

\* Every step keeps the places fit.
LEMMA NextKeeps ==
    ASSUME IInv, [Next]_vars
    PROVE  IInv'
<1>1. TypeOK'
  BY NextType DEF IInv
<1> SUFFICES PlacesFit' /\ PassFits'
  BY <1>1 DEF IInv
<1>2. ASSUME NEW c \in Caller, NEW ip \in Ip,
             \/ \E seconds \in Seconds : BlockCall(c, ip, seconds)
             \/ BlockCallForever(c, ip)
             \/ UnblockCall(c, ip)
      PROVE  PlacesFit' /\ PassFits'
  <2>1. PICK op : op.ip = ip /\ op.pc \in {"block", "unblock"} /\ Starts(c, ip, op)
    BY <1>2 DEF BlockCall, BlockCallForever, UnblockCall
  <2> QED
    BY <2>1, StartsKeeps
<1>3. CASE Tick \/ UNCHANGED vars
  <2>1. UNCHANGED <<kernel, memory, db, call, prune, disturbed>>
    BY <1>3 DEF Tick, vars
  <2>2. PassFits'
    BY <2>1 DEF IInv, PassFits
  <2>3. ASSUME NEW ip \in Ip \ disturbed
        PROVE  Fits(ip)'
    <3>1. Fits(ip)
      BY DEF IInv, PlacesFit
    <3>2. \A c \in Caller : (On(c, ip)' <=> On(c, ip)) /\ call'[c] = call[c]
      BY <2>1 DEF On
    <3>3. (PruneOn(ip)' <=> PruneOn(ip)) /\ (InHand(ip)' <=> InHand(ip))
      BY <2>1 DEF PruneOn, InHand
    <3> QED
      BY <2>1, <3>1, <3>2, <3>3, Elsewhere
  <2> QED
    BY <2>1, <2>2, <2>3 DEF PlacesFit
<1>4. CASE \E c \in Caller : CallerStep(c) \/ Abandon(c)
  BY <1>4, CallerKeeps, AbandonKeeps
<1>5. CASE PruneStep
  BY <1>5, PruneKeeps
<1>6. CASE Restart
  BY <1>6, RestartKeeps
<1> QED
  BY <1>2, <1>3, <1>4, <1>5, <1>6 DEF Next

\* At the start nothing is listed and nothing in flight.
LEMMA InitFits == Init => IInv
<1>1. Init => TypeOK
  BY BoundsAssumption DEF Init, TypeOK, Calls, Passes, NoPass, Row
<1>2. Init => PassFits /\ PlacesFit
  BY DEF Init, PassFits, PlacesFit, Fits, Alone, On, Agree, Quiet, CallOn, PruneOn, NoPass, Idle
<1> QED
  BY <1>1, <1>2 DEF IInv

-----------------------------------------------------------------------------
\* Kernel map, table and database agree on every quiet address on which operations
\* have not overlapped and no write has failed, for any number of callers.
THEOREM PlacesCorrect == Spec => []PlacesAgree
<1>1. IInv /\ [Next]_vars => IInv'
  BY NextKeeps
<1>2. IInv => PlacesAgree
  BY DEF IInv, PlacesFit, Fits, Agree, PlacesAgree
<1> QED
  BY <1>1, <1>2, InitFits, PTL DEF Spec

\* A start that loads the rows into a map with room for all of them blocks those
\* that have not expired.
LEMMA LoadRestores ==
    ASSUME TypeOK, StartLoads, Cardinality(Listed) <= BlockedMax
    PROVE  kernel' = Listed \ Expired(db)
<1> DEFINE active == Listed \ Expired(db)
<1>1. PICK restored \in SUBSET active :
        /\ \/ restored = active
           \/ Cardinality(restored) = BlockedMax
        /\ kernel' = restored
  BY DEF StartLoads
<1>2. IsFiniteSet(Listed) /\ IsFiniteSet(active)
  BY BoundsAssumption, FS_Subset DEF Listed
<1>3. /\ Cardinality(restored) \in Nat /\ Cardinality(active) \in Nat /\ Cardinality(Listed) \in Nat
      /\ Cardinality(active) <= Cardinality(Listed)
      /\ Cardinality(restored) <= Cardinality(active)
      /\ Cardinality(restored) = Cardinality(active) => restored = active
  BY <1>2, FS_Subset, FS_CardinalityType
<1>4. restored = active
  BY <1>1, <1>3, BoundsAssumption
<1> QED
  BY <1>1, <1>4

\* No start, whether it reads the rows or not, deletes one that has not expired.
LEMMA StartKeepsRow ==
    ASSUME Restart, NEW ip \in Ip, ip \notin Expired(db)
    PROVE  db'[ip] = db[ip]
BY DEF Restart, StartLoads, StartUnread, Unexpired

\* A block nothing has disturbed outlives a crash of the daemon: its row stays
\* until a start reads it, and a start that does blocks the address again, for
\* any size of the map that holds the rows.
THEOREM RestartCorrect == Spec => BlocksSurviveRestart
<1>1. IInv /\ [Next]_vars => IInv'
  BY NextKeeps
<1>2. ASSUME IInv, Restart, NEW ip \in kernel \ disturbed, Quiet(ip), ip \notin Expired(memory)
      PROVE  /\ db'[ip] = memory[ip]
             /\ StartLoads /\ Cardinality(Listed) <= BlockedMax => ip \in kernel'
  <2>1. ip \in Ip /\ TypeOK
    BY <1>2 DEF IInv, TypeOK
  <2>2. memory[ip] # NotListed /\ db[ip] = memory[ip]
    BY <1>2, <2>1 DEF IInv, PlacesFit, Fits, Agree
  <2>3. ip \notin Expired(db)
    BY <1>2, <2>1, <2>2 DEF Expired
  <2>4. db'[ip] = memory[ip]
    BY <1>2, <2>1, <2>2, <2>3, StartKeepsRow
  <2>5. ASSUME StartLoads, Cardinality(Listed) <= BlockedMax
        PROVE  ip \in kernel'
    BY <2>1, <2>2, <2>3, <2>5, LoadRestores DEF Listed
  <2> QED
    BY <2>4, <2>5
<1>3. IInv /\ [Next]_vars
        => [Restart =>
              \A ip \in kernel \ disturbed :
                  Quiet(ip) /\ ip \notin Expired(memory) =>
                     /\ db'[ip] = memory[ip]
                     /\ StartLoads /\ Cardinality(Listed) <= BlockedMax => ip \in kernel']_vars
  BY <1>2
<1> QED
  BY <1>1, <1>3, InitFits, PTL DEF Spec, BlocksSurviveRestart
=============================================================================
