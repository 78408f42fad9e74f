---------------------------- MODULE ConntrackProofs ----------------------------
(***************************************************************************)
(* Theorems about Conntrack, ConntrackReconcile and ConntrackLimits, for   *)
(* every set of five-tuples, every limit and every capacity of the maps.   *)
(*                                                                         *)
(* The argument about packets goes through one lemma, StepShape: whatever  *)
(* its handler, a step either leaves the table and the counters alone or   *)
(* writes a single entry and charges, or refunds, its source for exactly   *)
(* the change of the entry's "counted" bits.  The recount is followed with *)
(* an invariant of its own (RInv), and both meet in the invariant of the   *)
(* limits (LInv).                                                          *)
(***************************************************************************)
EXTENDS ConntrackLimits, FiniteSetTheorems, TLAPS

HoldsConn(v) == v.conn /\ ~v.nat

\* How a step that writes entry v at key k moves CONN_COUNT.
ConnCharge(k, v) ==
    \/ /\ connCount' = connCount
       /\ HoldsConn(v) => HoldsConn(ct[k])
    \/ /\ connCount' = Dec(connCount, SrcIp(k))
       /\ HoldsConn(ct[k])
       /\ ~HoldsConn(v)
    \/ /\ connCount' = Inc(connCount, SrcIp(k))
       /\ Count(connCount, SrcIp(k)) < MaxConns[SrcIp(k)]

\* How it moves SYN_COUNT.
SynCharge(k, v) ==
    \/ /\ synCount' = synCount
       /\ v.syn => ct[k].syn
    \/ /\ synCount' = Dec(synCount, SrcIp(k))
       /\ ct[k].syn
       /\ ~v.syn
    \/ /\ synCount' = Inc(synCount, SrcIp(k))
       /\ Count(synCount, SrcIp(k)) < MaxHalfOpen

\* An entry whose "counted" bits fit its state.
Fits(k, v) ==
    /\ v.syn => v.state \in HalfOpenStates /\ ~v.nat
    /\ v.conn /\ ~v.nat => v.state \notin {"NONE", "TIME_WAIT"}
    /\ v.state \in HalfOpenStates /\ Checked(k) /\ MaxHalfOpen > 0 => v.syn
    /\ IF k.proto = "TCP" THEN v.state \in HalfOpenStates \cup SettledStates \cup {"NONE"}
       ELSE v.state \notin HalfOpenStates

EntriesFit == \A k \in Flows : Fits(k, ct[k])

Writes(k, v) ==
    /\ ct' = [ct EXCEPT ![k] = v]
    /\ Live(k) /\ ct[k].state \in SettledStates => v.state \notin HalfOpenStates
    /\ Fits(k, ct[k]) => Fits(k, v)
    /\ ConnCharge(k, v)
    /\ SynCharge(k, v)

Idles == UNCHANGED <<ct, connCount, synCount>>

-----------------------------------------------------------------------------
(***************************************************************************)
(* Types.                                                                  *)
(***************************************************************************)
\* The TCP state machine and the initial state stay within the states of CtValue.
LEMMA StepTypes ==
    ASSUME NEW flags, NEW reply, NEW cur \in CtState, NEW proto
    PROVE  /\ ct_tcp_step(flags, reply, cur) \in CtState
           /\ ct_initial_state(proto, flags) \in CtState
  BY DEF ct_tcp_step, ct_initial_state, CtState, HalfOpenStates, SettledStates

\* Reversing a five-tuple stays among the flows, and its source has an address.
LEMMA FlowTypes ==
    ASSUME NEW f \in Flows
    PROVE  /\ Reverse(f) \in Flows
           /\ SrcIp(f) \in Ip
           /\ DnatHit(f) => DnatReplyKey(f) \in Flows
  BY FlowsAssumption DEF SrcIp, FiveTuple

\* What Put does to a counter map.
LEMMA PutTypes ==
    ASSUME NEW map, IsCountMap(map), NEW ip \in Ip, NEW n \in Nat
    PROVE  /\ IsCountMap(Put(map, ip, n))
           /\ ip \in DOMAIN Put(map, ip, n) => Count(Put(map, ip, n), ip) = n
           /\ ip \notin DOMAIN Put(map, ip, n) => Put(map, ip, n) = map
           /\ \A j : j # ip => Count(Put(map, ip, n), j) = Count(map, j)
<1>1. CASE Put(map, ip, n) = map /\ ip \notin DOMAIN map
  BY <1>1
<1> DEFINE new == [key \in DOMAIN map \cup {ip} |-> IF key = ip THEN n ELSE map[key]]
<1>2. CASE Put(map, ip, n) = new
  <2>1. DOMAIN new = DOMAIN map \cup {ip}
    OBVIOUS
  <2>2. IsCountMap(new)
    BY DEF IsCountMap
  <2>3. Count(new, ip) = n /\ \A j : j # ip => Count(new, j) = Count(map, j)
    BY <2>1 DEF Count
  <2> HIDE DEF new
  <2> QED
    BY <1>2, <2>1, <2>2, <2>3
<1> QED
  BY <1>1, <1>2 DEF Put

\* Charging and refunding an address keep the counter maps, and leave the other
\* addresses alone; a charge may be lost, and then the address has no key.
LEMMA CountTypes ==
    ASSUME NEW map, IsCountMap(map), NEW ip \in Ip
    PROVE  /\ IsCountMap(Inc(map, ip)) /\ IsCountMap(Dec(map, ip))
           /\ \A j : Count(map, j) \in Nat
           /\ \A j : j # ip => /\ Count(Inc(map, ip), j) = Count(map, j)
                               /\ Count(Dec(map, ip), j) = Count(map, j)
           /\ Count(Inc(map, ip), ip) >= Count(map, ip)
           /\ ip \in DOMAIN Inc(map, ip) => Count(Inc(map, ip), ip) = Count(map, ip) + 1
           /\ Count(Dec(map, ip), ip) = IF Count(map, ip) > 0 THEN Count(map, ip) - 1 ELSE 0
<1>1. \A j : Count(map, j) \in Nat
  BY DEF Count, IsCountMap
<1> DEFINE inc == Put(map, ip, Count(map, ip) + 1)
<1>2. /\ IsCountMap(inc)
      /\ ip \in DOMAIN inc => Count(inc, ip) = Count(map, ip) + 1
      /\ ip \notin DOMAIN inc => inc = map
      /\ \A j : j # ip => Count(inc, j) = Count(map, j)
  BY <1>1, PutTypes
<1>3. Inc(map, ip) = inc
  BY DEF Inc
<1> HIDE DEF inc
<1>4. Count(inc, ip) >= Count(map, ip)
  BY <1>1, <1>2
<1>5. /\ IsCountMap(Dec(map, ip))
      /\ \A j : j # ip => Count(Dec(map, ip), j) = Count(map, j)
      /\ Count(Dec(map, ip), ip) = IF Count(map, ip) > 0 THEN Count(map, ip) - 1 ELSE 0
  <2>1. CASE Count(map, ip) = 0
    BY <2>1 DEF Dec
  <2>2. CASE Count(map, ip) # 0
    <3>1. ip \in DOMAIN map /\ Count(map, ip) = map[ip] /\ map[ip] \in Nat /\ map[ip] > 0
      BY <1>1, <2>2 DEF Count, IsCountMap
    <3>2. Dec(map, ip) = [map EXCEPT ![ip] = map[ip] - 1] /\ map[ip] - 1 \in Nat
      BY <3>1 DEF Dec
    <3> QED
      BY <3>1, <3>2 DEF Count, IsCountMap
  <2> QED
    BY <2>1, <2>2
<1> QED
  BY <1>1, <1>2, <1>3, <1>4, <1>5

\* What a packet leaves of its entry is an entry.
LEMMA TouchedType ==
    ASSUME NEW e \in CtValue, NEW new \in CtState
    PROVE  Touched(e, new) \in CtValue
<1> DEFINE syn  == e.syn /\ ~ReturnsHalfOpen(e, new)
           conn == e.conn /\ ~ReturnsConn(e, new)
<1>1. syn \in BOOLEAN /\ conn \in BOOLEAN
  OBVIOUS
<1>2. Touched(e, new) = [e EXCEPT !.state = new, !.syn = syn, !.conn = conn, !.idle = FALSE]
  BY DEF Touched
<1> HIDE DEF syn, conn
<1> QED
  BY <1>1, <1>2 DEF CtValue

\* A step, whatever its handler, keeps the types.
LEMMA TypeStep == TypeOK /\ [Next]_vars => TypeOK'
<1> SUFFICES ASSUME TypeOK, [Next]_vars
             PROVE  TypeOK'
  OBVIOUS
<1>1. ASSUME NEW k \in Flows, NEW flags, NEW reply, Live(k), TrackedPacket(k, flags, reply)
      PROVE  TypeOK'
  <2> DEFINE new == IF k.proto = "TCP" THEN ct_tcp_step(flags, reply, ct[k].state)
                    ELSE ct[k].state
  <2>1. ct[k] \in CtValue /\ ct[k].state \in CtState
    BY <1>1 DEF TypeOK, Live, Present, CtValue
  <2>2. new \in CtState
    BY <2>1, StepTypes
  <2>3. Touched(ct[k], new) \in CtValue
    BY <2>1, <2>2, TouchedType
  <2>4. /\ ct' = [ct EXCEPT ![k] = Touched(ct[k], new)]
        /\ synCount' \in {synCount, Dec(synCount, SrcIp(k))}
        /\ connCount' \in {connCount, Dec(connCount, SrcIp(k))}
        /\ UNCHANGED <<expect, daemon>>
    BY <1>1 DEF TrackedPacket
  <2> QED
    BY <2>3, <2>4, FlowTypes, CountTypes DEF TypeOK
<1>2. ASSUME NEW p \in Flows, NEW flags \in TcpFlags, ForwardPacket(p, flags)
      PROVE  TypeOK'
  BY <1>1, <1>2 DEF ForwardPacket
<1>3. ASSUME NEW p \in Flows, NEW flags \in TcpFlags, ReplyPacket(p, flags)
      PROVE  TypeOK'
  BY <1>1, <1>3, FlowTypes DEF ReplyPacket
<1>4. ASSUME NEW p \in Flows, NEW flags \in TcpFlags, AlgPacket(p, flags)
      PROVE  TypeOK'
  <2>1. CtNew(ct_initial_state(p.proto, flags), FALSE, FALSE) \in CtValue
    BY StepTypes DEF CtNew, CtValue, CtState
  <2> QED
    BY <1>4, <2>1 DEF AlgPacket, TypeOK
<1>5. ASSUME NEW p \in Flows, NEW flags \in TcpFlags, NewFlow(p, flags)
      PROVE  TypeOK'
  <2> DEFINE initial == ct_initial_state(p.proto, flags)
             syn  == initial = "SYN_SENT" /\ MaxHalfOpen > 0
             conn == MaxConns[SrcIp(p)] > 0
  <2>1. CtNew(initial, syn, conn) \in CtValue
    <3>1. initial \in CtState
      BY StepTypes DEF CtState
    <3> HIDE DEF initial
    <3> QED
      BY <3>1 DEF CtNew, CtValue
  <2>2. /\ ct' = [ct EXCEPT ![p] = CtNew(initial, syn, conn)]
        /\ synCount' \in {synCount, Inc(synCount, SrcIp(p))}
        /\ connCount' \in {connCount, Inc(connCount, SrcIp(p))}
        /\ UNCHANGED <<expect, daemon>>
    BY <1>5 DEF NewFlow
  <2> QED
    BY <2>1, <2>2, FlowTypes, CountTypes DEF TypeOK
<1>6. ASSUME NEW p \in Flows, DnatPacket(p)
      PROVE  TypeOK'
  BY <1>6, FlowTypes DEF DnatPacket, TypeOK, NatReply, CtValue, CtState, SettledStates
<1>7. ASSUME NEW q \in WanEgress, TcEgress(q)
      PROVE  TypeOK'
  BY <1>7, FlowTypes, FlowsAssumption DEF TcEgress, TypeOK, NatReply, CtValue, CtState, SettledStates
<1>8. ASSUME NEW a \in AlgKeys, AlgLearn(a) \/ AlgTimeout(a)
      PROVE  TypeOK'
  BY <1>8 DEF AlgLearn, AlgTimeout, TypeOK
<1>9. CASE PruneBegin
  BY <1>9 DEF PruneBegin, TypeOK, Jobs
<1>10. ASSUME NEW S \in SUBSET Flows, DeleteBegin(S)
       PROVE  TypeOK'
  BY <1>10 DEF DeleteBegin, TypeOK, Jobs
<1>11. ASSUME NEW k \in Flows, RemoveNext(k)
       PROVE  TypeOK'
  BY <1>11 DEF RemoveNext, TypeOK, NoEntry, CtValue, FreeLock, Jobs
<1>12. ASSUME NEW k \in Flows, Expire(k)
       PROVE  TypeOK'
  <2>1. ct \in [Flows -> CtValue]  BY DEF TypeOK
  <2>2. [ct[k] EXCEPT !.idle = TRUE] \in CtValue  BY <2>1 DEF CtValue
  <2>3. /\ ct' = [ct EXCEPT ![k] = [ct[k] EXCEPT !.idle = TRUE]]
        /\ UNCHANGED <<connCount, synCount, expect, daemon>>
    BY <1>12 DEF Expire
  <2>4. ct' \in [Flows -> CtValue]  BY <2>1, <2>2, <2>3
  <2> QED  BY <2>3, <2>4 DEF TypeOK
<1>13. CASE UNCHANGED vars
  BY <1>13 DEF vars, TypeOK
<1> QED
  BY <1>2, <1>3, <1>4, <1>5, <1>6, <1>7, <1>8, <1>9, <1>10, <1>11, <1>12, <1>13
  DEF Next, Packet, Daemon

\* So do empty tables.
LEMMA TypeInit == IsCountMap(NoCounts) /\ (Init => TypeOK)
<1>1. IsCountMap(NoCounts)
  BY DEF IsCountMap, NoCounts
<1>2. NoEntry \in CtValue /\ FreeLock \in [job : Jobs, todo : SUBSET Flows]
  BY DEF NoEntry, CtValue, FreeLock, Jobs
<1>3. Init => TypeOK
  BY <1>1, <1>2 DEF Init, TypeOK
<1> QED
  BY <1>1, <1>3

\* Every table, counter and lock of Conntrack keeps its type.
THEOREM TypeCorrect == Spec => []TypeOK
  BY TypeInit, TypeStep, PTL DEF Spec

-----------------------------------------------------------------------------
(***************************************************************************)
(* The shape of a step.                                                    *)
(***************************************************************************)
\* The fields of an entry a packet has touched.
LEMMA TouchedFields ==
    ASSUME NEW e \in CtValue, NEW new \in CtState
    PROVE  /\ Touched(e, new) \in CtValue
           /\ Touched(e, new).state = new
           /\ Touched(e, new).nat = e.nat
           /\ Touched(e, new).syn <=> e.syn /\ ~ReturnsHalfOpen(e, new)
           /\ Touched(e, new).conn <=> e.conn /\ ~ReturnsConn(e, new)
  BY DEF Touched, CtValue

\* What a packet writes over the entry it hits.
LEMMA TouchedShape ==
    ASSUME NEW k \in Flows, NEW flags, NEW reply, TypeOK, Live(k),
           TrackedPacket(k, flags, reply)
    PROVE  \E v \in CtValue : Writes(k, v)
<1> DEFINE e == ct[k]
           new == IF k.proto = "TCP" THEN ct_tcp_step(flags, reply, e.state) ELSE e.state
           v == Touched(e, new)
<1>1. e \in CtValue /\ e.state \in CtState
  BY DEF TypeOK, Live, Present, CtValue
<1>2. new \in CtState
  BY <1>1, StepTypes
<1>3. "NONE" \notin CtState
  BY DEF CtState, HalfOpenStates, SettledStates
<1>4. k.proto = "TCP" /\ e.state \in HalfOpenStates \cup SettledStates \cup {"NONE"}
         => /\ new \in HalfOpenStates \cup SettledStates
            /\ new \in HalfOpenStates => e.state \in HalfOpenStates
  BY <1>1, <1>3 DEF ct_tcp_step, HalfOpenStates, SettledStates
<1>5. k.proto # "TCP" => new = e.state
  OBVIOUS
<1>6. /\ ct' = [ct EXCEPT ![k] = v]
      /\ synCount' = IF ReturnsHalfOpen(e, new) THEN Dec(synCount, SrcIp(k)) ELSE synCount
      /\ connCount' = IF ReturnsConn(e, new) THEN Dec(connCount, SrcIp(k)) ELSE connCount
  BY DEF TrackedPacket
<1> HIDE DEF new
<1>7. /\ v \in CtValue
      /\ v.state = new
      /\ v.nat = e.nat
      /\ v.syn <=> e.syn /\ ~ReturnsHalfOpen(e, new)
      /\ v.conn <=> e.conn /\ ~ReturnsConn(e, new)
  BY <1>1, <1>2, TouchedFields
<1> HIDE DEF v
<1>8. Fits(k, e) => Fits(k, v)
  BY <1>1, <1>2, <1>3, <1>4, <1>5, <1>7
  DEF Fits, ReturnsHalfOpen, ReturnsConn, HalfOpenStates
<1>9. ConnCharge(k, v)
  BY <1>1, <1>6, <1>7 DEF ConnCharge, HoldsConn, ReturnsConn
<1>10. SynCharge(k, v)
  BY <1>1, <1>6, <1>7 DEF SynCharge, ReturnsHalfOpen
<1>11. e.state \in SettledStates => v.state \notin HalfOpenStates
  BY <1>4, <1>5, <1>7 DEF HalfOpenStates, SettledStates
<1> QED
  BY <1>6, <1>7, <1>8, <1>9, <1>10, <1>11 DEF Writes

\* What the first packet of a flow that is admitted writes.
LEMMA NewFlowShape ==
    ASSUME NEW p \in Flows, NEW flags, TypeOK, NewFlow(p, flags)
    PROVE  \E v \in CtValue : Writes(p, v)
<1> DEFINE initial == ct_initial_state(p.proto, flags)
           syn  == initial = "SYN_SENT" /\ MaxHalfOpen > 0
           conn == MaxConns[SrcIp(p)] > 0
           v == CtNew(initial, syn, conn)
<1>1. /\ ct' = [ct EXCEPT ![p] = v]
      /\ ~(initial = "SYN_SENT" /\ syn_flood_check(SrcIp(p)))
      /\ ~conn_limit_check(SrcIp(p))
      /\ synCount' = IF syn THEN Inc(synCount, SrcIp(p)) ELSE synCount
      /\ connCount' = IF conn THEN Inc(connCount, SrcIp(p)) ELSE connCount
  BY DEF NewFlow
<1>2. /\ initial \in CtState
      /\ initial \notin {"NONE", "TIME_WAIT", "SYN_RECV"}
      /\ p.proto = "TCP" => initial \in {"SYN_SENT", "ESTABLISHED"}
      /\ p.proto # "TCP" => initial # "SYN_SENT"
  BY DEF ct_initial_state, CtState, HalfOpenStates, SettledStates
<1>3. /\ SrcIp(p) \in Ip
      /\ Count(connCount, SrcIp(p)) \in Nat /\ Count(synCount, SrcIp(p)) \in Nat
      /\ MaxConns[SrcIp(p)] \in Nat /\ MaxHalfOpen \in Nat
  BY FlowTypes, CountTypes, LimitsAssumption DEF TypeOK
<1> HIDE DEF initial
<1>4. conn => Count(connCount, SrcIp(p)) < MaxConns[SrcIp(p)]
  BY <1>1, <1>3 DEF conn_limit_check
<1>5. syn => /\ initial = "SYN_SENT"
             /\ Count(synCount, SrcIp(p)) < MaxHalfOpen
  BY <1>1, <1>3 DEF syn_flood_check
<1>6. initial = "SYN_SENT" /\ MaxHalfOpen > 0 => syn
  OBVIOUS
<1>7. syn \in BOOLEAN /\ conn \in BOOLEAN
  OBVIOUS
<1> HIDE DEF syn, conn
<1>8. v \in CtValue
  BY <1>2, <1>7 DEF CtNew, CtValue
<1>9. Fits(p, v)
  BY <1>2, <1>5, <1>6 DEF Fits, CtNew, HalfOpenStates, SettledStates
<1>10. ConnCharge(p, v)
  BY <1>1, <1>4 DEF ConnCharge, HoldsConn, CtNew
<1>11. SynCharge(p, v)
  BY <1>1, <1>5 DEF SynCharge, CtNew
<1>12. ~Live(p)
  BY DEF NewFlow, Untracked
<1> QED
  BY <1>1, <1>8, <1>9, <1>10, <1>11, <1>12 DEF Writes

\* Entries that hold no unit of any counter.
LEMMA UncountedShape ==
    ASSUME NEW k \in Flows, NEW v \in CtValue,
           ct' = [ct EXCEPT ![k] = v], UNCHANGED <<connCount, synCount>>,
           Fits(k, v), ~v.syn, ~HoldsConn(v),
           Live(k) => v.state \notin HalfOpenStates
    PROVE  Writes(k, v)
  BY DEF Writes, ConnCharge, SynCharge

\* Every step leaves table and counters alone, or writes one entry.
LEMMA StepShape ==
    TypeOK /\ [Next]_vars => Idles \/ \E k \in Flows, v \in CtValue : Writes(k, v)
<1> SUFFICES ASSUME TypeOK, [Next]_vars
             PROVE  Idles \/ \E k \in Flows, v \in CtValue : Writes(k, v)
  OBVIOUS
<1>1. ASSUME NEW p \in Flows, NEW flags \in TcpFlags, ForwardPacket(p, flags)
      PROVE  \E v \in CtValue : Writes(p, v)
  BY <1>1, TouchedShape DEF ForwardPacket
<1>2. ASSUME NEW p \in Flows, NEW flags \in TcpFlags, ReplyPacket(p, flags)
      PROVE  \E k \in Flows, v \in CtValue : Writes(k, v)
  BY <1>2, TouchedShape, FlowTypes DEF ReplyPacket
<1>3. ASSUME NEW p \in Flows, NEW flags \in TcpFlags, AlgPacket(p, flags)
      PROVE  Idles \/ \E v \in CtValue : Writes(p, v)
  <2> DEFINE initial == ct_initial_state(p.proto, flags)
             v == CtNew(initial, FALSE, FALSE)
  <2>1. initial \in {"SYN_SENT", "ESTABLISHED"} /\ p.proto = "TCP"
    BY <1>3 DEF AlgPacket, AlgHit, ct_initial_state
  <2>2. ~Checked(p)
    BY <1>3 DEF AlgPacket, AlgHit, Checked, TypeOK
  <2> HIDE DEF initial
  <2>3. v \in CtValue
    BY <2>1 DEF CtNew, CtValue, CtState, HalfOpenStates, SettledStates
  <2>4. Fits(p, v) /\ ~v.syn /\ ~HoldsConn(v)
    BY <2>1, <2>2 DEF Fits, HoldsConn, CtNew, HalfOpenStates, SettledStates
  <2>5. /\ ct' \in {ct, [ct EXCEPT ![p] = v]}
        /\ UNCHANGED <<connCount, synCount>>
        /\ ~Live(p)
    BY <1>3 DEF AlgPacket, Untracked, initial
  <2> QED
    BY <2>3, <2>4, <2>5, UncountedShape DEF Idles
<1>4. ASSUME NEW p \in Flows, NEW flags \in TcpFlags, NewFlow(p, flags)
      PROVE  \E v \in CtValue : Writes(p, v)
  BY <1>4, NewFlowShape
<1>5. ASSUME NEW k \in Flows, ct' = [ct EXCEPT ![k] = NatReply],
             UNCHANGED <<connCount, synCount>>
      PROVE  \E v \in CtValue : Writes(k, v)
  <2>1. NatReply \in CtValue
    BY DEF NatReply, CtValue, CtState, SettledStates
  <2>2. /\ Fits(k, NatReply) /\ ~NatReply.syn /\ ~HoldsConn(NatReply)
        /\ NatReply.state \notin HalfOpenStates
    BY DEF NatReply, Fits, HoldsConn, HalfOpenStates, SettledStates
  <2> QED
    BY <1>5, <2>1, <2>2, UncountedShape
<1>6. ASSUME NEW p \in Flows, DnatPacket(p)
      PROVE  \E k \in Flows, v \in CtValue : Writes(k, v)
  BY <1>5, <1>6, FlowTypes DEF DnatPacket
<1>7. ASSUME NEW q \in WanEgress, TcEgress(q)
      PROVE  \E k \in Flows, v \in CtValue : Writes(k, v)
  BY <1>5, <1>7, FlowTypes, FlowsAssumption DEF TcEgress
<1>8. ASSUME NEW k \in Flows, RemoveNext(k)
      PROVE  \E v \in CtValue : Writes(k, v)
  <2>1. NoEntry \in CtValue
    BY DEF NoEntry, CtValue
  <2>2. /\ Fits(k, NoEntry) /\ ~NoEntry.syn /\ ~HoldsConn(NoEntry)
        /\ NoEntry.state \notin HalfOpenStates
    BY DEF NoEntry, Fits, HoldsConn, HalfOpenStates, SettledStates
  <2> QED
    BY <1>8, <2>1, <2>2, UncountedShape DEF RemoveNext
<1>9. ASSUME NEW k \in Flows, Expire(k)
      PROVE  \E v \in CtValue : Writes(k, v)
  <2> DEFINE v == [ct[k] EXCEPT !.idle = TRUE]
  <2>1. ct[k] \in CtValue
    BY DEF TypeOK
  <2>2. /\ v \in CtValue
        /\ v.state = ct[k].state /\ v.nat = ct[k].nat
        /\ v.syn = ct[k].syn /\ v.conn = ct[k].conn
    BY <2>1 DEF CtValue
  <2>3. ct' = [ct EXCEPT ![k] = v] /\ UNCHANGED <<connCount, synCount>>
    BY <1>9, <2>1 DEF Expire, TypeOK
  <2> HIDE DEF v
  <2> QED
    BY <2>2, <2>3
    DEF Writes, Fits, ConnCharge, SynCharge, HoldsConn, HalfOpenStates, SettledStates
<1>10. ASSUME NEW a \in AlgKeys, AlgLearn(a) \/ AlgTimeout(a)
       PROVE  Idles
  BY <1>10 DEF AlgLearn, AlgTimeout, Idles
<1>11. CASE PruneBegin
  BY <1>11 DEF PruneBegin, Idles
<1>12. ASSUME NEW S \in SUBSET Flows, DeleteBegin(S)
       PROVE  Idles
  BY <1>12 DEF DeleteBegin, Idles
<1>13. CASE UNCHANGED vars
  BY <1>13 DEF vars, Idles
<1> QED
  BY <1>1, <1>2, <1>3, <1>4, <1>6, <1>7, <1>8, <1>9, <1>10, <1>11, <1>12, <1>13
  DEF Next, Packet, Daemon

-----------------------------------------------------------------------------
(***************************************************************************)
(* Safety.                                                                 *)
(***************************************************************************)
\* A step writes entries whose "counted" bits fit.
LEMMA EntriesStep == TypeOK /\ EntriesFit /\ [Next]_vars => EntriesFit'
<1> SUFFICES ASSUME TypeOK, EntriesFit, [Next]_vars
             PROVE  EntriesFit'
  OBVIOUS
<1>1. CASE Idles
  BY <1>1 DEF Idles, EntriesFit, Fits
<1>2. ASSUME NEW k \in Flows, NEW v \in CtValue, Writes(k, v)
      PROVE  EntriesFit'
  <2>1. \A j \in Flows : Fits(j, ct'[j])
    BY <1>2 DEF Writes, EntriesFit, TypeOK
  <2> QED
    BY <2>1 DEF EntriesFit, Fits
<1> QED
  BY <1>1, <1>2, StepShape

\* An empty table fits, and fitting entries are what FlagsFitState asks for.
LEMMA EntriesEnds == (Init => EntriesFit) /\ (EntriesFit => FlagsFitState)
<1>1. Init => EntriesFit
  BY DEF Init, EntriesFit, Fits, NoEntry, HalfOpenStates, SettledStates
<1>2. EntriesFit => FlagsFitState
  BY DEF EntriesFit, Fits, FlagsFitState
<1> QED
  BY <1>1, <1>2

\* The "counted" bits of an entry fit its state, for every table and limit: no
\* sequence of packets, egress learning, expiry and removal leaves a closed flow
\* charged, or a half-open one uncharged (ct_counters_tick).
THEOREM FlagsCorrect == Spec => []FlagsFitState
  BY EntriesStep, EntriesEnds, TypeCorrect, PTL DEF Spec

\* No late SYN, DNAT, ALG or egress packet takes a live connection back to a
\* half-open state, whatever the flows (the guard on SYN in ct_tcp_step, and the
\* order in which the tables are looked up).
THEOREM SettledCorrect == Spec => SettledStaysSettled
<1> DEFINE A == \A k \in Flows :
                  Live(k) /\ ct[k].state \in SettledStates
                      => ct'[k].state \notin HalfOpenStates
<1>1. TypeOK /\ [Next]_vars => [A]_vars
  <2> SUFFICES ASSUME TypeOK, [Next]_vars
               PROVE  A
    OBVIOUS
  <2>1. CASE Idles
    BY <2>1 DEF Idles, HalfOpenStates, SettledStates
  <2>2. ASSUME NEW k \in Flows, NEW v \in CtValue, Writes(k, v)
        PROVE  A
    BY <2>2 DEF Writes, TypeOK, HalfOpenStates, SettledStates
  <2> QED
    BY <2>1, <2>2, StepShape
<1> QED
  BY <1>1, TypeCorrect, PTL DEF Spec, SettledStaysSettled

\* A set T that differs from the finite set S by at most one member k.
LEMMA SetStep ==
    ASSUME NEW S, IsFiniteSet(S), NEW T, NEW k
    PROVE  /\ Cardinality(S) \in Nat
           /\ T \subseteq S => Cardinality(T) <= Cardinality(S)
           /\ T \subseteq S \cup {k} => Cardinality(T) <= Cardinality(S) + 1
           /\ k \in S /\ T \subseteq S \ {k} => Cardinality(T) <= Cardinality(S) - 1
           /\ T \subseteq S \cup {k} => Cardinality(T) \in Nat
<1>1. Cardinality(S) \in Nat
  BY FS_CardinalityType
<1>2. /\ IsFiniteSet(S \cup {k})
      /\ Cardinality(S \cup {k}) \in Nat
      /\ Cardinality(S \cup {k}) <= Cardinality(S) + 1
  BY <1>1, FS_AddElement, FS_CardinalityType
<1>3. k \in S => /\ IsFiniteSet(S \ {k})
                 /\ Cardinality(S \ {k}) = Cardinality(S) - 1
  BY FS_RemoveElement
<1>4. T \subseteq S => Cardinality(T) <= Cardinality(S)
  BY FS_Subset
<1>5. T \subseteq S \cup {k} => /\ Cardinality(T) \in Nat
                               /\ Cardinality(T) <= Cardinality(S \cup {k})
  BY <1>2, FS_Subset, FS_CardinalityType
<1>6. k \in S /\ T \subseteq S \ {k} => Cardinality(T) <= Cardinality(S \ {k})
  BY <1>3, FS_Subset
<1> QED
  BY <1>1, <1>2, <1>3, <1>4, <1>5, <1>6

-----------------------------------------------------------------------------
(***************************************************************************)
(* The recount: what a pass leaves behind that no packet has interfered    *)
(* with.                                                                   *)
(*                                                                         *)
(* While a pass holds the handle lock no entry is removed, so the table    *)
(* changes by packets and by time only; without packets the tallies always *)
(* count the flows that have been read, and the counters then become the   *)
(* tallies, one map after the other.                                       *)
(***************************************************************************)
\* A pass holds the handle lock from its beginning to its end.
PassHolds == recon.phase # "idle" => daemon.job = "reconcile"

\* It is through with the table when it begins to write.
AllRead == recon.phase \notin {"idle", "scan"} => recon.left = {}

\* The tallies of a quiet pass count the flows it has read.
Tallied ==
    quiet /\ recon.phase # "idle" =>
        \A ip \in Ip :
            /\ recon.conns[ip] = Cardinality(OfSource(ip, TrackedFlows \ recon.left))
            /\ recon.syns[ip] = Cardinality(OfSource(ip, HalfOpenFlows \ recon.left))

\* A map that holds a tally, or as much of it as there is room for.
Holds(map, tally) ==
    \A ip \in Ip : \/ Count(map, ip) = tally[ip]
                   \/ ip \notin DOMAIN map /\ Cardinality(DOMAIN map) >= CountMaxEntries

\* Where a quiet pass has written, it has replaced what was there.
Rewritten ==
    quiet =>
        /\ recon.phase = "write_conns" => connCount = NoCounts
        /\ recon.phase \in {"clear_syns", "write_syns"} => Holds(connCount, recon.conns)
        /\ recon.phase = "write_syns" => synCount = NoCounts

RInv == RTypeOK /\ EntriesFit /\ PassHolds /\ AllRead /\ Tallied /\ Rewritten

-----------------------------------------------------------------------------
(***************************************************************************)
(* What the steps of the others leave alone.                               *)
(***************************************************************************)
\* A packet never touches the handle lock.
LEMMA PacketKeepsLock == Packet => UNCHANGED daemon
<1>1. ASSUME NEW p \in Flows, NEW flags \in TcpFlags,
             ForwardPacket(p, flags) \/ ReplyPacket(p, flags) \/ AlgPacket(p, flags)
      PROVE  UNCHANGED daemon
  BY <1>1 DEF ForwardPacket, ReplyPacket, AlgPacket, TrackedPacket
<1>2. ASSUME NEW p \in Flows, NEW flags \in TcpFlags, NewFlow(p, flags)
      PROVE  UNCHANGED daemon
  BY <1>2 DEF NewFlow
<1>3. ASSUME NEW p \in Flows, DnatPacket(p) PROVE UNCHANGED daemon
  BY <1>3 DEF DnatPacket
<1>4. ASSUME NEW q \in WanEgress, TcEgress(q) PROVE UNCHANGED daemon
  BY <1>4 DEF TcEgress
<1> QED  BY <1>1, <1>2, <1>3, <1>4 DEF Packet

\* While the recount holds the lock, time and the rest of the daemon only age
\* entries: none is removed, and no counter moves.
LEMMA PassIsAlone ==
    ASSUME TypeOK, daemon.job = "reconcile", Daemon \/ \E k \in Flows : Expire(k)
    PROVE  /\ UNCHANGED <<connCount, synCount, daemon>>
           /\ \A k \in Flows : ct'[k].state = ct[k].state /\ ct'[k].nat = ct[k].nat
<1>1. ASSUME NEW a \in AlgKeys, AlgLearn(a) \/ AlgTimeout(a)
      PROVE  UNCHANGED <<ct, connCount, synCount, daemon>>
  BY <1>1 DEF AlgLearn, AlgTimeout
<1>2. ~PruneBegin /\ \A S \in SUBSET Flows : ~DeleteBegin(S)
  BY DEF PruneBegin, DeleteBegin
<1>3. \A k \in Flows : ~RemoveNext(k)
  BY DEF RemoveNext
<1>4. ASSUME NEW k \in Flows, Expire(k)
      PROVE  /\ UNCHANGED <<connCount, synCount, daemon>>
             /\ \A j \in Flows : ct'[j].state = ct[j].state /\ ct'[j].nat = ct[j].nat
  BY <1>4 DEF Expire, TypeOK, CtValue
<1> QED
  BY <1>1, <1>2, <1>3, <1>4 DEF Daemon

\* The flows a source has in a table whose states and NAT marks are the same.
LEMMA SameTable ==
    ASSUME \A k \in Flows : ct'[k].state = ct[k].state /\ ct'[k].nat = ct[k].nat
    PROVE  TrackedFlows' = TrackedFlows /\ HalfOpenFlows' = HalfOpenFlows
BY DEF TrackedFlows, HalfOpenFlows, Present

\* The flows of a source are finitely many.
LEMMA SourcesFinite ==
    ASSUME NEW ip, NEW S \in SUBSET Flows
    PROVE  /\ IsFiniteSet(OfSource(ip, S))
           /\ Cardinality(OfSource(ip, S)) \in Nat
<1>1. OfSource(ip, S) \in SUBSET Flows
  BY DEF OfSource
<1> QED
  BY <1>1, FlowsAssumption, FS_Subset, FS_CardinalityType

\* Reading one more flow k, so that the flows that count grow from A to B, adds one
\* to the tally of its source if k is of them, and nothing to any other.
LEMMA TallyStep ==
    ASSUME NEW A \in SUBSET Flows, NEW k \in Flows, k \notin A,
           NEW B, B = A \/ B = A \cup {k},
           NEW tally \in [Ip -> Nat], NEW ip \in Ip,
           tally[ip] = Cardinality(OfSource(ip, A))
    PROVE  (IF k \in B THEN OneMore(tally, SrcIp(k)) ELSE tally)[ip] = Cardinality(OfSource(ip, B))
<1> DEFINE seen == OfSource(ip, A)
<1>1. /\ IsFiniteSet(seen) /\ Cardinality(seen) = tally[ip] /\ tally[ip] \in Nat
      /\ k \notin seen
  BY SourcesFinite DEF OfSource
<1>2. SrcIp(k) \in Ip
  BY FlowTypes
<1>3. CASE k \in B /\ SrcIp(k) = ip
  <2>1. OfSource(ip, B) = seen \cup {k}
    BY <1>3 DEF OfSource
  <2>2. Cardinality(seen \cup {k}) = tally[ip] + 1
    BY <1>1, FS_AddElement
  <2> QED
    BY <1>2, <1>3, <2>1, <2>2 DEF OneMore
<1>4. CASE ~(k \in B /\ SrcIp(k) = ip)
  <2>1. OfSource(ip, B) = seen
    BY <1>4 DEF OfSource
  <2>2. (IF k \in B THEN OneMore(tally, SrcIp(k)) ELSE tally)[ip] = tally[ip]
    BY <1>2, <1>4 DEF OneMore
  <2> QED
    BY <1>1, <2>1, <2>2
<1> QED
  BY <1>3, <1>4

-----------------------------------------------------------------------------
(***************************************************************************)
(* The invariant.                                                          *)
(***************************************************************************)
\* A packet ends the quiet of a pass; nothing else of the invariant is about it.
LEMMA PacketKeeps ==
    ASSUME RInv, Packet, UNCHANGED recon, quiet' = FALSE
    PROVE  RInv'
<1>1. TypeOK' /\ EntriesFit'
  BY TypeStep, EntriesStep DEF RInv, RTypeOK, Next
<1>2. UNCHANGED daemon
  BY PacketKeepsLock
<1> QED
  BY <1>1, <1>2 DEF RInv, RTypeOK, PassHolds, AllRead, Tallied, Rewritten

\* Time and the rest of the daemon.
LEMMA DaemonKeeps ==
    ASSUME RInv, Daemon \/ \E k \in Flows : Expire(k), UNCHANGED <<recon, quiet>>
    PROVE  RInv'
<1>1. TypeOK' /\ EntriesFit'
  BY TypeStep, EntriesStep DEF RInv, RTypeOK, Next
<1>2. RTypeOK'
  BY <1>1 DEF RInv, RTypeOK
<1>3. CASE recon.phase = "idle"
  BY <1>1, <1>2, <1>3 DEF RInv, PassHolds, AllRead, Tallied, Rewritten
<1>4. CASE recon.phase # "idle"
  <2>1. daemon.job = "reconcile"
    BY <1>4 DEF RInv, PassHolds
  <2>2. /\ UNCHANGED <<connCount, synCount, daemon>>
        /\ TrackedFlows' = TrackedFlows /\ HalfOpenFlows' = HalfOpenFlows
    BY <2>1, PassIsAlone, SameTable DEF RInv, RTypeOK
  <2>3. PassHolds' /\ AllRead' /\ Rewritten'
    BY <2>1, <2>2 DEF RInv, PassHolds, AllRead, Rewritten, Holds
  <2>4. Tallied'
    BY <2>2 DEF RInv, Tallied, OfSource
  <2> QED
    BY <1>1, <1>2, <2>3, <2>4 DEF RInv
<1> QED
  BY <1>3, <1>4

\* What holds of the table in a step of the pass.
LEMMA StepOfPass ==
    ASSUME RInv, ReconcileBegin \/ ReconcileStep
    PROVE  /\ UNCHANGED <<ct, expect>>
           /\ EntriesFit'
           /\ TrackedFlows' = TrackedFlows /\ HalfOpenFlows' = HalfOpenFlows
           /\ TrackedFlows \subseteq Flows /\ HalfOpenFlows \subseteq Flows
<1>1. UNCHANGED <<ct, expect>>
  BY DEF ReconcileBegin, ReconcileStep, ReconcileScan, ClearConns, WriteConns, ClearSyns, WriteSyns
<1> QED
  BY <1>1, SameTable DEF RInv, EntriesFit, Fits, TrackedFlows, HalfOpenFlows

\* A pass begins with nothing read and nothing tallied.
LEMMA BeginKeeps ==
    ASSUME RInv, ReconcileBegin, quiet' = TRUE
    PROVE  RInv'
<1>1. /\ UNCHANGED <<ct, expect>> /\ EntriesFit'
      /\ TrackedFlows' \subseteq Flows /\ HalfOpenFlows' \subseteq Flows
  BY StepOfPass
<1>2. /\ daemon' = [job |-> "reconcile", todo |-> {}]
      /\ recon' = [phase |-> "scan", left |-> Flows, conns |-> NoTally, syns |-> NoTally]
      /\ UNCHANGED <<connCount, synCount>>
  BY DEF ReconcileBegin, NoPass
<1>3. NoTally \in [Ip -> Nat] /\ \A ip \in Ip : NoTally[ip] = 0
  BY DEF NoTally
<1>4. RTypeOK'
  BY <1>1, <1>2, <1>3 DEF RInv, RTypeOK, TypeOK, Phases, Jobs
<1>5. PassHolds' /\ AllRead' /\ Rewritten'
  BY <1>2 DEF PassHolds, AllRead, Rewritten
<1>6. Tallied'
  <2>1. \A ip \in Ip : /\ OfSource(ip, TrackedFlows' \ Flows) = {}
                       /\ OfSource(ip, HalfOpenFlows' \ Flows) = {}
    BY <1>1 DEF OfSource
  <2>2. Cardinality({}) = 0
    BY FS_EmptySet
  <2> QED
    BY <1>2, <1>3, <2>1, <2>2 DEF Tallied, OfSource
<1> QED
  BY <1>1, <1>4, <1>5, <1>6 DEF RInv

\* What reading a flow does to the tallies.
LEMMA ScanShape ==
    ASSUME NEW k, ReconcileScan(k), k \in Flows
    PROVE  /\ recon.phase = "scan" /\ k \in recon.left
           /\ recon'.phase = IF recon.left = {k} THEN "clear_conns" ELSE "scan"
           /\ recon'.left = recon.left \ {k}
           /\ recon'.conns = IF k \in TrackedFlows THEN OneMore(recon.conns, SrcIp(k)) ELSE recon.conns
           /\ recon'.syns = IF k \in HalfOpenFlows THEN OneMore(recon.syns, SrcIp(k)) ELSE recon.syns
           /\ UNCHANGED <<connCount, synCount, daemon>>
  BY DEF ReconcileScan, TrackedFlows, HalfOpenFlows

\* Reading a flow.
LEMMA ScanKeeps ==
    ASSUME RInv, NEW k \in Flows, ReconcileScan(k), UNCHANGED quiet
    PROVE  RInv'
<1>1. /\ UNCHANGED <<ct, expect>> /\ EntriesFit'
      /\ TrackedFlows' = TrackedFlows /\ HalfOpenFlows' = HalfOpenFlows
      /\ TrackedFlows \subseteq Flows /\ HalfOpenFlows \subseteq Flows
  BY StepOfPass DEF ReconcileStep
<1>2. /\ recon.phase = "scan" /\ k \in recon.left
      /\ recon'.phase = IF recon.left = {k} THEN "clear_conns" ELSE "scan"
      /\ recon'.left = recon.left \ {k}
      /\ recon'.conns = IF k \in TrackedFlows THEN OneMore(recon.conns, SrcIp(k)) ELSE recon.conns
      /\ recon'.syns = IF k \in HalfOpenFlows THEN OneMore(recon.syns, SrcIp(k)) ELSE recon.syns
      /\ UNCHANGED <<connCount, synCount, daemon>>
  BY ScanShape
<1>3. /\ recon.conns \in [Ip -> Nat] /\ recon.syns \in [Ip -> Nat]
      /\ recon.left \in SUBSET Flows
  BY DEF RInv, RTypeOK
<1>4. recon' \in [phase : Phases, left : SUBSET Flows, conns : [Ip -> Nat], syns : [Ip -> Nat]]
  <2>1. /\ OneMore(recon.conns, SrcIp(k)) \in [Ip -> Nat]
        /\ OneMore(recon.syns, SrcIp(k)) \in [Ip -> Nat]
    BY <1>3, FlowTypes DEF OneMore
  <2> QED
    BY <1>3, <2>1 DEF ReconcileScan, Phases
<1>5. RTypeOK'
  BY <1>1, <1>2, <1>4 DEF RInv, RTypeOK, TypeOK
<1>6. PassHolds' /\ AllRead' /\ Rewritten'
  BY <1>2 DEF RInv, PassHolds, AllRead, Rewritten
<1>7. Tallied'
  <2> SUFFICES ASSUME quiet, NEW ip \in Ip
               PROVE  /\ recon'.conns[ip] = Cardinality(OfSource(ip, TrackedFlows \ recon'.left))
                      /\ recon'.syns[ip] = Cardinality(OfSource(ip, HalfOpenFlows \ recon'.left))
    BY <1>1 DEF Tallied, OfSource
  <2>1. \A i \in Ip : /\ recon.conns[i] = Cardinality(OfSource(i, TrackedFlows \ recon.left))
                      /\ recon.syns[i] = Cardinality(OfSource(i, HalfOpenFlows \ recon.left))
    BY <1>2 DEF RInv, Tallied
  <2>2. recon'.conns[ip] = Cardinality(OfSource(ip, TrackedFlows \ recon'.left))
    <3> DEFINE before == TrackedFlows \ recon.left
               after  == TrackedFlows \ recon'.left
    <3>1. /\ before \in SUBSET Flows /\ k \notin before
          /\ after = before \/ after = before \cup {k}
          /\ k \in after <=> k \in TrackedFlows
      BY <1>1, <1>2
    <3>2. recon.conns \in [Ip -> Nat] /\ recon.conns[ip] = Cardinality(OfSource(ip, before))
      BY <1>3, <2>1
    <3> HIDE DEF before, after
    <3>3. (IF k \in after THEN OneMore(recon.conns, SrcIp(k)) ELSE recon.conns)[ip]
              = Cardinality(OfSource(ip, after))
      BY <3>1, <3>2, TallyStep
    <3>4. recon'.conns[ip] = Cardinality(OfSource(ip, after))
      BY <1>2, <3>1, <3>3
    <3> QED
      BY <3>4 DEF after
  <2>3. recon'.syns[ip] = Cardinality(OfSource(ip, HalfOpenFlows \ recon'.left))
    <3> DEFINE before == HalfOpenFlows \ recon.left
               after  == HalfOpenFlows \ recon'.left
    <3>1. /\ before \in SUBSET Flows /\ k \notin before
          /\ after = before \/ after = before \cup {k}
          /\ k \in after <=> k \in HalfOpenFlows
      BY <1>1, <1>2
    <3>2. recon.syns \in [Ip -> Nat] /\ recon.syns[ip] = Cardinality(OfSource(ip, before))
      BY <1>3, <2>1
    <3> HIDE DEF before, after
    <3>3. (IF k \in after THEN OneMore(recon.syns, SrcIp(k)) ELSE recon.syns)[ip]
              = Cardinality(OfSource(ip, after))
      BY <3>1, <3>2, TallyStep
    <3>4. recon'.syns[ip] = Cardinality(OfSource(ip, after))
      BY <1>2, <3>1, <3>3
    <3> QED
      BY <3>4 DEF after
  <2> QED
    BY <2>2, <2>3
<1> QED
  BY <1>1, <1>5, <1>6, <1>7 DEF RInv

\* A map that is written over with a tally is a counter map, and holds the tally if
\* it was empty; the sources of the tally that have a key then read their tally.
LEMMA OverwriteTypes ==
    ASSUME NEW count, IsCountMap(count), NEW tally \in [Ip -> Nat], NEW taken \in SUBSET Ip,
           Takes(count, tally, taken)
    PROVE  /\ IsCountMap(Overwritten(count, tally, taken))
           /\ count = NoCounts => Holds(Overwritten(count, tally, taken), tally)
           /\ \A ip \in Charged(tally) \cap DOMAIN Overwritten(count, tally, taken) :
                 Count(Overwritten(count, tally, taken), ip) = tally[ip]
<1> DEFINE new == Overwritten(count, tally, taken)
<1>1. /\ taken \subseteq Charged(tally) \ DOMAIN count
      /\ \/ taken = Charged(tally) \ DOMAIN count
         \/ Cardinality(DOMAIN count \cup taken) >= CountMaxEntries
  BY DEF Takes
<1>2. /\ DOMAIN new = DOMAIN count \cup taken
      /\ \A ip \in DOMAIN count \cup taken :
            new[ip] = IF ip \in Charged(tally) THEN tally[ip] ELSE count[ip]
      /\ new = [ip \in DOMAIN new |-> new[ip]]
  BY DEF Overwritten
<1> HIDE DEF new
<1>3. DOMAIN new \subseteq Ip /\ \A ip \in DOMAIN new : new[ip] \in Nat
  BY <1>1, <1>2 DEF IsCountMap, Charged
<1>4. IsCountMap(new)
  BY <1>2, <1>3 DEF IsCountMap
<1>5. \A ip \in Charged(tally) \cap DOMAIN new : Count(new, ip) = tally[ip]
  BY <1>2 DEF Count
<1>6. ASSUME count = NoCounts, NEW ip \in Ip
      PROVE  \/ Count(new, ip) = tally[ip]
             \/ ip \notin DOMAIN new /\ Cardinality(DOMAIN new) >= CountMaxEntries
  <2>1. DOMAIN count = {} /\ DOMAIN new = taken
    BY <1>2, <1>6 DEF NoCounts
  <2>2. CASE ip \in taken
    BY <1>1, <1>5, <2>1, <2>2
  <2>3. CASE ip \notin taken /\ ip \notin Charged(tally)
    BY <2>1, <2>3 DEF Count, Charged
  <2>4. CASE ip \notin taken /\ ip \in Charged(tally)
    <3>1. DOMAIN count \cup taken = DOMAIN new /\ taken # Charged(tally) \ DOMAIN count
      BY <2>1, <2>4
    <3> QED
      BY <1>1, <2>1, <2>4, <3>1
  <2> QED
    BY <2>2, <2>3, <2>4
<1>7. count = NoCounts => Holds(new, tally)
  BY <1>6 DEF Holds
<1> QED
  BY <1>4, <1>5, <1>7 DEF new

\* The map of the connections is emptied and written.
LEMMA ConnsKeep ==
    ASSUME RInv, ClearConns \/ WriteConns, UNCHANGED quiet
    PROVE  RInv'
<1>1. /\ UNCHANGED <<ct, expect>> /\ EntriesFit'
      /\ TrackedFlows' = TrackedFlows /\ HalfOpenFlows' = HalfOpenFlows
  BY StepOfPass DEF ReconcileStep
<1>2. /\ UNCHANGED <<synCount, daemon>>
      /\ \/ /\ recon.phase = "clear_conns" /\ connCount' = NoCounts
            /\ recon' = [recon EXCEPT !.phase = "write_conns"]
         \/ /\ recon.phase = "write_conns"
            /\ \E taken \in SUBSET Ip :
                  /\ Takes(connCount, recon.conns, taken)
                  /\ connCount' = Overwritten(connCount, recon.conns, taken)
            /\ recon' = [recon EXCEPT !.phase = "clear_syns"]
  BY DEF ClearConns, WriteConns
<1>3. /\ recon \in [phase : Phases, left : SUBSET Flows, conns : [Ip -> Nat], syns : [Ip -> Nat]]
      /\ IsCountMap(connCount) /\ recon.conns \in [Ip -> Nat]
  BY DEF RInv, RTypeOK, TypeOK
<1>4. /\ IsCountMap(connCount')
      /\ recon.phase = "write_conns" /\ connCount = NoCounts => Holds(connCount', recon.conns)
  <2>1. CASE connCount' = NoCounts /\ recon.phase = "clear_conns"
    BY <2>1, TypeInit
  <2>2. ASSUME NEW taken \in SUBSET Ip, Takes(connCount, recon.conns, taken),
               connCount' = Overwritten(connCount, recon.conns, taken)
        PROVE  /\ IsCountMap(connCount')
               /\ connCount = NoCounts => Holds(connCount', recon.conns)
    BY <1>3, <2>2, OverwriteTypes
  <2> QED
    BY <1>2, <2>1, <2>2
<1>5. /\ recon'.left = recon.left /\ recon'.conns = recon.conns /\ recon'.syns = recon.syns
      /\ recon'.phase \in {"write_conns", "clear_syns"}
      /\ recon' \in [phase : Phases, left : SUBSET Flows, conns : [Ip -> Nat], syns : [Ip -> Nat]]
  BY <1>2, <1>3 DEF Phases
<1>6. RTypeOK'
  BY <1>1, <1>2, <1>4, <1>5 DEF RInv, RTypeOK, TypeOK
<1>7. PassHolds' /\ AllRead'
  BY <1>2, <1>5 DEF RInv, PassHolds, AllRead
<1>8. Tallied'
  BY <1>1, <1>2, <1>5 DEF RInv, Tallied, OfSource
<1>9. Rewritten'
  <2>1. Holds(connCount', recon'.conns) <=> Holds(connCount', recon.conns)
    BY <1>5
  <2> QED
    BY <1>2, <1>4, <1>5, <2>1 DEF RInv, Rewritten, Holds
<1> QED
  BY <1>1, <1>6, <1>7, <1>8, <1>9 DEF RInv

\* The map of the half-open flows is emptied.
LEMMA SynsKeep ==
    ASSUME RInv, ClearSyns, UNCHANGED quiet
    PROVE  RInv'
<1>1. /\ UNCHANGED <<ct, expect>> /\ EntriesFit'
      /\ TrackedFlows' = TrackedFlows /\ HalfOpenFlows' = HalfOpenFlows
  BY StepOfPass DEF ReconcileStep
<1>2. /\ UNCHANGED <<connCount, daemon>> /\ synCount' = NoCounts
      /\ recon.phase = "clear_syns" /\ recon' = [recon EXCEPT !.phase = "write_syns"]
  BY DEF ClearSyns
<1>3. recon \in [phase : Phases, left : SUBSET Flows, conns : [Ip -> Nat], syns : [Ip -> Nat]]
  BY DEF RInv, RTypeOK
<1>4. /\ recon'.left = recon.left /\ recon'.conns = recon.conns /\ recon'.syns = recon.syns
      /\ recon'.phase = "write_syns"
      /\ recon' \in [phase : Phases, left : SUBSET Flows, conns : [Ip -> Nat], syns : [Ip -> Nat]]
  BY <1>2, <1>3 DEF Phases
<1>5. RTypeOK'
  BY <1>1, <1>2, <1>4, TypeInit DEF RInv, RTypeOK, TypeOK
<1>6. PassHolds' /\ AllRead' /\ Rewritten'
  BY <1>2, <1>4 DEF RInv, PassHolds, AllRead, Rewritten, Holds
<1>7. Tallied'
  BY <1>1, <1>2, <1>4 DEF RInv, Tallied, OfSource
<1> QED
  BY <1>1, <1>5, <1>6, <1>7 DEF RInv

\* The map of the half-open flows is written, and the lock let go.
LEMMA EndKeeps ==
    ASSUME RInv, WriteSyns, UNCHANGED quiet
    PROVE  RInv'
<1>1. /\ UNCHANGED <<ct, expect>> /\ EntriesFit'
  BY StepOfPass DEF ReconcileStep
<1>2. /\ UNCHANGED connCount /\ recon' = NoPass /\ daemon' = FreeLock
      /\ IsCountMap(synCount')
  <2>1. recon.syns \in [Ip -> Nat] /\ IsCountMap(synCount)
    BY DEF RInv, RTypeOK, TypeOK
  <2> QED
    BY <2>1, OverwriteTypes DEF WriteSyns
<1>3. RTypeOK'
  BY <1>1, <1>2
  DEF RInv, RTypeOK, TypeOK, NoPass, NoTally, Phases, FreeLock, Jobs, IsCountMap
<1> QED
  BY <1>1, <1>2, <1>3 DEF RInv, PassHolds, AllRead, Tallied, Rewritten, NoPass

\* The invariant holds at the start.
LEMMA InitRInv == RInit => RInv
<1> SUFFICES ASSUME RInit PROVE RInv
  OBVIOUS
<1>1. TypeOK
  BY TypeInit DEF RInit
<1> QED
  BY <1>1, EntriesEnds
  DEF RInit, RInv, RTypeOK, PassHolds, AllRead, Tallied, Rewritten, NoPass, NoTally, Phases

\* Every step keeps the invariant.
LEMMA NextRInv == RInv /\ [RNext]_rvars => RInv'
<1> SUFFICES ASSUME RInv, [RNext]_rvars PROVE RInv'
  OBVIOUS
<1>1. CASE Packet /\ UNCHANGED recon /\ quiet' = FALSE
  BY <1>1, PacketKeeps
<1>2. CASE (Daemon \/ \E k \in Flows : Expire(k)) /\ UNCHANGED <<recon, quiet>>
  BY <1>2, DaemonKeeps
<1>3. CASE ReconcileBegin /\ quiet' = TRUE
  BY <1>3, BeginKeeps
<1>4. CASE ReconcileStep /\ UNCHANGED quiet
  BY <1>4, ScanKeeps, ConnsKeep, SynsKeep, EndKeeps DEF ReconcileStep
<1>5. CASE UNCHANGED rvars
  <2>1. UNCHANGED <<ct, connCount, synCount, expect, daemon, recon, quiet>>
    BY <1>5 DEF rvars
  <2>2. RTypeOK' /\ EntriesFit'
    BY <2>1 DEF RInv, RTypeOK, TypeOK, EntriesFit, Fits, IsCountMap
  <2>3. TrackedFlows' = TrackedFlows /\ HalfOpenFlows' = HalfOpenFlows
    BY <2>1, SameTable
  <2> QED
    BY <2>1, <2>2, <2>3
    DEF RInv, PassHolds, AllRead, Tallied, Rewritten, OfSource, Holds
<1> QED
  BY <1>1, <1>2, <1>3, <1>4, <1>5 DEF RNext

-----------------------------------------------------------------------------
(***************************************************************************)
(* Theorems.                                                               *)
(***************************************************************************)
\* Table, counters, lock and the running pass keep their types, whatever packets
\* come between the steps of reconcile_conn_counts.
THEOREM RTypeCorrect == RSpec => []RTypeOK
<1>1. RInv => RTypeOK
  BY DEF RInv
<1> QED
  BY <1>1, InitRInv, NextRInv, PTL DEF RSpec

\* A recount no packet interferes with leaves CONN_COUNT and SYN_COUNT equal to the
\* entries of the table, address by address, but for the addresses that a full map has
\* no key for, whatever the counters had drifted to before (reconcile_conn_counts).
THEOREM RecountCorrect == RSpec => QuietPassRecounts
<1> DEFINE A == PassEnds /\ quiet =>
                  \A ip \in Ip :
                      /\ Recounted(connCount, ip, OfSource(ip, TrackedFlows))'
                      /\ Recounted(synCount, ip, OfSource(ip, HalfOpenFlows))'
<1>1. RInv /\ [RNext]_rvars => A
  <2> SUFFICES ASSUME RInv, [RNext]_rvars, PassEnds, quiet
               PROVE  \A ip \in Ip :
                          /\ Recounted(connCount, ip, OfSource(ip, TrackedFlows))'
                          /\ Recounted(synCount, ip, OfSource(ip, HalfOpenFlows))'
    OBVIOUS
  <2>1. recon.phase = "write_syns" /\ recon'.phase = "idle"
    BY DEF PassEnds
  <2>2. WriteSyns
    <3>1. recon' # recon
      BY <2>1
    <3>2. ReconcileStep \/ ReconcileBegin
      BY <3>1 DEF RNext, rvars
    <3>3. ~ReconcileBegin
      BY <2>1 DEF ReconcileBegin, NoPass
    <3> QED
      BY <2>1, <3>1, <3>2, <3>3
      DEF RNext, rvars, ReconcileStep, ReconcileScan, ClearConns, WriteConns, ClearSyns
  <2>3. /\ TrackedFlows' = TrackedFlows /\ HalfOpenFlows' = HalfOpenFlows
    BY <2>2, StepOfPass DEF ReconcileStep
  <2>4. Holds(connCount', recon.conns) /\ Holds(synCount', recon.syns)
    <3>1. recon.syns \in [Ip -> Nat] /\ IsCountMap(synCount) /\ synCount = NoCounts
      BY <2>1 DEF RInv, RTypeOK, TypeOK, Rewritten
    <3>2. \E taken \in SUBSET Ip : /\ Takes(synCount, recon.syns, taken)
                                   /\ synCount' = Overwritten(synCount, recon.syns, taken)
      BY <2>2 DEF WriteSyns
    <3>3. Holds(synCount', recon.syns)
      BY <3>1, <3>2, OverwriteTypes
    <3>4. connCount' = connCount /\ Holds(connCount, recon.conns)
      BY <2>1, <2>2 DEF RInv, Rewritten, WriteSyns
    <3> QED
      BY <3>3, <3>4 DEF Holds
  <2>5. \A ip \in Ip : /\ recon.conns[ip] = Cardinality(OfSource(ip, TrackedFlows))
                       /\ recon.syns[ip] = Cardinality(OfSource(ip, HalfOpenFlows))
    BY <2>1 DEF RInv, Tallied, AllRead
  <2>6. \A ip \in Ip : /\ OfSource(ip, TrackedFlows)' = OfSource(ip, TrackedFlows)
                       /\ OfSource(ip, HalfOpenFlows)' = OfSource(ip, HalfOpenFlows)
    BY <2>3 DEF OfSource
  <2> QED
    BY <2>4, <2>5, <2>6 DEF Holds, Recounted
<1>2. RInv /\ [RNext]_rvars => [A]_rvars
  BY <1>1
<1> QED
  BY <1>2, InitRInv, NextRInv, PTL DEF RSpec, QuietPassRecounts
-----------------------------------------------------------------------------
(***************************************************************************)
(* The limits, with the recount going on.                                  *)
(*                                                                         *)
(* A counter on which nothing has been lost is ahead of the flows that     *)
(* hold a unit of it, except while the recount has it emptied; but then    *)
(* the tally is ahead of those of them that the pass has read, and in the  *)
(* end it has read them all.                                               *)
(***************************************************************************)
\* S is the set of members that hold a unit of one counter of one owner, and
\* the step from S to T charges the counter for what it does to member k.
LEMMA ChargeStep ==
    ASSUME NEW S, IsFiniteSet(S), NEW T, NEW k,
           NEW count \in Nat, NEW new \in Nat, NEW quota \in Nat,
           Cardinality(S) <= count,
           quota > 0 => Cardinality(S) <= quota,
           \/ new >= count /\ T \subseteq S
           \/ /\ new = IF count > 0 THEN count - 1 ELSE 0
              /\ k \in S
              /\ T \subseteq S \ {k}
           \/ new = count + 1 /\ count < quota /\ T \subseteq S \cup {k}
    PROVE  /\ Cardinality(T) <= new
           /\ quota > 0 => Cardinality(T) <= quota
<1>1. Cardinality(S) \in Nat /\ Cardinality(T) \in Nat
  BY SetStep
<1>2. CASE new >= count /\ T \subseteq S
  BY <1>1, <1>2, SetStep
<1>3. CASE /\ new = IF count > 0 THEN count - 1 ELSE 0
           /\ k \in S
           /\ T \subseteq S \ {k}
  <2>1. Cardinality(T) <= Cardinality(S) - 1
    BY <1>3, SetStep
  <2> QED
    BY <1>1, <1>3, <2>1
<1>4. CASE new = count + 1 /\ count < quota /\ T \subseteq S \cup {k}
  <2>1. Cardinality(T) <= Cardinality(S) + 1
    BY <1>4, SetStep
  <2> QED
    BY <1>1, <1>4, <2>1
<1> QED
  BY <1>2, <1>3, <1>4

\* When a pass reads k, the tally stays ahead of the members of S that it has read.
LEMMA ReadStep ==
    ASSUME NEW S, IsFiniteSet(S), NEW left, NEW k, NEW tally \in Nat, NEW new \in Nat,
           Cardinality(S \ left) <= tally,
           IF k \in S THEN new = tally + 1 ELSE new >= tally
    PROVE  Cardinality(S \ (left \ {k})) <= new
<1> DEFINE A == S \ left
           B == S \ (left \ {k})
<1>1. IsFiniteSet(A) /\ Cardinality(A) <= tally
  BY FS_Subset
<1>2. B \subseteq A \cup {k} /\ (k \notin S => B \subseteq A)
  OBVIOUS
<1> HIDE DEF A, B
<1>3. Cardinality(A) \in Nat /\ Cardinality(B) \in Nat
  BY <1>1, <1>2, SetStep
<1>4. Cardinality(B) <= Cardinality(A) + 1 /\ (k \notin S => Cardinality(B) <= Cardinality(A))
  BY <1>1, <1>2, SetStep
<1> QED
  BY <1>1, <1>3, <1>4 DEF B

\* The flows of an address that hold a unit form finite sets.
LEMMA HeldSets ==
    ASSUME TypeOK, NEW ip \in Ip
    PROVE  /\ IsFiniteSet(ConnsOf(ip)) /\ IsFiniteSet(HalfOpenOf(ip))
           /\ \A k \in Flows : k \in ConnsOf(ip) <=> SrcIp(k) = ip /\ HoldsConn(ct[k])
           /\ \A k \in Flows : k \in HalfOpenOf(ip) <=> SrcIp(k) = ip /\ ct[k].syn
           /\ ConnsOf(ip) \subseteq Flows /\ HalfOpenOf(ip) \subseteq Flows
<1>1. ConnsOf(ip) \subseteq Flows /\ HalfOpenOf(ip) \subseteq Flows
  BY DEF ConnsOf, HalfOpenOf, CountedConns, CountedHalfOpen
<1>2. IsFiniteSet(ConnsOf(ip)) /\ IsFiniteSet(HalfOpenOf(ip))
  BY <1>1, FlowsAssumption, FS_Subset
<1> QED
  BY <1>1, <1>2 DEF ConnsOf, HalfOpenOf, CountedConns, CountedHalfOpen, HoldsConn

\* They follow the entry a step writes: only its key can come or go.
LEMMA HeldSetsStep ==
    ASSUME TypeOK, NEW ip \in Ip, NEW k \in Flows, NEW v \in CtValue, Writes(k, v)
    PROVE  /\ SrcIp(k) # ip => ConnsOf(ip)' = ConnsOf(ip) /\ HalfOpenOf(ip)' = HalfOpenOf(ip)
           /\ ConnsOf(ip)' \subseteq ConnsOf(ip) \cup {k}
           /\ HalfOpenOf(ip)' \subseteq HalfOpenOf(ip) \cup {k}
           /\ ~HoldsConn(v) => ConnsOf(ip)' \subseteq ConnsOf(ip) \ {k}
           /\ ~v.syn => HalfOpenOf(ip)' \subseteq HalfOpenOf(ip) \ {k}
<1>1. \A j \in Flows : ct'[j] = IF j = k THEN v ELSE ct[j]
  BY DEF Writes, TypeOK
<1> QED
  BY <1>1 DEF ConnsOf, HalfOpenOf, CountedConns, CountedHalfOpen, HoldsConn

\* The phases in which the counter of the connections is about to be rewritten.
Reading == {"scan", "clear_conns", "write_conns"}

ConnsCovered(ip) ==
    /\ recon.phase # "write_conns" => Cardinality(ConnsOf(ip)) <= Count(connCount, ip)
    /\ recon.phase \in Reading => Cardinality(ConnsOf(ip) \ recon.left) <= recon.conns[ip]
    /\ MaxConns[ip] > 0 => Cardinality(ConnsOf(ip)) <= MaxConns[ip]

HalfOpenCovered(ip) ==
    /\ recon.phase # "write_syns" => Cardinality(HalfOpenOf(ip)) <= Count(synCount, ip)
    /\ recon.phase # "idle" => Cardinality(HalfOpenOf(ip) \ recon.left) <= recon.syns[ip]
    /\ MaxHalfOpen > 0 => Cardinality(HalfOpenOf(ip)) <= MaxHalfOpen

\* Nothing is missing of a source that is not unsure.
Covers ==
    \A ip \in Ip : /\ ip \notin connUnsure => ConnsCovered(ip)
                   /\ ip \notin synUnsure => HalfOpenCovered(ip)

\* The numbers that are compared are numbers.
LEMMA CoverTypes ==
    ASSUME RInv, NEW ip \in Ip
    PROVE  /\ Count(connCount, ip) \in Nat /\ Count(synCount, ip) \in Nat
           /\ recon.conns[ip] \in Nat /\ recon.syns[ip] \in Nat
           /\ MaxConns[ip] \in Nat /\ MaxHalfOpen \in Nat
           /\ IsFiniteSet(ConnsOf(ip)) /\ IsFiniteSet(HalfOpenOf(ip))
<1>1. IsCountMap(connCount) /\ IsCountMap(synCount) /\ TypeOK
  BY DEF RInv, RTypeOK, TypeOK
<1> QED
  BY <1>1, CountTypes, HeldSets, LimitsAssumption DEF RInv, RTypeOK

LEMMA CoverTypesNext ==
    ASSUME RInv', NEW ip \in Ip
    PROVE  /\ Count(connCount', ip) \in Nat /\ Count(synCount', ip) \in Nat
           /\ recon'.conns[ip] \in Nat /\ recon'.syns[ip] \in Nat
           /\ IsFiniteSet(ConnsOf(ip)') /\ IsFiniteSet(HalfOpenOf(ip)')
<1>1. IsCountMap(connCount') /\ IsCountMap(synCount')
  BY DEF RInv, RTypeOK, TypeOK
<1>2. recon'.conns \in [Ip -> Nat] /\ recon'.syns \in [Ip -> Nat]
  BY DEF RInv, RTypeOK
<1>3. ConnsOf(ip)' \subseteq Flows /\ HalfOpenOf(ip)' \subseteq Flows
  BY DEF ConnsOf, HalfOpenOf, CountedConns, CountedHalfOpen
<1>4. IsFiniteSet(ConnsOf(ip)') /\ IsFiniteSet(HalfOpenOf(ip)')
  BY <1>3, FlowsAssumption, FS_Subset
<1>5. Count(connCount', ip) \in Nat /\ Count(synCount', ip) \in Nat
  BY <1>1, CountTypes
<1> QED
  BY <1>2, <1>4, <1>5

\* A source that is not unsure after a step holds nothing then, or was not unsure
\* before and has missed nothing in the step.
LEMMA SureBefore ==
    ASSUME Track, NEW ip \in Ip
    PROVE  /\ ip \notin connUnsure' =>
                 ConnsOf(ip)' = {} \/ (ip \notin connUnsure /\ ip \notin ConnsMissed)
           /\ ip \notin synUnsure' =>
                 HalfOpenOf(ip)' = {} \/ (ip \notin synUnsure /\ ip \notin HalfOpenMissed)
  BY DEF Track

\* A new connection of a source that has missed nothing is in the map, and a pass that
\* is under way has not read its key yet; so for a new half-open flow.
LEMMA NotMissed ==
    ASSUME NEW k
    PROVE  /\ k \in CountedConns' \ CountedConns /\ SrcIp(k) \notin ConnsMissed =>
                 /\ SrcIp(k) \in DOMAIN connCount'
                 /\ recon.phase \in Reading => k \in recon.left
           /\ k \in CountedHalfOpen' \ CountedHalfOpen /\ SrcIp(k) \notin HalfOpenMissed =>
                 /\ SrcIp(k) \in DOMAIN synCount'
                 /\ recon.phase # "idle" => k \in recon.left
  BY DEF ConnsMissed, HalfOpenMissed, Reading

\* Writing one entry: how the connections of its source, and their counter, move.
LEMMA ConnsMove ==
    ASSUME RInv, NEW k \in Flows, NEW v \in CtValue, Writes(k, v), NEW ip, ip = SrcIp(k),
           ip \notin ConnsMissed
    PROVE  \/ Count(connCount', ip) >= Count(connCount, ip) /\ ConnsOf(ip)' \subseteq ConnsOf(ip)
           \/ /\ Count(connCount', ip) = IF Count(connCount, ip) > 0
                                         THEN Count(connCount, ip) - 1 ELSE 0
              /\ k \in ConnsOf(ip)
              /\ ConnsOf(ip)' \subseteq ConnsOf(ip) \ {k}
           \/ /\ Count(connCount', ip) = Count(connCount, ip) + 1
              /\ Count(connCount, ip) < MaxConns[ip]
              /\ ConnsOf(ip)' \subseteq ConnsOf(ip) \cup {k}
              /\ recon.phase \in Reading => k \in recon.left
<1>1. TypeOK /\ IsCountMap(connCount) /\ ip \in Ip
  BY FlowTypes DEF RInv, RTypeOK, TypeOK
<1>2. /\ k \in ConnsOf(ip) <=> HoldsConn(ct[k])
      /\ ConnsOf(ip)' \subseteq ConnsOf(ip) \cup {k}
      /\ ~HoldsConn(v) => ConnsOf(ip)' \subseteq ConnsOf(ip) \ {k}
  BY <1>1, HeldSets, HeldSetsStep
<1>3. CASE connCount' = connCount /\ (HoldsConn(v) => HoldsConn(ct[k]))
  <2>1. Count(connCount', ip) >= Count(connCount, ip)
    BY <1>1, <1>3, CountTypes
  <2> QED
    BY <1>2, <1>3, <2>1
<1>4. CASE connCount' = Dec(connCount, ip) /\ HoldsConn(ct[k]) /\ ~HoldsConn(v)
  BY <1>1, <1>2, <1>4, CountTypes
<1>5. CASE connCount' = Inc(connCount, ip) /\ Count(connCount, ip) < MaxConns[ip]
  <2>1. CASE ConnsOf(ip)' \subseteq ConnsOf(ip)
    BY <1>1, <1>5, <2>1, CountTypes
  <2>2. CASE ~(ConnsOf(ip)' \subseteq ConnsOf(ip))
    <3>1. k \in CountedConns' \ CountedConns
      BY <1>2, <2>2 DEF ConnsOf
    <3>2. ip \in DOMAIN connCount' /\ (recon.phase \in Reading => k \in recon.left)
      BY <3>1, NotMissed
    <3> QED
      BY <1>1, <1>2, <1>5, <3>2, CountTypes
  <2> QED
    BY <2>1, <2>2
<1> QED
  BY <1>3, <1>4, <1>5 DEF Writes, ConnCharge

\* The same of its half-open flows.
LEMMA HalfOpenMove ==
    ASSUME RInv, NEW k \in Flows, NEW v \in CtValue, Writes(k, v), NEW ip, ip = SrcIp(k),
           ip \notin HalfOpenMissed
    PROVE  \/ Count(synCount', ip) >= Count(synCount, ip) /\ HalfOpenOf(ip)' \subseteq HalfOpenOf(ip)
           \/ /\ Count(synCount', ip) = IF Count(synCount, ip) > 0
                                        THEN Count(synCount, ip) - 1 ELSE 0
              /\ k \in HalfOpenOf(ip)
              /\ HalfOpenOf(ip)' \subseteq HalfOpenOf(ip) \ {k}
           \/ /\ Count(synCount', ip) = Count(synCount, ip) + 1
              /\ Count(synCount, ip) < MaxHalfOpen
              /\ HalfOpenOf(ip)' \subseteq HalfOpenOf(ip) \cup {k}
              /\ recon.phase # "idle" => k \in recon.left
<1>1. TypeOK /\ IsCountMap(synCount) /\ ip \in Ip
  BY FlowTypes DEF RInv, RTypeOK, TypeOK
<1>2. /\ k \in HalfOpenOf(ip) <=> ct[k].syn
      /\ HalfOpenOf(ip)' \subseteq HalfOpenOf(ip) \cup {k}
      /\ ~v.syn => HalfOpenOf(ip)' \subseteq HalfOpenOf(ip) \ {k}
  BY <1>1, HeldSets, HeldSetsStep
<1>3. CASE synCount' = synCount /\ (v.syn => ct[k].syn)
  <2>1. Count(synCount', ip) >= Count(synCount, ip)
    BY <1>1, <1>3, CountTypes
  <2> QED
    BY <1>2, <1>3, <2>1
<1>4. CASE synCount' = Dec(synCount, ip) /\ ct[k].syn /\ ~v.syn
  BY <1>1, <1>2, <1>4, CountTypes
<1>5. CASE synCount' = Inc(synCount, ip) /\ Count(synCount, ip) < MaxHalfOpen
  <2>1. CASE HalfOpenOf(ip)' \subseteq HalfOpenOf(ip)
    BY <1>1, <1>5, <2>1, CountTypes
  <2>2. CASE ~(HalfOpenOf(ip)' \subseteq HalfOpenOf(ip))
    <3>1. k \in CountedHalfOpen' \ CountedHalfOpen
      BY <1>2, <2>2 DEF HalfOpenOf
    <3>2. ip \in DOMAIN synCount' /\ (recon.phase # "idle" => k \in recon.left)
      BY <3>1, NotMissed
    <3> QED
      BY <1>1, <1>2, <1>5, <3>2, CountTypes
  <2> QED
    BY <2>1, <2>2
<1> QED
  BY <1>3, <1>4, <1>5 DEF Writes, SynCharge

\* Writing one entry keeps what is claimed of the connections of every source.
LEMMA ConnsWrite ==
    ASSUME RInv, RInv', NEW k \in Flows, NEW v \in CtValue, Writes(k, v), UNCHANGED recon,
           NEW ip \in Ip, ip \notin ConnsMissed, ConnsCovered(ip)
    PROVE  ConnsCovered(ip)'
<1>1. /\ recon.phase # "write_conns" => Cardinality(ConnsOf(ip)) <= Count(connCount, ip)
      /\ recon.phase \in Reading => Cardinality(ConnsOf(ip) \ recon.left) <= recon.conns[ip]
      /\ MaxConns[ip] > 0 => Cardinality(ConnsOf(ip)) <= MaxConns[ip]
  BY DEF ConnsCovered
<1>2. CASE SrcIp(k) # ip
  <2>1. ConnsOf(ip)' = ConnsOf(ip)
    BY <1>2, HeldSetsStep DEF RInv, RTypeOK
  <2>2. Count(connCount', ip) = Count(connCount, ip)
    BY <1>2, FlowTypes, CountTypes DEF Writes, ConnCharge, RInv, RTypeOK, TypeOK
  <2> QED
    BY <1>1, <2>1, <2>2 DEF ConnsCovered
<1>3. CASE SrcIp(k) = ip
  <2> DEFINE S == ConnsOf(ip)
             T == ConnsOf(ip)'
             count == Count(connCount, ip)
             new == Count(connCount', ip)
  <2>1. \/ new >= count /\ T \subseteq S
        \/ new = (IF count > 0 THEN count - 1 ELSE 0) /\ k \in S /\ T \subseteq S \ {k}
        \/ /\ new = count + 1 /\ count < MaxConns[ip] /\ T \subseteq S \cup {k}
           /\ recon.phase \in Reading => k \in recon.left
    BY <1>3, ConnsMove
  <2>2. /\ count \in Nat /\ new \in Nat /\ MaxConns[ip] \in Nat
        /\ IsFiniteSet(S) /\ IsFiniteSet(T)
    BY CoverTypes, CoverTypesNext
  <2> HIDE DEF S, T, count, new
  <2>3. recon.phase # "write_conns" =>
            Cardinality(T) <= new /\ (MaxConns[ip] > 0 => Cardinality(T) <= MaxConns[ip])
    <3>1. recon.phase # "write_conns" => Cardinality(S) <= count
      BY <1>1 DEF S, count
    <3>2. MaxConns[ip] > 0 => Cardinality(S) <= MaxConns[ip]
      BY <1>1 DEF S
    <3> QED
      BY <2>1, <2>2, <3>1, <3>2, ChargeStep
  <2>4. recon.phase = "write_conns" => T \subseteq S
    BY <2>1 DEF RInv, AllRead, Reading
  <2>5. recon.phase \in Reading => T \ recon.left \subseteq S \ recon.left
    BY <2>1
  <2>6. recon.phase \in Reading => Cardinality(T \ recon.left) <= recon.conns[ip]
    <3>1. /\ IsFiniteSet(S \ recon.left) /\ recon.conns[ip] \in Nat
          /\ recon.phase \in Reading => Cardinality(S \ recon.left) <= recon.conns[ip]
      BY <1>1, <2>2, CoverTypes, FS_Subset DEF S
    <3>2. recon.phase \in Reading => Cardinality(T \ recon.left) <= Cardinality(S \ recon.left)
      BY <2>5, <3>1, FS_Subset
    <3>3. IsFiniteSet(T \ recon.left) /\ Cardinality(T \ recon.left) \in Nat
      BY <2>2, FS_Subset, FS_CardinalityType
    <3> QED
      BY <3>1, <3>2, <3>3, FS_CardinalityType
  <2>7. recon.phase = "write_conns" /\ MaxConns[ip] > 0 => Cardinality(T) <= MaxConns[ip]
    <3>1. recon.phase = "write_conns" => Cardinality(T) <= Cardinality(S)
      BY <2>2, <2>4, FS_Subset
    <3>2. MaxConns[ip] > 0 => Cardinality(S) <= MaxConns[ip]
      BY <1>1 DEF S
    <3> QED
      BY <2>2, <3>1, <3>2, FS_CardinalityType
  <2> QED
    BY <2>3, <2>6, <2>7 DEF ConnsCovered, T, new
<1> QED
  BY <1>2, <1>3

\* The same of the half-open flows.
LEMMA HalfOpenWrite ==
    ASSUME RInv, RInv', NEW k \in Flows, NEW v \in CtValue, Writes(k, v), UNCHANGED recon,
           NEW ip \in Ip, ip \notin HalfOpenMissed, HalfOpenCovered(ip)
    PROVE  HalfOpenCovered(ip)'
<1>1. /\ recon.phase # "write_syns" => Cardinality(HalfOpenOf(ip)) <= Count(synCount, ip)
      /\ recon.phase # "idle" => Cardinality(HalfOpenOf(ip) \ recon.left) <= recon.syns[ip]
      /\ MaxHalfOpen > 0 => Cardinality(HalfOpenOf(ip)) <= MaxHalfOpen
  BY DEF HalfOpenCovered
<1>2. CASE SrcIp(k) # ip
  <2>1. HalfOpenOf(ip)' = HalfOpenOf(ip)
    BY <1>2, HeldSetsStep DEF RInv, RTypeOK
  <2>2. Count(synCount', ip) = Count(synCount, ip)
    BY <1>2, FlowTypes, CountTypes DEF Writes, SynCharge, RInv, RTypeOK, TypeOK
  <2> QED
    BY <1>1, <2>1, <2>2 DEF HalfOpenCovered
<1>3. CASE SrcIp(k) = ip
  <2> DEFINE S == HalfOpenOf(ip)
             T == HalfOpenOf(ip)'
             count == Count(synCount, ip)
             new == Count(synCount', ip)
  <2>1. \/ new >= count /\ T \subseteq S
        \/ new = (IF count > 0 THEN count - 1 ELSE 0) /\ k \in S /\ T \subseteq S \ {k}
        \/ /\ new = count + 1 /\ count < MaxHalfOpen /\ T \subseteq S \cup {k}
           /\ recon.phase # "idle" => k \in recon.left
    BY <1>3, HalfOpenMove
  <2>2. /\ count \in Nat /\ new \in Nat /\ MaxHalfOpen \in Nat
        /\ IsFiniteSet(S) /\ IsFiniteSet(T)
    BY CoverTypes, CoverTypesNext
  <2> HIDE DEF S, T, count, new
  <2>3. recon.phase # "write_syns" =>
            Cardinality(T) <= new /\ (MaxHalfOpen > 0 => Cardinality(T) <= MaxHalfOpen)
    <3>1. recon.phase # "write_syns" => Cardinality(S) <= count
      BY <1>1 DEF S, count
    <3>2. MaxHalfOpen > 0 => Cardinality(S) <= MaxHalfOpen
      BY <1>1 DEF S
    <3> QED
      BY <2>1, <2>2, <3>1, <3>2, ChargeStep
  <2>4. recon.phase = "write_syns" => T \subseteq S
    BY <2>1 DEF RInv, AllRead
  <2>5. recon.phase # "idle" => T \ recon.left \subseteq S \ recon.left
    BY <2>1
  <2>6. recon.phase # "idle" => Cardinality(T \ recon.left) <= recon.syns[ip]
    <3>1. /\ IsFiniteSet(S \ recon.left) /\ recon.syns[ip] \in Nat
          /\ recon.phase # "idle" => Cardinality(S \ recon.left) <= recon.syns[ip]
      BY <1>1, <2>2, CoverTypes, FS_Subset DEF S
    <3>2. recon.phase # "idle" => Cardinality(T \ recon.left) <= Cardinality(S \ recon.left)
      BY <2>5, <3>1, FS_Subset
    <3>3. IsFiniteSet(T \ recon.left) /\ Cardinality(T \ recon.left) \in Nat
      BY <2>2, FS_Subset, FS_CardinalityType
    <3> QED
      BY <3>1, <3>2, <3>3, FS_CardinalityType
  <2>7. recon.phase = "write_syns" /\ MaxHalfOpen > 0 => Cardinality(T) <= MaxHalfOpen
    <3>1. recon.phase = "write_syns" => Cardinality(T) <= Cardinality(S)
      BY <2>2, <2>4, FS_Subset
    <3>2. MaxHalfOpen > 0 => Cardinality(S) <= MaxHalfOpen
      BY <1>1 DEF S
    <3> QED
      BY <2>2, <3>1, <3>2, FS_CardinalityType
  <2> QED
    BY <2>3, <2>6, <2>7 DEF HalfOpenCovered, T, new
<1> QED
  BY <1>2, <1>3

\* A counted flow is one that the pass counts.
LEMMA CountedIsTallied ==
    ASSUME RInv, NEW ip
    PROVE  ConnsOf(ip) \subseteq TrackedFlows /\ HalfOpenOf(ip) \subseteq HalfOpenFlows
<1>1. FlagsFitState
  BY EntriesEnds DEF RInv
<1> QED
  BY <1>1 DEF FlagsFitState, ConnsOf, HalfOpenOf, CountedConns, CountedHalfOpen,
              TrackedFlows, HalfOpenFlows, Present, HalfOpenStates

\* A pass reads a flow.
LEMMA ScanCovers ==
    ASSUME RInv, RInv', NEW k \in Flows, ReconcileScan(k), NEW ip \in Ip
    PROVE  /\ ConnsCovered(ip) => ConnsCovered(ip)'
           /\ HalfOpenCovered(ip) => HalfOpenCovered(ip)'
<1>1. /\ recon.phase = "scan" /\ recon'.phase \in {"scan", "clear_conns"}
      /\ recon'.left = recon.left \ {k}
      /\ recon'.conns = IF k \in TrackedFlows THEN OneMore(recon.conns, SrcIp(k)) ELSE recon.conns
      /\ recon'.syns = IF k \in HalfOpenFlows THEN OneMore(recon.syns, SrcIp(k)) ELSE recon.syns
      /\ UNCHANGED <<connCount, synCount>>
  BY ScanShape
<1>2. /\ recon.conns \in [Ip -> Nat] /\ recon.syns \in [Ip -> Nat]
      /\ recon.conns[ip] \in Nat /\ recon.syns[ip] \in Nat
      /\ recon'.conns[ip] \in Nat /\ recon'.syns[ip] \in Nat
      /\ IsFiniteSet(ConnsOf(ip)) /\ IsFiniteSet(HalfOpenOf(ip))
  BY CoverTypes, CoverTypesNext DEF RInv, RTypeOK
<1>3. ConnsOf(ip)' = ConnsOf(ip) /\ HalfOpenOf(ip)' = HalfOpenOf(ip)
  BY StepOfPass DEF ReconcileStep, ConnsOf, HalfOpenOf, CountedConns, CountedHalfOpen
<1>4. /\ IF k \in ConnsOf(ip) THEN recon'.conns[ip] = recon.conns[ip] + 1
         ELSE recon'.conns[ip] >= recon.conns[ip]
      /\ IF k \in HalfOpenOf(ip) THEN recon'.syns[ip] = recon.syns[ip] + 1
         ELSE recon'.syns[ip] >= recon.syns[ip]
  <2>1. /\ k \in ConnsOf(ip) => k \in TrackedFlows /\ SrcIp(k) = ip
        /\ k \in HalfOpenOf(ip) => k \in HalfOpenFlows /\ SrcIp(k) = ip
    BY CountedIsTallied DEF ConnsOf, HalfOpenOf
  <2> QED
    BY <1>1, <1>2, <2>1 DEF OneMore
<1>5. ConnsCovered(ip) => Cardinality(ConnsOf(ip) \ (recon.left \ {k})) <= recon'.conns[ip]
  <2>1. ConnsCovered(ip) => Cardinality(ConnsOf(ip) \ recon.left) <= recon.conns[ip]
    BY <1>1 DEF ConnsCovered, Reading
  <2> QED
    BY <1>2, <1>4, <2>1, ReadStep
<1>6. HalfOpenCovered(ip) => Cardinality(HalfOpenOf(ip) \ (recon.left \ {k})) <= recon'.syns[ip]
  <2>1. HalfOpenCovered(ip) => Cardinality(HalfOpenOf(ip) \ recon.left) <= recon.syns[ip]
    BY <1>1 DEF HalfOpenCovered
  <2> QED
    BY <1>2, <1>4, <2>1, ReadStep
<1> QED
  BY <1>1, <1>3, <1>5, <1>6 DEF ConnsCovered, HalfOpenCovered, Reading

\* A pass begins.
LEMMA BeginCovers ==
    ASSUME RInv, RInv', ReconcileBegin, NEW ip \in Ip
    PROVE  /\ ConnsCovered(ip) => ConnsCovered(ip)'
           /\ HalfOpenCovered(ip) => HalfOpenCovered(ip)'
<1>1. /\ recon.phase = "idle" /\ recon'.phase = "scan" /\ recon'.left = Flows
      /\ UNCHANGED <<connCount, synCount>>
  BY DEF ReconcileBegin, NoPass, RInv, PassHolds
<1>2. ConnsOf(ip)' = ConnsOf(ip) /\ HalfOpenOf(ip)' = HalfOpenOf(ip)
  BY StepOfPass DEF ConnsOf, HalfOpenOf, CountedConns, CountedHalfOpen
<1>3. ConnsOf(ip) \ Flows = {} /\ HalfOpenOf(ip) \ Flows = {}
  BY HeldSets DEF RInv, RTypeOK
<1>4. Cardinality({}) = 0 /\ recon'.conns[ip] \in Nat /\ recon'.syns[ip] \in Nat
  BY CoverTypesNext, FS_EmptySet
<1> QED
  BY <1>1, <1>2, <1>3, <1>4 DEF ConnsCovered, HalfOpenCovered

\* A pass writes the counters: what has been read is all there is, and the sources of
\* which there was no room for a key have missed something.
LEMMA RewriteCovers ==
    ASSUME RInv, RInv', ClearConns \/ WriteConns \/ ClearSyns \/ WriteSyns, NEW ip \in Ip
    PROVE  /\ ip \notin ConnsMissed /\ ConnsCovered(ip) => ConnsCovered(ip)'
           /\ ip \notin HalfOpenMissed /\ HalfOpenCovered(ip) => HalfOpenCovered(ip)'
<1>1. ConnsOf(ip)' = ConnsOf(ip) /\ HalfOpenOf(ip)' = HalfOpenOf(ip)
  BY StepOfPass DEF ReconcileStep, ConnsOf, HalfOpenOf, CountedConns, CountedHalfOpen
<1>2. /\ recon.left = {} /\ ConnsOf(ip) \ {} = ConnsOf(ip) /\ HalfOpenOf(ip) \ {} = HalfOpenOf(ip)
      /\ recon \in [phase : Phases, left : SUBSET Flows, conns : [Ip -> Nat], syns : [Ip -> Nat]]
      /\ IsCountMap(connCount) /\ IsCountMap(synCount)
  BY DEF RInv, RTypeOK, TypeOK, AllRead, ClearConns, WriteConns, ClearSyns, WriteSyns
<1>3. /\ recon.conns[ip] \in Nat /\ recon.syns[ip] \in Nat
      /\ Count(connCount', ip) \in Nat /\ Count(synCount', ip) \in Nat
      /\ Cardinality(ConnsOf(ip)) \in Nat /\ Cardinality(HalfOpenOf(ip)) \in Nat
  BY CoverTypes, CoverTypesNext, FS_CardinalityType
<1>4. CASE ClearConns
  BY <1>1, <1>2, <1>4 DEF ClearConns, ConnsCovered, HalfOpenCovered, Reading
<1>5. CASE ClearSyns
  BY <1>1, <1>2, <1>5 DEF ClearSyns, ConnsCovered, HalfOpenCovered, Reading
<1>6. CASE WriteConns
  <2>1. /\ recon.phase = "write_conns" /\ recon'.phase = "clear_syns"
        /\ recon'.left = recon.left /\ recon'.syns = recon.syns /\ UNCHANGED synCount
    BY <1>2, <1>6 DEF WriteConns
  <2>2. ip \in Charged(recon.conns) /\ ip \in DOMAIN connCount' =>
            Count(connCount', ip) = recon.conns[ip]
    BY <1>2, <1>6, OverwriteTypes DEF WriteConns
  <2>3. ip \notin ConnsMissed /\ ip \in Charged(recon.conns) => ip \in DOMAIN connCount'
    BY <2>1 DEF ConnsMissed
  <2>4. ip \notin ConnsMissed /\ ConnsCovered(ip) =>
            Cardinality(ConnsOf(ip)) <= Count(connCount', ip)
    <3>1. ConnsCovered(ip) => Cardinality(ConnsOf(ip)) <= recon.conns[ip]
      BY <1>2, <2>1 DEF ConnsCovered, Reading
    <3>2. ip \notin Charged(recon.conns) => recon.conns[ip] = 0
      BY <1>3 DEF Charged
    <3> QED
      BY <1>3, <2>2, <2>3, <3>1, <3>2
  <2> QED
    BY <1>1, <1>2, <2>1, <2>4 DEF ConnsCovered, HalfOpenCovered, Reading
<1>7. CASE WriteSyns
  <2>1. /\ recon.phase = "write_syns" /\ recon'.phase = "idle" /\ UNCHANGED connCount
    BY <1>7 DEF WriteSyns, NoPass
  <2>2. ip \in Charged(recon.syns) /\ ip \in DOMAIN synCount' =>
            Count(synCount', ip) = recon.syns[ip]
    BY <1>2, <1>7, OverwriteTypes DEF WriteSyns
  <2>3. ip \notin HalfOpenMissed /\ ip \in Charged(recon.syns) => ip \in DOMAIN synCount'
    BY <2>1 DEF HalfOpenMissed
  <2>4. ip \notin HalfOpenMissed /\ HalfOpenCovered(ip) =>
            Cardinality(HalfOpenOf(ip)) <= Count(synCount', ip)
    <3>1. HalfOpenCovered(ip) => Cardinality(HalfOpenOf(ip)) <= recon.syns[ip]
      BY <1>2, <2>1 DEF HalfOpenCovered
    <3>2. ip \notin Charged(recon.syns) => recon.syns[ip] = 0
      BY <1>3 DEF Charged
    <3> QED
      BY <1>3, <2>2, <2>3, <3>1, <3>2
  <2> QED
    BY <1>1, <1>2, <2>1, <2>4 DEF ConnsCovered, HalfOpenCovered, Reading
<1> QED
  BY <1>4, <1>5, <1>6, <1>7

\* A step of the data plane, of time, or of the rest of the daemon.
LEMMA NextCovers ==
    ASSUME RInv, RInv', Next, UNCHANGED recon, NEW ip \in Ip
    PROVE  /\ ip \notin ConnsMissed /\ ConnsCovered(ip) => ConnsCovered(ip)'
           /\ ip \notin HalfOpenMissed /\ HalfOpenCovered(ip) => HalfOpenCovered(ip)'
<1>1. CASE Idles
  <2>1. ConnsOf(ip)' = ConnsOf(ip) /\ HalfOpenOf(ip)' = HalfOpenOf(ip)
    BY <1>1 DEF Idles, ConnsOf, HalfOpenOf, CountedConns, CountedHalfOpen
  <2>2. Count(connCount', ip) = Count(connCount, ip) /\ Count(synCount', ip) = Count(synCount, ip)
    BY <1>1 DEF Idles
  <2> QED
    BY <2>1, <2>2 DEF ConnsCovered, HalfOpenCovered
<1>2. ASSUME NEW k \in Flows, NEW v \in CtValue, Writes(k, v)
      PROVE  /\ ip \notin ConnsMissed /\ ConnsCovered(ip) => ConnsCovered(ip)'
             /\ ip \notin HalfOpenMissed /\ HalfOpenCovered(ip) => HalfOpenCovered(ip)'
  BY <1>2, ConnsWrite, HalfOpenWrite
<1>3. Idles \/ \E k \in Flows, v \in CtValue : Writes(k, v)
  BY StepShape DEF RInv, RTypeOK
<1> QED
  BY <1>1, <1>2, <1>3

\* Every step covers the sources that have missed nothing.
LEMMA StepCovers ==
    ASSUME RInv, RInv', RNext, NEW ip \in Ip
    PROVE  /\ ip \notin ConnsMissed /\ ConnsCovered(ip) => ConnsCovered(ip)'
           /\ ip \notin HalfOpenMissed /\ HalfOpenCovered(ip) => HalfOpenCovered(ip)'
<1>1. CASE (Packet \/ Daemon \/ \E k \in Flows : Expire(k)) /\ UNCHANGED recon
  BY <1>1, NextCovers DEF Next
<1>2. CASE ReconcileBegin
  BY <1>2, BeginCovers
<1>3. CASE ReconcileStep
  BY <1>3, ScanCovers, RewriteCovers DEF ReconcileStep
<1> QED
  BY <1>1, <1>2, <1>3 DEF RNext

\* The invariant of the limits.
LInv == RInv /\ Covers

\* A source with nothing is covered.
LEMMA NothingCovered ==
    ASSUME RInv', NEW ip \in Ip
    PROVE  /\ ConnsOf(ip)' = {} => ConnsCovered(ip)'
           /\ HalfOpenOf(ip)' = {} => HalfOpenCovered(ip)'
<1>1. /\ Count(connCount', ip) \in Nat /\ Count(synCount', ip) \in Nat
      /\ recon'.conns[ip] \in Nat /\ recon'.syns[ip] \in Nat
      /\ MaxConns[ip] \in Nat /\ MaxHalfOpen \in Nat
  BY CoverTypesNext, LimitsAssumption
<1>2. Cardinality({}) = 0 /\ {} \ recon'.left = {}
  BY FS_EmptySet
<1> QED
  BY <1>1, <1>2 DEF ConnsCovered, HalfOpenCovered

LEMMA NextLInv == LInv /\ [LNext]_lvars => LInv'
<1> SUFFICES ASSUME LInv, [LNext]_lvars PROVE LInv'
  OBVIOUS
<1>1. [RNext]_rvars
  BY DEF LNext, lvars, rvars
<1>2. RInv'
  BY <1>1, NextRInv DEF LInv
<1>3. CASE LNext
  <2> SUFFICES ASSUME NEW ip \in Ip
               PROVE  /\ ip \notin connUnsure' => ConnsCovered(ip)'
                      /\ ip \notin synUnsure' => HalfOpenCovered(ip)'
    BY <1>2 DEF LInv, Covers
  <2>1. /\ ip \notin connUnsure => ConnsCovered(ip)
        /\ ip \notin synUnsure => HalfOpenCovered(ip)
    BY DEF LInv, Covers
  <2>2. /\ ip \notin ConnsMissed /\ ConnsCovered(ip) => ConnsCovered(ip)'
        /\ ip \notin HalfOpenMissed /\ HalfOpenCovered(ip) => HalfOpenCovered(ip)'
    BY <1>2, <1>3, StepCovers DEF LInv, LNext
  <2>3. /\ ip \notin connUnsure' =>
              ConnsOf(ip)' = {} \/ (ip \notin connUnsure /\ ip \notin ConnsMissed)
        /\ ip \notin synUnsure' =>
              HalfOpenOf(ip)' = {} \/ (ip \notin synUnsure /\ ip \notin HalfOpenMissed)
    BY <1>3, SureBefore DEF LNext
  <2> QED
    BY <1>2, <2>1, <2>2, <2>3, NothingCovered
<1>4. CASE UNCHANGED lvars
  <2> SUFFICES ASSUME NEW ip \in Ip
               PROVE  /\ ip \notin connUnsure' => ConnsCovered(ip)'
                      /\ ip \notin synUnsure' => HalfOpenCovered(ip)'
    BY <1>2 DEF LInv, Covers
  <2>1. /\ ct' = ct /\ connCount' = connCount /\ synCount' = synCount /\ recon' = recon
        /\ connUnsure' = connUnsure /\ synUnsure' = synUnsure
    BY <1>4 DEF lvars
  <2>2. ConnsOf(ip)' = ConnsOf(ip) /\ HalfOpenOf(ip)' = HalfOpenOf(ip)
    BY <2>1 DEF ConnsOf, HalfOpenOf, CountedConns, CountedHalfOpen
  <2> QED
    BY <2>1, <2>2 DEF LInv, Covers, ConnsCovered, HalfOpenCovered
<1> QED
  BY <1>3, <1>4

LEMMA InitLInv == LInit => LInv
<1> SUFFICES ASSUME LInit PROVE LInv
  OBVIOUS
<1>1. RInv
  BY InitRInv DEF LInit
<1>2. ASSUME NEW ip \in Ip
      PROVE  ConnsOf(ip) = {} /\ HalfOpenOf(ip) = {}
  BY DEF LInit, RInit, Init, NoEntry, ConnsOf, HalfOpenOf, CountedConns, CountedHalfOpen
<1>3. recon.phase = "idle"
  BY DEF LInit, RInit, NoPass
<1>4. Cardinality({}) = 0 /\ "idle" \notin Reading
  BY FS_EmptySet DEF Reading
<1>5. ASSUME NEW ip \in Ip
      PROVE  /\ Count(connCount, ip) \in Nat /\ Count(synCount, ip) \in Nat
             /\ MaxConns[ip] \in Nat /\ MaxHalfOpen \in Nat
  BY <1>1, CoverTypes
<1>6. ASSUME NEW ip \in Ip
      PROVE  ConnsCovered(ip) /\ HalfOpenCovered(ip)
  <2>1. Cardinality(ConnsOf(ip)) = 0 /\ Cardinality(HalfOpenOf(ip)) = 0
    BY <1>2, <1>4
  <2> QED
    BY <1>3, <1>4, <1>5, <2>1 DEF ConnsCovered, HalfOpenCovered
<1> QED
  BY <1>1, <1>6 DEF LInv, Covers

\* The inductive invariant behind the theorems on the limits.
LEMMA LInvCorrect == LSpec => []LInv
  BY InitLInv, NextLInv, PTL DEF LSpec

\* No unit is returned twice: whatever is overwritten, expired or deleted, and wherever
\* the recount stands, the counters of an address cover the flows that hold a unit, if
\* none of them was admitted uncounted (ct_counters_tick, conn_count_dec, syn_count_dec,
\* reconcile_conn_counts).
THEOREM CountersCorrect == LSpec => []CountersCoverFlows
<1>1. LInv => CountersCoverFlows
  BY DEF LInv, Covers, ConnsCovered, HalfOpenCovered, CountersCoverFlows
<1> QED
  BY <1>1, LInvCorrect, PTL

\* The limits hold for every number of addresses, flows and slots of the maps, with
\* the recount going on: counted connections stay within CONN_LIMITS and half-open
\* flows, all of which hold a unit, within syn_max_half_open, but for the sources with
\* flows that were admitted uncounted (conn_limit_check, syn_flood_check,
\* reconcile_conn_counts).
THEOREM LimitsCorrect == LSpec => []LimitsHold
<1>1. LInv => LimitsHold
  <2> SUFFICES ASSUME LInv, NEW ip \in Ip, MaxHalfOpen > 0, ip \notin synUnsure
               PROVE  Cardinality({k \in Flows : /\ SrcIp(k) = ip
                                                 /\ Checked(k)
                                                 /\ ct[k].state \in HalfOpenStates})
                         <= MaxHalfOpen
    BY DEF LInv, Covers, ConnsCovered, LimitsHold
  <2> DEFINE H == {k \in Flows : /\ SrcIp(k) = ip
                                 /\ Checked(k)
                                 /\ ct[k].state \in HalfOpenStates}
  <2>0. TypeOK /\ FlagsFitState
    BY EntriesEnds DEF LInv, RInv, RTypeOK
  <2>1. H \subseteq HalfOpenOf(ip)
    BY <2>0 DEF FlagsFitState, HalfOpenOf, CountedHalfOpen
  <2>2. /\ Cardinality(H) \in Nat
        /\ Cardinality(HalfOpenOf(ip)) \in Nat
        /\ Cardinality(H) <= Cardinality(HalfOpenOf(ip))
    BY <2>0, <2>1, HeldSets, FS_Subset, FS_CardinalityType
  <2>3. Cardinality(HalfOpenOf(ip)) <= MaxHalfOpen
    BY DEF LInv, Covers, HalfOpenCovered
  <2> HIDE DEF H
  <2>4. Cardinality(H) <= MaxHalfOpen
    BY <2>2, <2>3, LimitsAssumption
  <2> QED
    BY <2>4 DEF H
<1> QED
  BY <1>1, LInvCorrect, PTL

-----------------------------------------------------------------------------
(***************************************************************************)
(* Refinement: the counted flows are a set under admission control.        *)
(***************************************************************************)
\* The instances of AdmissionControl count with the same operator.
LEMMA SameCardinality ==
    ASSUME NEW S
    PROVE  /\ ConnAdmission!Cardinality(S) = Cardinality(S)
           /\ HalfOpenAdmission!Cardinality(S) = Cardinality(S)
  BY DEF ConnAdmission!Cardinality, HalfOpenAdmission!Cardinality, Cardinality

\* Packets, time and the daemon write one entry or none, the recount writes none.
LEMMA OneAtMost ==
    ASSUME LInv, LNext
    PROVE  UNCHANGED ct \/ (Next /\ UNCHANGED recon /\ \E k \in Flows, v \in CtValue : Writes(k, v))
<1>1. CASE ReconcileBegin \/ ReconcileStep
  BY <1>1, StepOfPass DEF LInv
<1>2. CASE (Packet \/ Daemon \/ \E k \in Flows : Expire(k)) /\ UNCHANGED recon
  <2>1. Next
    BY <1>2 DEF Next
  <2>2. TypeOK
    BY DEF LInv, RInv, RTypeOK
  <2> QED
    BY <1>2, <2>1, <2>2, StepShape DEF Idles
<1> QED
  BY <1>1, <1>2 DEF LNext, RNext

\* The connections that hold a unit of CONN_COUNT are admitted one at a time and
\* below CONN_LIMITS, and leave one at a time, for every instance and with the recount
\* going on; a source that is unsure stays so as long as it holds one
\* (conn_limit_check and the CT_COUNTED_CONN bit).
THEOREM ConnAdmissionRefined == LSpec => ConnsAreAdmitted
<1>1. LInit => ConnAdmission!Init
  BY DEF LInit, RInit, Init, ConnAdmission!Init, CountedConns, NoEntry
<1>2. LInv /\ [LNext]_lvars => [ConnAdmission!Next]_<<CountedConns, connUnsure>>
  <2> SUFFICES ASSUME LInv, LNext
               PROVE  ConnAdmission!Next
    BY DEF lvars, CountedConns
  <2>1. ConnAdmission!Regained
    BY DEF LNext, Track, ConnAdmission!Regained, ConnAdmission!Held, ConnsOf, CountedConns
  <2>2. CASE UNCHANGED ct
    BY <2>1, <2>2 DEF ConnAdmission!Next, CountedConns
  <2>3. ASSUME NEW k \in Flows, NEW v \in CtValue, Writes(k, v)
        PROVE  ConnAdmission!Next
    <3>0. TypeOK
      BY DEF LInv, RInv, RTypeOK
    <3>1. \A j \in Flows : ct'[j] = IF j = k THEN v ELSE ct[j]
      BY <2>3, <3>0 DEF Writes, TypeOK
    <3>2. CASE HoldsConn(v) <=> HoldsConn(ct[k])
      <4>1. CountedConns' = CountedConns
        BY <3>1, <3>2 DEF CountedConns, HoldsConn
      <4> QED
        BY <2>1, <4>1 DEF ConnAdmission!Next
    <3>3. CASE HoldsConn(ct[k]) /\ ~HoldsConn(v)
      <4>1. k \in CountedConns /\ CountedConns' = CountedConns \ {k}
        BY <3>1, <3>3 DEF CountedConns, HoldsConn
      <4> QED
        BY <2>1, <4>1 DEF ConnAdmission!Next, ConnAdmission!Release
    <3>4. CASE ~HoldsConn(ct[k]) /\ HoldsConn(v)
      <4> DEFINE ip == SrcIp(k)
      <4>1. k \notin CountedConns /\ CountedConns' = CountedConns \cup {k}
        BY <3>1, <3>4 DEF CountedConns, HoldsConn
      <4>2. ip \in Ip /\ Count(connCount, ip) < MaxConns[ip]
        BY <2>3, <3>4, FlowTypes DEF Writes, ConnCharge
      <4>3. ip \notin connUnsure' => Cardinality(ConnsOf(ip)) < MaxConns[ip]
        <5> SUFFICES ASSUME ip \notin connUnsure' PROVE Cardinality(ConnsOf(ip)) < MaxConns[ip]
          OBVIOUS
        <5>1. k \in ConnsOf(ip)'
          BY <4>1 DEF ConnsOf
        <5>2. ip \notin connUnsure /\ ip \notin ConnsMissed
          BY <4>2, <5>1, SureBefore DEF LNext
        <5>3. recon.phase \in Reading => k \in recon.left
          BY <4>1, <5>2, NotMissed
        <5>4. recon.phase # "write_conns"
          BY <5>3 DEF LInv, RInv, AllRead, Reading
        <5>5. Cardinality(ConnsOf(ip)) <= Count(connCount, ip)
          BY <4>2, <5>2, <5>4 DEF LInv, Covers, ConnsCovered
        <5>6. /\ Cardinality(ConnsOf(ip)) \in Nat
              /\ Count(connCount, ip) \in Nat /\ MaxConns[ip] \in Nat
          BY <4>2, CoverTypes, FS_CardinalityType DEF LInv
        <5> QED
          BY <4>2, <5>5, <5>6
      <4>4. ConnAdmission!Held(ip) = ConnsOf(ip)
        BY DEF ConnAdmission!Held, ConnsOf, CountedConns
      <4>5. ConnAdmission!Admit(k)
        BY <4>1, <4>3, <4>4, SameCardinality DEF ConnAdmission!Admit
      <4> QED
        BY <2>1, <4>1, <4>5 DEF ConnAdmission!Next
    <3> QED
      BY <3>2, <3>3, <3>4
  <2> QED
    BY <2>2, <2>3, OneAtMost
<1> QED
  BY <1>1, <1>2, LInvCorrect, PTL
  DEF LSpec, ConnsAreAdmitted, ConnAdmission!Spec

\* The flows that hold a unit of SYN_COUNT are admitted one at a time and below
\* syn_max_half_open, and leave one at a time, likewise (syn_flood_check and the
\* CT_COUNTED_SYN bit).
THEOREM HalfOpenAdmissionRefined == LSpec => HalfOpenAreAdmitted
<1>1. LInit => HalfOpenAdmission!Init
  BY DEF LInit, RInit, Init, HalfOpenAdmission!Init, CountedHalfOpen, NoEntry
<1>2. LInv /\ [LNext]_lvars => [HalfOpenAdmission!Next]_<<CountedHalfOpen, synUnsure>>
  <2> SUFFICES ASSUME LInv, LNext
               PROVE  HalfOpenAdmission!Next
    BY DEF lvars, CountedHalfOpen
  <2>1. HalfOpenAdmission!Regained
    BY DEF LNext, Track, HalfOpenAdmission!Regained, HalfOpenAdmission!Held,
           HalfOpenOf, CountedHalfOpen
  <2>2. CASE UNCHANGED ct
    BY <2>1, <2>2 DEF HalfOpenAdmission!Next, CountedHalfOpen
  <2>3. ASSUME NEW k \in Flows, NEW v \in CtValue, Writes(k, v)
        PROVE  HalfOpenAdmission!Next
    <3>0. TypeOK
      BY DEF LInv, RInv, RTypeOK
    <3>1. \A j \in Flows : ct'[j] = IF j = k THEN v ELSE ct[j]
      BY <2>3, <3>0 DEF Writes, TypeOK
    <3>2. CASE v.syn <=> ct[k].syn
      <4>1. CountedHalfOpen' = CountedHalfOpen
        BY <3>1, <3>2 DEF CountedHalfOpen
      <4> QED
        BY <2>1, <4>1 DEF HalfOpenAdmission!Next
    <3>3. CASE ct[k].syn /\ ~v.syn
      <4>1. k \in CountedHalfOpen /\ CountedHalfOpen' = CountedHalfOpen \ {k}
        BY <3>1, <3>3 DEF CountedHalfOpen
      <4> QED
        BY <2>1, <4>1 DEF HalfOpenAdmission!Next, HalfOpenAdmission!Release
    <3>4. CASE ~ct[k].syn /\ v.syn
      <4> DEFINE ip == SrcIp(k)
      <4>1. k \notin CountedHalfOpen /\ CountedHalfOpen' = CountedHalfOpen \cup {k}
        BY <3>1, <3>4 DEF CountedHalfOpen
      <4>2. ip \in Ip /\ Count(synCount, ip) < MaxHalfOpen
        BY <2>3, <3>4, FlowTypes DEF Writes, SynCharge
      <4>3. ip \notin synUnsure' => Cardinality(HalfOpenOf(ip)) < MaxHalfOpen
        <5> SUFFICES ASSUME ip \notin synUnsure' PROVE Cardinality(HalfOpenOf(ip)) < MaxHalfOpen
          OBVIOUS
        <5>1. k \in HalfOpenOf(ip)'
          BY <4>1 DEF HalfOpenOf
        <5>2. ip \notin synUnsure /\ ip \notin HalfOpenMissed
          BY <4>2, <5>1, SureBefore DEF LNext
        <5>3. recon.phase # "idle" => k \in recon.left
          BY <4>1, <5>2, NotMissed
        <5>4. recon.phase # "write_syns"
          BY <5>3 DEF LInv, RInv, AllRead
        <5>5. Cardinality(HalfOpenOf(ip)) <= Count(synCount, ip)
          BY <4>2, <5>2, <5>4 DEF LInv, Covers, HalfOpenCovered
        <5>6. /\ Cardinality(HalfOpenOf(ip)) \in Nat
              /\ Count(synCount, ip) \in Nat /\ MaxHalfOpen \in Nat
          BY <4>2, CoverTypes, FS_CardinalityType DEF LInv
        <5> QED
          BY <4>2, <5>5, <5>6
      <4>4. HalfOpenAdmission!Held(ip) = HalfOpenOf(ip)
        BY DEF HalfOpenAdmission!Held, HalfOpenOf, CountedHalfOpen
      <4>5. HalfOpenAdmission!Admit(k)
        BY <4>1, <4>2, <4>3, <4>4, SameCardinality DEF HalfOpenAdmission!Admit
      <4> QED
        BY <2>1, <4>1, <4>5 DEF HalfOpenAdmission!Next
    <3> QED
      BY <3>2, <3>3, <3>4
  <2> QED
    BY <2>2, <2>3, OneAtMost
<1> QED
  BY <1>1, <1>2, LInvCorrect, PTL
  DEF LSpec, HalfOpenAreAdmitted, HalfOpenAdmission!Spec
=============================================================================
