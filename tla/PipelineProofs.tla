---------------------------- MODULE PipelineProofs ----------------------------
(***************************************************************************)
(* Proofs about Pipeline: its types, what a packet no rewriting overlaps   *)
(* is judged by, and the order of the checks, for any packets, lists of    *)
(* policies, rules and configurations.                                     *)
(***************************************************************************)
EXTENDS Pipeline, TLAPS

-----------------------------------------------------------------------------
(***************************************************************************)
(* Types.                                                                  *)
(***************************************************************************)
\* What a packet is and is not made of.
LEMMA PacketTypes ==
    ASSUME NEW p \in Packet
    PROVE  /\ p.key \in FiveTuple /\ Reversed(p.key) \in FiveTuple
           /\ [p.key EXCEPT !.sport = 0] \in FiveTuple
           /\ Pair(p.key) \in BOOLEAN \X Addr \X Addr
           /\ \A r \in DnatRules : ReplyKey(p, r) \in FiveTuple
           /\ EgressOf(p.key) \subseteq FiveTuple
<1>1. p.key \in FiveTuple
  BY BoundsAssumption DEF PacketType
<1>2. Reversed(p.key) \in FiveTuple /\ [p.key EXCEPT !.sport = 0] \in FiveTuple
  BY <1>1 DEF FiveTuple, Reversed
<1>3. Pair(p.key) \in BOOLEAN \X Addr \X Addr
  BY <1>1 DEF FiveTuple, Pair
<1>4. ASSUME NEW r \in DnatRules
      PROVE  ReplyKey(p, r) \in FiveTuple
  BY <1>1, BoundsAssumption DEF FiveTuple, ReplyKey
<1>5. EgressOf(p.key) \subseteq FiveTuple
  BY BoundsAssumption
<1> QED
  BY <1>1, <1>2, <1>3, <1>4, <1>5

\* The reply to a five-tuple has one, and that is the reply to it in turn.
LEMMA ReversedTwice ==
    ASSUME NEW key \in FiveTuple
    PROVE  Reversed(key) \in FiveTuple /\ Reversed(Reversed(key)) = key
BY DEF FiveTuple, Reversed

\* What may leave is what could leave before, and what the packet leaves as.
LEMMA ArriveLeaves ==
    ASSUME NEW p \in Packet, Arrive(p)
    PROVE  leaving' \in {leaving, leaving \cup EgressOf(p.key)}
BY DEF Arrive, Unparsed, Blocked, Fragment, NdFilter, ExemptPass, Limited, TrackedPass,
       DnatPass, AlgPass, GoesOn, PassHere, Decide

LEMMA WalkLeaves ==
    ASSUME Walk
    PROVE  leaving' \in {leaving, leaving \cup EgressOf(pkt.p.key)}
BY DEF Walk, Lookup, ReadCount, ReadSlot, DefaultDrop, RefuseFlow, NewFlow, NextStage, Settle,
       Decide

\* What frag_track_update inserts are keys of FRAG_TRACK.
LEMMA SeenFragmentType ==
    ASSUME NEW p \in Packet
    PROVE  SeenFragment(p) \subseteq BOOLEAN \X Addr \X Addr
BY PacketTypes DEF SeenFragment

\* An array that holds a list, and the lists that fit one.
LEMMA TruncatedType ==
    ASSUME NEW list \in ZoneLists
    PROVE  /\ Truncated(list) \in Seq(Policy)
           /\ Len(Truncated(list)) \in 0 .. ZoneMax
           /\ Len(Truncated(list)) <= Len(list)
           /\ \A i \in 1 .. Len(Truncated(list)) : Truncated(list)[i] = list[i]
<1>1. list \in Seq(Policy) /\ ZoneMax \in Nat /\ Len(list) \in Nat
  BY BoundsAssumption
<1>2. CASE Len(list) < ZoneMax
  BY <1>1, <1>2 DEF Truncated
<1>3. CASE ~(Len(list) < ZoneMax)
  BY <1>1, <1>3 DEF Truncated
<1> QED
  BY <1>2, <1>3

\* A cleared slot is a policy as any other.
LEMMA ZeroEntryType == ZeroEntry \in Policy
BY DEF ZeroEntry, Policy, AnyIface

\* An array that holds a list holds policies.
LEMMA FilledType ==
    ASSUME NEW list \in Seq(Policy)
    PROVE  Filled(list) \in [0 .. ZoneMax - 1 -> Policy]
BY ZeroEntryType DEF Filled

\* The first step of a packet keeps the types.
LEMMA ArriveType ==
    ASSUME TypeOK, NEW p \in Packet, Arrive(p)
    PROVE  TypeOK'
<1>1. /\ config' = config /\ blocked' = blocked /\ allow' = allow
      /\ zone' = zone /\ count' = count /\ flag' = flag /\ rules' = rules
  BY DEF Arrive, kernel
<1>2. expect' \subseteq FiveTuple
  BY DEF Arrive, AlgPass, TypeOK
<1>3. tracked' \subseteq FiveTuple
  <2>1. ASSUME NEW key \in FiveTuple, Insert(key)
        PROVE  tracked' \subseteq FiveTuple
    BY <2>1 DEF Insert, TypeOK
  <2>2. CASE DnatPass(p)
    BY <2>1, <2>2, PacketTypes DEF DnatPass, Forwarding
  <2>3. CASE AlgPass(p)
    BY <2>1, <2>3, PacketTypes DEF AlgPass
  <2>4. CASE UNCHANGED tracked
    BY <2>4 DEF TypeOK
  <2> QED
    BY <2>2, <2>3, <2>4
       DEF Arrive, Unparsed, Blocked, Fragment, NdFilter, ExemptPass, Limited, TrackedPass, GoesOn
<1>4. frags' \subseteq BOOLEAN \X Addr \X Addr
  <2>1. frags' \in {frags, frags \cup SeenFragment(p)}
    BY DEF Arrive, Unparsed, Blocked, Fragment, NdFilter, ExemptPass, Limited, TrackedPass,
           DnatPass, AlgPass, GoesOn, PassHere
  <2> QED
    BY <2>1, SeenFragmentType DEF TypeOK
<1>5. pkt' \in {Idle} \cup Stages
  <2>1. CASE GoesOn(p)
    <3>1. SyncRunning \in BOOLEAN
      BY DEF SyncRunning
    <3> QED
      BY <2>1, <3>1 DEF GoesOn, Stages
  <2>2. CASE ~GoesOn(p)
    BY <2>2 DEF Arrive, Unparsed, Blocked, Fragment, NdFilter, ExemptPass, Limited,
                TrackedPass, DnatPass, AlgPass, PassHere, Decide
  <2> QED
    BY <2>1, <2>2
<1>6. leaving' \subseteq FiveTuple
  BY ArriveLeaves, PacketTypes DEF TypeOK
<1> QED
  BY <1>1, <1>2, <1>3, <1>4, <1>5, <1>6 DEF TypeOK

\* The later steps of a packet keep the types.
LEMMA WalkType ==
    ASSUME TypeOK, Walk
    PROVE  TypeOK'
<1>1. /\ config' = config /\ blocked' = blocked /\ allow' = allow /\ expect' = expect
      /\ zone' = zone /\ count' = count /\ flag' = flag /\ rules' = rules
  BY DEF Walk, tables, kernel
<1>2. pkt \in Stages /\ pkt.p \in Packet /\ pkt.torn \in BOOLEAN
  BY DEF TypeOK, Walk, Lookup, ReadCount, ReadSlot, DefaultDrop, RefuseFlow, NewFlow, Idle, Stages
<1>3. tracked' \subseteq FiveTuple
  <2>1. tracked' \in {tracked, tracked \cup {pkt.p.key}}
    BY DEF Walk, Lookup, ReadCount, ReadSlot, DefaultDrop, RefuseFlow, NewFlow
  <2>2. pkt.p.key \in FiveTuple
    BY <1>2, PacketTypes
  <2> QED
    BY <2>1, <2>2 DEF TypeOK
<1>4. frags' \subseteq BOOLEAN \X Addr \X Addr
  <2>1. frags' \in {frags, frags \cup SeenFragment(pkt.p)}
    BY DEF Walk, Lookup, ReadCount, ReadSlot, DefaultDrop, RefuseFlow, NewFlow
  <2> QED
    BY <1>2, <2>1, SeenFragmentType DEF TypeOK
<1>5. pkt' \in {Idle} \cup Stages
  <2>1. CASE Lookup
    BY <1>2, <2>1 DEF Lookup, NextStage, Settle, Decide, Stages
  <2>2. CASE ReadCount
    <3>1. CASE pkt.p.key.v4 /\ count > 0
      <4>1. count \in 1 .. ZoneMax
        BY <3>1, BoundsAssumption DEF TypeOK
      <4> QED
        BY <1>2, <2>2, <3>1, <4>1, BoundsAssumption DEF ReadCount, NextStage, Stages
    <3>2. CASE ~(pkt.p.key.v4 /\ count > 0)
      BY <1>2, <2>2, <3>2 DEF ReadCount, NextStage, Stages
    <3> QED
      BY <3>1, <3>2
  <2>3. CASE ReadSlot
    <3>1. pkt.i \in 0 .. ZoneMax /\ pkt.n \in 1 .. ZoneMax
      BY <1>2, <2>3 DEF ReadSlot, Stages
    <3>2. CASE PastLast(pkt.i, pkt.n)
      BY <1>2, <2>3, <3>2 DEF ReadSlot, NextStage, Stages
    <3>3. CASE ~PastLast(pkt.i, pkt.n) /\ Fits(zone[pkt.i], pkt.p)
      BY <2>3, <3>3 DEF ReadSlot, Settle, Decide
    <3>4. CASE ~PastLast(pkt.i, pkt.n) /\ ~Fits(zone[pkt.i], pkt.p)
      <4>1. pkt.i + 1 \in 0 .. ZoneMax
        BY <3>1, <3>4, BoundsAssumption DEF PastLast
      <4>2. pkt' = [pkt EXCEPT !.i = @ + 1]
        BY <2>3, <3>4 DEF ReadSlot, NextStage
      <4>3. pkt \in [pc : {"slot"}, p : Packet, torn : BOOLEAN, i : 0 .. ZoneMax, n : 1 .. ZoneMax]
        BY <1>2, <2>3 DEF ReadSlot, Stages
      <4> QED
        BY <4>1, <4>2, <4>3 DEF Stages
    <3> QED
      BY <3>2, <3>3, <3>4
  <2>4. CASE DefaultDrop \/ RefuseFlow \/ NewFlow
    BY <2>4 DEF DefaultDrop, RefuseFlow, NewFlow, Settle, Decide
  <2> QED
    BY <2>1, <2>2, <2>3, <2>4 DEF Walk
<1>6. leaving' \subseteq FiveTuple
  BY <1>2, WalkLeaves, PacketTypes DEF TypeOK
<1> QED
  BY <1>1, <1>3, <1>4, <1>5, <1>6 DEF TypeOK

-----------------------------------------------------------------------------
(***************************************************************************)
(* The tables under the daemon's hands.                                    *)
(***************************************************************************)
\* What the array holds at each step of sync_zone_policies.
ZoneFits ==
    /\ zoneSync.list \in ZoneLists
    /\ zoneSync.pc \in {"idle", "clear", "write"}
    /\ zoneSync.pc = "idle" =>
          /\ zone = Filled(Truncated(zoneSync.list))
          /\ count = Len(Truncated(zoneSync.list))
    /\ zoneSync.pc # "idle" => count = 0
    /\ zoneSync.pc = "clear" =>
          /\ zoneSync.i \in 0 .. ZoneMax
          /\ \A j \in 0 .. ZoneMax - 1 : j < zoneSync.i => zone[j] = ZeroEntry
    /\ zoneSync.pc = "write" =>
          /\ zoneSync.i \in 0 .. Len(Truncated(zoneSync.list))
          /\ \A j \in 0 .. ZoneMax - 1 :
                zone[j] = IF j < zoneSync.i THEN zoneSync.list[j + 1] ELSE ZeroEntry

\* What the tables of the prefilter hold at each step of sync_suricata_rules.
RulesFit ==
    /\ ruleSync \in [pc : {"idle", "clear", "write"}, todo : SUBSET Rule,
                     wanted : SUBSET Rule, enabled : BOOLEAN]
    /\ flag => ruleSync.pc = "idle" /\ ruleSync.enabled /\ rules = ruleSync.wanted
    /\ ruleSync.pc = "clear" => ruleSync.todo = rules
    /\ ruleSync.pc = "write" =>
          ruleSync.todo \subseteq ruleSync.wanted /\ rules \cup ruleSync.todo = ruleSync.wanted

\* A packet that no rewriting has overlapped so far, and what its walk has found.
PacketFits ==
    pkt # Idle /\ ~pkt.torn =>
        /\ ~SyncRunning
        /\ pkt.pc = "lookup" => flag
        /\ pkt.pc = "slot" =>
              /\ pkt.p.key.v4 /\ pkt.n = count
              /\ \A j \in 0 .. ZoneMax - 1 : j < pkt.i => ~Fits(zone[j], pkt.p)
        /\ pkt.pc = "default" /\ pkt.p.key.v4 =>
              \A j \in 0 .. ZoneMax - 1 : j < count => ~Fits(zone[j], pkt.p)

IInv == TypeOK /\ ZoneFits /\ RulesFit /\ PacketFits

\* Each step of a rewriting keeps the types, and the tables fit.
LEMMA ZoneSyncKeeps ==
    ASSUME TypeOK, ZoneFits, ZoneBegin \/ ZoneClear \/ ZoneWrite
    PROVE  ZoneFits' /\ zone' \in [0 .. ZoneMax - 1 -> Policy] /\ count' \in 0 .. ZoneMax
<1>0. ZoneMax \in Nat /\ zone \in [0 .. ZoneMax - 1 -> Policy] /\ count \in 0 .. ZoneMax
  BY BoundsAssumption DEF TypeOK
<1>1. CASE ZoneBegin
  <2>1. PICK list \in ZoneLists : zoneSync' = [pc |-> "clear", list |-> list, i |-> 0]
    BY <1>1 DEF ZoneBegin
  <2>2. count' = 0 /\ zone' = zone
    BY <1>1 DEF ZoneBegin
  <2> QED
    BY <1>0, <2>1, <2>2 DEF ZoneFits
<1>2. CASE ZoneClear
  <2>1. zoneSync.i \in 0 .. ZoneMax /\ count = 0 /\ zoneSync.list \in ZoneLists
    BY <1>2 DEF ZoneClear, ZoneFits
  <2>2. CASE zoneSync.i < ZoneMax
    <3>1. /\ zone' = [zone EXCEPT ![zoneSync.i] = ZeroEntry]
          /\ zoneSync' = [zoneSync EXCEPT !.i = @ + 1]
          /\ count' = count
      BY <1>2, <2>2 DEF ZoneClear
    <3>2. zoneSync.pc = "clear" /\ \A j \in 0 .. ZoneMax - 1 : j < zoneSync.i => zone[j] = ZeroEntry
      BY <1>2 DEF ZoneClear, ZoneFits
    <3>3. /\ zoneSync'.list = zoneSync.list /\ zoneSync'.pc = "clear"
          /\ zoneSync'.i = zoneSync.i + 1 /\ zoneSync.i + 1 \in 0 .. ZoneMax
      BY <1>0, <1>2, <2>1, <2>2, <3>1 DEF ZoneClear
    <3>4. ZeroEntry \in Policy
      BY DEF ZeroEntry, Policy
    <3>5. zone' \in [0 .. ZoneMax - 1 -> Policy]
      BY <1>0, <3>1, <3>4
    <3>6. \A j \in 0 .. ZoneMax - 1 : j < zoneSync.i + 1 => zone'[j] = ZeroEntry
      BY <1>0, <2>1, <3>1, <3>2
    <3> QED
      BY <1>0, <2>1, <3>1, <3>3, <3>5, <3>6 DEF ZoneFits
  <2>3. CASE ~(zoneSync.i < ZoneMax)
    <3>1. /\ zoneSync' = [zoneSync EXCEPT !.pc = "write", !.i = 0]
          /\ zone' = zone /\ count' = count
      BY <1>2, <2>3 DEF ZoneClear
    <3>2. \A j \in 0 .. ZoneMax - 1 : zone[j] = ZeroEntry
      BY <1>0, <1>2, <2>1, <2>3 DEF ZoneFits, ZoneClear
    <3> QED
      BY <1>0, <2>1, <3>1, <3>2, TruncatedType DEF ZoneFits
  <2> QED
    BY <2>2, <2>3
<1>3. CASE ZoneWrite
  <2> DEFINE list == Truncated(zoneSync.list)
  <2>1. /\ zoneSync.i \in 0 .. Len(list) /\ count = 0 /\ zoneSync.list \in ZoneLists
        /\ \A j \in 0 .. ZoneMax - 1 :
              zone[j] = IF j < zoneSync.i THEN zoneSync.list[j + 1] ELSE ZeroEntry
    BY <1>3 DEF ZoneWrite, ZoneFits
  <2>2. /\ list \in Seq(Policy) /\ Len(list) \in 0 .. ZoneMax
        /\ \A i \in 1 .. Len(list) : list[i] = zoneSync.list[i]
    BY <2>1, TruncatedType
  <2>3. CASE zoneSync.i < Len(list)
    <3>1. /\ zone' = [zone EXCEPT ![zoneSync.i] = zoneSync.list[zoneSync.i + 1]]
          /\ zoneSync' = [zoneSync EXCEPT !.i = @ + 1]
          /\ count' = count
      BY <1>3, <2>3 DEF ZoneWrite
    <3>2. zoneSync.list[zoneSync.i + 1] \in Policy
      <4>1. zoneSync.i + 1 \in 1 .. Len(list)
        BY <2>1, <2>2, <2>3
      <4>2. list[zoneSync.i + 1] \in Policy
        BY <2>2, <4>1
      <4> QED
        BY <2>2, <4>1, <4>2
    <3>3. zoneSync'.list = zoneSync.list /\ zoneSync'.i = zoneSync.i + 1 /\ zoneSync'.pc = "write"
      BY <1>3, <3>1 DEF ZoneWrite, ZoneFits
    <3>4. zone' \in [0 .. ZoneMax - 1 -> Policy]
      BY <1>0, <2>1, <2>2, <2>3, <3>1, <3>2
    <3>5. \A j \in 0 .. ZoneMax - 1 :
             zone'[j] = IF j < zoneSync.i + 1 THEN zoneSync.list[j + 1] ELSE ZeroEntry
      BY <1>0, <2>1, <2>2, <2>3, <3>1
    <3> HIDE DEF list
    <3>6. zoneSync'.i \in 0 .. Len(list)
      BY <2>1, <2>2, <2>3, <3>3
    <3> QED
      BY <1>0, <2>1, <3>1, <3>3, <3>4, <3>5, <3>6 DEF ZoneFits, list
  <2>4. CASE ~(zoneSync.i < Len(list))
    <3>1. /\ count' = Len(list) /\ zone' = zone
          /\ zoneSync' = [pc |-> "idle", list |-> zoneSync.list]
      BY <1>3, <2>4 DEF ZoneWrite
    <3>2. zoneSync.i = Len(list)
      BY <2>1, <2>2, <2>4
    <3>3. zone = Filled(list)
      <4>1. \A j \in 0 .. ZoneMax - 1 : zone[j] = Filled(list)[j]
        BY <1>0, <2>1, <2>2, <3>2 DEF Filled
      <4> QED
        BY <1>0, <4>1 DEF Filled
    <3> QED
      BY <1>0, <2>1, <2>2, <3>1, <3>3 DEF ZoneFits
  <2> QED
    BY <2>3, <2>4
<1> QED
  BY <1>1, <1>2, <1>3

\* Each step of a rewriting of the prefilter keeps its types, and the table fits.
LEMMA RuleSyncKeeps ==
    ASSUME TypeOK, RulesFit, RulesBegin \/ RulesClear \/ RulesWrite \/ RulesFull
    PROVE  RulesFit' /\ flag' \in BOOLEAN /\ rules' \subseteq Rule
<1>0. /\ ruleSync \in [pc : {"idle", "clear", "write"}, todo : SUBSET Rule,
                        wanted : SUBSET Rule, enabled : BOOLEAN]
      /\ rules \subseteq Rule /\ flag \in BOOLEAN
  BY DEF RulesFit, TypeOK
<1>1. CASE RulesBegin
  <2>1. PICK wanted \in SUBSET Rule, enabled \in BOOLEAN :
          ruleSync' = [pc |-> "clear", todo |-> rules, wanted |-> wanted, enabled |-> enabled]
    BY <1>1 DEF RulesBegin
  <2>2. flag' = FALSE /\ rules' = rules
    BY <1>1 DEF RulesBegin
  <2> QED
    BY <1>0, <2>1, <2>2 DEF RulesFit
<1>2. CASE RulesClear
  <2>1. ruleSync.pc = "clear" /\ ruleSync.todo = rules /\ flag' = FALSE
    BY <1>0, <1>2 DEF RulesClear, RulesFit
  <2>2. CASE ruleSync.todo # {}
    <3>1. PICK r \in ruleSync.todo :
            rules' = rules \ {r} /\ ruleSync' = [ruleSync EXCEPT !.todo = @ \ {r}]
      BY <1>2, <2>2 DEF RulesClear
    <3> QED
      BY <1>0, <2>1, <3>1 DEF RulesFit
  <2>3. CASE ruleSync.todo = {}
    <3>1. rules' = rules /\ ruleSync' = [ruleSync EXCEPT !.pc = "write", !.todo = ruleSync.wanted]
      BY <1>2, <2>3 DEF RulesClear
    <3> QED
      BY <1>0, <2>1, <2>3, <3>1 DEF RulesFit
  <2> QED
    BY <2>2, <2>3
<1>3. CASE RulesWrite
  <2>1. /\ ruleSync.pc = "write" /\ ~flag
        /\ ruleSync.todo \subseteq ruleSync.wanted /\ rules \cup ruleSync.todo = ruleSync.wanted
    BY <1>3 DEF RulesWrite, RulesFit
  <2>2. CASE ruleSync.todo # {}
    <3>1. PICK r \in ruleSync.todo :
            rules' = rules \cup {r} /\ ruleSync' = [ruleSync EXCEPT !.todo = @ \ {r}]
      BY <1>3, <2>2 DEF RulesWrite
    <3>2. flag' = FALSE
      BY <1>0, <1>3, <2>1, <2>2 DEF RulesWrite
    <3> QED
      BY <1>0, <2>1, <3>1, <3>2 DEF RulesFit
  <2>3. CASE ruleSync.todo = {}
    <3>1. /\ flag' = (ruleSync.enabled /\ ruleSync.wanted # {})
          /\ rules' = rules /\ ruleSync' = [ruleSync EXCEPT !.pc = "idle"]
      BY <1>3, <2>3 DEF RulesWrite
    <3>2. flag' \in BOOLEAN
      BY <3>1, <1>0
    <3>3. flag' => ruleSync'.enabled /\ rules' = ruleSync'.wanted
      BY <1>0, <2>1, <2>3, <3>1
    <3> QED
      BY <1>0, <2>1, <3>1, <3>2, <3>3 DEF RulesFit
  <2> QED
    BY <2>2, <2>3
<1>4. CASE RulesFull
  <2>1. ruleSync' = [ruleSync EXCEPT !.pc = "idle", !.todo = {}] /\ rules' = rules
    BY <1>4 DEF RulesFull
  <2>2. flag' = FALSE
    BY <1>0, <1>4 DEF RulesFull, RulesFit
  <2> QED
    BY <1>0, <2>1, <2>2 DEF RulesFit
<1> QED
  BY <1>1, <1>2, <1>3, <1>4

\* The daemon's steps keep the types and the invariant: a packet on its way is torn.
LEMMA SyncKeeps ==
    ASSUME IInv, Sync
    PROVE  IInv'
<1>0. TypeOK /\ ZoneFits /\ RulesFit
  BY DEF IInv
<1>1. /\ config' = config /\ blocked' = blocked /\ allow' = allow /\ expect' = expect
      /\ tracked' = tracked /\ frags' = frags /\ leaving' = leaving
  BY DEF Sync, tables
<1>2. pkt' \in {Idle} \cup Stages /\ (pkt' # Idle => pkt'.torn)
  <2>1. CASE pkt = Idle
    BY <2>1 DEF Sync, Tear
  <2>2. CASE pkt # Idle
    <3>1. pkt \in Stages /\ pkt' = [pkt EXCEPT !.torn = TRUE]
      BY <1>0, <2>2 DEF Sync, Tear, TypeOK
    <3> QED
      BY <3>1 DEF Stages
  <2> QED
    BY <2>1, <2>2
<1>3. PacketFits'
  BY <1>2 DEF PacketFits
<1>4. CASE (ZoneBegin \/ ZoneClear \/ ZoneWrite) /\ UNCHANGED <<flag, rules, ruleSync>>
  <2>1. ZoneFits' /\ zone' \in [0 .. ZoneMax - 1 -> Policy] /\ count' \in 0 .. ZoneMax
    BY <1>0, <1>4, ZoneSyncKeeps
  <2>2. RulesFit'
    BY <1>0, <1>4 DEF RulesFit
  <2>3. TypeOK'
    BY <1>0, <1>1, <1>2, <1>4, <2>1 DEF TypeOK
  <2> QED
    BY <1>3, <2>1, <2>2, <2>3 DEF IInv
<1>5. CASE (RulesBegin \/ RulesClear \/ RulesWrite \/ RulesFull)
              /\ UNCHANGED <<zone, count, zoneSync>>
  <2>1. RulesFit' /\ flag' \in BOOLEAN /\ rules' \subseteq Rule
    BY <1>0, <1>5, RuleSyncKeeps
  <2>2. ZoneFits'
    BY <1>0, <1>5 DEF ZoneFits
  <2>3. TypeOK'
    BY <1>0, <1>1, <1>2, <1>5, <2>1 DEF TypeOK
  <2> QED
    BY <1>3, <2>1, <2>2, <2>3 DEF IInv
<1> QED
  BY <1>4, <1>5 DEF Sync

\* So do block list, events and expiry.
LEMMA EnvironmentKeeps ==
    ASSUME IInv, Environment
    PROVE  IInv'
<1>0. TypeOK
  BY DEF IInv
<1>1. /\ config' = config /\ zone' = zone /\ count' = count /\ flag' = flag /\ rules' = rules
      /\ zoneSync' = zoneSync /\ ruleSync' = ruleSync /\ leaving' = leaving /\ pkt' = pkt
  BY DEF Environment, kernel, syncs
<1>2. ZoneFits' /\ RulesFit' /\ PacketFits'
  BY <1>1 DEF IInv, ZoneFits, RulesFit, PacketFits, SyncRunning
<1>3. TypeOK'
  <2>1. ASSUME NEW a \in Sources, Toggle(a)
        PROVE  TypeOK'
    BY <1>0, <1>1, <2>1 DEF Toggle, TypeOK
  <2>2. ASSUME NEW key \in Flows, LearnFlow(key) \/ LearnData(key)
        PROVE  TypeOK'
    <3>1. /\ key \in FiveTuple /\ Reversed(key) \in FiveTuple
          /\ [key EXCEPT !.sport = 0] \in FiveTuple
      BY BoundsAssumption DEF FiveTuple, Reversed
    <3>2. CASE LearnFlow(key)
      BY <1>0, <1>1, <3>1, <3>2 DEF LearnFlow, TypeOK
    <3>3. CASE LearnData(key)
      BY <1>0, <1>1, <3>1, <3>3 DEF LearnData, TypeOK
    <3> QED
      BY <2>2, <3>2, <3>3
  <2>3. ASSUME NEW key, ExpireEntry(key) \/ ExpireExpectation(key)
        PROVE  TypeOK'
    BY <1>0, <1>1, <2>3 DEF ExpireEntry, ExpireExpectation, tables, TypeOK
  <2>4. ASSUME NEW pair, ExpireFragments(pair)
        PROVE  TypeOK'
    BY <1>0, <1>1, <2>4 DEF ExpireFragments, tables, TypeOK
  <2>5. ASSUME NEW key \in leaving, Egress(key)
        PROVE  TypeOK'
    <3>1. Reversed(key) \in FiveTuple
      BY <1>0, ReversedTwice DEF TypeOK
    <3> QED
      BY <1>0, <1>1, <2>5, <3>1 DEF Egress, Insert, tables, TypeOK
  <2> QED
    BY <2>1, <2>2, <2>3, <2>4, <2>5 DEF Environment
<1> QED
  BY <1>2, <1>3 DEF IInv

\* A packet that arrives is torn only by a rewriting that is under way.
LEMMA ArriveKeeps ==
    ASSUME IInv, NEW p \in Packet, Arrive(p)
    PROVE  IInv'
<1>1. TypeOK'
  BY ArriveType DEF IInv
<1>2. /\ zone' = zone /\ count' = count /\ flag' = flag /\ rules' = rules
      /\ zoneSync' = zoneSync /\ ruleSync' = ruleSync
  BY DEF Arrive, kernel, syncs
<1>3. ZoneFits' /\ RulesFit'
  BY <1>2 DEF IInv, ZoneFits, RulesFit
<1>4. PacketFits'
  <2>1. CASE GoesOn(p)
    <3>1. pkt' = [pc |-> IF flag /\ p.key.v4 THEN "lookup" ELSE "count", p |-> p,
                  torn |-> SyncRunning]
      BY <2>1 DEF GoesOn
    <3> QED
      BY <1>2, <3>1 DEF PacketFits, SyncRunning
  <2>2. CASE ~GoesOn(p)
    <3>1. pkt' = Idle
      BY <2>2 DEF Arrive, Unparsed, Blocked, Fragment, NdFilter, ExemptPass, Limited,
                  TrackedPass, DnatPass, AlgPass, PassHere, Decide
    <3> QED
      BY <3>1 DEF PacketFits
  <2> QED
    BY <2>1, <2>2
<1> QED
  BY <1>1, <1>3, <1>4 DEF IInv

\* What the array says while nothing rewrites it.
LEMMA Untorn ==
    ASSUME TypeOK, ZoneFits, ~SyncRunning
    PROVE  LET list == Truncated(zoneSync.list)
           IN  /\ list \in Seq(Policy) /\ Len(list) \in 0 .. ZoneMax
               /\ count = Len(list)
               /\ \A j \in 0 .. ZoneMax - 1 : j < count => zone[j] = list[j + 1]
<1> DEFINE list == Truncated(zoneSync.list)
<1>1. /\ zoneSync.list \in ZoneLists /\ zone = Filled(list) /\ count = Len(list)
  BY DEF ZoneFits, SyncRunning
<1>2. list \in Seq(Policy) /\ Len(list) \in 0 .. ZoneMax
  BY <1>1, TruncatedType
<1>3. \A j \in 0 .. ZoneMax - 1 : j < Len(list) => zone[j] = list[j + 1]
  BY <1>1, <1>2, BoundsAssumption DEF Filled
<1> QED
  BY <1>1, <1>2, <1>3

\* The later steps keep the invariant: a walk nothing has torn is one over the array as
\* it stands.
LEMMA WalkKeeps ==
    ASSUME IInv, Walk
    PROVE  IInv'
<1>0. TypeOK /\ PacketFits /\ ZoneMax \in Nat
  BY BoundsAssumption DEF IInv
<1>1. TypeOK'
  BY <1>0, WalkType
<1>2. /\ zone' = zone /\ count' = count /\ flag' = flag /\ rules' = rules
      /\ zoneSync' = zoneSync /\ ruleSync' = ruleSync
  BY DEF Walk, kernel, syncs
<1>3. ZoneFits' /\ RulesFit' /\ SyncRunning' = SyncRunning
  BY <1>2 DEF IInv, ZoneFits, RulesFit, SyncRunning
<1>4. pkt \in Stages /\ count \in 0 .. ZoneMax
  BY <1>0 DEF TypeOK, Walk, Lookup, ReadCount, ReadSlot, DefaultDrop, RefuseFlow, NewFlow, Idle
<1>5. pkt # Idle
  BY DEF Walk, Lookup, ReadCount, ReadSlot, DefaultDrop, RefuseFlow, NewFlow, Idle
<1>6. PacketFits'
  <2>1. SUFFICES ASSUME pkt' # Idle, ~pkt'.torn
                 PROVE  /\ ~SyncRunning'
                        /\ pkt'.pc = "lookup" => flag'
                        /\ pkt'.pc = "slot" =>
                              /\ pkt'.p.key.v4 /\ pkt'.n = count'
                              /\ \A j \in 0 .. ZoneMax - 1 :
                                    j < pkt'.i => ~Fits(zone[j], pkt'.p)
                        /\ pkt'.pc = "default" /\ pkt'.p.key.v4 =>
                                  \A j \in 0 .. ZoneMax - 1 :
                                     j < count => ~Fits(zone[j], pkt'.p)
    BY <1>2 DEF PacketFits, Fits
  <2>2. pkt'.torn = pkt.torn /\ pkt'.p = pkt.p /\ pkt'.pc # "lookup"
    <3>1. CASE Lookup
      BY <1>4, <2>1, <3>1 DEF Lookup, NextStage, Settle, Decide, Stages
    <3>2. CASE ReadCount
      BY <1>4, <2>1, <3>2 DEF ReadCount, NextStage, Stages
    <3>3. CASE ReadSlot
      BY <1>4, <2>1, <3>3 DEF ReadSlot, NextStage, Settle, Decide, Stages
    <3>4. CASE DefaultDrop \/ RefuseFlow \/ NewFlow
      BY <2>1, <3>4 DEF DefaultDrop, RefuseFlow, NewFlow, Settle, Decide
    <3> QED
      BY <3>1, <3>2, <3>3, <3>4 DEF Walk
  <2>3. ~SyncRunning
    BY <1>0, <1>5, <2>1, <2>2 DEF PacketFits
  <2>4. CASE Lookup
    <3>1. pkt'.pc = "count"
      BY <1>4, <2>1, <2>4 DEF Lookup, NextStage, Settle, Decide, Stages
    <3> QED
      BY <1>3, <2>2, <2>3, <3>1
  <2>5. CASE ReadCount
    <3>1. CASE pkt.p.key.v4 /\ count > 0
      <4>1. pkt' = [pc |-> "slot", p |-> pkt.p, torn |-> pkt.torn, i |-> 0, n |-> count]
        BY <2>5, <3>1 DEF ReadCount, NextStage
      <4> QED
        BY <1>0, <1>2, <1>3, <2>3, <3>1, <4>1
    <3>2. CASE ~(pkt.p.key.v4 /\ count > 0)
      <4>1. pkt' = [pkt EXCEPT !.pc = "default"]
        BY <2>5, <3>2 DEF ReadCount, NextStage
      <4>2. pkt'.pc = "default"
        BY <1>4, <2>5, <4>1 DEF ReadCount, Stages
      <4> QED
        BY <1>0, <1>3, <1>4, <2>2, <2>3, <3>2, <4>2
    <3> QED
      BY <3>1, <3>2
  <2>6. CASE ReadSlot
    <3>1. /\ pkt.p.key.v4 /\ pkt.n = count
          /\ \A j \in 0 .. ZoneMax - 1 : j < pkt.i => ~Fits(zone[j], pkt.p)
      BY <1>0, <1>5, <2>1, <2>2, <2>6 DEF PacketFits, ReadSlot
    <3>2. pkt.i \in 0 .. ZoneMax /\ pkt.n \in 1 .. ZoneMax
      BY <1>4, <2>6 DEF ReadSlot, Stages
    <3>3. CASE PastLast(pkt.i, pkt.n)
      <4>1. pkt' = [pc |-> "default", p |-> pkt.p, torn |-> pkt.torn]
        BY <2>6, <3>3 DEF ReadSlot, NextStage
      <4>2. \A j \in 0 .. ZoneMax - 1 : j < count => ~Fits(zone[j], pkt.p)
        BY <1>0, <1>4, <3>1, <3>2, <3>3 DEF PastLast
      <4> QED
        BY <1>3, <2>3, <4>1, <4>2
    <3>4. CASE ~PastLast(pkt.i, pkt.n)
      <4>1. ~Fits(zone[pkt.i], pkt.p) /\ pkt' = [pkt EXCEPT !.i = @ + 1]
        BY <2>1, <2>6, <3>4 DEF ReadSlot, NextStage, Settle, Decide
      <4>2. pkt \in [pc : {"slot"}, p : Packet, torn : BOOLEAN, i : 0 .. ZoneMax, n : 1 .. ZoneMax]
        BY <1>4, <2>6 DEF ReadSlot, Stages
      <4>3. pkt'.pc = "slot" /\ pkt'.n = pkt.n /\ pkt'.i = pkt.i + 1
        BY <4>1, <4>2
      <4>4. \A j \in 0 .. ZoneMax - 1 : j < pkt.i + 1 => ~Fits(zone[j], pkt.p)
        <5>1. ASSUME NEW j \in 0 .. ZoneMax - 1, j < pkt.i + 1
              PROVE  j < pkt.i \/ j = pkt.i
          BY <1>0, <3>2, <5>1
        <5> QED
          BY <3>1, <4>1, <5>1
      <4> QED
        BY <1>2, <1>3, <2>2, <2>3, <3>1, <4>3, <4>4
    <3> QED
      BY <3>3, <3>4
  <2>7. CASE DefaultDrop \/ RefuseFlow \/ NewFlow
    BY <2>1, <2>7 DEF DefaultDrop, RefuseFlow, NewFlow, Settle, Decide
  <2> QED
    BY <2>4, <2>5, <2>6, <2>7 DEF Walk
<1> QED
  BY <1>1, <1>3, <1>6 DEF IInv

\* Every step keeps the invariant.
LEMMA NextKeeps ==
    ASSUME IInv, [Next]_vars
    PROVE  IInv'
<1>1. CASE UNCHANGED vars
  BY <1>1 DEF vars, IInv, TypeOK, ZoneFits, RulesFit, PacketFits, SyncRunning
<1> QED
  BY <1>1, ArriveKeeps, WalkKeeps, SyncKeeps, EnvironmentKeeps DEF Next

\* At the start the array holds a list, and no packet is on its way.
LEMMA InitFits == Init => IInv
<1> SUFFICES ASSUME Init
             PROVE  IInv
  OBVIOUS
<1>1. PICK list \in ZoneLists :
        /\ zone = Filled(Truncated(list))
        /\ count = Len(Truncated(list))
        /\ zoneSync = [pc |-> "idle", list |-> list]
  BY DEF Init
<1>2. Truncated(list) \in Seq(Policy) /\ Len(Truncated(list)) \in 0 .. ZoneMax
  BY TruncatedType
<1>3. ZoneFits
  BY <1>1 DEF ZoneFits
<1>4. RulesFit
  BY DEF Init, RulesFit
<1>5. TypeOK
  <2>1. OwnFlows \subseteq FiveTuple
    BY BoundsAssumption
  <2> QED
    BY <1>1, <1>2, <2>1, FilledType DEF Init, TypeOK
<1>6. PacketFits
  BY DEF Init, PacketFits
<1> QED
  BY <1>3, <1>4, <1>5, <1>6 DEF IInv

-----------------------------------------------------------------------------
(***************************************************************************)
(* The theorems.                                                           *)
(***************************************************************************)
\* All tables, the switch and the packet on its way keep their types, for any packets,
\* lists and rules.
THEOREM TypeCorrect == Spec => []TypeOK
<1>1. IInv /\ [Next]_vars => IInv'
  BY NextKeeps
<1>2. IInv => TypeOK
  BY DEF IInv
<1> QED
  BY <1>1, <1>2, InitFits, PTL DEF Spec

\* The first fit in a list is at i if the policy there fits and none before it does.
LEMMA FirstFitAt ==
    ASSUME NEW list \in Seq(Policy), NEW p, NEW i \in 1 .. Len(list), Fits(list[i], p),
           \A j \in 1 .. Len(list) : j < i => ~Fits(list[j], p)
    PROVE  FirstFit(list, p) = i
<1> DEFINE I == {j \in 1 .. Len(list) : Fits(list[j], p)}
<1>1. i \in I /\ \A j \in I : i <= j
  <2>1. Len(list) \in Nat
    OBVIOUS
  <2>2. \A j \in 1 .. Len(list) : Fits(list[j], p) => ~(j < i)
    OBVIOUS
  <2> QED
    BY <2>1, <2>2
<1>2. \A x \in I : (\A y \in I : x <= y) => x = i
  <2>1. \A x \in 1 .. Len(list) : x <= i /\ i <= x => x = i
    OBVIOUS
  <2> QED
    BY <1>1, <2>1
<1>3. Min(I) = i
  BY <1>1, <1>2 DEF Min
<1>4. FirstFit(list, p) = Min(I)
  BY <1>1 DEF FirstFit, SelectInSeq
<1> QED
  BY <1>3, <1>4

\* No policy is the first fit in a list in which none fits.
LEMMA NoFirstFit ==
    ASSUME NEW list \in Seq(Policy), NEW p,
           \A j \in 1 .. Len(list) : ~Fits(list[j], p)
    PROVE  FirstFit(list, p) = 0
BY DEF FirstFit, SelectInSeq

\* The verdict at the end of a walk nothing has torn.
LEMMA VerdictFits ==
    ASSUME IInv, Walk, pkt' = Idle, ~pkt.torn, last'.at # "limit"
    PROVE  IF last'.at = "prefilter"
           THEN ruleSync.enabled /\ ~RuleHit(ruleSync.wanted, pkt.p.key)
           ELSE last'.action = PolicyVerdict(Truncated(zoneSync.list), pkt.p)
<1> DEFINE list == Truncated(zoneSync.list)
<1>0. TypeOK /\ ZoneFits /\ RulesFit /\ PacketFits /\ ZoneMax \in Nat
  BY BoundsAssumption DEF IInv
<1>1. pkt # Idle /\ pkt \in Stages
  BY <1>0 DEF TypeOK, Walk, Lookup, ReadCount, ReadSlot, DefaultDrop, RefuseFlow, NewFlow, Idle
<1>2. ~SyncRunning
  BY <1>0, <1>1 DEF PacketFits
<1>3. /\ list \in Seq(Policy) /\ Len(list) \in 0 .. ZoneMax /\ count = Len(list)
      /\ \A j \in 0 .. ZoneMax - 1 : j < count => zone[j] = list[j + 1]
  BY <1>0, <1>2, Untorn
<1> HIDE DEF list
<1>4. \A i \in 1 .. Len(list) : i - 1 \in 0 .. ZoneMax - 1 /\ i - 1 < count /\ zone[i - 1] = list[i]
  BY <1>0, <1>3
<1>5. CASE Lookup
  <2>1. ~RuleHit(rules, pkt.p.key) /\ last'.at = "prefilter"
    <3>1. CASE RuleHit(rules, pkt.p.key)
      BY <1>1, <1>5, <3>1 DEF Lookup, NextStage, Idle, Stages
    <3>2. CASE ~RuleHit(rules, pkt.p.key)
      BY <1>5, <3>2 DEF Lookup, Settle, Decide
    <3> QED
      BY <3>1, <3>2
  <2>2. flag
    BY <1>0, <1>1, <1>5 DEF PacketFits, Lookup
  <2> QED
    BY <1>0, <2>1, <2>2 DEF RulesFit
<1>6. CASE ReadCount
  BY <1>1, <1>6 DEF ReadCount, NextStage, Idle, Stages
<1>7. CASE ReadSlot
  <2>1. /\ pkt.p.key.v4 /\ pkt.n = count
        /\ \A j \in 0 .. ZoneMax - 1 : j < pkt.i => ~Fits(zone[j], pkt.p)
    BY <1>0, <1>1, <1>7 DEF PacketFits, ReadSlot
  <2>2. pkt.i \in 0 .. ZoneMax
    BY <1>1, <1>7 DEF ReadSlot, Stages
  <2>3. /\ ~PastLast(pkt.i, pkt.n) /\ Fits(zone[pkt.i], pkt.p)
        /\ last'.action = zone[pkt.i].action /\ last'.at = "zone"
    <3>1. CASE PastLast(pkt.i, pkt.n)
      BY <1>7, <3>1 DEF ReadSlot, NextStage, Idle
    <3>2. CASE ~PastLast(pkt.i, pkt.n) /\ ~Fits(zone[pkt.i], pkt.p)
      BY <1>1, <1>7, <3>2 DEF ReadSlot, NextStage, Idle, Stages
    <3>3. CASE ~PastLast(pkt.i, pkt.n) /\ Fits(zone[pkt.i], pkt.p)
      BY <1>7, <3>3 DEF ReadSlot, Settle, Decide
    <3> QED
      BY <3>1, <3>2, <3>3
  <2>4. pkt.i + 1 \in 1 .. Len(list) /\ zone[pkt.i] = list[pkt.i + 1]
    BY <1>0, <1>3, <2>1, <2>2, <2>3 DEF PastLast
  <2>5. ASSUME NEW j \in 1 .. Len(list), j < pkt.i + 1
        PROVE  ~Fits(list[j], pkt.p)
    <3>1. j - 1 < pkt.i
      BY <1>3, <2>2, <2>5
    <3> QED
      BY <1>4, <2>1, <3>1
  <2>6. FirstFit(list, pkt.p) = pkt.i + 1
    BY <1>3, <2>3, <2>4, <2>5, FirstFitAt
  <2>7. pkt.i + 1 # 0
    BY <2>2
  <2> QED
    BY <2>1, <2>3, <2>4, <2>6, <2>7 DEF PolicyVerdict, list
<1>8. CASE DefaultDrop \/ RefuseFlow \/ NewFlow
  <2>1. last'.action = config.default /\ last'.at = "default" /\ pkt.pc = "default"
    BY <1>8 DEF DefaultDrop, RefuseFlow, NewFlow, Settle, Decide
  <2>2. pkt.p.key.v4 => \A j \in 0 .. ZoneMax - 1 : j < count => ~Fits(zone[j], pkt.p)
    BY <1>0, <1>1, <2>1 DEF PacketFits
  <2>3. pkt.p.key.v4 => \A j \in 1 .. Len(list) : ~Fits(list[j], pkt.p)
    BY <1>4, <2>2
  <2>4. pkt.p.key.v4 => FirstFit(list, pkt.p) = 0
    BY <1>3, <2>3, NoFirstFit
  <2> QED
    BY <2>1, <2>4 DEF PolicyVerdict, list
<1> QED
  BY <1>5, <1>6, <1>7, <1>8 DEF Walk

\* A packet during whose walk no table is rewritten gets the verdict of the list that was
\* installed last, and the prefilter drops none that a rule wanted last fits, for
\* lists and arrays of any length, whichever steps of a rewriting came before.
THEOREM VerdictCorrect == Spec => UntornFollowsPolicy
<1>1. IInv /\ [Next]_vars => IInv'
  BY NextKeeps
<1>2. ASSUME IInv, Next, pkt # Idle, pkt' = Idle
      PROVE  Walk
  <2>1. ASSUME NEW p \in Packet, Arrive(p)
        PROVE  FALSE
    BY <1>2, <2>1 DEF Arrive
  <2>2. CASE Sync
    <3>1. pkt \in Stages /\ pkt' = [pkt EXCEPT !.torn = TRUE]
      BY <1>2, <2>2 DEF Sync, Tear, IInv, TypeOK
    <3> QED
      BY <1>2, <3>1 DEF Idle, Stages
  <2>3. CASE Environment
    BY <1>2, <2>3 DEF Environment
  <2> QED
    BY <1>2, <2>1, <2>2, <2>3 DEF Next
<1>3. IInv /\ [Next]_vars
        => [pkt # Idle /\ pkt' = Idle /\ ~pkt.torn /\ last'.at # "limit"
              => IF last'.at = "prefilter"
                 THEN ruleSync.enabled /\ ~RuleHit(ruleSync.wanted, pkt.p.key)
                 ELSE last'.action = PolicyVerdict(Truncated(zoneSync.list), pkt.p)]_vars
  BY <1>2, VerdictFits
<1> QED
  BY <1>1, <1>3, InitFits, PTL DEF Spec, UntornFollowsPolicy

\* A blocked source gets nothing through, on whichever path and under whichever
\* fragment policy.
THEOREM BlockedCorrect == Spec => BlockedStaysOut
<1>1. ASSUME Next, pkt = Idle, last' # NoVerdict, last'.action = "pass"
      PROVE  last'.p.key.src \notin blocked \/ Unmapped(last'.p)
  <2>1. ~Sync /\ ~Environment /\ ~Walk
    BY <1>1 DEF Sync, Environment, Walk, Lookup, ReadCount, ReadSlot, DefaultDrop, RefuseFlow,
                NewFlow, Idle
  <2>2. PICK p \in Packet : Arrive(p)
    BY <1>1, <2>1 DEF Next
  <2>3. ~Blocked(p) /\ ~NdFilter(p) /\ ~Limited(p) /\ ~GoesOn(p)
    BY <1>1 DEF Blocked, NdFilter, Limited, GoesOn, Decide
  <2>4. CASE Unparsed(p)
    BY <1>1, <2>4 DEF Unparsed, Decide
  <2>5. CASE Fragment(p) \/ ExemptPass(p) \/ TrackedPass(p) \/ DnatPass(p) \/ AlgPass(p)
    <3>1. p.key.src \notin blocked
      BY <2>5 DEF Fragment, ExemptPass, TrackedPass, DnatPass, AlgPass, Fresh, Inspected, Admissible
    <3>2. last'.p = p
      BY <2>5 DEF Fragment, ExemptPass, TrackedPass, DnatPass, AlgPass, PassHere, Decide
    <3> QED
      BY <3>1, <3>2
  <2> QED
    BY <2>2, <2>3, <2>4, <2>5 DEF Arrive
<1>2. [Next]_vars
        => [pkt = Idle /\ last' # NoVerdict /\ last'.action = "pass"
              => last'.p.key.src \notin blocked \/ Unmapped(last'.p)]_vars
  BY <1>1
<1> QED
  BY <1>2, PTL DEF Spec, BlockedStaysOut

\* What a connection or an expectation may have come from under a default of drop.
Origins ==
    /\ expect \subseteq {[k EXCEPT !.sport = 0] : k \in Flows}
    /\ TrackedWasAllowed

\* The first step of a packet enters a forwarding, an expectation or nothing, and what
\* may leave still may.
LEMMA ArriveOrigins ==
    ASSUME TypeOK, Origins, NEW p \in Packet, Arrive(p)
    PROVE  Origins'
<1> DEFINE origins == {[k EXCEPT !.sport = 0] : k \in Flows}
           Known0(key) == \/ Reversed(key) \in leaving'
                          \/ \E r \in DnatRules : key.src = r.to /\ key.sport = r.toPort
                          \/ [key EXCEPT !.sport = 0] \in origins
<1>1. expect' \subseteq origins /\ config' = config
  BY DEF Arrive, AlgPass, Origins
<1>2. \A key \in tracked : config.default = "drop" => Known0(key)
  <2>1. leaving \subseteq leaving'
    BY ArriveLeaves
  <2> QED
    BY <2>1 DEF Origins, TrackedWasAllowed
<1>3. ASSUME NEW key, Insert(key), Known0(key)
      PROVE  \A k \in tracked' : config.default = "drop" => Known0(k)
  BY <1>2, <1>3 DEF Insert
<1>4. CASE DnatPass(p)
  <2>1. PICK r \in DnatRules : Insert(ReplyKey(p, r))
    BY <1>4 DEF DnatPass, Forwarding
  <2>2. ReplyKey(p, r).src = r.to /\ ReplyKey(p, r).sport = r.toPort
    BY DEF ReplyKey
  <2>3. \A k \in tracked' : config.default = "drop" => Known0(k)
    BY <1>3, <2>1, <2>2
  <2> QED
    BY <1>1, <2>3 DEF Origins, TrackedWasAllowed
<1>5. CASE AlgPass(p)
  <2>1. [p.key EXCEPT !.sport = 0] \in origins
    <3>1. p.key \in FiveTuple /\ Flows \subseteq FiveTuple
      BY PacketTypes, BoundsAssumption
    <3>2. p.key \in origins \/ [p.key EXCEPT !.sport = 0] \in origins
      BY <1>5 DEF AlgPass, Expected, Origins
    <3>3. ASSUME NEW k \in Flows, p.key = [k EXCEPT !.sport = 0]
          PROVE  [p.key EXCEPT !.sport = 0] = [k EXCEPT !.sport = 0]
      BY <3>1, <3>3 DEF FiveTuple
    <3> QED
      BY <3>2, <3>3
  <2>2. \A k \in tracked' : config.default = "drop" => Known0(k)
    BY <1>3, <1>5, <2>1 DEF AlgPass
  <2> QED
    BY <1>1, <2>2 DEF Origins, TrackedWasAllowed
<1>6. CASE UNCHANGED tracked
  BY <1>1, <1>2, <1>6 DEF Origins, TrackedWasAllowed
<1> QED
  BY <1>4, <1>5, <1>6
     DEF Arrive, Unparsed, Blocked, Fragment, NdFilter, ExemptPass, Limited, TrackedPass, GoesOn

\* Every step keeps the origins.
LEMMA NextOrigins ==
    ASSUME TypeOK, Origins, [Next]_vars
    PROVE  Origins'
<1>1. CASE Walk
  <2>1. expect' = expect /\ config' = config
    BY <1>1 DEF Walk, tables
  <2>2. tracked' = tracked \/ config.default = "pass"
    BY <1>1 DEF Walk, Lookup, ReadCount, ReadSlot, DefaultDrop, RefuseFlow, NewFlow
  <2>3. leaving \subseteq leaving'
    BY <1>1, WalkLeaves
  <2> QED
    BY <2>1, <2>2, <2>3 DEF Origins, TrackedWasAllowed
<1>2. CASE Sync
  BY <1>2 DEF Sync, tables, Origins, TrackedWasAllowed
<1>3. CASE Environment
  <2>1. config' = config /\ leaving' = leaving
    BY <1>3 DEF Environment
  <2>2. expect' \subseteq {[k EXCEPT !.sport = 0] : k \in Flows}
    BY <1>3 DEF Environment, Toggle, LearnFlow, LearnData, Egress, ExpireEntry,
                ExpireExpectation, ExpireFragments, tables, Origins
  <2>3. ASSUME NEW key \in tracked'
        PROVE  key \in tracked \/ Reversed(key) \in leaving
    <3>1. CASE tracked' \subseteq tracked
      BY <2>3, <3>1
    <3>2. ASSUME NEW k \in leaving, Egress(k)
          PROVE  key \in tracked \/ Reversed(key) \in leaving
      <4>1. key \in tracked \/ key = Reversed(k)
        BY <2>3, <3>2 DEF Egress, Insert
      <4> QED
        BY <4>1, ReversedTwice DEF TypeOK
    <3> QED
      BY <1>3, <3>1, <3>2 DEF Environment, Toggle, LearnFlow, LearnData, ExpireEntry,
                              ExpireExpectation, ExpireFragments
  <2> QED
    BY <2>1, <2>2, <2>3 DEF Origins, TrackedWasAllowed
<1>4. CASE UNCHANGED vars
  BY <1>4 DEF vars, Origins, TrackedWasAllowed
<1> QED
  BY <1>1, <1>2, <1>3, <1>4, ArriveOrigins DEF Next

\* Under a default of drop every connection is a forwarding's, an expectation's, or the
\* replies to a packet that was let through, for any policies, rules and ways out.
THEOREM DenyCorrect == Spec => []TrackedWasAllowed
<1>1. Init => Origins
  BY DEF Init, Origins, TrackedWasAllowed
<1>2. TypeOK /\ Origins /\ [Next]_vars => Origins'
  BY NextOrigins
<1>3. Origins => TrackedWasAllowed
  BY DEF Origins
<1> QED
  BY <1>1, <1>2, <1>3, TypeCorrect, PTL DEF Spec

\* The packets of a connection are decided in their first step, so that no look-up of a
\* rule or a policy comes between a connection and its packets.
THEOREM TrackedCorrect == Spec => TrackedPasses
<1>1. ASSUME Next, pkt = Idle, pkt' # Idle
      PROVE  tracked \cap {pkt'.p.key, Reversed(pkt'.p.key)} = {}
  <2>1. ~Sync /\ ~Environment /\ ~Walk
    BY <1>1 DEF Sync, Tear, Environment, Walk, Lookup, ReadCount, ReadSlot, DefaultDrop,
                RefuseFlow, NewFlow, Idle
  <2>2. PICK p \in Packet : Arrive(p)
    BY <1>1, <2>1 DEF Next
  <2>3. GoesOn(p)
    BY <1>1, <2>2 DEF Arrive, Unparsed, Blocked, Fragment, NdFilter, ExemptPass, Limited,
                      TrackedPass, DnatPass, AlgPass, PassHere, Decide
  <2> QED
    BY <2>3 DEF GoesOn, Fresh, Known
<1>2. [Next]_vars
        => [pkt = Idle /\ pkt' # Idle
              => tracked \cap {pkt'.p.key, Reversed(pkt'.p.key)} = {}]_vars
  BY <1>1
<1> QED
  BY <1>2, PTL DEF Spec, TrackedPasses
=============================================================================
