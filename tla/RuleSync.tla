-------------------------------- MODULE RuleSync --------------------------------
(***************************************************************************)
(* The lists of runtime rules (k-firewalld/src/api.rs, persist.rs,         *)
(* ebpf_loader.rs): Suricata rules, QoS classes, rate limits, connection   *)
(* limits, port forwardings and zone policies.  A rule lives in a table of *)
(* the database, if there is one, in a list of the daemon under a mutex of *)
(* its own, and in a table of the kernel.  An API call visits them one     *)
(* after the other; calls interleave at every lock and at every statement  *)
(* of the database.                                                        *)
(*                                                                         *)
(* The lists have nothing in common but the handle lock: a behaviour is    *)
(* that of one of them, which the initial state chooses.                   *)
(***************************************************************************)
EXTENDS Integers, Sequences, FiniteSets, SequencesExt

CONSTANTS
    Modes,       \* the lists looked at, with or without a database, which may fail or not
    RulesOf(_),  \* the contents a rule of a list may have
    KeyOf(_, _), \* what names a rule: text, name, source or forwarded port
    MaxId,       \* bound on the row ids
    CustomIds,   \* ids a caller may choose for a new rule
    Task,        \* concurrent API calls
    Seed,        \* rules of the configuration, for a table that is empty at start
    Slots        \* ZONE_MAX, QOS_MAX: entries the arrays of the kernel have room for

Kinds == {"suricata", "qos", "rate", "conn", "nat", "zone"}

ASSUME BoundsAssumption ==
    /\ Modes \subseteq [kind : Kinds, db : BOOLEAN, fails : BOOLEAN]
    /\ MaxId \in Nat
    /\ CustomIds \subseteq 1 .. MaxId
    /\ \A m \in Modes :
          /\ "none" \notin RulesOf(m)
          /\ m.kind # "suricata" => Seed \in Seq(RulesOf(m))
    /\ Len(Seed) <= MaxId
    /\ Slots \in Nat

Id    == 1 .. MaxId
Rule  == UNION {RulesOf(m) : m \in Modes}
Entry == [id : Id, rule : Rule, enabled : BOOLEAN]
Row   == [rule : Rule, enabled : BOOLEAN]
NoRow == [rule |-> "none", enabled |-> FALSE]

VARIABLES
    mode,       \* the list this behaviour is about, and its database
    db,         \* its table
    seq,        \* AUTOINCREMENT, or the counter of the daemon: the largest id given out
    list,       \* the list: suricata_rules, qos_classes, ... of AppState
    kernel,     \* what the kernel has of it
    call,       \* where each API call is
    disturbed,  \* history: ids whose calls overlapped or half failed, all of them
                \* after a start that could not read the table
    calm,       \* history: the daemon started on a table without two rules of one
                \* key; since then calls came one at a time, none failed half-way, none
                \* gave two rules one key, and ids were given out in ascending order
    synced      \* history: the rewriting of the kernel's table that was asked for last
                \* took place, from the first entry to the last

vars == <<mode, db, seq, list, kernel, call, disturbed, calm, synced>>

Idle == [pc |-> "idle"]

Calls ==
    [pc : {"idle", "sync"}]
        \cup [pc : {"add"}, rule : Rule]
        \cup [pc : {"added"}, id : Id, rule : Rule]
        \cup [pc : {"change", "changed"}, id : Id, field : {"rule", "enabled"},
              value : Rule \cup BOOLEAN]
        \cup [pc : {"delete"}, todo : SUBSET Id]
        \cup [pc : {"load"}, ids : SUBSET Id]
        \cup [pc : {"assign"}, rows : BoundedSeq(Entry, MaxId)]
        \cup [pc : {"apply"}, rules : BoundedSeq(Rule, MaxId)]

Ids(entries) == {entries[i].id : i \in DOMAIN entries}
Used(table)  == {id \in Id : table[id] # NoRow}
InTable      == Used(db)

\* Numbers in ascending order: each stands where as many are not above it.
InOrder(numbers) ==
    [i \in 1 .. Cardinality(numbers) |->
        CHOOSE n \in numbers : Cardinality({m \in numbers : m <= n}) = i]

\* What a list holds in some of its places, in the order it has them.
Picked(entries, places) ==
    LET kept == InOrder(places)
    IN  [i \in DOMAIN kept |-> entries[kept[i]]]

\* SELECT ... ORDER BY id
RowsOf(table) ==
    LET ids == InOrder(Used(table))
    IN  [i \in DOMAIN ids |-> [id |-> ids[i], rule |-> table[ids[i]].rule,
                               enabled |-> table[ids[i]].enabled]]
Rows == RowsOf(db)

\* A table whose largest id was last, once the rules seeds are inserted.
SeededWith(table, last, seeds) ==
    [id \in Id |-> IF id - last \in DOMAIN seeds
                   THEN [rule |-> seeds[id - last], enabled |-> TRUE]
                   ELSE table[id]]

\* What a call hands over to the kernel: the enabled rules in the order of the list.
Enabled(entries) ==
    LET on == Picked(entries, {i \in DOMAIN entries : entries[i].enabled})
    IN  [i \in DOMAIN on |-> on[i].rule]

Fitting(slots) == SubSeq(slots, 1, IF Len(slots) < Slots THEN Len(slots) ELSE Slots)

\* A zone policy takes two slots, one for each direction.
ZoneSlots(rules) ==
    [i \in 1 .. 2 * Len(rules) |-> <<rules[(i + 1) \div 2], IF i % 2 = 1 THEN "there" ELSE "back">>]

\* Rules of one key overwrite each other: the last one stays.
ByKey(kind, rules) ==
    [key \in {KeyOf(kind, rules[i]) : i \in DOMAIN rules} |->
        rules[SelectLastInSeq(rules, LAMBDA r : KeyOf(kind, r) = key)]]

Installed(rules) ==
    CASE mode.kind = "qos" -> Fitting(rules)
      [] mode.kind = "zone" -> Fitting(ZoneSlots(rules))
      [] mode.kind = "suricata" -> ToSet(rules)
      [] OTHER -> ByKey(mode.kind, rules)

\* What a rewriting leaves that the kernel refuses an entry of: the table is emptied
\* first and then takes entry after entry; an array counts as empty until all are in.
CutShort(rules) ==
    CASE mode.kind \in {"qos", "zone"} -> {<<>>}
      [] mode.kind = "suricata" -> SUBSET ToSet(rules)
      [] OTHER -> {ByKey(mode.kind, SubSeq(rules, 1, n)) : n \in 0 .. Len(rules) - 1}

\* The daemon and the configuration it starts with know no Suricata rules.
Seeds == IF mode.db /\ mode.kind # "suricata" THEN Seed ELSE <<>>

OneRuleEach(entries) ==
    mode.kind # "zone" =>
        \A i, j \in DOMAIN entries :
            KeyOf(mode.kind, entries[i].rule) = KeyOf(mode.kind, entries[j].rule) => i = j

Init ==
    /\ mode \in Modes
    /\ db = SeededWith([id \in Id |-> NoRow], 0, Seeds)
    /\ seq = Len(Seeds)
    /\ list = Rows
    /\ kernel = Installed(Enabled(Rows))
    /\ call = [t \in Task |-> Idle]
    /\ disturbed = {}
    /\ calm = OneRuleEach(list)
    /\ synced = TRUE

-----------------------------------------------------------------------------
\* The ids whose table row and list entry a call is in the middle of changing; a
\* swap replaces the whole list.
Changing(c) ==
    CASE c.pc \in {"added", "change", "changed"} -> {c.id}
      [] c.pc = "delete" -> c.todo
      [] c.pc \in {"load", "assign"} -> Id
      [] OTHER -> {}

Overlapped(t, ids) == {id \in ids : \E u \in Task \ {t} : id \in Changing(call[u])}

AllIdle  == \A t \in Task : call[t] = Idle
Goto(t, c) == call' = [call EXCEPT ![t] = c]
Sync     == [pc |-> "sync"]

\* Call t begins, on the rules ids; tidy: it leaves the list in the order of its ids,
\* and with one rule for a key.
Begin(t, ids, tidy, next) ==
    /\ call[t] = Idle
    /\ Goto(t, next)
    /\ disturbed' = disturbed \cup Overlapped(t, ids)
    /\ calm' = (calm /\ AllIdle /\ tidy)

\* Call t ends half-way because a statement of the database fails.
Fails(t, ids) ==
    /\ mode.db /\ mode.fails
    /\ Goto(t, Idle)
    /\ disturbed' = disturbed \cup ids
    /\ calm' = FALSE
    /\ UNCHANGED <<db, seq, list, kernel>>

\* No other rule has the key of this one; those of zone policies are their ids.
KeyFree(rule, id) ==
    mode.kind # "zone" =>
        \A i \in DOMAIN list :
            list[i].id # id => KeyOf(mode.kind, list[i].rule) # KeyOf(mode.kind, rule)

NewRow(id, rule) == IF mode.db THEN [db EXCEPT ![id] = [rule |-> rule, enabled |-> TRUE]] ELSE db

\* Mutant: the counter runs ahead.
Insert_SeqAhead(t, rule, id) ==
    /\ db[id] = NoRow
    /\ Begin(t, {id}, \A other \in Ids(list) : other < id, Sync)
    /\ db' = NewRow(id, rule)
    /\ seq' = IF id >= seq THEN id + 1 ELSE seq
    /\ list' = Append(list, [id |-> id, rule |-> rule, enabled |-> TRUE])
    /\ UNCHANGED kernel

\* Table and list are changed under the mutex of the list.  An insertion, an update
\* or a swap that the database refuses changes nothing.
Insert(t, rule, id) ==
    /\ db[id] = NoRow
    /\ Begin(t, {id}, \A other \in Ids(list) : other < id, Sync)
    /\ db' = NewRow(id, rule)
    /\ seq' = IF id > seq THEN id ELSE seq
    /\ list' = Append(list, [id |-> id, rule |-> rule, enabled |-> TRUE])
    /\ UNCHANGED kernel

\* Mutant: whether the id is free is left to the database.
AddCustom_Unchecked(t, rule, id) == Insert(t, rule, id)

\* An id chosen by the caller must be free in the list, and in the table.
AddCustom(t, rule, id) ==
    /\ id \notin Ids(list)
    /\ Insert(t, rule, id)

AddNext(t, rule) ==
    /\ seq < MaxId
    /\ Insert(t, rule, seq + 1)

AddAny(t, rule) == AddNext(t, rule) \/ \E id \in CustomIds : AddCustom(t, rule, id)

Changed(entries, id, rule, enabled) ==
    [i \in DOMAIN entries |->
        IF entries[i].id = id THEN [id |-> id, rule |-> rule, enabled |-> enabled]
        ELSE entries[i]]

EnabledIn(entries, id) == \E i \in DOMAIN entries : entries[i].id = id /\ entries[i].enabled
RuleIn(entries, id)    == entries[CHOOSE i \in DOMAIN entries : entries[i].id = id].rule

\* Table and list under the mutex; the table keeps its flag.
Replace(t, id, rule) ==
    /\ id \in Ids(list)
    /\ Begin(t, {id}, KeyFree(rule, id), Sync)
    /\ db' = IF id \in InTable THEN [db EXCEPT ![id].rule = rule] ELSE db
    /\ list' = Changed(list, id, rule, EnabledIn(list, id))
    /\ UNCHANGED <<seq, kernel>>

\* The rule is looked up, the table changed, then the list.
Change(t, id, tidy, field, value) ==
    /\ id \in Ids(list)
    /\ Begin(t, {id}, tidy, [pc |-> IF mode.db THEN "change" ELSE "changed", id |-> id,
                             field |-> field, value |-> value])
    /\ UNCHANGED <<db, seq, list, kernel>>

\* patch_qos_class, ..., patch_zone_policy
Patch(t, id, enabled) == Change(t, id, TRUE, "enabled", enabled)

ChangeTable(t) ==
    /\ call[t].pc = "change"
    /\ LET id == call[t].id
       IN  db' = IF id \in InTable THEN [db EXCEPT ![id][call[t].field] = call[t].value] ELSE db
    /\ Goto(t, [call[t] EXCEPT !.pc = "changed"])
    /\ UNCHANGED <<seq, list, kernel, disturbed, calm>>

ChangeFails(t) == call[t].pc = "change" /\ Fails(t, {})

\* Mutant: the list is not changed.
ChangeList_Skipped(t) ==
    /\ call[t].pc = "changed"
    /\ Goto(t, Sync)
    /\ UNCHANGED <<db, seq, list, kernel, disturbed, calm>>

ChangeList(t) ==
    /\ call[t].pc = "changed"
    /\ list' = [i \in DOMAIN list |->
                   IF list[i].id = call[t].id
                   THEN [list[i] EXCEPT ![call[t].field] = call[t].value] ELSE list[i]]
    /\ Goto(t, Sync)
    /\ UNCHANGED <<db, seq, kernel, disturbed, calm>>

\* One rule or several: first the list, then one statement for each id asked for.
Delete(t, ids) ==
    /\ ids \cap Ids(list) # {}
    /\ Begin(t, ids, TRUE, IF mode.db THEN [pc |-> "delete", todo |-> ids] ELSE Sync)
    /\ list' = Picked(list, {i \in DOMAIN list : list[i].id \notin ids})
    /\ UNCHANGED <<db, seq, kernel>>

DeleteRow(t, id) ==
    /\ call[t].pc = "delete"
    /\ id \in call[t].todo
    /\ db' = [db EXCEPT ![id] = NoRow]
    /\ Goto(t, IF call[t].todo = {id} THEN Sync ELSE [call[t] EXCEPT !.todo = @ \ {id}])
    /\ UNCHANGED <<seq, list, kernel, disturbed, calm>>

DeleteFails(t) == call[t].pc = "delete" /\ Fails(t, call[t].todo)

\* One transaction exchanges the ids in the table, which is then read back; only after
\* that the mutex of the list is taken.
Swap(t, a, b) ==
    /\ mode.db /\ a # b
    /\ {a, b} \subseteq InTable
    /\ Begin(t, Id, TRUE, [pc |-> "load", ids |-> {a, b}])
    /\ db' = [db EXCEPT ![a] = db[b], ![b] = db[a]]
    /\ UNCHANGED <<seq, list, kernel>>

\* Without a database zone policies change places and keep their ids, the other rules
\* keep their places and change ids.
SwapInMemory(t, a, b) ==
    /\ ~mode.db /\ a # b
    /\ {a, b} \subseteq Ids(list)
    /\ Begin(t, {a, b}, FALSE, Sync)
    /\ LET other == [id \in Id |-> IF id = a THEN b ELSE IF id = b THEN a ELSE id]
           named(id) == CHOOSE e \in ToSet(list) : e.id = id
       IN  list' = [i \in DOMAIN list |->
                      IF mode.kind = "zone" THEN named(other[list[i].id])
                      ELSE [list[i] EXCEPT !.id = other[@]]]
    /\ UNCHANGED <<db, seq, kernel>>

SwapAny(t) == \E a, b \in Id : Swap(t, a, b) \/ SwapInMemory(t, a, b)

SwapLoad(t) ==
    /\ call[t].pc = "load"
    /\ Goto(t, [pc |-> "assign", rows |-> Rows])
    /\ UNCHANGED <<db, seq, list, kernel, disturbed, calm>>

LoadFails(t) == call[t].pc = "load" /\ Fails(t, call[t].ids)

SwapAssign(t) ==
    /\ call[t].pc = "assign"
    /\ list' = call[t].rows
    /\ Goto(t, Sync)
    /\ UNCHANGED <<db, seq, kernel, disturbed, calm>>

\* Mutant: disabled rules are written, too.
Snapshot_All(t) ==
    /\ call[t].pc = "sync"
    /\ Goto(t, [pc |-> "apply", rules |-> [i \in DOMAIN list |-> list[i].rule]])
    /\ UNCHANGED <<db, seq, list, kernel, disturbed, calm>>

\* resync_qos, ..., resync_zone_policies: the list is read under its mutex, then the
\* handle lock is awaited and the table of the kernel rewritten.
Snapshot(t) ==
    /\ call[t].pc = "sync"
    /\ Goto(t, [pc |-> "apply", rules |-> Enabled(list)])
    /\ UNCHANGED <<db, seq, list, kernel, disturbed, calm>>

Handover(rules) ==
    \/ kernel' = Installed(rules) /\ synced' = TRUE
    \/ kernel' \in CutShort(rules) /\ synced' = FALSE

\* The caller hears of an error, but list and table of the database stay as they are.
Apply(t) ==
    /\ call[t].pc = "apply"
    /\ Handover(call[t].rules)
    /\ Goto(t, Idle)
    /\ UNCHANGED <<db, seq, list, disturbed, calm>>

\* The client has gone, and the call with it, before its turn of the handle came.
Abandon(t) ==
    /\ call[t].pc = "apply"
    /\ synced' = FALSE
    /\ Goto(t, Idle)
    /\ UNCHANGED <<db, seq, list, kernel, disturbed, calm>>

\* The daemon stops at any point and starts again (AppState::new): a table that is
\* empty, or cannot be read, gets the rules of the configuration and is read again.
\* Without a database nothing is left, and nothing of the configuration is taken over.
Restart ==
    \E read, seeded, reread \in IF mode.db /\ mode.fails THEN BOOLEAN ELSE {TRUE} :
        LET found == IF read THEN Rows ELSE <<>>
            seeds == IF found = <<>> /\ seeded THEN Seeds ELSE <<>>
            last  == IF mode.db THEN seq ELSE 0
        IN  /\ last + Len(seeds) <= MaxId
            /\ db' = SeededWith(db, last, seeds)
            /\ seq' = last + Len(seeds)
            /\ list' = IF found = <<>> /\ Seeds # <<>> /\ reread THEN RowsOf(db') ELSE found
            /\ Handover(Enabled(list'))
            /\ call' = [t \in Task |-> Idle]
            /\ disturbed' = IF list' = RowsOf(db') THEN {} ELSE Id
            /\ calm' = (list' = RowsOf(db') /\ OneRuleEach(list'))

-----------------------------------------------------------------------------
(***************************************************************************)
(* The calls on each list.                                                 *)
(***************************************************************************)
PatchOrDelete(t) ==
    \/ \E id \in Id, enabled \in BOOLEAN : Patch(t, id, enabled)
    \/ \E ids \in SUBSET Id : Delete(t, ids)

\* A Suricata rule is compared with those of the list, inserted into the table, and
\* appended to the list, in three steps.
AddSuriRule(t, rule) ==
    /\ KeyFree(rule, 0)
    /\ Begin(t, {}, TRUE, [pc |-> "add", rule |-> rule])
    /\ UNCHANGED <<db, seq, list, kernel>>

AddSuriRow(t) ==
    /\ call[t].pc = "add"
    /\ seq < MaxId
    /\ LET id == seq + 1
       IN  /\ db' = NewRow(id, call[t].rule)
           /\ seq' = id
           /\ disturbed' = disturbed \cup Overlapped(t, {id})
           /\ Goto(t, [pc |-> "added", id |-> id, rule |-> call[t].rule])
    /\ UNCHANGED <<list, kernel, calm>>

AddSuriFails(t) == call[t].pc = "add" /\ Fails(t, {})

AddSuriPush(t) ==
    /\ call[t].pc = "added"
    /\ list' = Append(list, [id |-> call[t].id, rule |-> call[t].rule, enabled |-> TRUE])
    /\ Goto(t, Sync)
    /\ UNCHANGED <<db, seq, kernel, disturbed, calm>>

UpdateSuriRule(t, id, rule) == Change(t, id, KeyFree(rule, id), "rule", rule)

SuriCalls(t) ==
    \/ \E rule \in RulesOf(mode) : AddSuriRule(t, rule) \/ \E id \in Id : UpdateSuriRule(t, id, rule)
    \/ PatchOrDelete(t)

\* Mutant: a class may be given the name of another.
AddQosClass_AnyName(t, rule) == AddNext(t, rule)

AddQosClass(t, rule) == KeyFree(rule, 0) /\ AddNext(t, rule)

UpdateQosClass(t, id, rule) == KeyFree(rule, id) /\ Replace(t, id, rule)

QosCalls(t) ==
    \/ \E rule \in RulesOf(mode) : AddQosClass(t, rule) \/ \E id \in Id : UpdateQosClass(t, id, rule)
    \/ PatchOrDelete(t)

AddRateLimit(t, rule) == KeyFree(rule, 0) /\ AddAny(t, rule)

UpdateRateLimit(t, id, rule) == KeyFree(rule, id) /\ Replace(t, id, rule)

RateCalls(t) ==
    \/ \E rule \in RulesOf(mode) : AddRateLimit(t, rule) \/ \E id \in Id : UpdateRateLimit(t, id, rule)
    \/ PatchOrDelete(t) \/ SwapAny(t)

AddConnLimit(t, rule) == KeyFree(rule, 0) /\ AddAny(t, rule)

UpdateConnLimit(t, id, rule) == KeyFree(rule, id) /\ Replace(t, id, rule)

ConnCalls(t) ==
    \/ \E rule \in RulesOf(mode) : AddConnLimit(t, rule) \/ \E id \in Id : UpdateConnLimit(t, id, rule)
    \/ PatchOrDelete(t) \/ SwapAny(t)

AddNatRule(t, rule) == KeyFree(rule, 0) /\ AddAny(t, rule)

\* An updated forwarding is not compared with the others.
UpdateNatRule(t, id, rule) == Replace(t, id, rule)

NatCalls(t) ==
    \/ \E rule \in RulesOf(mode) : AddNatRule(t, rule) \/ \E id \in Id : UpdateNatRule(t, id, rule)
    \/ PatchOrDelete(t) \/ SwapAny(t)

AddZonePolicy(t, rule) == AddAny(t, rule)

UpdateZonePolicy(t, id, rule) == Replace(t, id, rule)

ZoneCalls(t) ==
    \/ \E rule \in RulesOf(mode) : AddZonePolicy(t, rule) \/ \E id \in Id : UpdateZonePolicy(t, id, rule)
    \/ PatchOrDelete(t) \/ SwapAny(t)

Call(t) ==
    \/ mode.kind = "suricata" /\ SuriCalls(t)
    \/ mode.kind = "qos" /\ QosCalls(t)
    \/ mode.kind = "rate" /\ RateCalls(t)
    \/ mode.kind = "conn" /\ ConnCalls(t)
    \/ mode.kind = "nat" /\ NatCalls(t)
    \/ mode.kind = "zone" /\ ZoneCalls(t)

Step(t) ==
    \/ AddSuriRow(t) \/ AddSuriFails(t) \/ AddSuriPush(t)
    \/ ChangeTable(t) \/ ChangeFails(t) \/ ChangeList(t)
    \/ \E id \in Id : DeleteRow(t, id)
    \/ DeleteFails(t)
    \/ SwapLoad(t) \/ LoadFails(t) \/ SwapAssign(t)
    \/ Snapshot(t)

Next ==
    /\ \/ Restart
       \/ \E t \in Task : \/ (Call(t) \/ Step(t)) /\ UNCHANGED synced
                          \/ Apply(t) \/ Abandon(t)
    /\ UNCHANGED mode

Spec == Init /\ [][Next]_vars

-----------------------------------------------------------------------------
(***************************************************************************)
(* Properties.                                                             *)
(***************************************************************************)
\* The types of the table, the list, the kernel's table and the calls.
TypeOK ==
    /\ mode \in Modes
    /\ db \in [Id -> Row \cup {NoRow}]
    /\ seq \in 0 .. MaxId
    /\ list \in BoundedSeq(Entry, MaxId)
    /\ CASE mode.kind = "qos" -> kernel \in BoundedSeq(Rule, Slots)
         [] mode.kind = "zone" -> kernel \in BoundedSeq(Rule \X {"there", "back"}, Slots)
         [] mode.kind = "suricata" -> kernel \subseteq Rule
         [] OTHER -> Range(kernel) \subseteq Rule
    /\ call \in [Task -> Calls]
    /\ disturbed \subseteq Id
    /\ calm \in BOOLEAN /\ synced \in BOOLEAN

\* No two rules of a list share an id, so that an id names one rule, however
\* additions, deletions and swaps overlap, with a database or without.
IdsUnique == \A i, j \in DOMAIN list : list[i].id = list[j].id => i = j

\* A rule that no two overlapping calls and no failure touched is in the list
\* exactly as it is in the table, whatever happens to the others meanwhile
\* ("校验 → 持久化 → 内存 → 热同步").
RowsAgree ==
    mode.db =>
        \A id \in Id \ disturbed :
            (\A t \in Task : id \notin Changing(call[t])) =>
                /\ id \in InTable <=> id \in Ids(list)
                /\ id \in InTable =>
                      /\ db[id].rule = RuleIn(list, id)
                      /\ db[id].enabled = EnabledIn(list, id)

\* As long as calls come one at a time, the list is the table in the order of its
\* ids.  The kernel enforces just the enabled rules of it, in that order as far as it
\* has an order ("id 顺序即执行顺序"), unless the rewriting that was asked for last failed or
\* was given up with its call: then the next one that does not fail makes it good.
CalmAgree ==
    calm /\ AllIdle =>
        /\ mode.db => list = Rows
        /\ synced => kernel = Installed(Enabled(list))

\* As long as calls come one at a time no two rules have one key, so that what the
\* kernel enforces for a source or a port does not hang on the order of the rules.  A
\* deletion that is cut off half-way, two additions that overlap, or an update of a
\* forwarding or of a Suricata rule can undo it, and a later start keeps it undone.
CalmUnique == calm => OneRuleEach(list)
=============================================================================
