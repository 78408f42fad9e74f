----------------------------- MODULE RuleSyncProofs -----------------------------
(***************************************************************************)
(* Theorems about RuleSync, for every list, every content of the rules,    *)
(* any number of ids and of overlapping calls.                             *)
(*                                                                         *)
(* What the properties say of the moments between calls is carried over    *)
(* the middle of a call by what that call has done so far: each invariant  *)
(* below has one clause per point a call can be at.                        *)
(***************************************************************************)
EXTENDS RuleSync, FiniteSetTheorems, TLAPS

-----------------------------------------------------------------------------
(***************************************************************************)
(* Types and ids.                                                          *)
(***************************************************************************)
\* What a call is about, by the point it is at.
CallFits(c) ==
    /\ c.pc \in {"change", "changed"} => c.value \in IF c.field = "rule" THEN Rule ELSE BOOLEAN
    /\ c.pc \in {"add", "added"} => mode.kind = "suricata"
    /\ c.pc \in {"load", "assign"} => mode.db /\ mode.kind # "suricata"
    /\ c.pc \in {"change", "delete"} => mode.db

Unique(entries) == \A i, j \in DOMAIN entries : entries[i].id = entries[j].id => i = j
Given(entries)  == Unique(entries) /\ \A i \in DOMAIN entries : entries[i].id <= seq

\* No id is given out that has been used: what is in the table, in the list or on its
\* way to the list is not above seq, and a rule on its way to the list is not there yet.
IdsGiven ==
    /\ \A id \in InTable : id <= seq
    /\ ~mode.db => InTable = {}
    /\ Given(list)
    /\ \A t \in Task :
          /\ call[t].pc = "added" =>
                /\ call[t].id <= seq /\ call[t].id \notin Ids(list)
                /\ \A u \in Task \ {t} : call[u].pc = "added" => call[u].id # call[t].id
          /\ call[t].pc = "assign" => Given(call[t].rows)

\* The part of the type invariant that is about the kernel.
KernelType(k) ==
    CASE mode.kind = "qos" -> k \in BoundedSeq(Rule, Slots)
      [] mode.kind = "zone" -> k \in BoundedSeq(Rule \X {"there", "back"}, Slots)
      [] mode.kind = "suricata" -> k \subseteq Rule
      [] OTHER -> Range(k) \subseteq Rule

\* The type invariant but for synced, on which no step depends.
Types ==
    /\ mode \in Modes
    /\ db \in [Id -> Row \cup {NoRow}]
    /\ seq \in 0 .. MaxId
    /\ list \in BoundedSeq(Entry, MaxId)
    /\ KernelType(kernel)
    /\ call \in [Task -> Calls]
    /\ disturbed \subseteq Id
    /\ calm \in BOOLEAN

TInv == Types /\ (\A t \in Task : CallFits(call[t])) /\ IdsGiven

-----------------------------------------------------------------------------
(***************************************************************************)
(* Table and list.                                                         *)
(***************************************************************************)
\* The entries of a list that have an id, and whether they are what a row says.
EntriesAt(entries, id) == {entries[i] : i \in {j \in DOMAIN entries : entries[j].id = id}}

Agree(entries, row) ==
    /\ row # NoRow <=> entries # {}
    /\ \A e \in entries : e.rule = row.rule /\ e.enabled = row.enabled

\* How far a call that changes an id has got with it, by what list and table have of it.
PlaceFits(c, id, entries, row) ==
    /\ c.pc = "added" => row = [rule |-> c.rule, enabled |-> TRUE] /\ entries = {}
    /\ c.pc = "change" => Agree(entries, row)
    /\ c.pc = "changed" => Agree({[e EXCEPT ![c.field] = c.value] : e \in entries}, row)
    /\ c.pc = "delete" => entries = {}
    /\ c.pc = "load" => id \in c.ids \/ Agree(entries, row)
    /\ c.pc = "assign" => Agree(EntriesAt(c.rows, id), row)

\* An id that nothing has disturbed.
IdFits(id) ==
    /\ \A t, u \in Task : id \in Changing(call[t]) /\ id \in Changing(call[u]) => t = u
    /\ \A t \in Task :
          id \in Changing(call[t]) => PlaceFits(call[t], id, EntriesAt(list, id), db[id])
    /\ (\A t \in Task : id \notin Changing(call[t])) => Agree(EntriesAt(list, id), db[id])

AInv == mode.db => \A id \in Id \ disturbed : IdFits(id)

-----------------------------------------------------------------------------
(***************************************************************************)
(* Calls one at a time.                                                    *)
(***************************************************************************)
\* A list that a change has reached, and a table without some rows.
Patched(entries, c) ==
    [i \in DOMAIN entries |->
        IF entries[i].id = c.id THEN [entries[i] EXCEPT ![c.field] = c.value] ELSE entries[i]]

Cleared(table, ids) == [id \in Id |-> IF id \in ids THEN NoRow ELSE table[id]]

\* What a call leaves of the table in the list at each point.
OrderFits(c, entries, table) ==
    /\ c.pc \in {"sync", "apply", "add", "change"} => entries = RowsOf(table)
    /\ c.pc = "added" =>
          Append(entries, [id |-> c.id, rule |-> c.rule, enabled |-> TRUE]) = RowsOf(table)
    /\ c.pc = "changed" => Patched(entries, c) = RowsOf(table)
    /\ c.pc = "delete" => entries = RowsOf(Cleared(table, c.todo))
    /\ c.pc = "assign" => c.rows = RowsOf(table)

FreeIn(entries, rule, id) ==
    mode.kind # "zone" =>
        \A i \in DOMAIN entries :
            entries[i].id # id => KeyOf(mode.kind, entries[i].rule) # KeyOf(mode.kind, rule)

\* No other rule has the key a call is about to give a rule.
KeysFit(c, entries, table) ==
    /\ c.pc \in {"add", "added"} => FreeIn(entries, c.rule, 0)
    /\ c.pc \in {"change", "changed"} /\ c.field = "rule" => FreeIn(entries, c.value, c.id)
    /\ c.pc = "load" => OneRuleEach(RowsOf(table))
    /\ c.pc = "assign" => OneRuleEach(c.rows)

CInv ==
    calm =>
        /\ \A t, u \in Task : call[t] # Idle /\ call[u] # Idle => t = u
        /\ mode.db => \A t \in Task : OrderFits(call[t], list, db)
        /\ \A t \in Task : call[t].pc = "apply" => call[t].rules = Enabled(list)
        /\ AllIdle => (mode.db => list = Rows) /\ (synced => kernel = Installed(Enabled(list)))
        /\ OneRuleEach(list)
        /\ \A t \in Task : KeysFit(call[t], list, db)

-----------------------------------------------------------------------------
(***************************************************************************)
(* Sequences in order.                                                     *)
(***************************************************************************)
\* Each place of a finite set of numbers is taken by one of them, and a greater number
\* has a greater place.
LEMMA Ranks ==
    ASSUME NEW S \in SUBSET Nat, IsFiniteSet(S)
    PROVE  /\ \A r, t \in S : r < t =>
                  Cardinality({q \in S : q <= r}) < Cardinality({q \in S : q <= t})
           /\ \A i \in 1 .. Cardinality(S) :
                  \E r \in S : Cardinality({q \in S : q <= r}) = i
           /\ \A r \in S : Cardinality({q \in S : q <= r}) \in 1 .. Cardinality(S)
<1> DEFINE Upto(r) == {q \in S : q <= r}
           n == Cardinality(S)
           rank == [r \in S |-> Cardinality(Upto(r))]
<1>1. ASSUME NEW r \in S
      PROVE  IsFiniteSet(Upto(r)) /\ Cardinality(Upto(r)) \in 1 .. n
  <2>1. Upto(r) \in SUBSET S /\ r \in Upto(r)  OBVIOUS
  <2> HIDE DEF Upto
  <2>2. IsFiniteSet(Upto(r)) /\ Cardinality(Upto(r)) <= n  BY <2>1, FS_Subset
  <2>3. Cardinality(Upto(r)) \in Nat /\ n \in Nat  BY <2>2, FS_CardinalityType
  <2>4. Cardinality(Upto(r)) # 0  BY <2>1, <2>2, FS_EmptySet
  <2> QED  BY <2>2, <2>3, <2>4
<1>2. ASSUME NEW r \in S, NEW t \in S, r < t
      PROVE  Cardinality(Upto(r)) < Cardinality(Upto(t))
  <2>0. r \in Nat /\ t \in Nat /\ \A q \in S : q \in Nat  OBVIOUS
  <2>a. \A q \in S : q <= r => q <= t  BY <2>0, <1>2
  <2>b. t <= t /\ ~(t <= r)  BY <2>0, <1>2
  <2>1. Upto(r) \in SUBSET Upto(t) /\ t \in Upto(t) /\ t \notin Upto(r)
    BY <2>a, <2>b
  <2>2. IsFiniteSet(Upto(t)) /\ Cardinality(Upto(r)) \in Nat /\ Cardinality(Upto(t)) \in Nat
    BY <1>1
  <2> HIDE DEF Upto
  <2>3. Cardinality(Upto(r)) <= Cardinality(Upto(t))
        /\ (Cardinality(Upto(t)) = Cardinality(Upto(r)) => Upto(t) = Upto(r))
    BY <2>1, <2>2, FS_Subset
  <2> QED  BY <2>1, <2>2, <2>3
<1>3. n \in Nat /\ IsFiniteSet(1 .. n) /\ Cardinality(1 .. n) = n
  <2>1. n \in Nat  BY FS_CardinalityType
  <2> HIDE DEF n
  <2> QED  BY <2>1, FS_Interval
<1>4. rank \in [S -> 1 .. n]
  BY <1>1
<1>5. ASSUME NEW r \in S, NEW t \in S, r # t PROVE rank[r] # rank[t]
  <2>1. r \in Nat /\ t \in Nat  OBVIOUS
  <2>2. Cardinality(Upto(r)) \in Nat /\ Cardinality(Upto(t)) \in Nat  BY <1>1
  <2>3. rank[r] = Cardinality(Upto(r)) /\ rank[t] = Cardinality(Upto(t))  OBVIOUS
  <2>4. r < t => Cardinality(Upto(r)) < Cardinality(Upto(t))  BY <1>2
  <2>5. t < r => Cardinality(Upto(t)) < Cardinality(Upto(r))  BY <1>2
  <2> HIDE DEF Upto, rank
  <2>6. r < t \/ t < r  BY <2>1, <1>5
  <2> QED  BY <2>2, <2>3, <2>4, <2>5, <2>6
<1> HIDE DEF rank
<1>6. rank \in Injection(S, 1 .. n)
  BY <1>4, <1>5 DEF Injection, IsInjective
<1>7. rank \in Surjection(S, 1 .. n)
  <2> DEFINE T == 1 .. n
  <2>1. rank \in Injection(S, T) /\ IsFiniteSet(T) /\ Cardinality(S) = Cardinality(T)
    BY <1>3, <1>6
  <2> HIDE DEF T
  <2>2. rank \in Surjection(S, T)  BY <2>1, FS_Injection
  <2> QED  BY <2>2 DEF T
<1>8. \A i \in 1 .. n : \E r \in S : rank[r] = i
  BY <1>7 DEF Surjection
<1>9. \A r \in S : rank[r] = Cardinality(Upto(r))
  BY DEF rank
<1> QED  BY <1>1, <1>2, <1>8, <1>9

\* Numbers in order: each of them once, the smaller ones first.
LEMMA Ordered ==
    ASSUME NEW S \in SUBSET Nat, IsFiniteSet(S)
    PROVE  /\ Cardinality(S) \in Nat
           /\ InOrder(S) \in [1 .. Cardinality(S) -> S]
           /\ \A i, j \in 1 .. Cardinality(S) : i < j => InOrder(S)[i] < InOrder(S)[j]
           /\ \A r \in S : \E i \in 1 .. Cardinality(S) : InOrder(S)[i] = r
<1> DEFINE Rank(r) == Cardinality({q \in S : q <= r})
           n == Cardinality(S)
           s == InOrder(S)
<1>0. \A r \in S : r \in Nat  OBVIOUS
<1>1. n \in Nat  BY FS_CardinalityType
<1>2. /\ \A r, t \in S : r < t => Rank(r) < Rank(t)
      /\ \A i \in 1 .. n : \E r \in S : Rank(r) = i
      /\ \A r \in S : Rank(r) \in 1 .. n
  BY Ranks
<1>3. s = [i \in 1 .. n |-> CHOOSE r \in S : Rank(r) = i]
  BY DEF InOrder
<1> HIDE DEF Rank, n, s
<1>4. \A i \in 1 .. n : s[i] \in S /\ Rank(s[i]) = i
  BY <1>2, <1>3
<1>5. s \in [1 .. n -> S]
  BY <1>3, <1>4
<1>6. ASSUME NEW i \in 1 .. n, NEW j \in 1 .. n, i < j PROVE s[i] < s[j]
  <2>a. s[i] \in Nat /\ s[j] \in Nat  BY <1>0, <1>4
  <2>b. i \in Nat /\ j \in Nat  BY <1>1
  <2>1. s[i] \in Nat /\ s[j] \in Nat /\ i \in Nat /\ j \in Nat  BY <2>a, <2>b
  <2>2. Rank(s[i]) = i /\ Rank(s[j]) = j  BY <1>4
  <2>3. s[j] < s[i] => j < i
    <3>1. s[i] \in S /\ s[j] \in S  BY <1>4
    <3>2. s[j] < s[i] => Rank(s[j]) < Rank(s[i])  BY <1>2, <3>1
    <3> QED  BY <2>2, <3>2
  <2> QED  BY <1>6, <2>1, <2>2, <2>3
<1>7. ASSUME NEW r \in S PROVE \E i \in 1 .. n : s[i] = r
  <2>1. PICK i \in 1 .. n : Rank(r) = i  BY <1>2
  <2>2. s[i] \in S /\ Rank(s[i]) = i  BY <1>4
  <2>a. r \in Nat /\ s[i] \in Nat  BY <2>2, <1>0
  <2>b. i \in Nat  BY <1>1
  <2>3. r \in Nat /\ s[i] \in Nat /\ i \in Nat  BY <2>a, <2>b
  <2>4. r < s[i] => i < i  BY <1>2, <2>1, <2>2
  <2>5. s[i] < r => i < i  BY <1>2, <2>1, <2>2
  <2> QED  BY <2>3, <2>4, <2>5
<1> QED  BY <1>1, <1>5, <1>6, <1>7 DEF n, s

\* Nothing else lists them in this way.
LEMMA OneOrder ==
    ASSUME NEW S \in SUBSET Nat, NEW n \in Nat, NEW s \in [1 .. n -> S],
           \A i, j \in 1 .. n : i < j => s[i] < s[j],
           \A r \in S : \E i \in 1 .. n : s[i] = r
    PROVE  IsFiniteSet(S) /\ s = InOrder(S)
<1> DEFINE Upto(r) == {q \in S : q <= r}
<1>1. ASSUME NEW i \in 1 .. n, NEW j \in 1 .. n
      PROVE  (s[i] <= s[j] <=> i <= j) /\ (s[i] = s[j] => i = j)
  <2>0. s[i] \in S /\ s[j] \in S  OBVIOUS
  <2>a. s[i] \in Nat /\ s[j] \in Nat  BY <2>0
  <2>b. i \in Nat /\ j \in Nat  OBVIOUS
  <2>1. s[i] \in Nat /\ s[j] \in Nat /\ i \in Nat /\ j \in Nat  BY <2>a, <2>b
  <2>2. (i < j => s[i] < s[j]) /\ (j < i => s[j] < s[i])  OBVIOUS
  <2> QED  BY <2>1, <2>2
<1>2. s \in Bijection(1 .. n, S)
  BY <1>1 DEF Bijection, Injection, IsInjective, Surjection
<1>3. IsFiniteSet(S) /\ Cardinality(S) = n
  <2>1. ExistsBijection(1 .. n, S)  BY <1>2 DEF ExistsBijection
  <2> QED  BY <2>1, FS_NatBijection, FS_CountingElements
<1>4. ASSUME NEW i \in 1 .. n PROVE Cardinality(Upto(s[i])) = i
  <2> DEFINE f == [j \in 1 .. i |-> s[j]]
             U == Upto(s[i])
  <2>1. i \in Nat /\ \A j \in 1 .. i : j \in 1 .. n /\ s[j] \in U
    BY <1>1
  <2>2. \A q \in U : \E j \in 1 .. i : s[j] = q
    <3> SUFFICES ASSUME NEW q \in S, q <= s[i] PROVE \E j \in 1 .. i : s[j] = q
      OBVIOUS
    <3>1. PICK j \in 1 .. n : s[j] = q  OBVIOUS
    <3>2. j <= i  BY <1>1, <3>1
    <3> QED  BY <3>1, <3>2
  <2> HIDE DEF U
  <2>3. f \in [1 .. i -> U] /\ \A j \in 1 .. i : f[j] = s[j]  BY <2>1
  <2> HIDE DEF f
  <2>4. f \in Bijection(1 .. i, U)
    BY <1>1, <2>1, <2>2, <2>3 DEF Bijection, Injection, IsInjective, Surjection
  <2>5. Cardinality(U) = i
    BY <2>1, <2>4, FS_CountingElements DEF ExistsBijection
  <2> QED  BY <2>5 DEF U
<1>5. ASSUME NEW i \in 1 .. n
      PROVE  (CHOOSE r \in S : Cardinality(Upto(r)) = i) = s[i]
  <2>1. s[i] \in S /\ Cardinality(Upto(s[i])) = i  BY <1>4
  <2>2. ASSUME NEW r \in S, Cardinality(Upto(r)) = i PROVE r = s[i]
    <3>1. PICK j \in 1 .. n : s[j] = r  OBVIOUS
    <3>2. j = i  BY <1>4, <2>2, <3>1
    <3> QED  BY <3>1, <3>2
  <2> HIDE DEF Upto
  <2> QED  BY <2>1, <2>2
<1>6. InOrder(S) = [i \in 1 .. n |-> CHOOSE r \in S : Cardinality(Upto(r)) = i]
  BY <1>3 DEF InOrder
<1> HIDE DEF Upto
<1>7. s = [i \in 1 .. n |-> s[i]]  OBVIOUS
<1> QED  BY <1>3, <1>5, <1>6, <1>7

\* Ids are finitely many numbers.
LEMMA IdTypes ==
    /\ MaxId \in Nat /\ Id \in SUBSET Nat /\ IsFiniteSet(Id) /\ Cardinality(Id) = MaxId
    /\ \A id \in Id : id \in Nat /\ 1 <= id /\ id <= MaxId
<1>1. MaxId \in Nat  BY BoundsAssumption
<1>2. \A id \in Id : id \in Nat /\ 1 <= id /\ id <= MaxId  BY <1>1 DEF Id
<1>3. IsFiniteSet(1 .. MaxId) /\ Cardinality(1 .. MaxId) = MaxId  BY <1>1, FS_Interval
<1> QED  BY <1>1, <1>2, <1>3 DEF Id

\* Bounded sequences are sequences that are not too long.
LEMMA Bounded ==
    ASSUME NEW S, NEW n \in Nat
    PROVE  \A s : s \in BoundedSeq(S, n) <=> s \in Seq(S) /\ Len(s) <= n
<1>1. ASSUME NEW s \in BoundedSeq(S, n) PROVE s \in Seq(S) /\ Len(s) <= n
  <2>1. PICK m \in 0 .. n : s \in [1 .. m -> S]  BY DEF BoundedSeq, SeqOf
  <2>2. m \in Nat /\ m <= n  OBVIOUS
  <2>3. s \in Seq(S) /\ Len(s) = m  BY <2>1, <2>2
  <2> QED  BY <2>2, <2>3
<1>2. ASSUME NEW s \in Seq(S), Len(s) <= n PROVE s \in BoundedSeq(S, n)
  <2>1. Len(s) \in 0 .. n /\ s \in [1 .. Len(s) -> S]  BY <1>2
  <2> QED  BY <2>1 DEF BoundedSeq, SeqOf
<1> QED  BY <1>1, <1>2

\* The numbers up to one are finitely many, as many as it says.
LEMMA UptoCard ==
    ASSUME NEW m \in Nat
    PROVE  IsFiniteSet(1 .. m) /\ Cardinality(1 .. m) = m
BY FS_Interval

\* A list without two entries of one id is not longer than there are ids.
LEMMA UniqueFits ==
    ASSUME NEW s \in Seq(Entry), Unique(s)
    PROVE  s \in BoundedSeq(Entry, MaxId)
<1> DEFINE D == 1 .. Len(s)
           f == [i \in D |-> s[i].id]
<1>1. Len(s) \in Nat /\ DOMAIN s = D /\ \A i \in D : s[i] \in Entry  OBVIOUS
<1>2. \A i \in D : s[i].id \in Id  BY <1>1 DEF Entry
<1>a. Len(s) \in Nat  OBVIOUS
<1>3. IsFiniteSet(D) /\ Cardinality(D) = Len(s)  BY <1>a, UptoCard
<1> HIDE DEF D
<1>4. f \in Injection(D, Id)  BY <1>1, <1>2 DEF Unique, Injection, IsInjective
<1>5. Cardinality(D) <= Cardinality(Id)
  <2> HIDE DEF f
  <2> QED  BY <1>4, IdTypes, FS_Injection
<1> QED  BY <1>3, <1>5, IdTypes, Bounded

\* What the rows of a table are: its ids ascend, and each names its row.
LEMMA Rowed ==
    ASSUME NEW table
    PROVE  /\ Cardinality(Used(table)) \in Nat
           /\ DOMAIN RowsOf(table) = 1 .. Cardinality(Used(table))
           /\ \A i \in DOMAIN RowsOf(table) :
                 LET id == RowsOf(table)[i].id
                 IN  /\ id \in Used(table)
                     /\ RowsOf(table)[i] = [id |-> id, rule |-> table[id].rule,
                                            enabled |-> table[id].enabled]
           /\ \A i, j \in DOMAIN RowsOf(table) :
                 i < j => RowsOf(table)[i].id < RowsOf(table)[j].id
           /\ \A id \in Used(table) : \E i \in DOMAIN RowsOf(table) : RowsOf(table)[i].id = id
<1> DEFINE S == Used(table)
           n == Cardinality(S)
           ids == InOrder(S)
<1>1. S \in SUBSET Nat /\ IsFiniteSet(S)
  <2>1. S \in SUBSET Id  BY DEF Used
  <2> QED  BY <2>1, IdTypes, FS_Subset
<1>2. /\ n \in Nat /\ ids \in [1 .. n -> S]
      /\ \A i, j \in 1 .. n : i < j => ids[i] < ids[j]
      /\ \A r \in S : \E i \in 1 .. n : ids[i] = r
  BY <1>1, Ordered
<1>3. RowsOf(table) = [i \in DOMAIN ids |-> [id |-> ids[i], rule |-> table[ids[i]].rule,
                                             enabled |-> table[ids[i]].enabled]]
  BY DEF RowsOf
<1> HIDE DEF S, n, ids
<1>4. DOMAIN RowsOf(table) = 1 .. n /\ \A i \in 1 .. n : RowsOf(table)[i].id = ids[i] /\ ids[i] \in S
  BY <1>2, <1>3
<1>5. \A i \in 1 .. n :
         RowsOf(table)[i] = [id |-> ids[i], rule |-> table[ids[i]].rule,
                             enabled |-> table[ids[i]].enabled]
  BY <1>2, <1>3
<1>6. \A i \in 1 .. n :
         /\ RowsOf(table)[i].id \in S
         /\ RowsOf(table)[i] = [id |-> RowsOf(table)[i].id,
                               rule |-> table[RowsOf(table)[i].id].rule,
                               enabled |-> table[RowsOf(table)[i].id].enabled]
  BY <1>4, <1>5
<1>7. \A i, j \in 1 .. n : i < j => RowsOf(table)[i].id < RowsOf(table)[j].id
  BY <1>2, <1>4
<1>8. \A id \in S : \E i \in 1 .. n : RowsOf(table)[i].id = id
  BY <1>2, <1>4
<1>9. n \in Nat /\ DOMAIN RowsOf(table) = 1 .. n  BY <1>2, <1>4
<1> QED  BY <1>6, <1>7, <1>8, <1>9 DEF S, n

\* The rows of a table in order, n of them.
IsRows(s, table, n) ==
    /\ n \in Nat /\ s = [i \in 1 .. n |-> s[i]]
    /\ \A i \in 1 .. n :
          /\ s[i].id \in Used(table)
          /\ s[i] = [id |-> s[i].id, rule |-> table[s[i].id].rule,
                     enabled |-> table[s[i].id].enabled]
    /\ \A i, j \in 1 .. n : i < j => s[i].id < s[j].id
    /\ \A id \in Used(table) : \E i \in 1 .. n : s[i].id = id

\* Nothing else is RowsOf.
LEMMA OnlyRows ==
    ASSUME NEW table, NEW s, NEW n, IsRows(s, table, n)
    PROVE  s = RowsOf(table)
<1> DEFINE S == Used(table)
           ids == [i \in 1 .. n |-> s[i].id]
<1>0. /\ n \in Nat /\ s = [i \in 1 .. n |-> s[i]]
      /\ \A i \in 1 .. n :
            /\ s[i].id \in S
            /\ s[i] = [id |-> s[i].id, rule |-> table[s[i].id].rule,
                       enabled |-> table[s[i].id].enabled]
      /\ \A i, j \in 1 .. n : i < j => s[i].id < s[j].id
      /\ \A id \in S : \E i \in 1 .. n : s[i].id = id
  BY DEF IsRows
<1>1. S \in SUBSET Nat
  <2>1. S \in SUBSET Id  BY DEF Used
  <2> QED  BY <2>1, IdTypes
<1>2. /\ ids \in [1 .. n -> S] /\ \A i \in 1 .. n : ids[i] = s[i].id
      /\ \A i, j \in 1 .. n : i < j => ids[i] < ids[j]
      /\ \A r \in S : \E i \in 1 .. n : ids[i] = r
  BY <1>0
<1> HIDE DEF S, ids
<1>a. n \in Nat  BY <1>0
<1>3. ids = InOrder(S)  BY <1>a, <1>1, <1>2, OneOrder
<1>4. RowsOf(table) = [i \in DOMAIN ids |-> [id |-> ids[i], rule |-> table[ids[i]].rule,
                                             enabled |-> table[ids[i]].enabled]]
  BY <1>3 DEF RowsOf, S
<1>5. RowsOf(table) = [i \in 1 .. n |-> [id |-> ids[i], rule |-> table[ids[i]].rule,
                                         enabled |-> table[ids[i]].enabled]]
  BY <1>2, <1>4
<1>6. \A i \in 1 .. n : s[i] = [id |-> ids[i], rule |-> table[ids[i]].rule,
                                enabled |-> table[ids[i]].enabled]
  BY <1>0, <1>2
<1> QED  BY <1>0, <1>5, <1>6

\* The rows of a table are a list without two entries of one id.
LEMMA RowsType ==
    ASSUME NEW table \in [Id -> Row \cup {NoRow}]
    PROVE  /\ RowsOf(table) \in BoundedSeq(Entry, MaxId)
           /\ Unique(RowsOf(table))
           /\ Ids(RowsOf(table)) = Used(table)
<1> DEFINE s == RowsOf(table)
           n == Cardinality(Used(table))
<1>1. /\ n \in Nat /\ DOMAIN s = 1 .. n
      /\ \A i \in 1 .. n : /\ s[i].id \in Used(table)
                           /\ s[i] = [id |-> s[i].id, rule |-> table[s[i].id].rule,
                                      enabled |-> table[s[i].id].enabled]
      /\ \A i, j \in 1 .. n : i < j => s[i].id < s[j].id
      /\ \A id \in Used(table) : \E i \in 1 .. n : s[i].id = id
  BY Rowed
<1>2. s = [i \in DOMAIN s |-> s[i]]  BY DEF RowsOf
<1> HIDE DEF s, n
<1>3. \A id \in Used(table) : id \in Id /\ table[id] \in Row  BY DEF Used
<1>4. \A i \in 1 .. n : s[i] \in Entry
  <2> SUFFICES ASSUME NEW i \in 1 .. n PROVE s[i] \in Entry  OBVIOUS
  <2>1. s[i].id \in Id /\ table[s[i].id] \in Row  BY <1>1, <1>3
  <2>2. s[i] = [id |-> s[i].id, rule |-> table[s[i].id].rule, enabled |-> table[s[i].id].enabled]
    BY <1>1
  <2>3. table[s[i].id].rule \in Rule /\ table[s[i].id].enabled \in BOOLEAN  BY <2>1 DEF Row
  <2> QED  BY <2>1, <2>2, <2>3 DEF Entry
<1>5. s \in [1 .. n -> Entry]  BY <1>1, <1>2, <1>4
<1>6. s \in Seq(Entry)  BY <1>1, <1>5
<1>7. Unique(s)
  <2> SUFFICES ASSUME NEW i \in 1 .. n, NEW j \in 1 .. n, s[i].id = s[j].id PROVE i = j
    BY <1>1 DEF Unique
  <2>1. s[i].id \in Nat /\ s[j].id \in Nat  BY <1>1, <1>3, IdTypes
  <2>2. i \in Nat /\ j \in Nat  BY <1>1
  <2>3. ~(i < j) /\ ~(j < i)  BY <1>1, <2>1
  <2> QED  BY <2>2, <2>3
<1>8. Ids(s) = Used(table)  BY <1>1 DEF Ids
<1> QED  BY <1>6, <1>7, <1>8, UniqueFits DEF s

\* What is picked from a list.
LEMMA PickedIs ==
    ASSUME NEW S, NEW s \in Seq(S), NEW P \in SUBSET DOMAIN s
    PROVE  /\ Cardinality(P) \in Nat /\ Cardinality(P) <= Len(s)
           /\ InOrder(P) \in [1 .. Cardinality(P) -> P]
           /\ \A i, j \in 1 .. Cardinality(P) : i < j => InOrder(P)[i] < InOrder(P)[j]
           /\ \A p \in P : \E i \in 1 .. Cardinality(P) : InOrder(P)[i] = p
           /\ Picked(s, P) \in Seq(S) /\ DOMAIN Picked(s, P) = 1 .. Cardinality(P)
           /\ \A i \in 1 .. Cardinality(P) : Picked(s, P)[i] = s[InOrder(P)[i]]
<1> DEFINE n == Cardinality(P)
           kept == InOrder(P)
           D == 1 .. Len(s)
<1>1. Len(s) \in Nat /\ DOMAIN s = D /\ D \in SUBSET Nat  OBVIOUS
<1>a. Len(s) \in Nat  OBVIOUS
<1>2. IsFiniteSet(D) /\ Cardinality(D) = Len(s)  BY <1>a, UptoCard
<1>3. P \in SUBSET D /\ P \in SUBSET Nat  BY <1>1
<1> HIDE DEF D
<1>4. IsFiniteSet(P) /\ n <= Len(s)  BY <1>2, <1>3, FS_Subset
<1>5. /\ n \in Nat /\ kept \in [1 .. n -> P]
      /\ \A i, j \in 1 .. n : i < j => kept[i] < kept[j]
      /\ \A p \in P : \E i \in 1 .. n : kept[i] = p
  BY <1>3, <1>4, Ordered
<1>6. Picked(s, P) = [i \in DOMAIN kept |-> s[kept[i]]]  BY DEF Picked
<1> HIDE DEF n, kept
<1>7. Picked(s, P) = [i \in 1 .. n |-> s[kept[i]]]  BY <1>5, <1>6
<1>8. \A i \in 1 .. n : s[kept[i]] \in S
  <2>1. \A p \in P : s[p] \in S  OBVIOUS
  <2> QED  BY <1>5, <2>1
<1>9. Picked(s, P) \in [1 .. n -> S]  BY <1>7, <1>8
<1>10. Picked(s, P) \in Seq(S)  BY <1>5, <1>9
<1> QED  BY <1>4, <1>5, <1>7, <1>10 DEF n, kept

\* The enabled rules of a list are no more than its entries.
LEMMA EnabledType ==
    ASSUME NEW s \in BoundedSeq(Entry, MaxId)
    PROVE  Enabled(s) \in BoundedSeq(Rule, MaxId)
<1> DEFINE P == {i \in DOMAIN s : s[i].enabled}
           on == Picked(s, P)
           n == Cardinality(P)
<1>1. s \in Seq(Entry) /\ Len(s) <= MaxId /\ Len(s) \in Nat  BY IdTypes, Bounded
<1>2. P \in SUBSET DOMAIN s  OBVIOUS
<1>3. Enabled(s) = [i \in DOMAIN on |-> on[i].rule]  BY DEF Enabled
<1> HIDE DEF P
<1>4. n \in Nat /\ n <= Len(s) /\ on \in Seq(Entry) /\ DOMAIN on = 1 .. n
  BY <1>1, <1>2, PickedIs
<1> HIDE DEF on, n
<1>a. \A i \in 1 .. n : on[i] \in Entry  BY <1>4
<1>5. \A i \in 1 .. n : on[i].rule \in Rule  BY <1>a DEF Entry
<1>6. Enabled(s) \in [1 .. n -> Rule]  BY <1>3, <1>4, <1>5
<1>7. Enabled(s) \in Seq(Rule) /\ Len(Enabled(s)) = n  BY <1>4, <1>6
<1> QED  BY <1>1, <1>4, <1>7, IdTypes, Bounded

-----------------------------------------------------------------------------
(***************************************************************************)
(* Types and ids: every step keeps them.                                   *)
(***************************************************************************)
\* What the kernel has is of its type.
KernelFits == KernelType(kernel)

\* The arrays of the kernel take what fits in.
LEMMA FittingType ==
    ASSUME NEW S, NEW s \in Seq(S)
    PROVE  Fitting(s) \in BoundedSeq(S, Slots)
<1> DEFINE n == IF Len(s) < Slots THEN Len(s) ELSE Slots
<1>1. Slots \in Nat /\ Len(s) \in Nat  BY BoundsAssumption
<1>2. n \in Nat /\ n <= Slots /\ n <= Len(s)  BY <1>1
<1>3. Fitting(s) = SubSeq(s, 1, n)  BY DEF Fitting
<1> HIDE DEF n
<1>4. SubSeq(s, 1, n) = [i \in 1 .. n |-> s[i]]  BY <1>1, <1>2
<1>5. \A i \in 1 .. n : s[i] \in S  BY <1>1, <1>2
<1>6. SubSeq(s, 1, n) \in [1 .. n -> S]  BY <1>4, <1>5
<1>7. SubSeq(s, 1, n) \in Seq(S) /\ Len(SubSeq(s, 1, n)) = n  BY <1>2, <1>6
<1> QED  BY <1>1, <1>2, <1>3, <1>7, Bounded

\* What is installed is made of the rules handed over.
LEMMA InstalledType ==
    ASSUME NEW rules \in BoundedSeq(Rule, MaxId)
    PROVE  KernelType(Installed(rules))
<1> DEFINE k == Installed(rules)
<1>1. rules \in Seq(Rule) /\ Len(rules) \in Nat /\ DOMAIN rules = 1 .. Len(rules)
  BY IdTypes, Bounded
<1>2. \A i \in DOMAIN rules : rules[i] \in Rule  BY <1>1
<1>3. CASE mode.kind = "qos"
  <2>1. k = Fitting(rules)  BY <1>3 DEF Installed
  <2>2. k \in BoundedSeq(Rule, Slots)  BY <1>1, <2>1, FittingType
  <2> QED  BY <1>3, <2>2 DEF KernelType
<1>4. CASE mode.kind = "zone"
  <2> DEFINE T == Rule \X {"there", "back"}
             z == ZoneSlots(rules)
             n == 2 * Len(rules)
  <2>1. k = Fitting(z)  BY <1>4 DEF Installed
  <2>2. ASSUME NEW i \in 1 .. n PROVE z[i] \in T
    <3>1. (i + 1) \div 2 \in DOMAIN rules  BY <1>1
    <3>2. z[i] = <<rules[(i + 1) \div 2], IF i % 2 = 1 THEN "there" ELSE "back">>
      BY DEF ZoneSlots
    <3> QED  BY <1>2, <3>1, <3>2
  <2>3. z = [i \in 1 .. n |-> z[i]]  BY DEF ZoneSlots
  <2>4. n \in Nat  BY <1>1
  <2> HIDE DEF T, z, n
  <2>5. z \in [1 .. n -> T]  BY <2>2, <2>3
  <2>6. z \in Seq(T)  BY <2>4, <2>5
  <2>7. k \in BoundedSeq(T, Slots)  BY <2>1, <2>6, FittingType
  <2> QED  BY <1>4, <2>7 DEF KernelType, T
<1>5. CASE mode.kind = "suricata"
  <2>1. k = ToSet(rules)  BY <1>5 DEF Installed
  <2>2. k \subseteq Rule  BY <1>2, <2>1 DEF ToSet
  <2> QED  BY <1>5, <2>2 DEF KernelType
<1>6. CASE mode.kind \notin {"qos", "zone", "suricata"}
  <2>1. k = ByKey(mode.kind, rules)  BY <1>6 DEF Installed
  <2>2. ASSUME NEW key \in {KeyOf(mode.kind, rules[i]) : i \in DOMAIN rules}
        PROVE  ByKey(mode.kind, rules)[key] \in Rule
    <3> DEFINE I == {i \in 1 .. Len(rules) : KeyOf(mode.kind, rules[i]) = key}
               last == SelectLastInSeq(rules, LAMBDA r : KeyOf(mode.kind, r) = key)
    <3>1. I # {} /\ I \subseteq DOMAIN rules  BY <1>1
    <3>2. last = Max(I)  BY <3>1 DEF SelectLastInSeq
    <3>3. I \in SUBSET Nat /\ IsFiniteSet(I)
      <4>1. IsFiniteSet(1 .. Len(rules)) /\ I \in SUBSET (1 .. Len(rules))  BY <1>1, UptoCard
      <4> QED  BY <4>1, <1>1, FS_Subset
    <3>4. \E x \in I : \A y \in I : x >= y
      <4> DEFINE n == Cardinality(I)
                 s == InOrder(I)
      <4> HIDE DEF I
      <4>1. /\ n \in Nat /\ s \in [1 .. n -> I]
            /\ \A i, j \in 1 .. n : i < j => s[i] < s[j]
            /\ \A r \in I : \E i \in 1 .. n : s[i] = r
        BY <3>3, Ordered
      <4> HIDE DEF n, s
      <4>2. n \in 1 .. n /\ s[n] \in I  BY <3>1, <4>1
      <4>3. ASSUME NEW y \in I PROVE s[n] >= y
        <5>1. PICK i \in 1 .. n : s[i] = y  BY <4>1
        <5>2. i < n \/ i = n  BY <4>1
        <5>3. y \in Nat /\ s[n] \in Nat  BY <3>3, <4>2
        <5>4. i < n => y < s[n]  BY <4>1, <4>2, <5>1
        <5> QED  BY <5>1, <5>2, <5>3, <5>4
      <4> QED  BY <4>2, <4>3
    <3>5. Max(I) \in I
      <4> HIDE DEF I
      <4> QED  BY <3>4 DEF Max
    <3>6. ByKey(mode.kind, rules)[key] = rules[last]  BY DEF ByKey
    <3> QED  BY <1>2, <3>1, <3>2, <3>5, <3>6
  <2>3. Range(k) \subseteq Rule  BY <2>1, <2>2 DEF Range, ByKey
  <2> QED  BY <1>6, <2>3 DEF KernelType
<1> QED  BY <1>3, <1>4, <1>5, <1>6

\* What a rewriting leaves that is cut short is made of them, too.
LEMMA CutShortType ==
    ASSUME NEW rules \in BoundedSeq(Rule, MaxId), NEW k \in CutShort(rules)
    PROVE  KernelType(k)
<1>1. rules \in Seq(Rule) /\ Len(rules) \in Nat /\ Len(rules) <= MaxId
      /\ \A i \in DOMAIN rules : rules[i] \in Rule
  BY IdTypes, Bounded
<1>2. CASE mode.kind \in {"qos", "zone"}
  <2>1. k = <<>>  BY <1>2 DEF CutShort
  <2>2. \A S : <<>> \in BoundedSeq(S, Slots)
    <3>1. Slots \in Nat /\ 0 <= Slots  BY BoundsAssumption
    <3>2. \A S : <<>> \in Seq(S) /\ Len(<<>>) = 0  OBVIOUS
    <3> QED  BY <3>1, <3>2, Bounded
  <2> QED  BY <1>2, <2>1, <2>2 DEF KernelType
<1>3. CASE mode.kind = "suricata"
  <2>1. k \subseteq ToSet(rules)  BY <1>3 DEF CutShort
  <2>2. k \subseteq Rule  BY <1>1, <2>1 DEF ToSet
  <2> QED  BY <1>3, <2>2 DEF KernelType
<1>4. CASE mode.kind \notin {"qos", "zone", "suricata"}
  <2>1. PICK n \in 0 .. Len(rules) - 1 : k = ByKey(mode.kind, SubSeq(rules, 1, n))
    BY <1>4 DEF CutShort
  <2> DEFINE first == SubSeq(rules, 1, n)
  <2>2. n \in Nat /\ n <= Len(rules) /\ n <= MaxId  BY <1>1, IdTypes
  <2>3. first \in Seq(Rule) /\ Len(first) = n
    <3>1. first = [i \in 1 .. n |-> rules[i]]  BY <1>1, <2>2
    <3>2. \A i \in 1 .. n : rules[i] \in Rule  BY <1>1, <2>2
    <3>3. first \in [1 .. n -> Rule]  BY <3>1, <3>2
    <3> HIDE DEF first
    <3> QED  BY <2>2, <3>3
  <2>4. first \in BoundedSeq(Rule, MaxId)  BY <2>2, <2>3, IdTypes, Bounded
  <2>5. k = Installed(first)  BY <1>4, <2>1 DEF Installed
  <2> QED  BY <2>4, <2>5, InstalledType
<1> QED  BY <1>2, <1>3, <1>4

\* What is handed over keeps the kernel's type.
LEMMA HandoverType ==
    ASSUME NEW rules \in BoundedSeq(Rule, MaxId), Handover(rules)
    PROVE  KernelType(kernel')
BY InstalledType, CutShortType DEF Handover

\* What the record of a call holds, by the point it is at.
LEMMA CallTypes ==
    ASSUME NEW c \in Calls
    PROVE  /\ c.pc \in {"idle", "sync", "add", "added", "change", "changed", "delete", "load",
                        "assign", "apply"}
           /\ c.pc = "idle" => c = Idle
           /\ c.pc = "add" => c.rule \in Rule
           /\ c.pc = "added" => c.id \in Id /\ c.rule \in Rule
           /\ c.pc \in {"change", "changed"} =>
                 c.id \in Id /\ c.field \in {"rule", "enabled"} /\ c.value \in Rule \cup BOOLEAN
           /\ c.pc = "delete" => c.todo \in SUBSET Id
           /\ c.pc = "load" => c.ids \in SUBSET Id
           /\ c.pc = "assign" => c.rows \in BoundedSeq(Entry, MaxId)
           /\ c.pc = "apply" => c.rules \in BoundedSeq(Rule, MaxId)
<1> DEFINE R == BoundedSeq(Entry, MaxId)
           Q == BoundedSeq(Rule, MaxId)
<1> HIDE DEF R, Q
<1> QED  BY DEF Calls, Idle, R, Q

\* One call moves.
LEMMA Moves ==
    ASSUME call \in [Task -> Calls], NEW t \in Task, NEW c \in Calls, Goto(t, c)
    PROVE  /\ call' \in [Task -> Calls] /\ call'[t] = c
           /\ \A u \in Task \ {t} : call'[u] = call[u]
BY DEF Goto

\* What a beginning does but for table, list and kernel.
LEMMA Begins ==
    ASSUME TInv, NEW t \in Task, NEW ids \in SUBSET Id, NEW tidy, NEW next,
           Begin(t, ids, tidy, next)
    PROVE  /\ call[t] = Idle /\ Goto(t, next)
           /\ disturbed' = disturbed \cup Overlapped(t, ids)
           /\ disturbed' \subseteq Id /\ calm' \in BOOLEAN
<1>1. disturbed \subseteq Id  BY DEF TInv, Types
<1>2. calm' = (calm /\ AllIdle /\ tidy)  BY DEF Begin
<1>3. calm' \in BOOLEAN
  <2>1. CASE calm /\ AllIdle /\ tidy  BY <1>2, <2>1
  <2>2. CASE ~(calm /\ AllIdle /\ tidy)  BY <1>2, <2>2
  <2> QED  BY <2>1, <2>2
<1> QED  BY <1>1, <1>3 DEF Begin, Overlapped

\* A step of one call keeps types and ids if what it leaves in the table and in the
\* list has been given out, and is not on its way to the list.
LEMMA TStep ==
    ASSUME TInv, NEW t \in Task, NEW c \in Calls, Goto(t, c), CallFits(c), UNCHANGED mode,
           db' \in [Id -> Row \cup {NoRow}], seq' \in 0 .. MaxId, list' \in Seq(Entry),
           KernelFits', disturbed' \subseteq Id, calm' \in BOOLEAN,
           seq <= seq', \A id \in Used(db') : id <= seq', ~mode.db => Used(db') = {},
           Unique(list'), \A id \in Ids(list') : id <= seq',
           \A u \in Task \ {t} : call[u].pc = "added" => call[u].id \notin Ids(list'),
           c.pc = "added" =>
               /\ c.id <= seq' /\ c.id \notin Ids(list')
               /\ \A u \in Task \ {t} : call[u].pc = "added" => call[u].id # c.id,
           c.pc = "assign" => Unique(c.rows) /\ \A id \in Ids(c.rows) : id <= seq'
    PROVE  TInv'
<1>1. /\ call \in [Task -> Calls] /\ mode \in Modes /\ seq \in Nat /\ seq' \in Nat
      /\ MaxId \in Nat
  BY IdTypes DEF TInv, Types
<1>2. /\ call' \in [Task -> Calls] /\ call'[t] = c
      /\ \A u \in Task \ {t} : call'[u] = call[u]
  BY <1>1, Moves
<1>3. list' \in BoundedSeq(Entry, MaxId)  BY UniqueFits
<1>4. Types'
  BY <1>1, <1>2, <1>3 DEF Types, KernelFits, KernelType
<1>5. ASSUME NEW u \in Task PROVE CallFits(call'[u])
  BY <1>2 DEF TInv
<1>6. \A u \in Task : CallFits(call[u])'
  BY <1>5 DEF CallFits
<1>7. Given(list)'
  <2>1. \A i \in DOMAIN list' : list'[i].id <= seq'  BY DEF Ids
  <2> QED  BY <2>1 DEF Given, Unique
<1>8. ASSUME NEW u \in Task, call'[u].pc = "added"
      PROVE  /\ call'[u].id <= seq' /\ call'[u].id \notin Ids(list')
             /\ \A v \in Task \ {u} : call'[v].pc = "added" => call'[v].id # call'[u].id
  <2>1. CASE u = t  BY <1>2, <1>8, <2>1
  <2>2. CASE u # t
    <3>1. call'[u] = call[u]  BY <1>2, <2>2
    <3>2. /\ call[u].id <= seq
          /\ \A v \in Task \ {u} : call[v].pc = "added" => call[v].id # call[u].id
      BY <1>8, <3>1 DEF TInv, IdsGiven
    <3>3. call[u].id \in Nat
      <4>1. call[u] \in Calls /\ call[u].pc = "added"  BY <1>1, <1>8, <3>1
      <4> QED  BY <4>1, CallTypes, IdTypes
    <3>4. call[u].id <= seq'  BY <1>1, <3>2, <3>3
    <3>5. call[u].id \notin Ids(list')  BY <1>8, <2>2, <3>1
    <3>6. ASSUME NEW v \in Task \ {u}, call'[v].pc = "added" PROVE call'[v].id # call[u].id
      <4>1. CASE v = t  BY <1>2, <1>8, <2>2, <3>1, <3>6, <4>1
      <4>2. CASE v # t  BY <1>2, <3>2, <3>6, <4>2
      <4> QED  BY <4>1, <4>2
    <3> QED  BY <3>1, <3>4, <3>5, <3>6
  <2> QED  BY <2>1, <2>2
<1>9. ASSUME NEW u \in Task, call'[u].pc = "assign"
      PROVE  Unique(call'[u].rows) /\ \A i \in DOMAIN call'[u].rows : call'[u].rows[i].id <= seq'
  <2>1. CASE u = t
    BY <1>2, <1>9, <2>1 DEF Ids
  <2>2. CASE u # t
    <3>1. call'[u] = call[u]  BY <1>2, <2>2
    <3> DEFINE rows == call[u].rows
    <3>2. Unique(rows) /\ \A i \in DOMAIN rows : rows[i].id <= seq
      BY <1>9, <3>1 DEF TInv, IdsGiven, Given
    <3>3. \A i \in DOMAIN rows : rows[i].id \in Nat
      <4>1. call[u] \in Calls /\ call[u].pc = "assign"  BY <1>1, <1>9, <3>1
      <4>2. rows \in Seq(Entry)  BY <4>1, CallTypes, IdTypes, Bounded
      <4> HIDE DEF rows
      <4>3. \A i \in DOMAIN rows : rows[i] \in Entry  BY <4>2
      <4> QED  BY <4>3, IdTypes DEF Entry
    <3> HIDE DEF rows
    <3>4. \A i \in DOMAIN rows : rows[i].id <= seq'  BY <1>1, <3>2, <3>3
    <3> QED  BY <3>1, <3>2, <3>4 DEF rows
  <2> QED  BY <2>1, <2>2
<1>10. IdsGiven'
  <2>1. InTable' = Used(db')  BY DEF InTable, Used
  <2>2. \A u \in Task : call'[u].pc = "assign" => Given(call[u].rows)'
    BY <1>9 DEF Given, Unique
  <2>3. \A id \in InTable' : id <= seq'  BY <2>1
  <2>4. ~mode'.db => InTable' = {}  BY <2>1
  <2>5. Ids(list)' = Ids(list')  BY DEF Ids
  <2> QED  BY <1>7, <1>8, <2>2, <2>3, <2>4, <2>5 DEF IdsGiven
<1> QED  BY <1>4, <1>6, <1>10 DEF TInv

\* What holds before such a step.
LEMMA Before ==
    ASSUME TInv
    PROVE  /\ mode \in Modes /\ db \in [Id -> Row \cup {NoRow}]
           /\ seq \in 0 .. MaxId /\ seq \in Nat /\ MaxId \in Nat
           /\ list \in Seq(Entry) /\ Unique(list) /\ \A id \in Ids(list) : id \in Id /\ id <= seq
           /\ \A i \in DOMAIN list : list[i] \in Entry /\ list[i].id \in Id
           /\ \A id \in Used(db) : id <= seq
           /\ ~mode.db => Used(db) = {}
           /\ KernelFits /\ disturbed \subseteq Id /\ calm \in BOOLEAN
           /\ call \in [Task -> Calls]
           /\ \A u \in Task : call[u].pc = "added" =>
                 /\ mode.kind = "suricata" /\ call[u].id \in Id
                 /\ call[u].id <= seq /\ call[u].id \notin Ids(list)
<1>1. /\ mode \in Modes /\ db \in [Id -> Row \cup {NoRow}]
      /\ seq \in 0 .. MaxId /\ MaxId \in Nat
      /\ list \in BoundedSeq(Entry, MaxId)
      /\ KernelFits /\ disturbed \subseteq Id /\ calm \in BOOLEAN
      /\ call \in [Task -> Calls]
  BY IdTypes DEF TInv, Types, KernelFits, KernelType
<1>2. seq \in Nat  BY <1>1
<1>3. list \in Seq(Entry)  BY <1>1, Bounded
<1>4. \A i \in DOMAIN list : list[i] \in Entry  BY <1>3
<1>5. \A i \in DOMAIN list : list[i].id \in Id  BY <1>4 DEF Entry
<1>6. Unique(list) /\ \A i \in DOMAIN list : list[i].id <= seq
  BY DEF TInv, IdsGiven, Given
<1>7. \A id \in Ids(list) : id \in Id /\ id <= seq  BY <1>5, <1>6 DEF Ids
<1>8. (\A id \in Used(db) : id <= seq) /\ (~mode.db => Used(db) = {})
  BY DEF TInv, IdsGiven, InTable
<1>9. \A u \in Task : call[u].pc = "added" =>
         call[u].id <= seq /\ call[u].id \notin Ids(list) /\ mode.kind = "suricata"
  BY DEF TInv, IdsGiven, CallFits
<1>10. \A u \in Task : call[u].pc = "added" => call[u].id \in Id
  BY <1>1, CallTypes
<1> QED  BY <1>1, <1>2, <1>3, <1>4, <1>5, <1>6, <1>7, <1>8, <1>9, <1>10

\* A step that gives no new id out.
LEMMA TFewer ==
    ASSUME TInv, NEW t \in Task, NEW c \in Calls, Goto(t, c), CallFits(c), c.pc # "added",
           c.pc = "assign" => Unique(c.rows) /\ \A id \in Ids(c.rows) : id <= seq,
           UNCHANGED <<mode, seq>>, KernelFits', disturbed' \subseteq Id, calm' \in BOOLEAN,
           db' \in [Id -> Row \cup {NoRow}], Used(db') \subseteq Used(db),
           list' \in Seq(Entry), Unique(list'), Ids(list') \subseteq Ids(list)
    PROVE  TInv'
<1>1. seq' \in 0 .. MaxId /\ seq <= seq'  BY Before
<1>2. (\A id \in Used(db') : id <= seq') /\ (~mode.db => Used(db') = {})
  <2>1. (\A id \in Used(db) : id <= seq) /\ (~mode.db => Used(db) = {})  BY Before
  <2> QED  BY <2>1
<1>3. \A id \in Ids(list') : id <= seq'
  <2>1. \A id \in Ids(list) : id <= seq  BY Before
  <2> QED  BY <2>1
<1>4. \A u \in Task \ {t} : call[u].pc = "added" => call[u].id \notin Ids(list')
  <2>1. \A u \in Task : call[u].pc = "added" => call[u].id \notin Ids(list)  BY Before
  <2> QED  BY <2>1
<1>5. c.pc = "assign" => Unique(c.rows) /\ \A id \in Ids(c.rows) : id <= seq'  OBVIOUS
<1> QED  BY <1>1, <1>2, <1>3, <1>4, <1>5, TStep

\* A step that leaves table and list alone.
LEMMA CallMoves ==
    ASSUME TInv, NEW t \in Task, NEW c \in Calls, Goto(t, c), CallFits(c),
           c.pc \notin {"added", "assign"}, UNCHANGED <<mode, db, seq, list>>,
           KernelFits', disturbed' \subseteq Id, calm' \in BOOLEAN
    PROVE  TInv'
<1>1. /\ db' \in [Id -> Row \cup {NoRow}] /\ list' \in Seq(Entry) /\ Unique(list')
      /\ Used(db') \subseteq Used(db) /\ Ids(list') \subseteq Ids(list)
  BY Before
<1>2. c.pc # "added" /\ c.pc # "assign"  OBVIOUS
<1> QED  BY <1>1, <1>2, TFewer

\* The records of a call that begins or goes on.
LEMMA CallIs ==
    /\ Idle \in Calls /\ Sync \in Calls
    /\ \A rule \in Rule : [pc |-> "add", rule |-> rule] \in Calls
    /\ \A rule \in Rule, id \in Id : [pc |-> "added", id |-> id, rule |-> rule] \in Calls
    /\ \A p \in {"change", "changed"}, id \in Id, f \in {"rule", "enabled"},
          v \in Rule \cup BOOLEAN :
             [pc |-> p, id |-> id, field |-> f, value |-> v] \in Calls
    /\ \A ids \in SUBSET Id : [pc |-> "delete", todo |-> ids] \in Calls
    /\ \A ids \in SUBSET Id : [pc |-> "load", ids |-> ids] \in Calls
    /\ \A rows \in BoundedSeq(Entry, MaxId) : [pc |-> "assign", rows |-> rows] \in Calls
    /\ \A rules \in BoundedSeq(Rule, MaxId) : [pc |-> "apply", rules |-> rules] \in Calls
<1> DEFINE R == BoundedSeq(Entry, MaxId)
           Q == BoundedSeq(Rule, MaxId)
<1> HIDE DEF R, Q
<1> QED  BY DEF Calls, Idle, Sync, R, Q

\* A call that is not idle holds just the fields of the point it is at.
LEMMA CallHolds ==
    ASSUME NEW c \in Calls
    PROVE  /\ c.pc = "delete" =>
                 \A ids \in SUBSET Id :
                    /\ [c EXCEPT !.todo = ids] \in Calls
                    /\ [c EXCEPT !.todo = ids].pc = "delete" /\ [c EXCEPT !.todo = ids].todo = ids
           /\ c.pc = "change" =>
                 /\ [c EXCEPT !.pc = "changed"] \in Calls
                 /\ [c EXCEPT !.pc = "changed"] =
                        [pc |-> "changed", id |-> c.id, field |-> c.field, value |-> c.value]
<1> DEFINE R == BoundedSeq(Entry, MaxId)
           Q == BoundedSeq(Rule, MaxId)
<1> HIDE DEF R, Q
<1>1. CASE c.pc = "delete"
  <2>1. c \in [pc : {"delete"}, todo : SUBSET Id]  BY <1>1 DEF Calls, Idle, R, Q
  <2>2. \A ids \in SUBSET Id :
           /\ [c EXCEPT !.todo = ids] \in [pc : {"delete"}, todo : SUBSET Id]
           /\ [c EXCEPT !.todo = ids].pc = "delete" /\ [c EXCEPT !.todo = ids].todo = ids
    BY <2>1
  <2> QED  BY <1>1, <2>2 DEF Calls
<1>2. CASE c.pc = "change"
  <2> DEFINE T == [pc : {"change", "changed"}, id : Id, field : {"rule", "enabled"},
                   value : Rule \cup BOOLEAN]
             d == [c EXCEPT !.pc = "changed"]
  <2>1. c \in T  BY <1>2 DEF Calls, Idle, R, Q
  <2>2. d \in T /\ d = [pc |-> "changed", id |-> c.id, field |-> c.field, value |-> c.value]
    BY <2>1
  <2>3. d \in Calls  BY <2>2 DEF Calls
  <2> QED  BY <1>2, <2>2, <2>3
<1> QED  BY <1>1, <1>2

\* An entry with an id of its own is appended.
LEMMA Appended ==
    ASSUME NEW s \in Seq(Entry), Unique(s), NEW e \in Entry, e.id \notin Ids(s)
    PROVE  /\ Append(s, e) \in Seq(Entry) /\ Unique(Append(s, e))
           /\ Ids(Append(s, e)) = Ids(s) \cup {e.id}
<1> DEFINE q == Append(s, e)
           n == Len(s)
<1>1. /\ q \in Seq(Entry) /\ n \in Nat /\ DOMAIN s = 1 .. n /\ DOMAIN q = 1 .. n + 1
      /\ q[n + 1] = e /\ \A i \in 1 .. n : q[i] = s[i]
  OBVIOUS
<1> HIDE DEF q, n
<1>2. \A i \in DOMAIN q : i \in DOMAIN s \/ i = n + 1  BY <1>1
<1>3. (\A i \in DOMAIN s : i \in DOMAIN q) /\ n + 1 \in DOMAIN q  BY <1>1
<1>4. \A i \in DOMAIN s : q[i].id = s[i].id /\ s[i].id # e.id  BY <1>1 DEF Ids
<1>5. Unique(q)
  <2> SUFFICES ASSUME NEW i \in DOMAIN q, NEW j \in DOMAIN q, q[i].id = q[j].id PROVE i = j
    BY DEF Unique
  <2> QED  BY <1>1, <1>2, <1>4 DEF Unique
<1>6. Ids(q) = Ids(s) \cup {e.id}  BY <1>1, <1>2, <1>3, <1>4 DEF Ids
<1> QED  BY <1>1, <1>5, <1>6 DEF q

\* A new rule is given an id that none has.
LEMMA InsertTypes ==
    ASSUME TInv, UNCHANGED mode, mode.kind # "suricata", NEW t \in Task, NEW rule \in Rule,
           NEW id \in Id, id \notin Ids(list), Insert(t, rule, id)
    PROVE  TInv'
<1> DEFINE e == [id |-> id, rule |-> rule, enabled |-> TRUE]
<1>1. /\ db' = NewRow(id, rule) /\ list' = Append(list, e) /\ kernel' = kernel
      /\ seq' = IF id > seq THEN id ELSE seq
      /\ \E tidy : Begin(t, {id}, tidy, Sync)
  BY DEF Insert
<1>2. Goto(t, Sync) /\ disturbed' \subseteq Id /\ calm' \in BOOLEAN
  BY <1>1, Begins
<1>3. id \in Nat /\ 1 <= id /\ id <= MaxId  BY IdTypes
<1>4. seq' \in 0 .. MaxId /\ seq <= seq' /\ id <= seq'  BY <1>1, <1>3, Before
<1>5. e \in Entry  BY DEF Entry
<1>6. list' \in Seq(Entry) /\ Unique(list') /\ Ids(list') = Ids(list) \cup {id}
  <2> HIDE DEF e
  <2>1. e.id = id  BY DEF e
  <2> QED  BY <1>1, <1>5, <2>1, Before, Appended
<1>9. \A x \in Ids(list') : x <= seq'
  <2>1. \A x \in Ids(list) : x \in Nat /\ x <= seq  BY Before, IdTypes
  <2>2. seq \in Nat /\ seq' \in Nat  BY <1>4, Before
  <2> QED  BY <1>4, <1>6, <2>1, <2>2
<1>10. /\ db' \in [Id -> Row \cup {NoRow}] /\ Used(db') \subseteq Used(db) \cup {id}
       /\ ~mode.db => Used(db') = {}
  <2>1. [rule |-> rule, enabled |-> TRUE] \in Row  BY DEF Row
  <2> QED  BY <1>1, <2>1, Before DEF NewRow, Used
<1>11. \A x \in Used(db') : x <= seq'
  <2>1. \A x \in Used(db) : x \in Nat  BY IdTypes DEF Used
  <2> QED  BY <1>4, <1>10, <2>1, Before
<1>12. KernelFits'  BY <1>1, Before DEF KernelFits, KernelType
<1>13. Sync \in Calls /\ CallFits(Sync) /\ Sync.pc = "sync"  BY CallIs DEF Sync, CallFits
<1>14. \A u \in Task \ {t} : call[u].pc # "added"  BY Before
<1> QED
  BY <1>2, <1>4, <1>6, <1>9, <1>10, <1>11, <1>12, <1>13, <1>14, TStep

\* A rule is replaced under its id.
LEMMA ReplaceTypes ==
    ASSUME TInv, UNCHANGED mode, NEW t \in Task, NEW rule \in Rule, NEW id \in Id,
           Replace(t, id, rule)
    PROVE  TInv'
<1> DEFINE b == EnabledIn(list, id)
<1>1. /\ db' = IF id \in InTable THEN [db EXCEPT ![id].rule = rule] ELSE db
      /\ list' = Changed(list, id, rule, b) /\ seq' = seq /\ kernel' = kernel
      /\ \E tidy : Begin(t, {id}, tidy, Sync)
  BY DEF Replace
<1>2. Goto(t, Sync) /\ disturbed' \subseteq Id /\ calm' \in BOOLEAN
  BY <1>1, Begins
<1>3. b \in BOOLEAN  BY DEF EnabledIn
<1> HIDE DEF b
<1>4. [id |-> id, rule |-> rule, enabled |-> b] \in Entry  BY <1>3 DEF Entry
<1>5. list' = [i \in DOMAIN list |-> IF list[i].id = id THEN [id |-> id, rule |-> rule, enabled |-> b]
                                     ELSE list[i]]
  BY <1>1 DEF Changed
<1>6. /\ list' \in Seq(Entry) /\ DOMAIN list' = DOMAIN list
      /\ \A i \in DOMAIN list : list'[i].id = list[i].id
  <2> DEFINE e == [id |-> id, rule |-> rule, enabled |-> b]
  <2>1. list \in Seq(Entry)  BY Before
  <2>2. e \in Entry /\ e.id = id  BY <1>4
  <2>3. list' = [i \in DOMAIN list |-> IF list[i].id = id THEN e ELSE list[i]]  BY <1>5
  <2> HIDE DEF e
  <2>4. \A i \in DOMAIN list : list'[i] \in Entry /\ list'[i].id = list[i].id
    BY <2>1, <2>2, <2>3
  <2>5. DOMAIN list' = DOMAIN list  BY <2>3
  <2>6. list' = [i \in 1 .. Len(list) |-> list'[i]]  BY <2>1, <2>3
  <2>7. list' \in Seq(Entry)  BY <2>1, <2>4, <2>6
  <2> QED  BY <2>4, <2>5, <2>7
<1>7. Unique(list') /\ Ids(list') = Ids(list)
  BY <1>6, Before DEF Unique, Ids
<1>8. db' \in [Id -> Row \cup {NoRow}] /\ Used(db') \subseteq Used(db)
  <2>1. CASE id \in InTable
    <3>1. db[id] \in Row  BY <2>1, Before DEF InTable, Used
    <3>2. [db[id] EXCEPT !.rule = rule] \in Row  BY <3>1 DEF Row
    <3>3. db' = [db EXCEPT ![id] = [db[id] EXCEPT !.rule = rule]]  BY <1>1, <2>1
    <3> QED  BY <2>1, <3>2, <3>3, Before DEF InTable, Used
  <2> QED  BY <1>1, <2>1, Before
<1>9. KernelFits'  BY <1>1, Before DEF KernelFits, KernelType
<1>10. Sync \in Calls /\ CallFits(Sync) /\ Sync.pc = "sync"  BY CallIs DEF Sync, CallFits
<1> QED  BY <1>1, <1>2, <1>6, <1>7, <1>8, <1>9, <1>10, TFewer

\* A change is looked up and begun.
LEMMA ChangeTypes ==
    ASSUME TInv, UNCHANGED mode, NEW t \in Task, NEW id \in Id, NEW tidy,
           NEW field \in {"rule", "enabled"}, NEW value \in IF field = "rule" THEN Rule ELSE BOOLEAN,
           Change(t, id, tidy, field, value)
    PROVE  TInv'
<1> DEFINE c == [pc |-> IF mode.db THEN "change" ELSE "changed", id |-> id,
                 field |-> field, value |-> value]
<1>1. Begin(t, {id}, tidy, c) /\ UNCHANGED <<db, seq, list, kernel>>
  BY DEF Change
<1>2. c \in Calls /\ c.pc \in {"change", "changed"} /\ CallFits(c)
  <2>1. value \in Rule \cup BOOLEAN  OBVIOUS
  <2>2. c.pc = IF mode.db THEN "change" ELSE "changed"  OBVIOUS
  <2>3. c \in Calls  BY <2>1, <2>2, CallIs
  <2> QED  BY <2>2, <2>3 DEF CallFits
<1> HIDE DEF c
<1>3. Goto(t, c) /\ disturbed' \subseteq Id /\ calm' \in BOOLEAN
  BY <1>1, Begins
<1>4. KernelFits'  BY <1>1, Before DEF KernelFits, KernelType
<1> QED  BY <1>1, <1>2, <1>3, <1>4, CallMoves

\* A change reaches the table.
LEMMA ChangeTableTypes ==
    ASSUME TInv, UNCHANGED mode, NEW t \in Task, ChangeTable(t)
    PROVE  TInv'
<1> DEFINE c == call[t]
           d == [c EXCEPT !.pc = "changed"]
<1>1. /\ c.pc = "change" /\ Goto(t, d) /\ UNCHANGED <<seq, list, kernel, disturbed, calm>>
      /\ db' = IF c.id \in InTable THEN [db EXCEPT ![c.id][c.field] = c.value] ELSE db
  BY DEF ChangeTable
<1>2. c \in Calls /\ CallFits(c)  BY Before DEF TInv
<1> HIDE DEF c
<1>3. /\ c.id \in Id /\ c.field \in {"rule", "enabled"}
      /\ d \in Calls /\ d = [pc |-> "changed", id |-> c.id, field |-> c.field, value |-> c.value]
      /\ c.value \in IF c.field = "rule" THEN Rule ELSE BOOLEAN
  BY <1>1, <1>2, CallTypes, CallHolds DEF CallFits
<1> HIDE DEF d
<1>4. CallFits(d) /\ d.pc = "changed"  BY <1>3 DEF CallFits
<1>5. db' \in [Id -> Row \cup {NoRow}] /\ Used(db') \subseteq Used(db)
  <2>1. CASE c.id \in InTable
    <3>1. db[c.id] \in Row  BY <2>1, Before DEF InTable, Used
    <3>2. [db[c.id] EXCEPT ![c.field] = c.value] \in Row
      <4>1. CASE c.field = "rule"  BY <1>3, <3>1, <4>1 DEF Row
      <4>2. CASE c.field = "enabled"  BY <1>3, <3>1, <4>2 DEF Row
      <4> QED  BY <1>3, <4>1, <4>2
    <3>3. db' = [db EXCEPT ![c.id] = [db[c.id] EXCEPT ![c.field] = c.value]]  BY <1>1, <2>1
    <3> QED  BY <2>1, <3>2, <3>3, Before DEF InTable, Used
  <2> QED  BY <1>1, <2>1, Before
<1>6. KernelFits'  BY <1>1, Before DEF KernelFits, KernelType
<1>7. /\ list' \in Seq(Entry) /\ Unique(list') /\ disturbed' \subseteq Id /\ calm' \in BOOLEAN
      /\ Ids(list') \subseteq Ids(list)
  BY <1>1, Before
<1> QED  BY <1>1, <1>3, <1>4, <1>5, <1>6, <1>7, TFewer

\* A change reaches the list.
LEMMA ChangeListTypes ==
    ASSUME TInv, UNCHANGED mode, NEW t \in Task, ChangeList(t)
    PROVE  TInv'
<1> DEFINE c == call[t]
<1>1. /\ c.pc = "changed" /\ Goto(t, Sync) /\ UNCHANGED <<db, seq, kernel, disturbed, calm>>
      /\ list' = [i \in DOMAIN list |-> IF list[i].id = c.id
                                        THEN [list[i] EXCEPT ![c.field] = c.value] ELSE list[i]]
  BY DEF ChangeList
<1>2. c \in Calls /\ CallFits(c)  BY Before DEF TInv
<1> HIDE DEF c
<1>3. c.field \in {"rule", "enabled"} /\ c.value \in IF c.field = "rule" THEN Rule ELSE BOOLEAN
  BY <1>1, <1>2, CallTypes DEF CallFits
<1>4. ASSUME NEW e \in Entry
      PROVE  [e EXCEPT ![c.field] = c.value] \in Entry /\ [e EXCEPT ![c.field] = c.value].id = e.id
  <2>1. CASE c.field = "rule"  BY <1>3, <2>1 DEF Entry
  <2>2. CASE c.field = "enabled"  BY <1>3, <2>2 DEF Entry
  <2> QED  BY <1>3, <2>1, <2>2
<1>5. /\ list' \in Seq(Entry) /\ DOMAIN list' = DOMAIN list
      /\ \A i \in DOMAIN list : list'[i].id = list[i].id
  <2>1. list \in Seq(Entry) /\ \A i \in DOMAIN list : list[i] \in Entry  BY Before
  <2> QED  BY <1>1, <1>4, <2>1
<1>6. Unique(list') /\ Ids(list') = Ids(list)
  BY <1>5, Before DEF Unique, Ids
<1>7. KernelFits'  BY <1>1, Before DEF KernelFits, KernelType
<1>8. Sync \in Calls /\ CallFits(Sync) /\ Sync.pc = "sync"  BY CallIs DEF Sync, CallFits
<1>9. /\ db' \in [Id -> Row \cup {NoRow}] /\ disturbed' \subseteq Id /\ calm' \in BOOLEAN
      /\ Used(db') \subseteq Used(db)
  BY <1>1, Before
<1> QED  BY <1>1, <1>5, <1>6, <1>7, <1>8, <1>9, TFewer

\* What is picked from a list has its ids, each once.
LEMMA PickedIds ==
    ASSUME NEW s \in Seq(Entry), Unique(s), NEW P \in SUBSET DOMAIN s
    PROVE  /\ Picked(s, P) \in Seq(Entry) /\ Unique(Picked(s, P))
           /\ Ids(Picked(s, P)) = {s[p].id : p \in P}
<1> DEFINE n == Cardinality(P)
           kept == InOrder(P)
           q == Picked(s, P)
<1>1. /\ n \in Nat /\ kept \in [1 .. n -> P] /\ DOMAIN q = 1 .. n /\ q \in Seq(Entry)
      /\ \A i, j \in 1 .. n : i < j => kept[i] < kept[j]
      /\ \A p \in P : \E i \in 1 .. n : kept[i] = p
      /\ \A i \in 1 .. n : q[i] = s[kept[i]]
  BY PickedIs
<1>2. \A p \in P : p \in Nat
  <2>1. DOMAIN s = 1 .. Len(s) /\ Len(s) \in Nat  OBVIOUS
  <2> QED  BY <2>1
<1> HIDE DEF n, kept, q
<1>3. Unique(q)
  <2> SUFFICES ASSUME NEW i \in 1 .. n, NEW j \in 1 .. n, q[i].id = q[j].id PROVE i = j
    BY <1>1 DEF Unique
  <2>1. kept[i] \in P /\ kept[j] \in P /\ s[kept[i]].id = s[kept[j]].id  BY <1>1
  <2>2. kept[i] = kept[j]  BY <2>1 DEF Unique
  <2>3. kept[i] \in Nat /\ kept[j] \in Nat  BY <1>2, <2>1
  <2>4. i \in Nat /\ j \in Nat  BY <1>1
  <2>5. ~(i < j) /\ ~(j < i)  BY <1>1, <2>2, <2>3
  <2> QED  BY <2>4, <2>5
<1>4. Ids(q) = {s[p].id : p \in P}  BY <1>1 DEF Ids
<1> QED  BY <1>1, <1>3, <1>4 DEF q

\* Rules are taken out of the list.
LEMMA DeleteTypes ==
    ASSUME TInv, UNCHANGED mode, NEW t \in Task, NEW ids \in SUBSET Id, Delete(t, ids)
    PROVE  TInv'
<1> DEFINE c == IF mode.db THEN [pc |-> "delete", todo |-> ids] ELSE Sync
           P == {i \in DOMAIN list : list[i].id \notin ids}
<1>1. Begin(t, ids, TRUE, c) /\ list' = Picked(list, P) /\ UNCHANGED <<db, seq, kernel>>
  BY DEF Delete
<1>2. c \in Calls /\ CallFits(c) /\ c.pc \notin {"added", "assign"}
  BY CallIs DEF CallFits, Sync
<1> HIDE DEF c
<1>3. Goto(t, c) /\ disturbed' \subseteq Id /\ calm' \in BOOLEAN
  BY <1>1, Begins
<1>4. P \in SUBSET DOMAIN list  OBVIOUS
<1> HIDE DEF P
<1>5. /\ list' \in Seq(Entry) /\ Unique(list')
      /\ Ids(list') = {list[p].id : p \in P}
  BY <1>1, <1>4, Before, PickedIds
<1>6. Ids(list') \subseteq Ids(list)  BY <1>4, <1>5 DEF Ids
<1>7. KernelFits'  BY <1>1, Before DEF KernelFits, KernelType
<1>8. db' \in [Id -> Row \cup {NoRow}] /\ Used(db') \subseteq Used(db) /\ UNCHANGED <<mode, seq>>
  BY <1>1, Before
<1>9. c.pc # "added" /\ c.pc # "assign"  BY <1>2
<1> QED  BY <1>2, <1>3, <1>5, <1>6, <1>7, <1>8, <1>9, TFewer

\* A row is deleted.
LEMMA DeleteRowTypes ==
    ASSUME TInv, UNCHANGED mode, NEW t \in Task, NEW id \in Id, DeleteRow(t, id)
    PROVE  TInv'
<1> DEFINE c == call[t]
           d == IF c.todo = {id} THEN Sync ELSE [c EXCEPT !.todo = c.todo \ {id}]
<1>1. /\ c.pc = "delete" /\ Goto(t, d) /\ db' = [db EXCEPT ![id] = NoRow]
      /\ UNCHANGED <<seq, list, kernel, disturbed, calm>>
  BY DEF DeleteRow
<1>2. c \in Calls /\ CallFits(c)  BY Before DEF TInv
<1> HIDE DEF c
<1>3. c.todo \ {id} \in SUBSET Id  BY <1>1, <1>2, CallTypes
<1>4. [c EXCEPT !.todo = c.todo \ {id}] \in Calls /\ [c EXCEPT !.todo = c.todo \ {id}].pc = "delete"
  BY <1>1, <1>2, <1>3, CallHolds
<1>5. d \in Calls /\ d.pc \in {"delete", "sync"}
  BY <1>4, CallIs DEF Sync
<1>6. CallFits(d)  BY <1>1, <1>2, <1>5 DEF CallFits
<1> HIDE DEF d
<1>7. KernelFits'  BY <1>1, Before DEF KernelFits, KernelType
<1>8. /\ db' \in [Id -> Row \cup {NoRow}] /\ Used(db') \subseteq Used(db)
      /\ list' \in Seq(Entry) /\ Unique(list') /\ Ids(list') \subseteq Ids(list)
      /\ disturbed' \subseteq Id /\ calm' \in BOOLEAN /\ UNCHANGED <<mode, seq>>
  BY <1>1, Before DEF Used
<1>9. d.pc # "added" /\ d.pc # "assign"  BY <1>5
<1> QED  BY <1>1, <1>5, <1>6, <1>7, <1>8, <1>9, TFewer

\* A call is cut off.
LEMMA FailsTypes ==
    ASSUME TInv, UNCHANGED mode, NEW t \in Task, NEW ids \in SUBSET Id, Fails(t, ids)
    PROVE  TInv'
<1>1. Idle \in Calls /\ Idle.pc = "idle" /\ CallFits(Idle)  BY CallIs DEF Idle, CallFits
<1>2. /\ Goto(t, Idle) /\ UNCHANGED <<mode, db, seq, list>> /\ kernel' = kernel
      /\ disturbed' = disturbed \cup ids /\ calm' = FALSE
  BY DEF Fails
<1>3. disturbed' \subseteq Id /\ calm' \in BOOLEAN  BY <1>2, Before
<1>4. KernelFits'  BY <1>2, Before DEF KernelFits, KernelType
<1>5. Idle.pc \notin {"added", "assign"}  BY <1>1
<1> QED  BY <1>1, <1>2, <1>3, <1>4, <1>5, CallMoves

\* Two rows exchange their ids.
LEMMA SwapTypes ==
    ASSUME TInv, UNCHANGED mode, mode.kind # "suricata", NEW t \in Task, NEW a \in Id, NEW b \in Id,
           Swap(t, a, b)
    PROVE  TInv'
<1> DEFINE c == [pc |-> "load", ids |-> {a, b}]
<1>1. /\ mode.db /\ {a, b} \subseteq Used(db) /\ Begin(t, Id, TRUE, c)
      /\ db' = [db EXCEPT ![a] = db[b], ![b] = db[a]] /\ UNCHANGED <<seq, list, kernel>>
  BY DEF Swap, InTable
<1>2. c \in Calls /\ CallFits(c) /\ c.pc = "load"
  BY <1>1, CallIs DEF CallFits
<1> HIDE DEF c
<1>3. Goto(t, c) /\ disturbed' \subseteq Id /\ calm' \in BOOLEAN
  BY <1>1, Begins
<1>4. KernelFits'  BY <1>1, Before DEF KernelFits, KernelType
<1>5. db' \in [Id -> Row \cup {NoRow}] /\ Used(db') \subseteq Used(db)
  BY <1>1, Before DEF Used
<1>6. /\ list' \in Seq(Entry) /\ Unique(list') /\ Ids(list') \subseteq Ids(list)
      /\ UNCHANGED <<mode, seq>>
  BY <1>1, Before
<1>7. c.pc # "added" /\ c.pc # "assign"  BY <1>2
<1> QED  BY <1>2, <1>3, <1>4, <1>5, <1>6, <1>7, TFewer

\* Two rules of a list without a table exchange their ids or their places.
LEMMA SwapInMemoryTypes ==
    ASSUME TInv, UNCHANGED mode, NEW t \in Task, NEW a \in Id, NEW b \in Id, SwapInMemory(t, a, b)
    PROVE  TInv'
<1> DEFINE other == [id \in Id |-> IF id = a THEN b ELSE IF id = b THEN a ELSE id]
           named(id) == CHOOSE e \in ToSet(list) : e.id = id
<1>1. /\ {a, b} \subseteq Ids(list) /\ Begin(t, {a, b}, FALSE, Sync) /\ UNCHANGED <<db, seq, kernel>>
      /\ list' = [i \in DOMAIN list |-> IF mode.kind = "zone" THEN named(other[list[i].id])
                                        ELSE [list[i] EXCEPT !.id = other[list[i].id]]]
  BY DEF SwapInMemory
<1>2. /\ Goto(t, Sync) /\ disturbed' \subseteq Id /\ calm' \in BOOLEAN
  BY <1>1, Begins
<1>3. /\ \A id \in Id : other[id] \in Id /\ (id \in Ids(list) => other[id] \in Ids(list))
      /\ \A x, y \in Id : other[x] = other[y] => x = y
  BY <1>1
<1> HIDE DEF other
<1>4. \A id \in Ids(list) : named(id) \in Entry /\ named(id).id = id
  <2> SUFFICES ASSUME NEW id \in Ids(list) PROVE named(id) \in Entry /\ named(id).id = id
    OBVIOUS
  <2>1. \E e \in ToSet(list) : e.id = id  BY DEF Ids, ToSet
  <2>2. \A e \in ToSet(list) : e \in Entry  BY Before DEF ToSet
  <2>3. named(id) \in ToSet(list) /\ named(id).id = id  BY <2>1
  <2> QED  BY <2>2, <2>3
<1> HIDE DEF named
<1>5. ASSUME NEW i \in DOMAIN list
      PROVE  list'[i] \in Entry /\ list'[i].id = other[list[i].id]
  <2>1. list[i] \in Entry /\ list[i].id \in Id /\ list[i].id \in Ids(list)  BY Before DEF Ids
  <2>2. other[list[i].id] \in Id /\ other[list[i].id] \in Ids(list)  BY <1>3, <2>1
  <2>3. CASE mode.kind = "zone"
    <3>1. list'[i] = named(other[list[i].id])  BY <1>1, <2>3
    <3> QED  BY <1>4, <2>2, <3>1
  <2>4. CASE mode.kind # "zone"
    <3>1. list'[i] = [list[i] EXCEPT !.id = other[list[i].id]]  BY <1>1, <2>4
    <3> QED  BY <2>1, <2>2, <3>1 DEF Entry
  <2> QED  BY <2>3, <2>4
<1>6. list' \in Seq(Entry) /\ DOMAIN list' = DOMAIN list
  <2>1. list \in Seq(Entry) /\ DOMAIN list = 1 .. Len(list) /\ Len(list) \in Nat  BY Before
  <2>2. DOMAIN list' = DOMAIN list /\ list' = [i \in DOMAIN list |-> list'[i]]  BY <1>1
  <2>3. list' \in [1 .. Len(list) -> Entry]  BY <1>5, <2>1, <2>2
  <2> QED  BY <2>1, <2>2, <2>3
<1>7. Unique(list')
  <2> SUFFICES ASSUME NEW i \in DOMAIN list, NEW j \in DOMAIN list, list'[i].id = list'[j].id
               PROVE  i = j
    BY <1>6 DEF Unique
  <2>1. other[list[i].id] = other[list[j].id]  BY <1>5
  <2>2. list[i].id \in Id /\ list[j].id \in Id  BY Before
  <2>3. list[i].id = list[j].id  BY <1>3, <2>1, <2>2
  <2> QED  BY <2>3, Before DEF Unique
<1>8. Ids(list') \subseteq Ids(list)
  <2> SUFFICES ASSUME NEW i \in DOMAIN list PROVE list'[i].id \in Ids(list)
    BY <1>6 DEF Ids
  <2>1. list[i].id \in Ids(list) /\ list[i].id \in Id  BY Before DEF Ids
  <2> QED  BY <1>3, <1>5, <2>1
<1>9. KernelFits'  BY <1>1, Before DEF KernelFits, KernelType
<1>10. Sync \in Calls /\ CallFits(Sync) /\ Sync.pc = "sync"  BY CallIs DEF Sync, CallFits
<1>11. db' \in [Id -> Row \cup {NoRow}] /\ Used(db') \subseteq Used(db) /\ UNCHANGED <<mode, seq>>
  BY <1>1, Before
<1>12. Sync.pc # "added" /\ Sync.pc # "assign"  BY <1>10
<1> QED  BY <1>2, <1>6, <1>7, <1>8, <1>9, <1>10, <1>11, <1>12, TFewer

\* The table is read back.
LEMMA SwapLoadTypes ==
    ASSUME TInv, UNCHANGED mode, NEW t \in Task, SwapLoad(t)
    PROVE  TInv'
<1> DEFINE c == [pc |-> "assign", rows |-> Rows]
<1>1. call[t].pc = "load" /\ Goto(t, c) /\ UNCHANGED <<db, seq, list, kernel, disturbed, calm>>
  BY DEF SwapLoad
<1>2. Rows \in BoundedSeq(Entry, MaxId) /\ Unique(Rows) /\ Ids(Rows) = Used(db)
  BY Before, RowsType DEF Rows
<1>3. c \in Calls /\ c.pc = "assign" /\ c.rows = Rows  BY <1>2, CallIs
<1>4. CallFits(c)
  <2>1. CallFits(call[t])  BY DEF TInv
  <2> QED  BY <1>1, <1>3, <2>1 DEF CallFits
<1> HIDE DEF c
<1>5. Unique(c.rows) /\ \A id \in Ids(c.rows) : id <= seq
  BY <1>2, <1>3, Before
<1>6. KernelFits'  BY <1>1, Before DEF KernelFits, KernelType
<1>7. /\ db' \in [Id -> Row \cup {NoRow}] /\ Used(db') \subseteq Used(db)
      /\ list' \in Seq(Entry) /\ Unique(list') /\ Ids(list') \subseteq Ids(list)
      /\ disturbed' \subseteq Id /\ calm' \in BOOLEAN /\ UNCHANGED <<mode, seq>>
  BY <1>1, Before
<1>8. c.pc # "added"  BY <1>3
<1> QED  BY <1>1, <1>3, <1>4, <1>5, <1>6, <1>7, <1>8, TFewer

\* The list is replaced by what was read back.
LEMMA SwapAssignTypes ==
    ASSUME TInv, UNCHANGED mode, NEW t \in Task, SwapAssign(t)
    PROVE  TInv'
<1> DEFINE c == call[t]
<1>1. /\ c.pc = "assign" /\ Goto(t, Sync) /\ list' = c.rows
      /\ UNCHANGED <<db, seq, kernel, disturbed, calm>>
  BY DEF SwapAssign
<1>2. c \in Calls /\ CallFits(c)  BY Before DEF TInv
<1>3. Given(c.rows)  BY <1>1 DEF TInv, IdsGiven
<1> HIDE DEF c
<1>4. c.rows \in Seq(Entry)  BY <1>1, <1>2, CallTypes, IdTypes, Bounded
<1>5. list' \in Seq(Entry) /\ Unique(list') /\ \A id \in Ids(list') : id <= seq'
  BY <1>1, <1>3, <1>4 DEF Given, Ids
<1>6. mode.kind # "suricata"  BY <1>1, <1>2 DEF CallFits
<1>7. KernelFits'  BY <1>1, Before DEF KernelFits, KernelType
<1>8. Sync \in Calls /\ CallFits(Sync) /\ Sync.pc = "sync"  BY CallIs DEF Sync, CallFits
<1>9. /\ db' \in [Id -> Row \cup {NoRow}] /\ seq' \in 0 .. MaxId /\ seq <= seq'
      /\ (\A id \in Used(db') : id <= seq') /\ (~mode.db => Used(db') = {})
      /\ disturbed' \subseteq Id /\ calm' \in BOOLEAN
  BY <1>1, Before
<1>10. \A u \in Task \ {t} : call[u].pc # "added"  BY <1>6, Before
<1>11. Sync.pc # "added" /\ Sync.pc # "assign"  BY <1>8
<1> QED  BY <1>1, <1>5, <1>7, <1>8, <1>9, <1>10, <1>11, TStep

\* A Suricata rule is compared with the others.
LEMMA AddSuriRuleTypes ==
    ASSUME TInv, UNCHANGED mode, mode.kind = "suricata", NEW t \in Task, NEW rule \in Rule,
           AddSuriRule(t, rule)
    PROVE  TInv'
<1> DEFINE c == [pc |-> "add", rule |-> rule]
<1>1. Begin(t, {}, TRUE, c) /\ UNCHANGED <<db, seq, list, kernel>>
  BY DEF AddSuriRule
<1>2. c \in Calls /\ CallFits(c) /\ c.pc = "add"
  BY CallIs DEF CallFits
<1> HIDE DEF c
<1>3. Goto(t, c) /\ disturbed' \subseteq Id /\ calm' \in BOOLEAN
  BY <1>1, Begins
<1>4. KernelFits'  BY <1>1, Before DEF KernelFits, KernelType
<1>5. c.pc \notin {"added", "assign"}  BY <1>2
<1> QED  BY <1>1, <1>2, <1>3, <1>4, <1>5, CallMoves

\* It gets its row.
LEMMA AddSuriRowTypes ==
    ASSUME TInv, UNCHANGED mode, NEW t \in Task, AddSuriRow(t)
    PROVE  TInv'
<1> DEFINE id == seq + 1
           rule == call[t].rule
           c == [pc |-> "added", id |-> id, rule |-> rule]
<1>1. /\ call[t].pc = "add" /\ seq < MaxId /\ db' = NewRow(id, rule) /\ seq' = id
      /\ disturbed' = disturbed \cup Overlapped(t, {id}) /\ Goto(t, c)
      /\ UNCHANGED <<list, kernel, calm>>
  BY DEF AddSuriRow
<1>2. id \in Id /\ id \in 0 .. MaxId /\ seq <= id /\ ~(id <= seq) /\ id \in Nat
  BY <1>1, Before DEF Id
<1>3. rule \in Rule /\ mode.kind = "suricata"
  <2>1. call[t] \in Calls /\ CallFits(call[t])  BY Before DEF TInv
  <2> QED  BY <1>1, <2>1, CallTypes DEF CallFits
<1> HIDE DEF rule, id
<1>4. c \in Calls /\ CallFits(c) /\ c.pc = "added" /\ c.id = id
  BY <1>2, <1>3, CallIs DEF CallFits
<1> HIDE DEF c
<1>5. /\ db' \in [Id -> Row \cup {NoRow}] /\ Used(db') \subseteq Used(db) \cup {id}
      /\ ~mode.db => Used(db') = {}
  <2>1. [rule |-> rule, enabled |-> TRUE] \in Row  BY <1>3 DEF Row
  <2> QED  BY <1>1, <1>2, <2>1, Before DEF NewRow, Used
<1>6. \A x \in Used(db') : x <= seq'
  <2>1. \A x \in Used(db) : x \in Nat /\ x <= seq  BY Before, IdTypes DEF Used
  <2>2. \A x \in Used(db) : x <= id  BY <1>2, <2>1, Before
  <2> QED  BY <1>1, <1>2, <1>5, <2>2
<1>7. \A x \in Ids(list) : x # id /\ x <= id
  <2>1. \A x \in Ids(list) : x \in Nat /\ x <= seq  BY Before, IdTypes
  <2> QED  BY <1>2, <2>1, Before
<1>8. \A u \in Task : call[u].pc = "added" => call[u].id # id /\ call[u].id \notin Ids(list)
  BY <1>2, Before
<1>9. disturbed' \subseteq Id /\ calm' \in BOOLEAN
  BY <1>1, <1>2, Before DEF Overlapped
<1>10. KernelFits'  BY <1>1, Before DEF KernelFits, KernelType
<1>11. seq' \in 0 .. MaxId /\ seq <= seq' /\ id <= seq'  BY <1>1, <1>2
<1>12. list' \in Seq(Entry) /\ Unique(list') /\ Ids(list') = Ids(list)  BY <1>1, Before
<1>13. \A x \in Ids(list') : x <= seq'  BY <1>1, <1>7, <1>12
<1>14. c.id \notin Ids(list') /\ c.id <= seq'  BY <1>4, <1>7, <1>11, <1>12
<1>15. c.pc # "assign"  BY <1>4
<1> QED
  BY <1>1, <1>4, <1>5, <1>6, <1>8, <1>9, <1>10, <1>11, <1>12, <1>13, <1>14, <1>15, TStep

\* It reaches the list.
LEMMA AddSuriPushTypes ==
    ASSUME TInv, UNCHANGED mode, NEW t \in Task, AddSuriPush(t)
    PROVE  TInv'
<1> DEFINE c == call[t]
           e == [id |-> c.id, rule |-> c.rule, enabled |-> TRUE]
<1>1. /\ c.pc = "added" /\ Goto(t, Sync) /\ list' = Append(list, e)
      /\ UNCHANGED <<db, seq, kernel, disturbed, calm>>
  BY DEF AddSuriPush
<1>2. /\ c.id \in Id /\ c.rule \in Rule /\ c.id <= seq /\ c.id \notin Ids(list)
      /\ \A u \in Task \ {t} : call[u].pc = "added" =>
            call[u].id # c.id /\ call[u].id \notin Ids(list)
  <2>1. c \in Calls  BY Before
  <2>2. c.id \in Id /\ c.rule \in Rule  BY <1>1, <2>1, CallTypes
  <2>3. /\ c.id <= seq /\ c.id \notin Ids(list)
        /\ \A u \in Task \ {t} : call[u].pc = "added" => call[u].id # c.id
    BY <1>1 DEF TInv, IdsGiven
  <2> QED  BY <2>2, <2>3, Before
<1> HIDE DEF c
<1>3. e \in Entry /\ e.id = c.id  BY <1>2 DEF Entry
<1> HIDE DEF e
<1>4. list' \in Seq(Entry) /\ Unique(list') /\ Ids(list') = Ids(list) \cup {c.id}
  BY <1>1, <1>2, <1>3, Before, Appended
<1>5. \A x \in Ids(list') : x <= seq'
  BY <1>1, <1>2, <1>4, Before
<1>6. \A u \in Task \ {t} : call[u].pc = "added" => call[u].id \notin Ids(list')
  BY <1>2, <1>4
<1>7. KernelFits'  BY <1>1, Before DEF KernelFits, KernelType
<1>8. Sync \in Calls /\ CallFits(Sync) /\ Sync.pc = "sync"  BY CallIs DEF Sync, CallFits
<1>9. /\ db' \in [Id -> Row \cup {NoRow}] /\ seq' \in 0 .. MaxId /\ seq <= seq'
      /\ (\A id \in Used(db') : id <= seq') /\ (~mode.db => Used(db') = {})
      /\ disturbed' \subseteq Id /\ calm' \in BOOLEAN
  BY <1>1, Before
<1>10. Sync.pc # "added" /\ Sync.pc # "assign"  BY <1>8
<1> QED  BY <1>1, <1>4, <1>5, <1>6, <1>7, <1>8, <1>9, <1>10, TStep

\* The list is read for the kernel.
LEMMA SnapshotTypes ==
    ASSUME TInv, UNCHANGED mode, NEW t \in Task, Snapshot(t)
    PROVE  TInv'
<1> DEFINE c == [pc |-> "apply", rules |-> Enabled(list)]
<1>1. call[t].pc = "sync" /\ Goto(t, c) /\ UNCHANGED <<db, seq, list, kernel, disturbed, calm>>
  BY DEF Snapshot
<1>2. list \in BoundedSeq(Entry, MaxId)  BY DEF TInv, Types
<1>3. c \in Calls /\ CallFits(c) /\ c.pc = "apply"
  BY <1>2, EnabledType, CallIs DEF CallFits
<1> HIDE DEF c
<1>4. KernelFits' /\ disturbed' \subseteq Id /\ calm' \in BOOLEAN
  BY <1>1, Before DEF KernelFits, KernelType
<1>5. c.pc \notin {"added", "assign"}  BY <1>3
<1> QED  BY <1>1, <1>3, <1>4, <1>5, CallMoves

\* The kernel's table is rewritten, or the call is given up.
LEMMA ApplyTypes ==
    ASSUME TInv, UNCHANGED mode, NEW t \in Task, Apply(t) \/ Abandon(t)
    PROVE  TInv'
<1>1. /\ call[t].pc = "apply" /\ Goto(t, Idle)
      /\ Handover(call[t].rules) \/ kernel' = kernel
      /\ UNCHANGED <<db, seq, list, disturbed, calm>>
  BY DEF Apply, Abandon
<1>2. call[t].rules \in BoundedSeq(Rule, MaxId)
  BY <1>1, Before, CallTypes
<1>3. KernelFits'
  <2>1. KernelType(kernel')  BY <1>1, <1>2, HandoverType, Before DEF KernelFits
  <2> QED  BY <2>1 DEF KernelFits, KernelType
<1>4. Idle \in Calls /\ Idle.pc = "idle" /\ CallFits(Idle)  BY CallIs DEF Idle, CallFits
<1>5. disturbed' \subseteq Id /\ calm' \in BOOLEAN  BY <1>1, Before
<1>6. Idle.pc \notin {"added", "assign"}  BY <1>4
<1> QED  BY <1>1, <1>3, <1>4, <1>5, <1>6, CallMoves

\* The rules of the configuration have the types of rules, and there are none without
\* a database.
LEMMA SeedsType ==
    ASSUME mode \in Modes
    PROVE  /\ Seeds \in Seq(Rule) /\ Len(Seeds) \in Nat /\ Len(Seeds) <= MaxId
           /\ \A i \in DOMAIN Seeds : Seeds[i] \in Rule
           /\ ~mode.db => Seeds = <<>>
<1>1. CASE mode.db /\ mode.kind # "suricata"
  <2>1. Seeds = Seed /\ Seed \in Seq(RulesOf(mode)) /\ Len(Seed) <= MaxId
    BY <1>1, BoundsAssumption DEF Seeds
  <2>2. RulesOf(mode) \subseteq Rule  BY DEF Rule
  <2>3. Seed \in Seq(Rule) /\ Len(Seed) \in Nat  BY <2>1, <2>2
  <2> QED  BY <1>1, <2>1, <2>3
<1>2. CASE ~(mode.db /\ mode.kind # "suricata")
  BY <1>2, IdTypes DEF Seeds
<1> QED  BY <1>1, <1>2

\* A table with rules inserted into it.
LEMMA SeededType ==
    ASSUME NEW table \in [Id -> Row \cup {NoRow}], NEW last \in Nat, NEW seeds \in Seq(Rule),
           last + Len(seeds) <= MaxId, \A id \in Used(table) : id <= last
    PROVE  /\ SeededWith(table, last, seeds) \in [Id -> Row \cup {NoRow}]
           /\ \A id \in Used(SeededWith(table, last, seeds)) : id <= last + Len(seeds)
           /\ Used(table) \subseteq Used(SeededWith(table, last, seeds))
           /\ seeds = <<>> => SeededWith(table, last, seeds) = table
<1> DEFINE new == SeededWith(table, last, seeds)
           D == DOMAIN seeds
<1>1. /\ D = 1 .. Len(seeds) /\ Len(seeds) \in Nat /\ \A i \in D : seeds[i] \in Rule
  OBVIOUS
<1>2. new = [id \in Id |-> IF id - last \in D THEN [rule |-> seeds[id - last], enabled |-> TRUE]
                           ELSE table[id]]
  BY DEF SeededWith
<1>3. \A r \in Rule : [rule |-> r, enabled |-> TRUE] \in Row  BY DEF Row
<1> HIDE DEF new, D
<1>4. new \in [Id -> Row \cup {NoRow}]
  BY <1>1, <1>2, <1>3
<1>5. ASSUME NEW id \in Used(new) PROVE id <= last + Len(seeds)
  <2>1. id \in Nat /\ id \in Id  BY IdTypes DEF Used
  <2>2. CASE id - last \in D  BY <1>1, <2>1, <2>2
  <2>3. CASE id - last \notin D
    <3>1. new[id] = table[id]  BY <1>2, <2>1, <2>3
    <3>2. id \in Used(table)  BY <2>1, <3>1 DEF Used
    <3>3. id <= last  BY <3>2
    <3> QED  BY <1>1, <2>1, <3>3
  <2> QED  BY <2>2, <2>3
<1>6. ASSUME seeds = <<>> PROVE new = table
  <2>1. D = {}  BY <1>6 DEF D
  <2>2. new = [id \in Id |-> table[id]]  BY <1>2, <2>1
  <2> QED  BY <2>2
<1>7. Used(table) \subseteq Used(new)  BY <1>2 DEF Used, NoRow
<1> QED  BY <1>4, <1>5, <1>6, <1>7 DEF new

\* What the daemon starts from.
StartsFresh ==
    /\ mode \in Modes /\ db \in [Id -> Row \cup {NoRow}] /\ seq \in 0 .. MaxId
    /\ \A id \in InTable : id <= seq
    /\ ~mode.db => InTable = {}
    /\ list \in BoundedSeq(Entry, MaxId) /\ Unique(list) /\ Ids(list) \subseteq InTable
    /\ KernelType(kernel)
    /\ call = [t \in Task |-> Idle]
    /\ disturbed \subseteq Id /\ calm \in BOOLEAN

\* It has the types of the program, and ids that have been given out.
LEMMA StartTypes == StartsFresh => TInv
<1> SUFFICES ASSUME StartsFresh PROVE TInv
  OBVIOUS
<1>1. Idle \in Calls /\ Idle.pc = "idle"  BY CallIs DEF Idle
<1>2. \A t \in Task : call[t] = Idle  BY DEF StartsFresh
<1>3. call \in [Task -> Calls]  BY <1>1 DEF StartsFresh
<1>4. Types  BY <1>3 DEF StartsFresh, Types
<1>5. \A t \in Task : CallFits(call[t])  BY <1>1, <1>2 DEF CallFits
<1>6. \A i \in DOMAIN list : list[i].id <= seq  BY DEF StartsFresh, Ids
<1>7. IdsGiven  BY <1>1, <1>2, <1>6 DEF StartsFresh, IdsGiven, Given
<1> QED  BY <1>4, <1>5, <1>7 DEF TInv

\* The first start.
LEMMA InitTypes == Init => TInv
<1> SUFFICES ASSUME Init PROVE StartsFresh
  BY StartTypes
<1> DEFINE empty == [id \in Id |-> NoRow]
<1>1. mode \in Modes /\ db = SeededWith(empty, 0, Seeds) /\ seq = Len(Seeds)
  BY DEF Init
<1>2. /\ Seeds \in Seq(Rule) /\ Len(Seeds) \in Nat /\ Len(Seeds) <= MaxId
      /\ ~mode.db => Seeds = <<>>
  BY <1>1, SeedsType
<1>3. empty \in [Id -> Row \cup {NoRow}] /\ Used(empty) = {}  BY DEF Used
<1> HIDE DEF empty
<1>4. 0 \in Nat /\ 0 + Len(Seeds) <= MaxId /\ 0 + Len(Seeds) = Len(Seeds)
  BY <1>2, IdTypes
<1>5. \A id \in Used(empty) : id <= 0  BY <1>3
<1>6. /\ db \in [Id -> Row \cup {NoRow}] /\ \A id \in Used(db) : id <= 0 + Len(Seeds)
      /\ Seeds = <<>> => db = empty
  BY <1>1, <1>2, <1>3, <1>4, <1>5, SeededType
<1>7. seq \in 0 .. MaxId /\ \A id \in Used(db) : id <= seq  BY <1>1, <1>2, <1>4, <1>6, IdTypes
<1>8. ~mode.db => Used(db) = {}  BY <1>2, <1>3, <1>6
<1>9. list = Rows /\ kernel = Installed(Enabled(Rows)) /\ call = [t \in Task |-> Idle]
      /\ disturbed = {} /\ calm \in BOOLEAN
  BY DEF Init, OneRuleEach
<1>10. Rows \in BoundedSeq(Entry, MaxId) /\ Unique(Rows) /\ Ids(Rows) = Used(db)
  BY <1>6, RowsType DEF Rows
<1>11. KernelType(kernel)  BY <1>9, <1>10, EnabledType, InstalledType
<1> QED  BY <1>1, <1>6, <1>7, <1>8, <1>9, <1>10, <1>11 DEF StartsFresh, InTable

\* The next ones.
LEMMA RestartTypes ==
    ASSUME TInv, UNCHANGED mode, Restart
    PROVE  TInv'
<1> SUFFICES StartsFresh'
  BY StartTypes, PTL
<1>1. PICK read, seeded, reread \in IF mode.db /\ mode.fails THEN BOOLEAN ELSE {TRUE} :
         LET found == IF read THEN Rows ELSE <<>>
             seeds == IF found = <<>> /\ seeded THEN Seeds ELSE <<>>
             last  == IF mode.db THEN seq ELSE 0
         IN  /\ last + Len(seeds) <= MaxId
             /\ db' = SeededWith(db, last, seeds)
             /\ seq' = last + Len(seeds)
             /\ list' = IF found = <<>> /\ Seeds # <<>> /\ reread THEN RowsOf(db') ELSE found
             /\ Handover(Enabled(list'))
             /\ call' = [t \in Task |-> Idle]
             /\ disturbed' = IF list' = RowsOf(db') THEN {} ELSE Id
             /\ calm' = (list' = RowsOf(db') /\ OneRuleEach(list'))
  BY DEF Restart
<1> DEFINE found == IF read THEN Rows ELSE <<>>
           seeds == IF found = <<>> /\ seeded THEN Seeds ELSE <<>>
           last  == IF mode.db THEN seq ELSE 0
<1>2. /\ last + Len(seeds) <= MaxId /\ db' = SeededWith(db, last, seeds)
      /\ seq' = last + Len(seeds) /\ Handover(Enabled(list'))
      /\ list' = IF found = <<>> /\ Seeds # <<>> /\ reread THEN RowsOf(db') ELSE found
      /\ call' = [t \in Task |-> Idle]
      /\ disturbed' = IF list' = RowsOf(db') THEN {} ELSE Id
      /\ calm' = (list' = RowsOf(db') /\ OneRuleEach(list'))
  BY <1>1
<1>3. seeds \in Seq(Rule) /\ Len(seeds) \in Nat /\ (~mode.db => seeds = <<>>)
  <2>1. Seeds \in Seq(Rule) /\ Len(Seeds) \in Nat /\ (~mode.db => Seeds = <<>>)
    BY SeedsType, Before
  <2> QED  BY <2>1
<1>4. last \in Nat /\ \A id \in Used(db) : id <= last  BY Before
<1>5. /\ found \in BoundedSeq(Entry, MaxId) /\ Unique(found) /\ Ids(found) \subseteq Used(db)
  <2>1. Rows \in BoundedSeq(Entry, MaxId) /\ Unique(Rows) /\ Ids(Rows) = Used(db)
    BY Before, RowsType DEF Rows
  <2>2. <<>> \in Seq(Entry) /\ Unique(<<>>) /\ Ids(<<>>) = {}  BY DEF Unique, Ids
  <2>3. <<>> \in BoundedSeq(Entry, MaxId)  BY <2>2, UniqueFits
  <2> QED  BY <2>1, <2>2, <2>3
<1> HIDE DEF found, seeds, last
<1>6. db \in [Id -> Row \cup {NoRow}]  BY Before
<1>7. /\ db' \in [Id -> Row \cup {NoRow}] /\ \A id \in Used(db') : id <= seq'
      /\ Used(db) \subseteq Used(db') /\ (seeds = <<>> => db' = db)
  BY <1>2, <1>3, <1>4, <1>6, SeededType
<1>8. seq' \in 0 .. MaxId  BY <1>2, <1>3, <1>4, IdTypes
<1>9. ~mode.db => Used(db') = {}  BY <1>3, <1>7, Before
<1>10. RowsOf(db') \in BoundedSeq(Entry, MaxId) /\ Unique(RowsOf(db')) /\ Ids(RowsOf(db')) = Used(db')
  BY <1>7, RowsType
<1>11. list' \in BoundedSeq(Entry, MaxId) /\ Unique(list') /\ Ids(list') \subseteq Used(db')
  BY <1>2, <1>5, <1>7, <1>10
<1>12. disturbed' \subseteq Id  BY <1>2
<1>13. calm' \in BOOLEAN
  <2>1. CASE list' = RowsOf(db') /\ OneRuleEach(list')  BY <1>2, <2>1
  <2>2. CASE ~(list' = RowsOf(db') /\ OneRuleEach(list'))  BY <1>2, <2>2
  <2> QED  BY <2>1, <2>2
<1>14. InTable' = Used(db') /\ Unique(list)' /\ Ids(list)' = Ids(list')
  BY <1>11 DEF InTable, Used, Unique, Ids
<1>15. KernelType(kernel)'
  <2>1. Enabled(list') \in BoundedSeq(Rule, MaxId)  BY <1>11, EnabledType
  <2>2. KernelType(kernel')  BY <1>2, <2>1, HandoverType
  <2> QED  BY <2>2 DEF KernelType
<1> QED
  BY <1>2, <1>7, <1>8, <1>9, <1>11, <1>12, <1>13, <1>14, <1>15, Before DEF StartsFresh

\* The steps a call can take, whatever the list: what each list adds to a step of the
\* others is a comparison of keys.
LEMMA StepCases ==
    ASSUME TInv, NEW t \in Task, Call(t) \/ Step(t)
    PROVE  \/ /\ mode.kind # "suricata"
              /\ \E rule \in Rule, id \in Id :
                    id \notin Ids(list) /\ KeyFree(rule, 0) /\ Insert(t, rule, id)
           \/ \E rule \in Rule, id \in Id : Replace(t, id, rule)
           \/ \E id \in Id, value \in BOOLEAN : Change(t, id, TRUE, "enabled", value)
           \/ \E id \in Id, value \in Rule : Change(t, id, KeyFree(value, id), "rule", value)
           \/ ChangeTable(t) \/ ChangeList(t)
           \/ \E ids \in SUBSET Id : Delete(t, ids)
           \/ \E id \in Id : DeleteRow(t, id)
           \/ call[t].pc \in {"add", "change"} /\ Fails(t, {})
           \/ call[t].pc = "delete" /\ Fails(t, call[t].todo)
           \/ call[t].pc = "load" /\ Fails(t, call[t].ids)
           \/ mode.kind # "suricata" /\ \E a, b \in Id : Swap(t, a, b)
           \/ mode.kind # "suricata" /\ \E a, b \in Id : SwapInMemory(t, a, b)
           \/ SwapLoad(t) \/ SwapAssign(t) \/ Snapshot(t)
           \/ mode.kind = "suricata" /\ \E rule \in Rule : AddSuriRule(t, rule)
           \/ AddSuriRow(t) \/ AddSuriPush(t)
<1>1. CASE Step(t)
  BY <1>1 DEF Step, AddSuriFails, ChangeFails, DeleteFails, LoadFails
<1>2. CASE Call(t)
  <2>1. RulesOf(mode) \subseteq Rule  BY Before DEF Rule
  <2>2. CASE PatchOrDelete(t)  BY <2>2 DEF PatchOrDelete, Patch
  <2>3. CASE mode.kind # "suricata" /\ SwapAny(t)  BY <2>3 DEF SwapAny
  <2>4. CASE mode.kind # "suricata" /\ \E rule \in RulesOf(mode) : KeyFree(rule, 0) /\ AddAny(t, rule)
    <3>1. PICK rule \in Rule : KeyFree(rule, 0) /\ AddAny(t, rule)  BY <2>1, <2>4
    <3>2. \E id \in Id : id \notin Ids(list) /\ Insert(t, rule, id)
      <4>1. CASE AddNext(t, rule)
        <5>1. seq + 1 \in Id  BY <4>1, Before DEF AddNext, Id
        <5>2. seq + 1 \notin Ids(list)  BY Before
        <5> QED  BY <4>1, <5>1, <5>2 DEF AddNext
      <4>2. CASE \E id \in CustomIds : AddCustom(t, rule, id)
        BY <4>2, BoundsAssumption DEF AddCustom, Id
      <4> QED  BY <3>1, <4>1, <4>2 DEF AddAny
    <3> QED  BY <2>4, <3>1, <3>2
  <2>5. CASE \E rule \in RulesOf(mode), id \in Id : Replace(t, id, rule)
    BY <2>1, <2>5
  <2>6. CASE mode.kind = "suricata" /\ SuriCalls(t)
    <3>1. CASE \E rule \in RulesOf(mode) : AddSuriRule(t, rule)  BY <2>1, <2>6, <3>1
    <3>2. CASE \E rule \in RulesOf(mode), id \in Id : UpdateSuriRule(t, id, rule)
      BY <2>1, <3>2 DEF UpdateSuriRule
    <3> QED  BY <2>2, <2>6, <3>1, <3>2 DEF SuriCalls
  <2>7. CASE mode.kind # "suricata" /\ (QosCalls(t) \/ RateCalls(t) \/ ConnCalls(t) \/ NatCalls(t))
    BY <2>2, <2>3, <2>4, <2>5, <2>7
    DEF QosCalls, RateCalls, ConnCalls, NatCalls, AddQosClass, AddRateLimit, AddConnLimit,
        AddNatRule, UpdateQosClass, UpdateRateLimit, UpdateConnLimit, UpdateNatRule, AddAny
  <2>8. CASE mode.kind = "zone" /\ ZoneCalls(t)
    <3>1. \A rule : KeyFree(rule, 0)  BY <2>8 DEF KeyFree
    <3> QED
      BY <2>2, <2>3, <2>4, <2>5, <2>8, <3>1 DEF ZoneCalls, AddZonePolicy, UpdateZonePolicy
  <2> QED  BY <1>2, <2>6, <2>7, <2>8 DEF Call
<1> QED  BY <1>1, <1>2

\* Every step keeps types and ids.
LEMMA NextTypes == TInv /\ [Next]_vars => TInv'
<1> SUFFICES ASSUME TInv, [Next]_vars PROVE TInv'
  OBVIOUS
<1>1. CASE Restart /\ UNCHANGED mode
  BY <1>1, RestartTypes
<1>2. ASSUME NEW t \in Task, Call(t) \/ Step(t), UNCHANGED mode PROVE TInv'
  <2>1. /\ call[t].pc = "delete" => call[t].todo \in SUBSET Id
        /\ call[t].pc = "load" => call[t].ids \in SUBSET Id
        /\ {} \in SUBSET Id
    BY Before, CallTypes
  <2>2. ASSUME NEW id \in Id, NEW value \in BOOLEAN, Change(t, id, TRUE, "enabled", value)
        PROVE  TInv'
    <3>1. value \in IF "enabled" = "rule" THEN Rule ELSE BOOLEAN  OBVIOUS
    <3> QED  BY <1>2, <2>2, <3>1, ChangeTypes
  <2>3. ASSUME NEW id \in Id, NEW value \in Rule, Change(t, id, KeyFree(value, id), "rule", value)
        PROVE  TInv'
    <3>1. value \in IF "rule" = "rule" THEN Rule ELSE BOOLEAN  OBVIOUS
    <3> DEFINE tidy == KeyFree(value, id)
    <3>2. Change(t, id, tidy, "rule", value)  BY <2>3
    <3> HIDE DEF tidy
    <3> QED  BY <1>2, <3>1, <3>2, ChangeTypes
  <2> QED
    BY <1>2, <2>1, <2>2, <2>3, StepCases, InsertTypes, ReplaceTypes, ChangeTableTypes,
       ChangeListTypes, DeleteTypes, DeleteRowTypes, FailsTypes, SwapTypes, SwapInMemoryTypes,
       SwapLoadTypes, SwapAssignTypes, SnapshotTypes, AddSuriRuleTypes,
       AddSuriRowTypes, AddSuriPushTypes
<1>3. CASE UNCHANGED vars
  <2>1. UNCHANGED <<mode, db, seq, list, kernel, call, disturbed, calm>>  BY <1>3 DEF vars
  <2>2. Types'  BY <2>1 DEF TInv, Types, KernelType
  <2>3. \A t \in Task : CallFits(call[t])'  BY <2>1 DEF TInv, CallFits
  <2>4. Unique(list)' /\ InTable' = InTable /\ Ids(list)' = Ids(list)
    BY <2>1 DEF TInv, IdsGiven, Given, Unique, Ids, InTable, Used
  <2>5. Given(list)'  BY <2>1, <2>4 DEF TInv, IdsGiven, Given
  <2>6. \A t \in Task : Given(call[t].rows)' <=> Given(call[t].rows)
    BY <2>1 DEF Given, Unique
  <2>7. IdsGiven'  BY <2>1, <2>4, <2>5, <2>6 DEF TInv, IdsGiven
  <2> QED  BY <2>2, <2>3, <2>7 DEF TInv
<1>4. ASSUME NEW t \in Task, Apply(t) \/ Abandon(t), UNCHANGED mode PROVE TInv'
  BY <1>4, ApplyTypes
<1> QED  BY <1>1, <1>2, <1>3, <1>4 DEF Next

\* Whether the kernel's table has been rewritten is true or false.
LEMMA SyncedTypes == (synced \in BOOLEAN) /\ [Next]_vars => (synced \in BOOLEAN)'
BY DEF Next, vars, Restart, Handover, Apply, Abandon

\* The table, the list, the kernel's table and the calls keep their types (TypeOK), for
\* any contents of the rules, any number of ids and any number of overlapping calls.
THEOREM TypeCorrect == Spec => []TypeOK
<1>1. TInv /\ synced \in BOOLEAN => TypeOK  BY DEF TInv, Types, KernelType, TypeOK
<1>2. Init => synced \in BOOLEAN  BY DEF Init
<1> QED  BY <1>1, <1>2, InitTypes, NextTypes, SyncedTypes, PTL DEF Spec

\* No two rules of a list share an id (IdsUnique), however additions, deletions, swaps
\* and restarts overlap.
THEOREM UniqueCorrect == Spec => []IdsUnique
<1>1. TInv => IdsUnique  BY DEF TInv, IdsGiven, Given, Unique, IdsUnique
<1> QED  BY <1>1, InitTypes, NextTypes, PTL DEF Spec

-----------------------------------------------------------------------------
(***************************************************************************)
(* Table and list: every step keeps what is known of an id that nothing    *)
(* has disturbed.                                                          *)
(***************************************************************************)
\* What a call is in the middle of changing, by the point it is at.
LEMMA ChangingIs ==
    ASSUME NEW c
    PROVE  /\ c.pc \in {"added", "change", "changed"} => Changing(c) = {c.id}
           /\ c.pc = "delete" => Changing(c) = c.todo
           /\ c.pc \in {"load", "assign"} => Changing(c) = Id
           /\ c.pc \notin {"added", "change", "changed", "delete", "load", "assign"} =>
                 Changing(c) = {}
BY DEF Changing

\* No row that holds a rule is taken for none.
LEMMA RowsAreRows ==
    /\ NoRow \notin Row
    /\ \A rule \in Rule : \A flag : [rule |-> rule, enabled |-> flag] # NoRow
<1>1. "none" \notin Rule  BY BoundsAssumption DEF Rule
<1> QED  BY <1>1 DEF Row, NoRow

\* A step of call t that leaves list and table alone at id, or has id to itself.
LEMMA IdStep ==
    ASSUME call \in [Task -> Calls], NEW id, IdFits(id), NEW t \in Task, NEW d \in Calls,
           Goto(t, d),
           \/ /\ id \notin Changing(call[t]) /\ id \notin Changing(d)
              /\ EntriesAt(list', id) = EntriesAt(list, id) /\ db'[id] = db[id]
           \/ /\ \A u \in Task \ {t} : id \notin Changing(call[u])
              /\ id \in Changing(d) => PlaceFits(d, id, EntriesAt(list', id), db'[id])
              /\ id \notin Changing(d) => Agree(EntriesAt(list', id), db'[id])
    PROVE  IdFits(id)'
<1>1. /\ call' \in [Task -> Calls] /\ call'[t] = d
      /\ \A u \in Task \ {t} : call'[u] = call[u]
  BY Moves
<1>2. \A u, v \in Task : id \in Changing(call'[u]) /\ id \in Changing(call'[v]) => u = v
  BY <1>1 DEF IdFits
<1>3. \A u \in Task : id \in Changing(call'[u]) =>
         PlaceFits(call'[u], id, EntriesAt(list', id), db'[id])
  BY <1>1 DEF IdFits
<1>4. (\A u \in Task : id \notin Changing(call'[u])) => Agree(EntriesAt(list', id), db'[id])
  BY <1>1 DEF IdFits
<1> QED  BY <1>2, <1>3, <1>4 DEF IdFits, EntriesAt, Changing, PlaceFits, Agree

\* A call that begins on an id and does not disturb it has it to itself, and finds table
\* and list in agreement.
LEMMA BeginAlone ==
    ASSUME TInv, NEW t \in Task, NEW ids \in SUBSET Id, NEW tidy, NEW next, Begin(t, ids, tidy, next),
           NEW id \in Id, id \notin disturbed', id \notin disturbed => IdFits(id)
    PROVE  /\ id \notin Changing(call[t]) /\ IdFits(id)
           /\ id \in ids => /\ \A u \in Task \ {t} : id \notin Changing(call[u])
                            /\ Agree(EntriesAt(list, id), db[id])
<1>1. call[t] = Idle /\ disturbed' = disturbed \cup Overlapped(t, ids)  BY Begins
<1>2. Changing(Idle) = {}
  <2>1. Idle.pc = "idle"  BY DEF Idle
  <2> QED  BY <2>1, ChangingIs
<1>3. id \notin Changing(call[t]) /\ IdFits(id)  BY <1>1, <1>2
<1>4. ASSUME id \in ids
      PROVE  /\ \A u \in Task \ {t} : id \notin Changing(call[u])
             /\ Agree(EntriesAt(list, id), db[id])
  <2>1. \A u \in Task \ {t} : id \notin Changing(call[u])  BY <1>1, <1>4 DEF Overlapped
  <2>2. \A u \in Task : id \notin Changing(call[u])  BY <1>3, <2>1
  <2> QED  BY <1>3, <2>1, <2>2 DEF IdFits
<1> QED  BY <1>3, <1>4

\* What a list has of an id when an entry is appended.
LEMMA AtAppend ==
    ASSUME NEW s \in Seq(Entry), NEW e \in Entry, NEW id
    PROVE  EntriesAt(Append(s, e), id) =
               IF e.id = id THEN EntriesAt(s, id) \cup {e} ELSE EntriesAt(s, id)
<1> DEFINE q == Append(s, e)
           n == Len(s)
<1>1. /\ n \in Nat /\ DOMAIN s = 1 .. n /\ DOMAIN q = 1 .. n + 1
      /\ q[n + 1] = e /\ \A i \in 1 .. n : q[i] = s[i]
  OBVIOUS
<1> HIDE DEF q, n
<1>2. \A i \in DOMAIN q : i \in DOMAIN s \/ i = n + 1  BY <1>1
<1>3. (\A i \in DOMAIN s : i \in DOMAIN q) /\ n + 1 \in DOMAIN q  BY <1>1
<1>4. \A x : x \in EntriesAt(q, id) <=> x \in EntriesAt(s, id) \/ (x = e /\ e.id = id)
  BY <1>1, <1>2, <1>3 DEF EntriesAt
<1>5. EntriesAt(q, id) = IF e.id = id THEN EntriesAt(s, id) \cup {e} ELSE EntriesAt(s, id)
  BY <1>4
<1> QED  BY <1>5 DEF q

\* What is picked by the ids of the entries has the entries of the others.
LEMMA AtPicked ==
    ASSUME NEW s \in Seq(Entry), NEW ids, NEW id
    PROVE  EntriesAt(Picked(s, {i \in DOMAIN s : s[i].id \notin ids}), id) =
               IF id \in ids THEN {} ELSE EntriesAt(s, id)
<1> DEFINE P == {i \in DOMAIN s : s[i].id \notin ids}
           n == Cardinality(P)
           kept == InOrder(P)
           q == Picked(s, P)
<1>1. P \in SUBSET DOMAIN s  OBVIOUS
<1>2. /\ n \in Nat /\ kept \in [1 .. n -> P] /\ DOMAIN q = 1 .. n
      /\ \A p \in P : \E i \in 1 .. n : kept[i] = p
      /\ \A i \in 1 .. n : q[i] = s[kept[i]]
  <2> HIDE DEF P
  <2> QED  BY <1>1, PickedIs
<1> HIDE DEF n, kept, q
<1>3. \A x : x \in EntriesAt(q, id) <=> id \notin ids /\ x \in EntriesAt(s, id)
  <2>1. ASSUME NEW x \in EntriesAt(q, id) PROVE id \notin ids /\ x \in EntriesAt(s, id)
    <3>1. PICK i \in 1 .. n : x = q[i] /\ q[i].id = id  BY <1>2 DEF EntriesAt
    <3>2. kept[i] \in P /\ x = s[kept[i]]  BY <1>2, <3>1
    <3> QED  BY <3>1, <3>2 DEF EntriesAt
  <2>2. ASSUME NEW x \in EntriesAt(s, id), id \notin ids PROVE x \in EntriesAt(q, id)
    <3>1. PICK p \in DOMAIN s : x = s[p] /\ s[p].id = id  BY DEF EntriesAt
    <3>2. p \in P  BY <2>2, <3>1
    <3>3. PICK i \in 1 .. n : kept[i] = p  BY <1>2, <3>2
    <3> QED  BY <1>2, <3>1, <3>3 DEF EntriesAt
  <2> QED  BY <2>1, <2>2
<1>4. EntriesAt(q, id) = IF id \in ids THEN {} ELSE EntriesAt(s, id)  BY <1>3
<1> QED  BY <1>4 DEF q

\* The rows of a table agree with it.
LEMMA AtRows ==
    ASSUME NEW table, NEW id \in Id
    PROVE  Agree(EntriesAt(RowsOf(table), id), table[id])
<1> DEFINE s == RowsOf(table)
<1>1. /\ \A i \in DOMAIN s :
            /\ s[i].id \in Used(table)
            /\ s[i] = [id |-> s[i].id, rule |-> table[s[i].id].rule,
                       enabled |-> table[s[i].id].enabled]
      /\ \A x \in Used(table) : \E i \in DOMAIN s : s[i].id = x
  BY Rowed
<1> HIDE DEF s
<1>2. \A i \in DOMAIN s : s[i].id = id =>
         s[i].rule = table[id].rule /\ s[i].enabled = table[id].enabled
  BY <1>1
<1>3. \A e \in EntriesAt(s, id) : e.rule = table[id].rule /\ e.enabled = table[id].enabled
  BY <1>2 DEF EntriesAt
<1>4. table[id] # NoRow <=> EntriesAt(s, id) # {}
  BY <1>1 DEF EntriesAt, Used
<1> QED  BY <1>3, <1>4 DEF Agree, s

\* Ids and entries of a list.
LEMMA AtIds ==
    \A entries, id : id \in Ids(entries) <=> EntriesAt(entries, id) # {}
BY DEF Ids, EntriesAt

\* A call in the middle of changing an id that nothing has disturbed is the only one.
LEMMA Alone ==
    ASSUME NEW id, IdFits(id), NEW t \in Task, id \in Changing(call[t])
    PROVE  /\ \A u \in Task \ {t} : id \notin Changing(call[u])
           /\ PlaceFits(call[t], id, EntriesAt(list, id), db[id])
BY DEF IdFits

\* A step after which a call is not in the middle of changing anything, and that leaves
\* list and table alone at id.
LEMMA Elsewhere ==
    ASSUME call \in [Task -> Calls], NEW id, IdFits(id), NEW t \in Task, NEW d \in Calls,
           Goto(t, d), id \notin Changing(call[t]), id \notin Changing(d),
           EntriesAt(list', id) = EntriesAt(list, id), db'[id] = db[id]
    PROVE  IdFits(id)'
BY IdStep

\* The entries of an id are entries.
LEMMA AtType ==
    ASSUME TInv, NEW id
    PROVE  \A e \in EntriesAt(list, id) : e \in Entry /\ e.id = id /\ e.rule \in Rule
                                          /\ e.enabled \in BOOLEAN
<1>1. \A i \in DOMAIN list : list[i] \in Entry  BY Before
<1> QED  BY <1>1 DEF EntriesAt, Entry

\* A new rule comes into table and list.
LEMMA InsertFits ==
    ASSUME TInv, mode.db, NEW t \in Task, NEW rule \in Rule, NEW x \in Id, Insert(t, rule, x),
           NEW id \in Id, id \notin disturbed', id \notin disturbed => IdFits(id)
    PROVE  IdFits(id)'
<1> DEFINE e == [id |-> x, rule |-> rule, enabled |-> TRUE]
           row == [rule |-> rule, enabled |-> TRUE]
           tidy == \A other \in Ids(list) : other < x
<1>1. /\ Begin(t, {x}, tidy, Sync) /\ list' = Append(list, e)
      /\ db[x] = NoRow /\ db' = [db EXCEPT ![x] = row]
  BY DEF Insert, NewRow
<1> HIDE DEF tidy
<1>2. {x} \in SUBSET Id  OBVIOUS
<1>3. /\ id \notin Changing(call[t]) /\ IdFits(id)
      /\ id \in {x} => /\ \A u \in Task \ {t} : id \notin Changing(call[u])
                       /\ Agree(EntriesAt(list, id), db[id])
  BY <1>1, <1>2, BeginAlone
<1>4. /\ Sync \in Calls /\ id \notin Changing(Sync) /\ Goto(t, Sync)
      /\ call \in [Task -> Calls]
  BY <1>1, CallIs, ChangingIs, Before DEF Sync, Begin
<1>5. e \in Entry /\ e.id = x /\ e.rule = row.rule /\ e.enabled = row.enabled
  BY DEF Entry
<1>6. row # NoRow  BY RowsAreRows
<1>7. db'[x] = row /\ (id # x => db'[id] = db[id])  BY <1>1, Before
<1> HIDE DEF e, row
<1>8. EntriesAt(list', id) = IF e.id = id THEN EntriesAt(list, id) \cup {e} ELSE EntriesAt(list, id)
  BY <1>1, <1>5, AtAppend, Before
<1>9. CASE id # x  BY <1>3, <1>4, <1>5, <1>7, <1>8, <1>9, Elsewhere
<1>10. CASE id = x
  <2>1. EntriesAt(list, id) = {}  BY <1>1, <1>3, <1>10 DEF Agree
  <2>2. EntriesAt(list', id) = {e}  BY <1>5, <1>8, <1>10, <2>1
  <2>3. Agree(EntriesAt(list', id), db'[id])  BY <1>5, <1>6, <1>7, <1>10, <2>2 DEF Agree
  <2> QED  BY <1>3, <1>4, <1>10, <2>3, IdStep
<1> QED  BY <1>9, <1>10

\* A rule is replaced in table and list.
LEMMA ReplaceFits ==
    ASSUME TInv, mode.db, NEW t \in Task, NEW rule \in Rule, NEW x \in Id, Replace(t, x, rule),
           NEW id \in Id, id \notin disturbed', id \notin disturbed => IdFits(id)
    PROVE  IdFits(id)'
<1> DEFINE b == EnabledIn(list, x)
           e == [id |-> x, rule |-> rule, enabled |-> b]
           tidy == KeyFree(rule, x)
<1>1. /\ Begin(t, {x}, tidy, Sync)
      /\ db' = IF x \in InTable THEN [db EXCEPT ![x].rule = rule] ELSE db
      /\ list' = [i \in DOMAIN list |-> IF list[i].id = x THEN e ELSE list[i]]
  BY DEF Replace, Changed
<1> HIDE DEF tidy
<1>2. {x} \in SUBSET Id  OBVIOUS
<1>3. /\ id \notin Changing(call[t]) /\ IdFits(id)
      /\ id \in {x} => /\ \A u \in Task \ {t} : id \notin Changing(call[u])
                       /\ Agree(EntriesAt(list, id), db[id])
  BY <1>1, <1>2, BeginAlone
<1>4. /\ Sync \in Calls /\ id \notin Changing(Sync) /\ Goto(t, Sync)
      /\ call \in [Task -> Calls]
  BY <1>1, CallIs, ChangingIs, Before DEF Sync, Begin
<1>5. e.id = x /\ e.rule = rule /\ e.enabled = b  OBVIOUS
<1>6. id # x => db'[id] = db[id]  BY <1>1, Before
<1>b. b <=> \E y \in EntriesAt(list, x) : y.enabled  BY DEF EnabledIn, EntriesAt
<1> HIDE DEF e, b
<1>7. DOMAIN list' = DOMAIN list
      /\ \A i \in DOMAIN list : list'[i].id = list[i].id /\ (list[i].id # x => list'[i] = list[i])
                                /\ (list[i].id = x => list'[i] = e)
  BY <1>1, <1>5
<1>8. /\ id # x => EntriesAt(list', id) = EntriesAt(list, id)
      /\ EntriesAt(list', id) = {} <=> EntriesAt(list, id) = {}
  <2>1. \A i \in DOMAIN list : list'[i].id = list[i].id /\ (list[i].id # x => list'[i] = list[i])
    BY <1>7
  <2> QED  BY <1>7, <2>1 DEF EntriesAt
<1>9. CASE id # x  BY <1>3, <1>4, <1>6, <1>8, <1>9, Elsewhere
<1>10. CASE id = x
  <2>1. Agree(EntriesAt(list, x), db[x])  BY <1>3, <1>10
  <2>2. \A y \in EntriesAt(list', x) : y = e  BY <1>7 DEF EntriesAt
  <2>3. CASE db[x] = NoRow
    <3>1. x \notin InTable  BY <2>3 DEF InTable, Used
    <3>2. db'[x] = NoRow /\ EntriesAt(list', x) = {}
      BY <1>1, <1>8, <1>10, <2>1, <2>3, <3>1 DEF Agree
    <3> QED  BY <1>3, <1>4, <1>10, <3>2, IdStep DEF Agree
  <2>4. CASE db[x] # NoRow
    <3>1. x \in InTable /\ db[x] \in Row  BY <2>4, Before DEF InTable, Used
    <3>2. db'[x] = [rule |-> rule, enabled |-> db[x].enabled]
      BY <1>1, <3>1, Before DEF Row
    <3>3. db'[x] # NoRow /\ db'[x].rule = rule /\ db'[x].enabled = db[x].enabled
      BY <3>2, RowsAreRows
    <3>4. EntriesAt(list', x) # {}  BY <1>8, <1>10, <2>1, <2>4 DEF Agree
    <3>5. b = db[x].enabled
      <4>1. PICK y \in EntriesAt(list, x) : TRUE  BY <2>1, <2>4 DEF Agree
      <4>2. \A z \in EntriesAt(list, x) : z.enabled = db[x].enabled  BY <2>1 DEF Agree
      <4>3. db[x].enabled \in BOOLEAN  BY <3>1 DEF Row
      <4>4. b \in BOOLEAN  BY DEF b, EnabledIn
      <4>5. b <=> db[x].enabled  BY <1>b, <4>1, <4>2
      <4> QED  BY <4>3, <4>4, <4>5
    <3>6. Agree(EntriesAt(list', x), db'[x])  BY <1>5, <2>2, <3>3, <3>4, <3>5 DEF Agree
    <3> QED  BY <1>3, <1>4, <1>10, <3>6, IdStep
  <2> QED  BY <2>3, <2>4
<1> QED  BY <1>9, <1>10

\* A change begins.
LEMMA ChangeFits ==
    ASSUME TInv, mode.db, NEW t \in Task, NEW x \in Id, NEW tidy, NEW field \in {"rule", "enabled"},
           NEW value \in Rule \cup BOOLEAN, Change(t, x, tidy, field, value),
           NEW id \in Id, id \notin disturbed', id \notin disturbed => IdFits(id)
    PROVE  IdFits(id)'
<1> DEFINE d == [pc |-> "change", id |-> x, field |-> field, value |-> value]
<1>1. Begin(t, {x}, tidy, d) /\ db' = db /\ list' = list  BY DEF Change
<1>2. d \in Calls /\ d.pc = "change" /\ d.id = x  BY CallIs
<1> HIDE DEF d
<1>3. {x} \in SUBSET Id  OBVIOUS
<1>4. /\ id \notin Changing(call[t]) /\ IdFits(id)
      /\ id \in {x} => /\ \A u \in Task \ {t} : id \notin Changing(call[u])
                       /\ Agree(EntriesAt(list, id), db[id])
  BY <1>1, <1>3, BeginAlone
<1>5. Changing(d) = {x} /\ Goto(t, d) /\ call \in [Task -> Calls]
  BY <1>1, <1>2, ChangingIs, Before DEF Begin
<1>6. EntriesAt(list', id) = EntriesAt(list, id) /\ db'[id] = db[id]  BY <1>1
<1>7. CASE id # x  BY <1>2, <1>4, <1>5, <1>6, <1>7, Elsewhere
<1>8. CASE id = x
  <2>1. PlaceFits(d, id, EntriesAt(list', id), db'[id])
    BY <1>2, <1>4, <1>6, <1>8 DEF PlaceFits
  <2> QED  BY <1>2, <1>4, <1>5, <1>8, <2>1, IdStep
<1> QED  BY <1>7, <1>8

\* A change reaches the table.
LEMMA ChangeTableFits ==
    ASSUME TInv, NEW t \in Task, ChangeTable(t), NEW id \in Id, IdFits(id)
    PROVE  IdFits(id)'
<1> DEFINE c == call[t]
           d == [c EXCEPT !.pc = "changed"]
           f == c.field
           v == c.value
           E == EntriesAt(list, id)
<1>1. /\ c.pc = "change" /\ Goto(t, d) /\ list' = list
      /\ db' = IF c.id \in InTable THEN [db EXCEPT ![c.id][f] = v] ELSE db
  BY DEF ChangeTable
<1>2. c \in Calls /\ CallFits(c) /\ call \in [Task -> Calls]  BY Before DEF TInv
<1>3. /\ d \in Calls
      /\ d = [pc |-> "changed", id |-> c.id, field |-> f, value |-> v]
  BY <1>1, <1>2, CallHolds
<1>4. d.pc = "changed" /\ d.id = c.id /\ d.field = f /\ d.value = v  BY <1>3
<1>5. c.id \in Id /\ f \in {"rule", "enabled"} /\ v \in IF f = "rule" THEN Rule ELSE BOOLEAN
  BY <1>1, <1>2, CallTypes DEF CallFits
<1>6. Changing(c) = {c.id} /\ Changing(d) = {c.id}  BY <1>1, <1>4, ChangingIs
<1>e. E = EntriesAt(list, id) /\ EntriesAt(list', id) = E  BY <1>1
<1>a. \A e \in E : e \in Entry  BY AtType
<1>c. c = call[t]  OBVIOUS
<1> HIDE DEF c, d, f, v, E
<1>7. CASE id # c.id
  <2>1. db'[id] = db[id]  BY <1>1, <1>5, <1>7, Before
  <2> QED  BY <1>1, <1>2, <1>3, <1>6, <1>7, <1>c, <1>e, <2>1, Elsewhere
<1>8. CASE id = c.id
  <2>1. (\A u \in Task \ {t} : id \notin Changing(call[u])) /\ Agree(E, db[id])
    <3>1. id \in Changing(call[t])  BY <1>6, <1>8, <1>c
    <3>2. /\ \A u \in Task \ {t} : id \notin Changing(call[u])
          /\ PlaceFits(c, id, E, db[id])
      BY <3>1, <1>c, <1>e, Alone
    <3>3. Agree(E, db[id])  BY <3>2, <1>1 DEF PlaceFits
    <3> QED  BY <3>2, <3>3
  <2> DEFINE F == {[e EXCEPT ![f] = v] : e \in E}
  <2>2. Agree(F, db'[id])
    <3>1. CASE db[id] = NoRow
      <4>1. id \notin InTable  BY <3>1 DEF InTable, Used
      <4>2. db'[id] = NoRow /\ E = {}  BY <1>1, <1>8, <2>1, <3>1, <4>1 DEF Agree
      <4> QED  BY <4>2 DEF Agree
    <3>2. CASE db[id] # NoRow
      <4>1. id \in InTable /\ db[id] \in Row  BY <3>2, Before DEF InTable, Used
      <4>2. db'[id] = [db[id] EXCEPT ![f] = v]  BY <1>1, <1>8, <4>1, Before
      <4>3. E # {} /\ \A e \in E : e.rule = db[id].rule /\ e.enabled = db[id].enabled
        BY <2>1, <3>2 DEF Agree
      <4>4. F # {}  BY <4>3
      <4>5. CASE f = "rule"
        <5>1. db'[id] = [rule |-> v, enabled |-> db[id].enabled] /\ v \in Rule
          BY <1>5, <4>1, <4>2, <4>5 DEF Row
        <5>2. \A e \in E : [e EXCEPT ![f] = v].rule = v /\ [e EXCEPT ![f] = v].enabled = e.enabled
          BY <1>a, <4>5 DEF Entry
        <5>3. db'[id] # NoRow /\ db'[id].rule = v /\ db'[id].enabled = db[id].enabled
          BY <5>1, RowsAreRows
        <5>4. ASSUME NEW g \in F PROVE g.rule = v /\ g.enabled = db[id].enabled
          <6>1. PICK e \in E : g = [e EXCEPT ![f] = v]  OBVIOUS
          <6> HIDE DEF F
          <6>2. g.rule = v /\ g.enabled = e.enabled  BY <5>2, <6>1
          <6>3. e.rule = db[id].rule /\ e.enabled = db[id].enabled  BY <4>3
          <6> QED  BY <6>2, <6>3
        <5> HIDE DEF F
        <5> QED  BY <4>4, <5>3, <5>4 DEF Agree
      <4>6. CASE f = "enabled"
        <5>1. db'[id] = [rule |-> db[id].rule, enabled |-> v] /\ db[id].rule \in Rule
          BY <4>1, <4>2, <4>6 DEF Row
        <5>2. \A e \in E : [e EXCEPT ![f] = v].rule = e.rule /\ [e EXCEPT ![f] = v].enabled = v
          BY <1>a, <4>6 DEF Entry
        <5>3. db'[id] # NoRow /\ db'[id].rule = db[id].rule /\ db'[id].enabled = v
          BY <5>1, RowsAreRows
        <5>4. ASSUME NEW g \in F PROVE g.rule = db[id].rule /\ g.enabled = v
          <6>1. PICK e \in E : g = [e EXCEPT ![f] = v]  OBVIOUS
          <6> HIDE DEF F
          <6>2. g.rule = e.rule /\ g.enabled = v  BY <5>2, <6>1
          <6>3. e.rule = db[id].rule /\ e.enabled = db[id].enabled  BY <4>3
          <6> QED  BY <6>2, <6>3
        <5> HIDE DEF F
        <5> QED  BY <4>4, <5>3, <5>4 DEF Agree
      <4> QED  BY <1>5, <4>5, <4>6
    <3> QED  BY <3>1, <3>2
  <2>3. F = {[e EXCEPT ![d.field] = d.value] : e \in EntriesAt(list', id)}  BY <1>4, <1>e
  <2> HIDE DEF F
  <2>4. PlaceFits(d, id, EntriesAt(list', id), db'[id])  BY <1>4, <2>2, <2>3 DEF PlaceFits
  <2> QED  BY <1>1, <1>2, <1>3, <1>6, <1>8, <2>1, <2>4, IdStep
<1> QED  BY <1>7, <1>8

\* A change reaches the list.
LEMMA ChangeListFits ==
    ASSUME TInv, NEW t \in Task, ChangeList(t), NEW id \in Id, IdFits(id)
    PROVE  IdFits(id)'
<1> DEFINE c == call[t]
           f == c.field
           v == c.value
           E == EntriesAt(list, id)
<1>1. /\ c.pc = "changed" /\ Goto(t, Sync) /\ db' = db
      /\ list' = [i \in DOMAIN list |-> IF list[i].id = c.id THEN [list[i] EXCEPT ![f] = v]
                                        ELSE list[i]]
  BY DEF ChangeList
<1>2. c \in Calls /\ CallFits(c) /\ call \in [Task -> Calls]  BY Before DEF TInv
<1>5. c.id \in Id /\ f \in {"rule", "enabled"} /\ v \in IF f = "rule" THEN Rule ELSE BOOLEAN
  BY <1>1, <1>2, CallTypes DEF CallFits
<1>6. Sync \in Calls /\ Changing(c) = {c.id} /\ Changing(Sync) = {}
  BY <1>1, ChangingIs, CallIs DEF Sync
<1>e. E = EntriesAt(list, id) /\ c = call[t]  OBVIOUS
<1> HIDE DEF c, f, v, E
<1>3. \A i \in DOMAIN list : [list[i] EXCEPT ![f] = v].id = list[i].id
  <2>1. \A i \in DOMAIN list : list[i] \in Entry  BY Before
  <2>2. CASE f = "rule"  BY <2>1, <2>2 DEF Entry
  <2>3. CASE f = "enabled"  BY <2>1, <2>3 DEF Entry
  <2> QED  BY <1>5, <2>2, <2>3
<1>4. /\ DOMAIN list' = DOMAIN list
      /\ \A i \in DOMAIN list :
            /\ list'[i].id = list[i].id
            /\ list[i].id # c.id => list'[i] = list[i]
            /\ list[i].id = c.id => list'[i] = [list[i] EXCEPT ![f] = v]
  BY <1>1, <1>3
<1>7. CASE id # c.id
  <2>1. EntriesAt(list', id) = E  BY <1>4, <1>7, <1>e DEF EntriesAt
  <2>2. db'[id] = db[id]  BY <1>1
  <2> QED  BY <1>1, <1>2, <1>6, <1>7, <1>e, <2>1, <2>2, Elsewhere
<1>8. CASE id = c.id
  <2> DEFINE F == {[e EXCEPT ![f] = v] : e \in E}
             G == {[e EXCEPT ![c.field] = c.value] : e \in EntriesAt(list, id)}
  <2>1. F = G  BY <1>e DEF f, v
  <2>2. EntriesAt(list', id) = F
    <3>1. \A x \in EntriesAt(list', id) : x \in F  BY <1>4, <1>8, <1>e DEF EntriesAt
    <3>2. \A x \in F : x \in EntriesAt(list', id)  BY <1>4, <1>8, <1>e DEF EntriesAt
    <3> QED  BY <3>1, <3>2
  <2> HIDE DEF F
  <2>3. (\A u \in Task \ {t} : id \notin Changing(call[u])) /\ Agree(G, db[id])
    <3>1. id \in Changing(call[t])  BY <1>6, <1>8, <1>e
    <3>2. /\ \A u \in Task \ {t} : id \notin Changing(call[u])
          /\ PlaceFits(c, id, EntriesAt(list, id), db[id])
      BY <1>e, <3>1, Alone
    <3>3. Agree(G, db[id])  BY <1>1, <3>2 DEF PlaceFits
    <3> QED  BY <3>2, <3>3
  <2> HIDE DEF G
  <2>4. Agree(EntriesAt(list', id), db'[id])  BY <1>1, <2>1, <2>2, <2>3
  <2> QED  BY <1>1, <1>2, <1>6, <2>3, <2>4, IdStep
<1> QED  BY <1>7, <1>8

\* Rules are taken out of the list.
LEMMA DeleteFits ==
    ASSUME TInv, mode.db, NEW t \in Task, NEW ids \in SUBSET Id, Delete(t, ids),
           NEW id \in Id, id \notin disturbed', id \notin disturbed => IdFits(id)
    PROVE  IdFits(id)'
<1> DEFINE d == [pc |-> "delete", todo |-> ids]
           P == {i \in DOMAIN list : list[i].id \notin ids}
<1>1. Begin(t, ids, TRUE, d) /\ db' = db /\ list' = Picked(list, P)  BY DEF Delete
<1>2. d \in Calls /\ d.pc = "delete" /\ d.todo = ids  BY CallIs
<1> HIDE DEF d
<1>3. EntriesAt(list', id) = IF id \in ids THEN {} ELSE EntriesAt(list, id)
  BY <1>1, Before, AtPicked
<1> HIDE DEF P
<1>4. /\ id \notin Changing(call[t]) /\ IdFits(id)
      /\ id \in ids => \A u \in Task \ {t} : id \notin Changing(call[u])
  BY <1>1, BeginAlone
<1>5. Changing(d) = ids /\ Goto(t, d) /\ call \in [Task -> Calls]
  BY <1>1, <1>2, ChangingIs, Before DEF Begin
<1>6. CASE id \notin ids
  <2>1. EntriesAt(list', id) = EntriesAt(list, id) /\ db'[id] = db[id]  BY <1>1, <1>3, <1>6
  <2> QED  BY <1>2, <1>4, <1>5, <1>6, <2>1, Elsewhere
<1>7. CASE id \in ids
  <2>1. PlaceFits(d, id, EntriesAt(list', id), db'[id])  BY <1>2, <1>3, <1>7 DEF PlaceFits
  <2> QED  BY <1>2, <1>4, <1>5, <1>7, <2>1, IdStep
<1> QED  BY <1>6, <1>7

\* A row is deleted.
LEMMA DeleteRowFits ==
    ASSUME TInv, NEW t \in Task, NEW x \in Id, DeleteRow(t, x), NEW id \in Id, IdFits(id)
    PROVE  IdFits(id)'
<1> DEFINE c == call[t]
           d == IF c.todo = {x} THEN Sync ELSE [c EXCEPT !.todo = @ \ {x}]
<1>1. /\ c.pc = "delete" /\ x \in c.todo /\ Goto(t, d)
      /\ db' = [db EXCEPT ![x] = NoRow] /\ list' = list
  BY DEF DeleteRow
<1>2. c \in Calls /\ call \in [Task -> Calls]  BY Before
<1>3. c.todo \in SUBSET Id /\ Changing(c) = c.todo  BY <1>1, <1>2, CallTypes, ChangingIs
<1>4. d \in Calls /\ Changing(d) = c.todo \ {x} /\ (d.pc = "delete" \/ Changing(d) = {})
  <2>1. CASE c.todo = {x}
    <3>1. d = Sync /\ Sync \in Calls /\ Changing(Sync) = {}
      BY <2>1, CallIs, ChangingIs DEF Sync
    <3> QED  BY <2>1, <3>1
  <2>2. CASE c.todo # {x}
    <3> DEFINE ids == c.todo \ {x}
    <3>1. d = [c EXCEPT !.todo = ids] /\ ids \in SUBSET Id  BY <1>3, <2>2
    <3> HIDE DEF d, ids, c
    <3>2. d \in Calls /\ d.pc = "delete" /\ d.todo = ids  BY <1>1, <1>2, <3>1, CallHolds
    <3>3. Changing(d) = ids  BY <3>2, ChangingIs
    <3> QED  BY <3>2, <3>3 DEF ids
  <2> QED  BY <2>1, <2>2
<1>c. c = call[t]  OBVIOUS
<1> HIDE DEF c, d
<1>5. EntriesAt(list', id) = EntriesAt(list, id) /\ (id # x => db'[id] = db[id])
  BY <1>1, Before
<1>6. CASE id \notin c.todo
  BY <1>1, <1>2, <1>3, <1>4, <1>5, <1>6, <1>c, Elsewhere
<1>7. CASE id \in c.todo
  <2>1. /\ \A u \in Task \ {t} : id \notin Changing(call[u])
        /\ EntriesAt(list, id) = {}
    BY <1>1, <1>3, <1>7, <1>c, Alone DEF PlaceFits
  <2>2. CASE id = x
    <3>1. db'[id] = NoRow  BY <1>1, <2>2, Before
    <3>2. Agree(EntriesAt(list', id), db'[id])  BY <1>5, <2>1, <3>1 DEF Agree
    <3>3. id \notin Changing(d)  BY <1>4, <2>2
    <3> QED  BY <1>1, <1>2, <1>4, <2>1, <3>2, <3>3, IdStep
  <2>3. CASE id # x
    <3>1. id \in Changing(d) /\ d.pc = "delete"  BY <1>4, <1>7, <2>3
    <3>2. PlaceFits(d, id, EntriesAt(list', id), db'[id])  BY <1>5, <2>1, <3>1 DEF PlaceFits
    <3> QED  BY <1>1, <1>2, <1>4, <2>1, <3>1, <3>2, IdStep
  <2> QED  BY <2>2, <2>3
<1> QED  BY <1>6, <1>7

\* A statement of the database fails: table and list agree but on what is now disturbed.
LEMMA FailsFits ==
    ASSUME TInv, NEW t \in Task, NEW ids, Fails(t, ids),
           \/ call[t].pc \in {"add", "change"} /\ ids = {}
           \/ call[t].pc = "delete" /\ ids = call[t].todo
           \/ call[t].pc = "load" /\ ids = call[t].ids,
           NEW id \in Id, id \notin disturbed', IdFits(id)
    PROVE  IdFits(id)'
<1>1. Goto(t, Idle) /\ disturbed' = disturbed \cup ids /\ db' = db /\ list' = list
  BY DEF Fails
<1>2. Idle \in Calls /\ Changing(Idle) = {} /\ call \in [Task -> Calls]
  BY CallIs, ChangingIs, Before DEF Idle
<1>3. EntriesAt(list', id) = EntriesAt(list, id) /\ db'[id] = db[id]  BY <1>1
<1>4. CASE id \notin Changing(call[t])  BY <1>1, <1>2, <1>3, <1>4, Elsewhere
<1>5. CASE id \in Changing(call[t])
  <2>1. /\ \A u \in Task \ {t} : id \notin Changing(call[u])
        /\ PlaceFits(call[t], id, EntriesAt(list, id), db[id])
    BY <1>5, Alone
  <2>2. Agree(EntriesAt(list, id), db[id])
    <3>1. id \notin ids  BY <1>1
    <3>2. CASE call[t].pc = "add"  BY <1>5, <3>2, ChangingIs
    <3>3. CASE call[t].pc = "change"  BY <2>1, <3>3 DEF PlaceFits
    <3>4. CASE call[t].pc = "delete"  BY <1>5, <3>1, <3>4, ChangingIs
    <3>5. CASE call[t].pc = "load"  BY <2>1, <3>1, <3>5 DEF PlaceFits
    <3> QED  BY <3>2, <3>3, <3>4, <3>5
  <2> QED  BY <1>1, <1>2, <1>3, <2>1, <2>2, IdStep
<1> QED  BY <1>4, <1>5

\* Two ids are exchanged in the table.
LEMMA SwapFits ==
    ASSUME TInv, NEW t \in Task, NEW a \in Id, NEW b \in Id, Swap(t, a, b),
           NEW id \in Id, id \notin disturbed', id \notin disturbed => IdFits(id)
    PROVE  IdFits(id)'
<1> DEFINE ids == {a, b}
           d == [pc |-> "load", ids |-> ids]
<1>1. Begin(t, Id, TRUE, d) /\ list' = list /\ db' = [db EXCEPT ![a] = db[b], ![b] = db[a]]
  BY DEF Swap
<1>2. d \in Calls /\ d.pc = "load" /\ d.ids = ids
  <2>1. ids \in SUBSET Id  OBVIOUS
  <2> HIDE DEF ids
  <2> QED  BY <2>1, CallIs
<1>3. id \notin ids => db'[id] = db[id]  BY <1>1, Before
<1> HIDE DEF d, ids
<1>4. Id \in SUBSET Id  OBVIOUS
<1>5. /\ \A u \in Task \ {t} : id \notin Changing(call[u])
      /\ Agree(EntriesAt(list, id), db[id]) /\ IdFits(id)
  BY <1>1, <1>4, BeginAlone
<1>6. Changing(d) = Id /\ Goto(t, d) /\ call \in [Task -> Calls]
  BY <1>1, <1>2, ChangingIs, Before DEF Begin
<1>7. PlaceFits(d, id, EntriesAt(list', id), db'[id])
  BY <1>1, <1>2, <1>3, <1>5 DEF PlaceFits
<1> QED  BY <1>2, <1>5, <1>6, <1>7, IdStep

\* The table is read back after that, and becomes the list.
LEMMA SwapLoadFits ==
    ASSUME TInv, NEW t \in Task, SwapLoad(t), NEW id \in Id, IdFits(id)
    PROVE  IdFits(id)'
<1> DEFINE d == [pc |-> "assign", rows |-> Rows]
<1>1. call[t].pc = "load" /\ Goto(t, d) /\ db' = db /\ list' = list  BY DEF SwapLoad
<1>2. Rows \in BoundedSeq(Entry, MaxId)  BY Before, RowsType DEF Rows
<1>3. d \in Calls /\ d.pc = "assign" /\ d.rows = Rows  BY <1>2, CallIs
<1> HIDE DEF d
<1>4. Changing(call[t]) = Id /\ Changing(d) = Id /\ call \in [Task -> Calls]
  BY <1>1, <1>3, ChangingIs, Before
<1>5. \A u \in Task \ {t} : id \notin Changing(call[u])  BY <1>4, Alone
<1>6. Agree(EntriesAt(Rows, id), db[id])  BY AtRows DEF Rows
<1>7. PlaceFits(d, id, EntriesAt(list', id), db'[id])  BY <1>1, <1>3, <1>6 DEF PlaceFits
<1> QED  BY <1>1, <1>3, <1>4, <1>5, <1>7, IdStep

\* What was read back becomes the list.
LEMMA SwapAssignFits ==
    ASSUME TInv, NEW t \in Task, SwapAssign(t), NEW id \in Id, IdFits(id)
    PROVE  IdFits(id)'
<1>1. call[t].pc = "assign" /\ Goto(t, Sync) /\ db' = db /\ list' = call[t].rows
  BY DEF SwapAssign
<1>2. Changing(call[t]) = Id /\ Sync \in Calls /\ Changing(Sync) = {} /\ call \in [Task -> Calls]
  BY <1>1, ChangingIs, CallIs, Before DEF Sync
<1>3. /\ \A u \in Task \ {t} : id \notin Changing(call[u])
      /\ Agree(EntriesAt(call[t].rows, id), db[id])
  BY <1>1, <1>2, Alone DEF PlaceFits
<1>4. Agree(EntriesAt(list', id), db'[id])  BY <1>1, <1>3
<1> QED  BY <1>1, <1>2, <1>3, <1>4, IdStep

\* A Suricata rule gets its row, which no list has an entry for.
LEMMA AddSuriRowFits ==
    ASSUME TInv, mode.db, NEW t \in Task, AddSuriRow(t),
           NEW id \in Id, id \notin disturbed', id \notin disturbed => IdFits(id)
    PROVE  IdFits(id)'
<1> DEFINE c == call[t]
           x == seq + 1
           row == [rule |-> c.rule, enabled |-> TRUE]
           d == [pc |-> "added", id |-> x, rule |-> c.rule]
<1>1. /\ c.pc = "add" /\ x \in Id /\ Goto(t, d) /\ list' = list
      /\ db' = [db EXCEPT ![x] = row] /\ disturbed' = disturbed \cup Overlapped(t, {x})
  <2>1. x \in Id  BY Before DEF AddSuriRow, Id
  <2> QED  BY <2>1 DEF AddSuriRow, NewRow
<1>2. c \in Calls /\ call \in [Task -> Calls] /\ c = call[t]  BY Before
<1>3. c.rule \in Rule  BY <1>1, <1>2, CallTypes
<1>4. d \in Calls /\ d.pc = "added" /\ d.id = x /\ d.rule = c.rule  BY <1>1, <1>3, CallIs
<1>5. IdFits(id) /\ (id = x => \A u \in Task \ {t} : id \notin Changing(call[u]))
  BY <1>1 DEF Overlapped
<1>6. x \notin Ids(list)  BY Before
<1>7. db'[x] = row /\ (id # x => db'[id] = db[id])  BY <1>1, Before
<1> HIDE DEF c, d, x
<1>8. Changing(c) = {} /\ Changing(d) = {x}  BY <1>1, <1>4, ChangingIs
<1>9. EntriesAt(list', id) = EntriesAt(list, id)  BY <1>1
<1>10. CASE id # x
  BY <1>1, <1>2, <1>4, <1>5, <1>7, <1>8, <1>9, <1>10, Elsewhere
<1>11. CASE id = x
  <2>1. EntriesAt(list', id) = {}  BY <1>6, <1>9, <1>11, AtIds
  <2>2. PlaceFits(d, id, EntriesAt(list', id), db'[id])
    BY <1>4, <1>7, <1>11, <2>1 DEF PlaceFits
  <2>3. id \in Changing(d)  BY <1>8, <1>11
  <2> QED  BY <1>1, <1>2, <1>4, <1>5, <1>11, <2>2, <2>3, IdStep
<1> QED  BY <1>10, <1>11

\* It comes into the list.
LEMMA AddSuriPushFits ==
    ASSUME TInv, NEW t \in Task, AddSuriPush(t), NEW id \in Id, IdFits(id)
    PROVE  IdFits(id)'
<1> DEFINE c == call[t]
           e == [id |-> c.id, rule |-> c.rule, enabled |-> TRUE]
           row == [rule |-> c.rule, enabled |-> TRUE]
<1>1. c.pc = "added" /\ Goto(t, Sync) /\ db' = db /\ list' = Append(list, e)
  BY DEF AddSuriPush
<1>2. c \in Calls /\ call \in [Task -> Calls] /\ c = call[t]  BY Before
<1>3. c.id \in Id /\ c.rule \in Rule  BY <1>1, <1>2, CallTypes
<1>4. Changing(c) = {c.id} /\ Sync \in Calls /\ Changing(Sync) = {}
  BY <1>1, ChangingIs, CallIs DEF Sync
<1>5. e \in Entry /\ e.id = c.id /\ e.rule = row.rule /\ e.enabled = row.enabled
  BY <1>3 DEF Entry
<1>6. row # NoRow  BY <1>3, RowsAreRows
<1>r. row = [rule |-> c.rule, enabled |-> TRUE]  OBVIOUS
<1> HIDE DEF c, e, row
<1>7. EntriesAt(list', id) = IF e.id = id THEN EntriesAt(list, id) \cup {e} ELSE EntriesAt(list, id)
  BY <1>1, <1>5, AtAppend, Before
<1>8. CASE id # c.id
  BY <1>1, <1>2, <1>4, <1>5, <1>7, <1>8, Elsewhere
<1>9. CASE id = c.id
  <2>1. id \in Changing(call[t])  BY <1>2, <1>4, <1>9
  <2>2. /\ \A u \in Task \ {t} : id \notin Changing(call[u])
        /\ PlaceFits(c, id, EntriesAt(list, id), db[id])
    BY <1>2, <2>1, Alone
  <2>3. EntriesAt(list, id) = {} /\ db[id] = row
    BY <1>1, <1>r, <2>2 DEF PlaceFits
  <2>4. EntriesAt(list', id) = {e}  BY <1>5, <1>7, <1>9, <2>3
  <2>5. Agree(EntriesAt(list', id), db'[id])  BY <1>1, <1>5, <1>6, <2>3, <2>4 DEF Agree
  <2> QED  BY <1>1, <1>2, <1>4, <2>2, <2>5, IdStep
<1> QED  BY <1>8, <1>9

\* The other steps touch neither table nor list.
LEMMA QuietFits ==
    ASSUME TInv, NEW t \in Task,
           \/ \E rule \in Rule : AddSuriRule(t, rule)
           \/ Snapshot(t)
           \/ Apply(t) \/ Abandon(t),
           NEW id \in Id, id \notin disturbed', id \notin disturbed => IdFits(id)
    PROVE  IdFits(id)'
<1>1. call \in [Task -> Calls]  BY Before
<1>2. CASE \E rule \in Rule : AddSuriRule(t, rule)
  <2>1. PICK rule \in Rule : AddSuriRule(t, rule)  BY <1>2
  <2> DEFINE d == [pc |-> "add", rule |-> rule]
  <2>2. Begin(t, {}, TRUE, d) /\ UNCHANGED <<db, list>>  BY <2>1 DEF AddSuriRule
  <2>3. d \in Calls /\ d.pc = "add"  BY CallIs
  <2> HIDE DEF d
  <2>4. Changing(d) = {} /\ Goto(t, d)  BY <2>2, <2>3, ChangingIs DEF Begin
  <2>5. {} \in SUBSET Id  OBVIOUS
  <2>6. id \notin Changing(call[t]) /\ IdFits(id)  BY <2>2, <2>5, BeginAlone
  <2> QED  BY <1>1, <2>2, <2>3, <2>4, <2>6, Elsewhere
<1>3. CASE Snapshot(t)
  <2> DEFINE d == [pc |-> "apply", rules |-> Enabled(list)]
  <2>1. call[t].pc = "sync" /\ Goto(t, d) /\ UNCHANGED <<db, list, disturbed>>
    BY <1>3 DEF Snapshot
  <2>2. Enabled(list) \in BoundedSeq(Rule, MaxId)  BY EnabledType DEF TInv, Types
  <2>3. d \in Calls /\ d.pc = "apply"  BY <2>2, CallIs
  <2> HIDE DEF d
  <2>4. Changing(call[t]) = {} /\ Changing(d) = {}  BY <2>1, <2>3, ChangingIs
  <2> QED  BY <1>1, <2>1, <2>3, <2>4, Elsewhere
<1>4. CASE Apply(t) \/ Abandon(t)
  <2>1. call[t].pc = "apply" /\ Goto(t, Idle) /\ UNCHANGED <<db, list, disturbed>>
    BY <1>4 DEF Apply, Abandon
  <2>2. Idle \in Calls /\ Changing(Idle) = {} /\ Changing(call[t]) = {}
    BY <2>1, CallIs, ChangingIs DEF Idle
  <2> QED  BY <1>1, <2>1, <2>2, Elsewhere
<1> QED  BY <1>2, <1>3, <1>4

\* The list is read off the table, or every id is disturbed.
ReadBack == call = [t \in Task |-> Idle] /\ (list = Rows \/ disturbed = Id)

\* A start leaves table and list in agreement, on the ids that are not disturbed.
LEMMA StartFits == ReadBack => AInv
<1> SUFFICES ASSUME ReadBack, list = Rows, NEW id \in Id PROVE IdFits(id)
  BY DEF AInv, ReadBack
<1>1. \A t \in Task : Changing(call[t]) = {}
  <2>1. Changing(Idle) = {}  BY ChangingIs DEF Idle
  <2> QED  BY <2>1 DEF ReadBack
<1>2. Agree(EntriesAt(list, id), db[id])  BY AtRows DEF Rows
<1> QED  BY <1>1, <1>2 DEF IdFits

\* Table and list keep agreeing.
LEMMA NextFits == TInv /\ AInv /\ [Next]_vars => AInv'
<1> SUFFICES ASSUME TInv, AInv, [Next]_vars PROVE AInv'
  OBVIOUS
<1>1. CASE Restart
  <2>1. call' = [t \in Task |-> Idle] /\ (list' = RowsOf(db') \/ disturbed' = Id)
    BY <1>1 DEF Restart
  <2>2. RowsOf(db') = Rows'  BY DEF Rows, RowsOf, InOrder, Used
  <2>3. ReadBack'  BY <2>1, <2>2 DEF ReadBack, Idle
  <2> QED  BY <2>3, StartFits, PTL
<1>2. ASSUME NEW t \in Task, Call(t) \/ Step(t), UNCHANGED mode PROVE AInv'
  <2> SUFFICES ASSUME mode.db, NEW id \in Id, id \notin disturbed' PROVE IdFits(id)'
    BY <1>2 DEF AInv
  <2>1. id \notin disturbed => IdFits(id)  BY DEF AInv
  <2>2. ASSUME id \notin disturbed PROVE IdFits(id)  BY <2>1, <2>2
  <2>3. ASSUME disturbed' = disturbed \/ \E ids : Fails(t, ids) PROVE IdFits(id)
    BY <2>1, <2>3 DEF Fails
  <2>4. CASE \E rule \in Rule, x \in Id : Insert(t, rule, x)  BY <2>1, <2>4, InsertFits
  <2>5. CASE \E rule \in Rule, x \in Id : Replace(t, x, rule)  BY <2>1, <2>5, ReplaceFits
  <2>6. CASE \E x \in Id, value \in BOOLEAN : Change(t, x, TRUE, "enabled", value)
    <3>1. PICK x \in Id, value \in BOOLEAN : Change(t, x, TRUE, "enabled", value)  BY <2>6
    <3>2. value \in Rule \cup BOOLEAN /\ "enabled" \in {"rule", "enabled"}  OBVIOUS
    <3> QED  BY <2>1, <3>1, <3>2, ChangeFits
  <2>7. CASE \E x \in Id, value \in Rule : Change(t, x, KeyFree(value, x), "rule", value)
    <3>1. PICK x \in Id, value \in Rule : Change(t, x, KeyFree(value, x), "rule", value)  BY <2>7
    <3> DEFINE tidy == KeyFree(value, x)
    <3>2. value \in Rule \cup BOOLEAN /\ "rule" \in {"rule", "enabled"}  OBVIOUS
    <3>3. Change(t, x, tidy, "rule", value)  BY <3>1
    <3> HIDE DEF tidy
    <3> QED  BY <2>1, <3>2, <3>3, ChangeFits
  <2>8. CASE ChangeTable(t)  BY <2>3, <2>8, ChangeTableFits DEF ChangeTable
  <2>9. CASE ChangeList(t)  BY <2>3, <2>9, ChangeListFits DEF ChangeList
  <2>10. CASE \E ids \in SUBSET Id : Delete(t, ids)  BY <2>1, <2>10, DeleteFits
  <2>11. CASE \E x \in Id : DeleteRow(t, x)  BY <2>3, <2>11, DeleteRowFits DEF DeleteRow
  <2>12. CASE \E ids : /\ Fails(t, ids)
                       /\ \/ call[t].pc \in {"add", "change"} /\ ids = {}
                          \/ call[t].pc = "delete" /\ ids = call[t].todo
                          \/ call[t].pc = "load" /\ ids = call[t].ids
    BY <2>3, <2>12, FailsFits
  <2>13. CASE \E a, b \in Id : Swap(t, a, b)  BY <2>1, <2>13, SwapFits
  <2>14. CASE \E a, b \in Id : SwapInMemory(t, a, b)  BY <2>14 DEF SwapInMemory
  <2>15. CASE SwapLoad(t)  BY <2>3, <2>15, SwapLoadFits DEF SwapLoad
  <2>16. CASE SwapAssign(t)  BY <2>3, <2>16, SwapAssignFits DEF SwapAssign
  <2>17. CASE Snapshot(t) \/ \E rule \in Rule : AddSuriRule(t, rule)
    BY <2>1, <2>17, QuietFits
  <2>18. CASE AddSuriRow(t)  BY <2>1, <2>18, AddSuriRowFits
  <2>19. CASE AddSuriPush(t)  BY <2>3, <2>19, AddSuriPushFits DEF AddSuriPush
  <2> QED
    BY <1>2, <2>4, <2>5, <2>6, <2>7, <2>8, <2>9, <2>10, <2>11, <2>12, <2>13, <2>14, <2>15,
       <2>16, <2>17, <2>18, <2>19, StepCases
<1>3. CASE UNCHANGED vars
  <2>1. UNCHANGED <<mode, db, list, call, disturbed>>  BY <1>3 DEF vars
  <2>2. \A id \in Id : IdFits(id) <=> IdFits(id)'
    BY <2>1 DEF IdFits, EntriesAt, Changing, PlaceFits, Agree
  <2> QED  BY <2>1, <2>2 DEF AInv
<1>4. ASSUME NEW t \in Task, Apply(t) \/ Abandon(t), UNCHANGED mode PROVE AInv'
  <2> SUFFICES ASSUME mode.db, NEW id \in Id, id \notin disturbed' PROVE IdFits(id)'
    BY <1>4 DEF AInv
  <2>1. id \notin disturbed => IdFits(id)  BY DEF AInv
  <2> QED  BY <1>4, <2>1, QuietFits
<1> QED  BY <1>1, <1>2, <1>3, <1>4 DEF Next

\* What the invariant says of an id that no call is changing is the property.
LEMMA FitsAgree == TInv /\ AInv => RowsAgree
<1> SUFFICES ASSUME TInv, AInv, mode.db, NEW id \in Id \ disturbed,
                    \A t \in Task : id \notin Changing(call[t])
             PROVE  /\ id \in InTable <=> id \in Ids(list)
                    /\ id \in InTable => /\ db[id].rule = RuleIn(list, id)
                                         /\ db[id].enabled = EnabledIn(list, id)
  BY DEF RowsAgree
<1>1. Agree(EntriesAt(list, id), db[id])  BY DEF AInv, IdFits
<1>2. id \in InTable <=> db[id] # NoRow  BY DEF InTable, Used
<1>3. id \in InTable <=> id \in Ids(list)  BY <1>1, <1>2, AtIds DEF Agree
<1>4. ASSUME id \in InTable
      PROVE  db[id].rule = RuleIn(list, id) /\ db[id].enabled = EnabledIn(list, id)
  <2>1. PICK i \in DOMAIN list : list[i].id = id  BY <1>3, <1>4 DEF Ids
  <2>2. \A j \in DOMAIN list : list[j].id = id =>
           list[j].rule = db[id].rule /\ list[j].enabled = db[id].enabled
    BY <1>1 DEF Agree, EntriesAt
  <2>3. db[id].rule = RuleIn(list, id)  BY <2>1, <2>2 DEF RuleIn
  <2>4. EnabledIn(list, id) <=> db[id].enabled  BY <2>1, <2>2 DEF EnabledIn
  <2>5. EnabledIn(list, id) \in BOOLEAN  BY DEF EnabledIn
  <2>6. db[id].enabled \in BOOLEAN
    <3>1. db[id] \in Row  BY <1>2, <1>4, Before
    <3> QED  BY <3>1 DEF Row
  <2>7. db[id].enabled = EnabledIn(list, id)  BY <2>4, <2>5, <2>6
  <2> QED  BY <2>3, <2>7
<1> QED  BY <1>3, <1>4

\* A rule that no two overlapping calls and no failure touched is in the list exactly as
\* it is in the table (RowsAgree), whatever the other calls are in the middle of and
\* wherever the daemon was stopped.
THEOREM RowsCorrect == Spec => []RowsAgree
<1>1. Init => AInv  BY StartFits DEF Init, ReadBack
<1> QED  BY <1>1, InitTypes, NextTypes, NextFits, FitsAgree, PTL DEF Spec

-----------------------------------------------------------------------------
(***************************************************************************)
(* Calls one at a time: what each change of the table does to its rows.    *)
(***************************************************************************)
\* A rule with a greater id than the others comes last.
LEMMA AppendRows ==
    ASSUME NEW table \in [Id -> Row \cup {NoRow}], NEW x \in Id, NEW row \in Row,
           \A id \in Used(table) : id < x, NEW e, e.id = x,
           e = [id |-> x, rule |-> row.rule, enabled |-> row.enabled]
    PROVE  Append(RowsOf(table), e) = RowsOf([table EXCEPT ![x] = row])
<1> DEFINE s == RowsOf(table)
           new == [table EXCEPT ![x] = row]
           n == Cardinality(Used(table))
           q == Append(s, e)
<1>1. /\ n \in Nat /\ DOMAIN s = 1 .. n
      /\ \A i \in 1 .. n : /\ s[i].id \in Used(table)
                           /\ s[i] = [id |-> s[i].id, rule |-> table[s[i].id].rule,
                                      enabled |-> table[s[i].id].enabled]
      /\ \A i, j \in 1 .. n : i < j => s[i].id < s[j].id
      /\ \A id \in Used(table) : \E i \in 1 .. n : s[i].id = id
  BY Rowed
<1>2. s \in Seq(Entry)  BY RowsType, Bounded, IdTypes
<1>3. Len(s) = n  BY <1>1, <1>2
<1>4. x \notin Used(table) /\ x \in Nat /\ \A id \in Used(table) : id \in Id
  BY IdTypes DEF Used
<1>5. new[x] = row /\ row # NoRow /\ \A id \in Used(table) : new[id] = table[id]
  BY <1>4, RowsAreRows
<1>6. Used(new) = Used(table) \cup {x}
  <2>1. \A id \in Id : id # x => new[id] = table[id]  OBVIOUS
  <2> HIDE DEF new
  <2> QED  BY <1>5, <2>1 DEF Used
<1> HIDE DEF s, new, n
<1>7. /\ q = [i \in 1 .. n + 1 |-> q[i]] /\ q[n + 1] = e /\ \A i \in 1 .. n : q[i] = s[i]
  BY <1>1, <1>2, <1>3
<1> HIDE DEF q
<1>8. \A i \in 1 .. n + 1 : i \in 1 .. n \/ i = n + 1  BY <1>1
<1>a. \A i \in 1 .. n : q[i].id \in Used(table)
                        /\ q[i] = [id |-> q[i].id, rule |-> new[q[i].id].rule,
                                   enabled |-> new[q[i].id].enabled]
  <2> SUFFICES ASSUME NEW i \in 1 .. n
               PROVE  /\ q[i].id \in Used(table)
                      /\ q[i] = [id |-> q[i].id, rule |-> new[q[i].id].rule,
                                 enabled |-> new[q[i].id].enabled]
    OBVIOUS
  <2>1. q[i] = s[i] /\ s[i].id \in Used(table)  BY <1>1, <1>7
  <2>2. s[i] = [id |-> s[i].id, rule |-> table[s[i].id].rule, enabled |-> table[s[i].id].enabled]
    BY <1>1
  <2>3. new[s[i].id] = table[s[i].id]  BY <1>5, <2>1
  <2> QED  BY <2>1, <2>2, <2>3
<1>b. q[n + 1].id = x /\ q[n + 1] = [id |-> x, rule |-> new[x].rule, enabled |-> new[x].enabled]
  BY <1>5, <1>7
<1>9. \A i \in 1 .. n + 1 :
         /\ q[i].id \in Used(new)
         /\ q[i] = [id |-> q[i].id, rule |-> new[q[i].id].rule, enabled |-> new[q[i].id].enabled]
  BY <1>6, <1>8, <1>a, <1>b
<1>10. ASSUME NEW i \in 1 .. n + 1, NEW j \in 1 .. n + 1, i < j PROVE q[i].id < q[j].id
  <2>1. i \in 1 .. n  BY <1>1, <1>10
  <2>2. CASE j \in 1 .. n  BY <1>1, <1>7, <1>10, <2>1, <2>2
  <2>3. CASE j = n + 1  BY <1>a, <1>b, <2>1, <2>3
  <2> QED  BY <1>8, <2>2, <2>3
<1>11. \A id \in Used(new) : \E i \in 1 .. n + 1 : q[i].id = id
  <2>1. (\A i \in 1 .. n : i \in 1 .. n + 1) /\ n + 1 \in 1 .. n + 1  BY <1>1
  <2>2. ASSUME NEW id \in Used(table) PROVE \E i \in 1 .. n + 1 : q[i].id = id
    <3>1. PICK i \in 1 .. n : s[i].id = id  BY <1>1
    <3>2. i \in 1 .. n + 1  BY <2>1
    <3>3. q[i].id = id  BY <1>7, <3>1
    <3> QED  BY <3>2, <3>3
  <2> QED  BY <1>6, <1>b, <2>1, <2>2
<1>12. n + 1 \in Nat  BY <1>1
<1>13. q = RowsOf(new)
  <2>1. IsRows(q, new, n + 1)  BY <1>7, <1>9, <1>10, <1>11, <1>12 DEF IsRows
  <2> QED  BY <2>1, OnlyRows
<1> QED  BY <1>13 DEF q, s, new

\* A row that is changed keeps its place.
LEMMA ChangedRows ==
    ASSUME NEW table \in [Id -> Row \cup {NoRow}], NEW x \in Used(table), NEW row \in Row, NEW q,
           LET s == RowsOf(table)
           IN  q = [i \in DOMAIN s |->
                       IF s[i].id = x THEN [id |-> x, rule |-> row.rule, enabled |-> row.enabled]
                       ELSE s[i]]
    PROVE  q = RowsOf([table EXCEPT ![x] = row])
<1> DEFINE s == RowsOf(table)
           new == [table EXCEPT ![x] = row]
           n == Cardinality(Used(table))
           e == [id |-> x, rule |-> row.rule, enabled |-> row.enabled]
<1>1. /\ n \in Nat /\ DOMAIN s = 1 .. n
      /\ \A i \in 1 .. n : /\ s[i].id \in Used(table)
                           /\ s[i] = [id |-> s[i].id, rule |-> table[s[i].id].rule,
                                      enabled |-> table[s[i].id].enabled]
      /\ \A i, j \in 1 .. n : i < j => s[i].id < s[j].id
      /\ \A id \in Used(table) : \E i \in 1 .. n : s[i].id = id
  BY Rowed
<1>2. q = [i \in DOMAIN s |-> IF s[i].id = x THEN e ELSE s[i]]  OBVIOUS
<1>3. x \in Id /\ \A id \in Used(table) : id \in Id  BY DEF Used
<1>4. new[x] = row /\ row # NoRow /\ \A id \in Id : id # x => new[id] = table[id]
  BY <1>3, RowsAreRows
<1>5. e.id = x /\ e = [id |-> x, rule |-> new[x].rule, enabled |-> new[x].enabled]
  BY <1>4
<1> HIDE DEF s, new, n, e
<1>6. Used(new) = Used(table)  BY <1>3, <1>4 DEF Used
<1>7. q = [i \in 1 .. n |-> q[i]]  BY <1>1, <1>2
<1>a. \A i \in 1 .. n : q[i] = IF s[i].id = x THEN e ELSE s[i]  BY <1>1, <1>2
<1>8. \A i \in 1 .. n : /\ q[i].id = s[i].id
                        /\ s[i].id = x => q[i] = e
                        /\ s[i].id # x => q[i] = s[i]
  BY <1>5, <1>a
<1>9. \A i \in 1 .. n :
         /\ q[i].id \in Used(new)
         /\ q[i] = [id |-> q[i].id, rule |-> new[q[i].id].rule, enabled |-> new[q[i].id].enabled]
  <2> SUFFICES ASSUME NEW i \in 1 .. n
               PROVE  q[i] = [id |-> q[i].id, rule |-> new[q[i].id].rule,
                              enabled |-> new[q[i].id].enabled]
    BY <1>1, <1>6, <1>8
  <2>1. CASE s[i].id = x
    <3>1. q[i] = e /\ q[i].id = x  BY <1>5, <1>8, <2>1
    <3> QED  BY <1>5, <3>1
  <2>2. CASE s[i].id # x
    <3>1. q[i] = s[i] /\ new[s[i].id] = table[s[i].id]  BY <1>1, <1>3, <1>4, <1>8, <2>2
    <3>2. s[i] = [id |-> s[i].id, rule |-> table[s[i].id].rule,
                  enabled |-> table[s[i].id].enabled]
      BY <1>1
    <3> HIDE DEF s
    <3> QED  BY <3>1, <3>2
  <2> QED  BY <2>1, <2>2
<1>10. \A i, j \in 1 .. n : i < j => q[i].id < q[j].id  BY <1>1, <1>8
<1>11. \A id \in Used(new) : \E i \in 1 .. n : q[i].id = id
  <2> SUFFICES ASSUME NEW id \in Used(new) PROVE \E i \in 1 .. n : q[i].id = id  OBVIOUS
  <2>1. PICK i \in 1 .. n : s[i].id = id  BY <1>1, <1>6
  <2>2. q[i].id = id  BY <1>8, <2>1
  <2> QED  BY <2>2
<1>12. n \in Nat  BY <1>1
<1>13. q = RowsOf(new)
  <2>1. IsRows(q, new, n)  BY <1>7, <1>9, <1>10, <1>11, <1>12 DEF IsRows
  <2> QED  BY <2>1, OnlyRows
<1> QED  BY <1>13 DEF new

\* Without some of its rows a table has the others in the same order.
LEMMA PickedRows ==
    ASSUME NEW table \in [Id -> Row \cup {NoRow}], NEW ids
    PROVE  LET s == RowsOf(table)
           IN  Picked(s, {i \in DOMAIN s : s[i].id \notin ids}) = RowsOf(Cleared(table, ids))
<1> DEFINE s == RowsOf(table)
           new == Cleared(table, ids)
           n == Cardinality(Used(table))
           P == {i \in DOMAIN s : s[i].id \notin ids}
           m == Cardinality(P)
           kept == InOrder(P)
           q == Picked(s, P)
<1>1. /\ n \in Nat /\ DOMAIN s = 1 .. n
      /\ \A i \in 1 .. n : /\ s[i].id \in Used(table)
                           /\ s[i] = [id |-> s[i].id, rule |-> table[s[i].id].rule,
                                      enabled |-> table[s[i].id].enabled]
      /\ \A i, j \in 1 .. n : i < j => s[i].id < s[j].id
      /\ \A id \in Used(table) : \E i \in 1 .. n : s[i].id = id
  BY Rowed
<1>2. s \in Seq(Entry)  BY RowsType, Bounded, IdTypes
<1>3. P \in SUBSET DOMAIN s /\ \A i \in 1 .. n : i \in P <=> s[i].id \notin ids  BY <1>1
<1>4. Used(new) = Used(table) \ ids /\ \A id \in Used(new) : new[id] = table[id]
  BY DEF Used, Cleared
<1> HIDE DEF s, P, new
<1>5. /\ m \in Nat /\ kept \in [1 .. m -> P] /\ DOMAIN q = 1 .. m /\ q \in Seq(Entry)
      /\ \A i, j \in 1 .. m : i < j => kept[i] < kept[j]
      /\ \A p \in P : \E i \in 1 .. m : kept[i] = p
      /\ \A i \in 1 .. m : q[i] = s[kept[i]]
  BY <1>2, <1>3, PickedIs
<1> HIDE DEF m, kept, q, n
<1>6. \A i \in 1 .. m : kept[i] \in P /\ kept[i] \in 1 .. n  BY <1>1, <1>3, <1>5
<1>7. q = [i \in 1 .. m |-> q[i]]  BY <1>5
<1>8. \A i \in 1 .. m :
         /\ q[i].id \in Used(new)
         /\ q[i] = [id |-> q[i].id, rule |-> new[q[i].id].rule, enabled |-> new[q[i].id].enabled]
  <2> SUFFICES ASSUME NEW i \in 1 .. m
               PROVE  /\ q[i].id \in Used(new)
                      /\ q[i] = [id |-> q[i].id, rule |-> new[q[i].id].rule,
                                 enabled |-> new[q[i].id].enabled]
    OBVIOUS
  <2>1. q[i] = s[kept[i]] /\ kept[i] \in 1 .. n /\ kept[i] \in P  BY <1>5, <1>6
  <2>2. s[kept[i]].id \in Used(new)  BY <1>1, <1>3, <1>4, <2>1
  <2>3. s[kept[i]] = [id |-> s[kept[i]].id, rule |-> table[s[kept[i]].id].rule,
                      enabled |-> table[s[kept[i]].id].enabled]
    BY <1>1, <2>1
  <2>4. new[s[kept[i]].id] = table[s[kept[i]].id]  BY <1>4, <2>2
  <2> QED  BY <2>1, <2>2, <2>3, <2>4
<1>9. \A i, j \in 1 .. m : i < j => q[i].id < q[j].id  BY <1>1, <1>5, <1>6
<1>10. \A id \in Used(new) : \E i \in 1 .. m : q[i].id = id
  <2> SUFFICES ASSUME NEW id \in Used(new) PROVE \E i \in 1 .. m : q[i].id = id
    OBVIOUS
  <2>1. PICK p \in 1 .. n : s[p].id = id  BY <1>1, <1>4
  <2>2. p \in P  BY <1>3, <1>4, <2>1
  <2> QED  BY <1>5, <2>1, <2>2
<1>11. m \in Nat  BY <1>5
<1>12. q = RowsOf(new)
  <2>1. IsRows(q, new, m)  BY <1>7, <1>8, <1>9, <1>10, <1>11 DEF IsRows
  <2> QED  BY <2>1, OnlyRows
<1> QED  BY <1>12 DEF q, P, s, new

-----------------------------------------------------------------------------
(***************************************************************************)
(* One rule for a key.                                                     *)
(***************************************************************************)
\* A rule whose key is free is appended.
LEMMA AppendKeys ==
    ASSUME NEW s \in Seq(Entry), NEW e \in Entry, OneRuleEach(s), FreeIn(s, e.rule, 0)
    PROVE  OneRuleEach(Append(s, e))
<1> DEFINE q == Append(s, e)
           n == Len(s)
           Key(r) == KeyOf(mode.kind, r)
<1>1. /\ n \in Nat /\ DOMAIN s = 1 .. n /\ DOMAIN q = 1 .. n + 1
      /\ q[n + 1] = e /\ \A i \in 1 .. n : q[i] = s[i]
  OBVIOUS
<1>2. \A i \in 1 .. n : s[i].id # 0
  <2>1. \A i \in 1 .. n : s[i] \in Entry  BY <1>1
  <2>2. \A i \in 1 .. n : s[i].id \in Id  BY <2>1 DEF Entry
  <2> QED  BY <2>2, IdTypes
<1> SUFFICES ASSUME mode.kind # "zone", NEW i \in DOMAIN q, NEW j \in DOMAIN q,
                    Key(q[i].rule) = Key(q[j].rule)
             PROVE  i = j
  BY DEF OneRuleEach
<1>3. \A k \in 1 .. n : Key(s[k].rule) # Key(e.rule)  BY <1>1, <1>2 DEF FreeIn
<1>4. \A k, l \in 1 .. n : Key(s[k].rule) = Key(s[l].rule) => k = l  BY <1>1 DEF OneRuleEach
<1> HIDE DEF q, n, Key
<1>5. \A k \in DOMAIN q : k \in 1 .. n \/ k = n + 1  BY <1>1
<1>6. CASE i \in 1 .. n /\ j \in 1 .. n  BY <1>1, <1>4, <1>6
<1>7. CASE i \in 1 .. n /\ j = n + 1  BY <1>1, <1>3, <1>7
<1>8. CASE j \in 1 .. n /\ i = n + 1  BY <1>1, <1>3, <1>8
<1> QED  BY <1>5, <1>6, <1>7, <1>8

\* The rule of one id is changed to one whose key is free.
LEMMA ChangedKeys ==
    ASSUME NEW s, NEW q, NEW x, NEW rule, DOMAIN q = DOMAIN s, Unique(s), OneRuleEach(s),
           FreeIn(s, rule, x),
           \A i \in DOMAIN s : /\ s[i].id = x => q[i].rule = rule
                               /\ s[i].id # x => q[i].rule = s[i].rule
    PROVE  OneRuleEach(q)
<1> DEFINE Key(r) == KeyOf(mode.kind, r)
<1> SUFFICES ASSUME mode.kind # "zone", NEW i \in DOMAIN s, NEW j \in DOMAIN s,
                    Key(q[i].rule) = Key(q[j].rule)
             PROVE  i = j
  BY DEF OneRuleEach
<1>1. \A k \in DOMAIN s : s[k].id # x => Key(s[k].rule) # Key(rule)  BY DEF FreeIn
<1>2. \A k, l \in DOMAIN s : Key(s[k].rule) = Key(s[l].rule) => k = l  BY DEF OneRuleEach
<1> HIDE DEF Key
<1>3. CASE s[i].id = x /\ s[j].id = x  BY <1>3 DEF Unique
<1>4. CASE s[i].id = x /\ s[j].id # x  BY <1>1, <1>4
<1>5. CASE s[i].id # x /\ s[j].id = x  BY <1>1, <1>5
<1>6. CASE s[i].id # x /\ s[j].id # x  BY <1>2, <1>6
<1> QED  BY <1>3, <1>4, <1>5, <1>6

\* Some are picked.
LEMMA PickedKeys ==
    ASSUME NEW s \in Seq(Entry), NEW P \in SUBSET DOMAIN s, OneRuleEach(s)
    PROVE  OneRuleEach(Picked(s, P))
<1> DEFINE m == Cardinality(P)
           kept == InOrder(P)
           q == Picked(s, P)
           Key(r) == KeyOf(mode.kind, r)
<1>1. /\ m \in Nat /\ kept \in [1 .. m -> P] /\ DOMAIN q = 1 .. m
      /\ \A i, j \in 1 .. m : i < j => kept[i] < kept[j]
      /\ \A i \in 1 .. m : q[i] = s[kept[i]]
  BY PickedIs
<1>2. \A p \in P : p \in Nat
  <2>1. DOMAIN s = 1 .. Len(s) /\ Len(s) \in Nat  OBVIOUS
  <2> QED  BY <2>1
<1> SUFFICES ASSUME mode.kind # "zone", NEW i \in 1 .. m, NEW j \in 1 .. m,
                    Key(q[i].rule) = Key(q[j].rule)
             PROVE  i = j
  BY <1>1 DEF OneRuleEach
<1>3. \A k, l \in P : Key(s[k].rule) = Key(s[l].rule) => k = l  BY DEF OneRuleEach
<1> HIDE DEF q, m, kept, Key
<1>4. kept[i] \in P /\ kept[j] \in P  BY <1>1
<1>5. kept[i] = kept[j]  BY <1>1, <1>3, <1>4
<1>6. kept[i] \in Nat /\ kept[j] \in Nat  BY <1>2, <1>4
<1>7. ~(i < j) /\ ~(j < i)  BY <1>1, <1>5, <1>6
<1>8. i \in Nat /\ j \in Nat  BY <1>1
<1> QED  BY <1>7, <1>8

\* A table has one rule for a key.
KeysApart(table) ==
    mode.kind # "zone" =>
        \A x, y \in Used(table) :
            KeyOf(mode.kind, table[x].rule) = KeyOf(mode.kind, table[y].rule) => x = y

\* It does if its rows do.
LEMMA KeysOfRows ==
    ASSUME NEW table
    PROVE  OneRuleEach(RowsOf(table)) <=> KeysApart(table)
<1> DEFINE s == RowsOf(table)
           n == Cardinality(Used(table))
           Key(r) == KeyOf(mode.kind, r)
<1>1. /\ n \in Nat /\ DOMAIN s = 1 .. n
      /\ \A i \in 1 .. n : s[i].id \in Used(table)
      /\ \A i \in 1 .. n : s[i] = [id |-> s[i].id, rule |-> table[s[i].id].rule,
                                   enabled |-> table[s[i].id].enabled]
      /\ \A i, j \in 1 .. n : i < j => s[i].id < s[j].id
      /\ \A id \in Used(table) : \E i \in 1 .. n : s[i].id = id
  BY Rowed
<1>2. \A id \in Used(table) : id \in Nat  BY IdTypes DEF Used
<1> HIDE DEF s, n
<1>3. \A i \in 1 .. n : s[i].rule = table[s[i].id].rule  BY <1>1
<1>4. ASSUME OneRuleEach(s) PROVE KeysApart(table)
  <2> SUFFICES ASSUME mode.kind # "zone", NEW x \in Used(table), NEW y \in Used(table),
                      Key(table[x].rule) = Key(table[y].rule)
               PROVE  x = y
    BY DEF KeysApart
  <2>1. PICK i \in 1 .. n : s[i].id = x  BY <1>1
  <2>2. PICK j \in 1 .. n : s[j].id = y  BY <1>1
  <2>3. Key(s[i].rule) = Key(s[j].rule)  BY <1>3, <2>1, <2>2
  <2>4. i = j  BY <1>1, <1>4, <2>3 DEF OneRuleEach
  <2> QED  BY <2>1, <2>2, <2>4
<1>5. ASSUME KeysApart(table) PROVE OneRuleEach(s)
  <2> SUFFICES ASSUME mode.kind # "zone", NEW i \in 1 .. n, NEW j \in 1 .. n,
                      Key(s[i].rule) = Key(s[j].rule)
               PROVE  i = j
    BY <1>1 DEF OneRuleEach
  <2>1. s[i].id \in Used(table) /\ s[j].id \in Used(table)  BY <1>1
  <2>2. Key(table[s[i].id].rule) = Key(table[s[j].id].rule)  BY <1>3
  <2>3. s[i].id = s[j].id  BY <1>5, <2>1, <2>2 DEF KeysApart
  <2>4. s[i].id \in Nat /\ s[j].id \in Nat  BY <1>2, <2>1
  <2>5. ~(i < j) /\ ~(j < i)  BY <1>1, <2>3, <2>4
  <2>6. i \in Nat /\ j \in Nat  BY <1>1
  <2> QED  BY <2>5, <2>6
<1> QED  BY <1>4, <1>5 DEF s

\* Two rows are exchanged.
LEMMA SwapKeys ==
    ASSUME NEW table \in [Id -> Row \cup {NoRow}], NEW a \in Used(table), NEW b \in Used(table),
           KeysApart(table)
    PROVE  KeysApart([table EXCEPT ![a] = table[b], ![b] = table[a]])
<1> DEFINE new == [table EXCEPT ![a] = table[b], ![b] = table[a]]
           from(x) == IF x = a THEN b ELSE IF x = b THEN a ELSE x
<1>1. a \in Id /\ b \in Id /\ table[a] # NoRow /\ table[b] # NoRow  BY DEF Used
<1>2. \A x \in Id : new[x] = table[from(x)]  BY <1>1
<1>3. \A x \in Used(new) : x \in Id /\ from(x) \in Used(table)
  BY <1>1, <1>2 DEF Used
<1>4. \A x, y : from(x) = from(y) => x = y  OBVIOUS
<1> HIDE DEF new, from
<1>5. KeysApart(new)  BY <1>2, <1>3, <1>4 DEF KeysApart
<1> QED  BY <1>5 DEF new

-----------------------------------------------------------------------------
(***************************************************************************)
(* Calls one at a time: every step keeps what is known of calm.            *)
(***************************************************************************)
\* An idle call has nothing to fit.
LEMMA IdleFits ==
    \A entries, table : OrderFits(Idle, entries, table) /\ KeysFit(Idle, entries, table)
BY DEF Idle, OrderFits, KeysFit

\* A step of the only call there is.
LEMMA CStep ==
    ASSUME call \in [Task -> Calls], UNCHANGED mode, NEW t \in Task, NEW d \in Calls, Goto(t, d),
           \A u \in Task \ {t} : call[u] = Idle,
           mode.db => OrderFits(d, list', db'),
           d.pc = "apply" => d.rules = Enabled(list'),
           d = Idle => /\ mode.db => list' = RowsOf(db')
                       /\ synced' => kernel' = Installed(Enabled(list')),
           OneRuleEach(list'), KeysFit(d, list', db')
    PROVE  CInv'
<1>1. /\ call' \in [Task -> Calls] /\ call'[t] = d
      /\ \A u \in Task \ {t} : call'[u] = Idle
  BY Moves
<1>2. \A u, v \in Task : call'[u] # Idle /\ call'[v] # Idle => u = v  BY <1>1
<1>3. mode.db => \A u \in Task : OrderFits(call'[u], list', db')  BY <1>1, IdleFits
<1>4. \A u \in Task : KeysFit(call'[u], list', db')  BY <1>1, IdleFits
<1>5. \A u \in Task : call'[u].pc = "apply" => call'[u].rules = Enabled(list')
  BY <1>1 DEF Idle
<1>6. Rows' = RowsOf(db') /\ Enabled(list)' = Enabled(list')
  BY DEF Rows, RowsOf, InOrder, Used, Enabled, Picked
<1>7. Installed(Enabled(list))' = Installed(Enabled(list'))  BY <1>6 DEF Installed
<1>8. AllIdle' => d = Idle  BY <1>1 DEF AllIdle, Idle
<1>9. OneRuleEach(list)'  BY DEF OneRuleEach
<1>10. \A u \in Task : OrderFits(call[u], list, db)' <=> OrderFits(call'[u], list', db')
  <2> SUFFICES ASSUME NEW u \in Task
               PROVE  OrderFits(call[u], list, db)' <=> OrderFits(call'[u], list', db')
    OBVIOUS
  <2>1. RowsOf(db)' = RowsOf(db')  BY DEF RowsOf, InOrder, Used
  <2>2. RowsOf(Cleared(db, call[u].todo))' = RowsOf(Cleared(db', call'[u].todo))
    BY DEF RowsOf, InOrder, Used, Cleared
  <2>3. Patched(list, call[u])' = Patched(list', call'[u])  BY DEF Patched
  <2> QED  BY <2>1, <2>2, <2>3 DEF OrderFits
<1>11. \A u \in Task : KeysFit(call[u], list, db)' <=> KeysFit(call'[u], list', db')
  <2> SUFFICES ASSUME NEW u \in Task
               PROVE  KeysFit(call[u], list, db)' <=> KeysFit(call'[u], list', db')
    OBVIOUS
  <2>1. RowsOf(db)' = RowsOf(db')  BY DEF RowsOf, InOrder, Used
  <2>2. OneRuleEach(RowsOf(db))' <=> OneRuleEach(RowsOf(db'))  BY <2>1 DEF OneRuleEach
  <2>3. OneRuleEach(call[u].rows)' <=> OneRuleEach(call'[u].rows)  BY DEF OneRuleEach
  <2>4. /\ FreeIn(list, call[u].rule, 0)' <=> FreeIn(list', call'[u].rule, 0)
        /\ FreeIn(list, call[u].value, call[u].id)' <=> FreeIn(list', call'[u].value, call'[u].id)
    BY DEF FreeIn
  <2> QED  BY <2>2, <2>3, <2>4 DEF KeysFit
<1>12. (\A u, v \in Task : call[u] # Idle /\ call[v] # Idle => u = v)'  BY <1>2 DEF Idle
<1>13. (mode.db => \A u \in Task : OrderFits(call[u], list, db))'  BY <1>3, <1>10
<1>14. (\A u \in Task : KeysFit(call[u], list, db))'  BY <1>4, <1>11
<1>15. (\A u \in Task : call[u].pc = "apply" => call[u].rules = Enabled(list))'
  BY <1>5, <1>6
<1>16. (AllIdle => (mode.db => list = Rows) /\ (synced => kernel = Installed(Enabled(list))))'
  BY <1>6, <1>7, <1>8
<1> QED  BY <1>9, <1>12, <1>13, <1>14, <1>15, <1>16 DEF CInv

\* A call that begins finds the others idle, and the list as the table has it.
LEMMA BeginCalm ==
    ASSUME TInv, CInv, calm', NEW t \in Task, NEW ids \in SUBSET Id, NEW tidy, NEW next,
           Begin(t, ids, tidy, next)
    PROVE  /\ Goto(t, next)
           /\ \A u \in Task \ {t} : call[u] = Idle
           /\ mode.db => list = RowsOf(db)
           /\ OneRuleEach(list)
<1>1. Goto(t, next) /\ calm' = (calm /\ AllIdle /\ tidy)  BY DEF Begin
<1>2. calm /\ AllIdle  BY <1>1
<1>3. (mode.db => list = Rows) /\ OneRuleEach(list)  BY <1>2 DEF CInv
<1> QED  BY <1>1, <1>2, <1>3 DEF AllIdle, Rows

\* A call that goes on is the only one, and has left table and list as it should.
LEMMA MiddleCalm ==
    ASSUME TInv, CInv, calm, NEW t \in Task, call[t].pc # "idle"
    PROVE  /\ call \in [Task -> Calls] /\ call[t] \in Calls /\ CallFits(call[t])
           /\ \A u \in Task \ {t} : call[u] = Idle
           /\ mode.db => OrderFits(call[t], list, db)
           /\ call[t].pc = "apply" => call[t].rules = Enabled(list)
           /\ OneRuleEach(list) /\ KeysFit(call[t], list, db)
<1>1. call[t] # Idle  BY DEF Idle
<1>2. call \in [Task -> Calls] /\ call[t] \in Calls /\ CallFits(call[t])
  BY Before DEF TInv
<1>3. \A u \in Task : call[u] # Idle /\ call[t] # Idle => u = t  BY DEF CInv
<1> QED  BY <1>1, <1>2, <1>3 DEF CInv

\* The call is to hand the list over next.
LEMMA SyncCalm ==
    ASSUME call \in [Task -> Calls], UNCHANGED mode, NEW t \in Task, Goto(t, Sync),
           \A u \in Task \ {t} : call[u] = Idle,
           mode.db => list' = RowsOf(db'), OneRuleEach(list')
    PROVE  CInv'
<1>1. Sync \in Calls /\ Sync.pc = "sync" /\ Sync # Idle  BY CallIs DEF Sync, Idle
<1>2. /\ mode.db => OrderFits(Sync, list', db')
      /\ KeysFit(Sync, list', db')
  BY <1>1 DEF OrderFits, KeysFit
<1>3. Sync.pc # "apply"  BY <1>1
<1> QED  BY <1>1, <1>2, <1>3, CStep

\* That a key is free is said of the list.
LEMMA KeyFreeIn ==
    \A rule, id : KeyFree(rule, id) <=> FreeIn(list, rule, id)
BY DEF KeyFree, FreeIn

\* A new rule.
LEMMA InsertCalm ==
    ASSUME TInv, CInv, calm', UNCHANGED mode, NEW t \in Task, NEW rule \in Rule, NEW x \in Id,
           KeyFree(rule, 0), Insert(t, rule, x)
    PROVE  CInv'
<1> DEFINE e == [id |-> x, rule |-> rule, enabled |-> TRUE]
           row == [rule |-> rule, enabled |-> TRUE]
           tidy == \A other \in Ids(list) : other < x
<1>1. /\ Begin(t, {x}, tidy, Sync) /\ list' = Append(list, e)
      /\ mode.db => db' = [db EXCEPT ![x] = row]
  BY DEF Insert, NewRow
<1>2. {x} \in SUBSET Id  OBVIOUS
<1>t. \A other \in Ids(list) : other < x  BY DEF Insert, Begin
<1>3. e \in Entry /\ e.id = x /\ e.rule = rule /\ row \in Row
      /\ e = [id |-> x, rule |-> row.rule, enabled |-> row.enabled]
  BY DEF Entry, Row
<1> HIDE DEF e, row, tidy
<1>4. /\ Goto(t, Sync) /\ \A u \in Task \ {t} : call[u] = Idle
      /\ (mode.db => list = RowsOf(db)) /\ OneRuleEach(list)
  BY <1>1, <1>2, BeginCalm
<1>5. call \in [Task -> Calls] /\ list \in Seq(Entry) /\ db \in [Id -> Row \cup {NoRow}]
  BY Before
<1>6. FreeIn(list, e.rule, 0)  BY <1>3, KeyFreeIn
<1>7. OneRuleEach(list')  BY <1>1, <1>3, <1>4, <1>5, <1>6, AppendKeys
<1>8. ASSUME mode.db PROVE list' = RowsOf(db')
  <2>1. Ids(list) = Used(db)  BY <1>4, <1>5, <1>8, RowsType
  <2>2. \A id \in Used(db) : id < x  BY <1>t, <2>1
  <2>3. Append(RowsOf(db), e) = RowsOf([db EXCEPT ![x] = row])
    <3>1. /\ db \in [Id -> Row \cup {NoRow}] /\ row \in Row
          /\ e = [id |-> x, rule |-> row.rule, enabled |-> row.enabled]
      BY <1>3, <1>5
    <3> QED  BY <3>1, <2>2, AppendRows
  <2> QED  BY <1>1, <1>4, <1>8, <2>3
<1>9. mode.db => list' = RowsOf(db')  BY <1>8
<1>10. call \in [Task -> Calls] /\ Goto(t, Sync) /\ \A u \in Task \ {t} : call[u] = Idle
  BY <1>4, <1>5
<1> QED  BY <1>7, <1>9, <1>10, SyncCalm

\* A rule is replaced.
LEMMA ReplaceCalm ==
    ASSUME TInv, CInv, calm', UNCHANGED mode, NEW t \in Task, NEW rule \in Rule, NEW x \in Id,
           Replace(t, x, rule)
    PROVE  CInv'
<1> DEFINE b == EnabledIn(list, x)
           tidy == KeyFree(rule, x)
<1>1. /\ Begin(t, {x}, tidy, Sync) /\ x \in Ids(list)
      /\ db' = IF x \in InTable THEN [db EXCEPT ![x].rule = rule] ELSE db
      /\ list' = [i \in DOMAIN list |-> IF list[i].id = x
                                        THEN [id |-> x, rule |-> rule, enabled |-> b] ELSE list[i]]
  BY DEF Replace, Changed
<1>2. {x} \in SUBSET Id  OBVIOUS
<1>t. KeyFree(rule, x)  BY DEF Replace, Begin
<1>b. b <=> \E i \in DOMAIN list : list[i].id = x /\ list[i].enabled  BY DEF EnabledIn
<1>c. b \in BOOLEAN  BY DEF EnabledIn
<1> HIDE DEF b, tidy
<1>4. /\ Goto(t, Sync) /\ \A u \in Task \ {t} : call[u] = Idle
      /\ (mode.db => list = RowsOf(db)) /\ OneRuleEach(list)
  BY <1>1, <1>2, BeginCalm
<1>5. /\ call \in [Task -> Calls] /\ list \in Seq(Entry) /\ db \in [Id -> Row \cup {NoRow}]
      /\ Unique(list)
  BY Before
<1>6. OneRuleEach(list')
  <2>1. FreeIn(list, rule, x)  BY <1>t, KeyFreeIn
  <2>2. /\ DOMAIN list' = DOMAIN list
        /\ \A i \in DOMAIN list : /\ list[i].id = x => list'[i].rule = rule
                                  /\ list[i].id # x => list'[i].rule = list[i].rule
    BY <1>1
  <2> DEFINE q == list'
  <2>3. /\ DOMAIN q = DOMAIN list
        /\ \A i \in DOMAIN list : /\ list[i].id = x => q[i].rule = rule
                                  /\ list[i].id # x => q[i].rule = list[i].rule
    BY <2>2
  <2> HIDE DEF q
  <2>4. OneRuleEach(q)  BY <1>4, <1>5, <2>1, <2>3, ChangedKeys
  <2> QED  BY <2>4 DEF q
<1>8. ASSUME mode.db PROVE list' = RowsOf(db')
  <2>1. x \in Used(db) /\ list = RowsOf(db)
    BY <1>1, <1>4, <1>5, <1>8, RowsType
  <2>2. db[x] \in Row /\ x \in InTable  BY <1>5, <2>1 DEF Used, InTable
  <2> DEFINE row == [rule |-> rule, enabled |-> db[x].enabled]
  <2>a. [db[x] EXCEPT !.rule = rule] = row  BY <2>2 DEF Row
  <2>b. db' = [db EXCEPT ![x] = [db[x] EXCEPT !.rule = rule]]  BY <1>1, <2>2
  <2>3. /\ db' = [db EXCEPT ![x] = row] /\ row \in Row
        /\ row.rule = rule /\ row.enabled = db[x].enabled
    <3>1. db' = [db EXCEPT ![x] = row]  BY <2>a, <2>b
    <3>2. row \in Row  BY <2>2 DEF Row
    <3> QED  BY <3>1, <3>2
  <2>4. b = db[x].enabled
    <3>1. \A i \in DOMAIN list : list[i].id = x => list[i].enabled = db[x].enabled
      BY <2>1, Rowed
    <3>2. PICK i \in DOMAIN list : list[i].id = x  BY <1>1 DEF Ids
    <3>3. b <=> db[x].enabled  BY <1>b, <3>1, <3>2
    <3>4. db[x].enabled \in BOOLEAN  BY <2>2 DEF Row
    <3> QED  BY <1>c, <3>3, <3>4
  <2> HIDE DEF row
  <2>5. list' = [i \in DOMAIN list |->
                    IF list[i].id = x THEN [id |-> x, rule |-> row.rule, enabled |-> row.enabled]
                    ELSE list[i]]
    BY <1>1, <2>3, <2>4
  <2> DEFINE q == list'
  <2>6. LET s == RowsOf(db)
        IN  q = [i \in DOMAIN s |->
                    IF s[i].id = x THEN [id |-> x, rule |-> row.rule, enabled |-> row.enabled]
                    ELSE s[i]]
    BY <2>1, <2>5
  <2> HIDE DEF q
  <2>7. q = RowsOf([db EXCEPT ![x] = row])  BY <1>5, <2>1, <2>3, <2>6, ChangedRows
  <2> QED  BY <2>3, <2>7 DEF q
<1> QED  BY <1>4, <1>5, <1>6, <1>8, SyncCalm

\* A change of one field reaches rows and list alike.
LEMMA PatchedRows ==
    ASSUME NEW table \in [Id -> Row \cup {NoRow}], NEW c, c.id \in Id,
           c.field \in {"rule", "enabled"},
           c.value \in IF c.field = "rule" THEN Rule ELSE BOOLEAN, NEW new,
           new = IF c.id \in Used(table) THEN [table EXCEPT ![c.id][c.field] = c.value] ELSE table
    PROVE  Patched(RowsOf(table), c) = RowsOf(new)
<1> DEFINE s == RowsOf(table)
           q == Patched(s, c)
           x == c.id
           f == c.field
           v == c.value
           n == Cardinality(Used(table))
           e == [id |-> x, rule |-> table[x].rule, enabled |-> table[x].enabled]
           row == [table[x] EXCEPT ![f] = v]
<1>1. /\ n \in Nat /\ DOMAIN s = 1 .. n
      /\ \A i \in 1 .. n : s[i].id \in Used(table)
      /\ \A i \in 1 .. n : s[i] = [id |-> s[i].id, rule |-> table[s[i].id].rule,
                                   enabled |-> table[s[i].id].enabled]
  BY Rowed
<1>2. q = [i \in DOMAIN s |-> IF s[i].id = x THEN [s[i] EXCEPT ![f] = v] ELSE s[i]]
  BY DEF Patched
<1>3. \A i \in 1 .. n : s[i].id = x => s[i] = e  BY <1>1
<1>4. x \in Id /\ f \in {"rule", "enabled"} /\ v \in IF f = "rule" THEN Rule ELSE BOOLEAN
  OBVIOUS
<1>5. new = IF x \in Used(table) THEN [table EXCEPT ![x] = row] ELSE table  OBVIOUS
<1>6. x \in Used(table) => table[x] \in Row  BY <1>4 DEF Used
<1>7. CASE x \notin Used(table)
  <2>1. \A i \in DOMAIN s : s[i].id # x  BY <1>1, <1>7
  <2> HIDE DEF s, q
  <2>2. q = [i \in DOMAIN s |-> s[i]]  BY <1>2, <2>1
  <2>3. s = [i \in 1 .. n |-> s[i]]
    BY <1>1 DEF s, RowsOf
  <2>4. q = s  BY <1>1, <2>2, <2>3
  <2> QED  BY <1>5, <1>7, <2>4 DEF q, s
<1>8. CASE x \in Used(table)
  <2>1. row \in Row /\ [e EXCEPT ![f] = v] = [id |-> x, rule |-> row.rule, enabled |-> row.enabled]
    <3>0. table[x] = [rule |-> table[x].rule, enabled |-> table[x].enabled]
          /\ table[x].rule \in Rule /\ table[x].enabled \in BOOLEAN
      BY <1>6, <1>8 DEF Row
    <3>1. CASE f = "rule"
      <4>1. row = [rule |-> v, enabled |-> table[x].enabled]  BY <3>0, <3>1
      <4>2. [e EXCEPT ![f] = v] = [id |-> x, rule |-> v, enabled |-> table[x].enabled]
        BY <3>1
      <4>3. row.rule = v /\ row.enabled = table[x].enabled  BY <4>1
      <4>4. row \in Row  BY <1>4, <3>0, <3>1, <4>1 DEF Row
      <4> QED  BY <4>2, <4>3, <4>4
    <3>2. CASE f = "enabled"
      <4>1. row = [rule |-> table[x].rule, enabled |-> v]  BY <3>0, <3>2
      <4>2. [e EXCEPT ![f] = v] = [id |-> x, rule |-> table[x].rule, enabled |-> v]
        BY <3>2
      <4>3. row.rule = table[x].rule /\ row.enabled = v  BY <4>1
      <4>4. row \in Row  BY <1>4, <3>0, <3>2, <4>1 DEF Row
      <4> QED  BY <4>2, <4>3, <4>4
    <3> QED  BY <1>4, <3>1, <3>2
  <2> HIDE DEF row, e, q, s, x, f, v
  <2>2. q = [i \in DOMAIN s |->
                IF s[i].id = x THEN [id |-> x, rule |-> row.rule, enabled |-> row.enabled]
                ELSE s[i]]
    BY <1>1, <1>2, <1>3, <2>1
  <2>3. q = RowsOf([table EXCEPT ![x] = row])
    BY <1>8, <2>1, <2>2, ChangedRows DEF s
  <2> QED  BY <1>5, <1>8, <2>3 DEF q, s
<1> QED  BY <1>7, <1>8

\* A change begins.
LEMMA ChangeCalm ==
    ASSUME TInv, CInv, calm', UNCHANGED mode, NEW t \in Task, NEW x \in Id, NEW tidy,
           NEW field \in {"rule", "enabled"}, NEW value \in Rule \cup BOOLEAN,
           Change(t, x, tidy, field, value), field = "rule" => KeyFree(value, x)
    PROVE  CInv'
<1> DEFINE p == IF mode.db THEN "change" ELSE "changed"
           d == [pc |-> p, id |-> x, field |-> field, value |-> value]
<1>1. Begin(t, {x}, tidy, d) /\ UNCHANGED <<db, list>>  BY DEF Change
<1>2. /\ d \in Calls /\ d.pc = p /\ d.id = x /\ d.field = field /\ d.value = value
      /\ p \in {"change", "changed"} /\ (mode.db => p = "change")
  <2>1. p \in {"change", "changed"}  OBVIOUS
  <2> HIDE DEF p
  <2>2. d \in Calls  BY <2>1, CallIs
  <2> QED  BY <2>1, <2>2 DEF p
<1> HIDE DEF p, d
<1>3. {x} \in SUBSET Id  OBVIOUS
<1>4. /\ Goto(t, d) /\ \A u \in Task \ {t} : call[u] = Idle
      /\ (mode.db => list = RowsOf(db)) /\ OneRuleEach(list)
  BY <1>1, <1>3, BeginCalm
<1>5. mode.db => OrderFits(d, list', db')  BY <1>1, <1>2, <1>4 DEF OrderFits
<1>6. KeysFit(d, list', db')
  <2>1. field = "rule" => FreeIn(list, value, x)  BY KeyFreeIn
  <2>2. field = "rule" => FreeIn(list', d.value, d.id)  BY <1>1, <1>2, <2>1
  <2> QED  BY <1>2, <2>2 DEF KeysFit
<1>7. d.pc # "apply" /\ d # Idle  BY <1>2 DEF Idle
<1>8. OneRuleEach(list') /\ call \in [Task -> Calls]  BY <1>1, <1>4, Before
<1> QED  BY <1>2, <1>4, <1>5, <1>6, <1>7, <1>8, CStep

\* A change reaches the table.
LEMMA ChangeTableCalm ==
    ASSUME TInv, CInv, calm', UNCHANGED mode, NEW t \in Task, ChangeTable(t)
    PROVE  CInv'
<1> DEFINE c == call[t]
           d == [c EXCEPT !.pc = "changed"]
<1>1. /\ c.pc = "change" /\ Goto(t, d) /\ UNCHANGED <<list, calm>>
      /\ db' = IF c.id \in Used(db) THEN [db EXCEPT ![c.id][c.field] = c.value] ELSE db
  BY DEF ChangeTable, InTable
<1>c. c = call[t]  OBVIOUS
<1> HIDE DEF c
<1>2. /\ call \in [Task -> Calls] /\ c \in Calls /\ CallFits(c)
      /\ \A u \in Task \ {t} : call[u] = Idle
      /\ mode.db => OrderFits(c, list, db)
      /\ OneRuleEach(list) /\ KeysFit(c, list, db)
  BY <1>1, <1>c, MiddleCalm
<1>3. /\ d \in Calls
      /\ d = [pc |-> "changed", id |-> c.id, field |-> c.field, value |-> c.value]
  BY <1>1, <1>2, CallHolds
<1> HIDE DEF d
<1>4. d.pc = "changed" /\ d.id = c.id /\ d.field = c.field /\ d.value = c.value  BY <1>3
<1>5. /\ c.id \in Id /\ c.field \in {"rule", "enabled"}
      /\ c.value \in IF c.field = "rule" THEN Rule ELSE BOOLEAN
      /\ mode.db
  BY <1>1, <1>2, CallTypes DEF CallFits
<1>6. list = RowsOf(db)  BY <1>1, <1>2, <1>5 DEF OrderFits
<1>7. Patched(RowsOf(db), c) = RowsOf(db')
  <2> DEFINE new == db'
  <2>1. new = IF c.id \in Used(db) THEN [db EXCEPT ![c.id][c.field] = c.value] ELSE db
    BY <1>1
  <2>2. db \in [Id -> Row \cup {NoRow}]  BY Before
  <2> HIDE DEF new
  <2>3. Patched(RowsOf(db), c) = RowsOf(new)  BY <1>5, <2>1, <2>2, PatchedRows
  <2> QED  BY <2>3 DEF new
<1>8. Patched(list', d) = Patched(list, c)  BY <1>1, <1>4 DEF Patched
<1>9. OrderFits(d, list', db')  BY <1>4, <1>6, <1>7, <1>8 DEF OrderFits
<1>10. KeysFit(d, list', db')
  <2>1. d.field = "rule" => FreeIn(list', d.value, d.id)  BY <1>1, <1>2, <1>4 DEF KeysFit
  <2> QED  BY <1>4, <2>1 DEF KeysFit
<1>11. d.pc # "apply" /\ d # Idle /\ OneRuleEach(list')  BY <1>1, <1>2, <1>4 DEF Idle
<1> QED  BY <1>1, <1>2, <1>3, <1>9, <1>10, <1>11, CStep

\* A change reaches the list.
LEMMA ChangeListCalm ==
    ASSUME TInv, CInv, calm', UNCHANGED mode, NEW t \in Task, ChangeList(t)
    PROVE  CInv'
<1> DEFINE c == call[t]
<1>1. /\ c.pc = "changed" /\ Goto(t, Sync) /\ UNCHANGED <<db, calm>>
      /\ list' = Patched(list, c)
  BY DEF ChangeList, Patched
<1>c. c = call[t]  OBVIOUS
<1> HIDE DEF c
<1>2. /\ call \in [Task -> Calls] /\ c \in Calls /\ CallFits(c)
      /\ \A u \in Task \ {t} : call[u] = Idle
      /\ mode.db => OrderFits(c, list, db)
      /\ OneRuleEach(list) /\ KeysFit(c, list, db)
  BY <1>1, <1>c, MiddleCalm
<1>3. mode.db => list' = RowsOf(db')  BY <1>1, <1>2 DEF OrderFits
<1>5. c.field \in {"rule", "enabled"} BY <1>1, <1>2, CallTypes
<1>6. Unique(list) /\ \A i \in DOMAIN list : list[i] \in Entry  BY Before
<1> DEFINE q == list'
<1>7. q = [i \in DOMAIN list |-> IF list[i].id = c.id
                                 THEN [list[i] EXCEPT ![c.field] = c.value] ELSE list[i]]
  BY <1>1 DEF Patched
<1> HIDE DEF q
<1>8. CASE c.field = "rule"
  <2>1. \A i \in DOMAIN list : /\ list[i].id = c.id => q[i].rule = c.value
                               /\ list[i].id # c.id => q[i].rule = list[i].rule
    BY <1>6, <1>7, <1>8 DEF Entry
  <2>2. DOMAIN q = DOMAIN list  BY <1>7
  <2>3. FreeIn(list, c.value, c.id)  BY <1>1, <1>2, <1>8 DEF KeysFit
  <2>4. OneRuleEach(q)  BY <1>2, <1>6, <2>1, <2>2, <2>3, ChangedKeys
  <2> QED  BY <1>1, <1>2, <1>3, <2>4, SyncCalm DEF q
<1>9. CASE c.field = "enabled"
  <2>1. DOMAIN q = DOMAIN list /\ \A i \in DOMAIN list : q[i].rule = list[i].rule
    BY <1>6, <1>7, <1>9 DEF Entry
  <2>2. OneRuleEach(q)  BY <1>2, <2>1 DEF OneRuleEach
  <2> QED  BY <1>1, <1>2, <1>3, <2>2, SyncCalm DEF q
<1> QED  BY <1>5, <1>8, <1>9

\* Rules are taken out of the list.
LEMMA DeleteCalm ==
    ASSUME TInv, CInv, calm', UNCHANGED mode, NEW t \in Task, NEW ids \in SUBSET Id, Delete(t, ids)
    PROVE  CInv'
<1> DEFINE c == IF mode.db THEN [pc |-> "delete", todo |-> ids] ELSE Sync
           P == {i \in DOMAIN list : list[i].id \notin ids}
<1>1. Begin(t, ids, TRUE, c) /\ list' = Picked(list, P) /\ db' = db  BY DEF Delete
<1>2. /\ c \in Calls /\ c.pc \in {"delete", "sync"} /\ c # Idle
      /\ mode.db => c.pc = "delete" /\ c.todo = ids
  BY CallIs DEF Sync, Idle
<1> HIDE DEF c
<1>3. /\ Goto(t, c) /\ \A u \in Task \ {t} : call[u] = Idle
      /\ (mode.db => list = RowsOf(db)) /\ OneRuleEach(list)
  BY <1>1, BeginCalm
<1>4. /\ call \in [Task -> Calls] /\ list \in Seq(Entry) /\ db \in [Id -> Row \cup {NoRow}]
      /\ P \in SUBSET DOMAIN list
  BY Before
<1>5. mode.db => list' = RowsOf(Cleared(db, ids))  BY <1>1, <1>3, <1>4, PickedRows
<1> HIDE DEF P
<1>6. OneRuleEach(list')  BY <1>1, <1>3, <1>4, PickedKeys
<1>7. mode.db => OrderFits(c, list', db')  BY <1>1, <1>2, <1>5 DEF OrderFits
<1>8. KeysFit(c, list', db') /\ c.pc # "apply"  BY <1>2 DEF KeysFit
<1> QED  BY <1>2, <1>3, <1>4, <1>6, <1>7, <1>8, CStep

\* A row is deleted.
LEMMA DeleteRowCalm ==
    ASSUME TInv, CInv, calm', UNCHANGED mode, NEW t \in Task, NEW x \in Id, DeleteRow(t, x)
    PROVE  CInv'
<1> DEFINE c == call[t]
           d == IF c.todo = {x} THEN Sync ELSE [c EXCEPT !.todo = @ \ {x}]
           left == c.todo \ {x}
<1>1. /\ c.pc = "delete" /\ Goto(t, d) /\ UNCHANGED <<list, calm>>
      /\ db' = [db EXCEPT ![x] = NoRow] /\ x \in c.todo
  BY DEF DeleteRow
<1>c. c = call[t] /\ left = c.todo \ {x}  OBVIOUS
<1>d. /\ c.todo = {x} => d = Sync
      /\ c.todo # {x} => d = [c EXCEPT !.todo = left]
  OBVIOUS
<1> HIDE DEF c, d, left
<1>2. /\ call \in [Task -> Calls] /\ c \in Calls /\ CallFits(c)
      /\ \A u \in Task \ {t} : call[u] = Idle
      /\ mode.db => OrderFits(c, list, db)
      /\ OneRuleEach(list)
  BY <1>1, <1>c, MiddleCalm
<1>3. mode.db /\ left \in SUBSET Id  BY <1>1, <1>2, <1>c, CallTypes DEF CallFits
<1>4. list' = RowsOf(Cleared(db, c.todo))  BY <1>1, <1>2, <1>3 DEF OrderFits
<1>5. db \in [Id -> Row \cup {NoRow}]  BY Before
<1>6. \A id \in Id : db'[id] = IF id = x THEN NoRow ELSE db[id]  BY <1>1, <1>5
<1>7. Cleared(db, c.todo) = Cleared(db', left)  BY <1>1, <1>6, <1>c DEF Cleared
<1>8. OneRuleEach(list')  BY <1>1, <1>2
<1>9. CASE c.todo = {x}
  <2>1. Cleared(db, c.todo) = db'
    <3>1. \A id \in Id : db'[id] = IF id \in c.todo THEN NoRow ELSE db[id]  BY <1>6, <1>9
    <3>2. db' = [id \in Id |-> db'[id]]  BY <1>1, <1>5
    <3> QED  BY <3>1, <3>2 DEF Cleared
  <2>2. list' = RowsOf(db')  BY <1>4, <2>1
  <2> QED  BY <1>1, <1>2, <1>8, <1>9, <1>d, <2>2, SyncCalm
<1>10. CASE c.todo # {x}
  <2>1. d \in Calls /\ d.pc = "delete" /\ d.todo = left
    <3>1. d = [c EXCEPT !.todo = left]  BY <1>10, <1>d
    <3>2. \A ids \in SUBSET Id :
             /\ [c EXCEPT !.todo = ids] \in Calls
             /\ [c EXCEPT !.todo = ids].pc = "delete" /\ [c EXCEPT !.todo = ids].todo = ids
      BY <1>1, <1>2, CallHolds
    <3> QED  BY <1>3, <3>1, <3>2
  <2>2. OrderFits(d, list', db')  BY <1>4, <1>7, <2>1 DEF OrderFits
  <2>3. KeysFit(d, list', db') /\ d.pc # "apply" /\ d # Idle  BY <2>1 DEF KeysFit, Idle
  <2> QED  BY <1>1, <1>2, <1>8, <2>1, <2>2, <2>3, CStep
<1> QED  BY <1>9, <1>10

\* Two ids are exchanged in the table: no key is lost or comes to be twice.
LEMMA SwapCalm ==
    ASSUME TInv, CInv, calm', UNCHANGED mode, NEW t \in Task, NEW a \in Id, NEW b \in Id,
           Swap(t, a, b)
    PROVE  CInv'
<1> DEFINE ids == {a, b}
           d == [pc |-> "load", ids |-> ids]
           new == [db EXCEPT ![a] = db[b], ![b] = db[a]]
<1>1. /\ Begin(t, Id, TRUE, d) /\ list' = list /\ db' = new
      /\ mode.db /\ a \in Used(db) /\ b \in Used(db)
  BY DEF Swap, InTable
<1>2. d \in Calls /\ d.pc = "load"
  <2>1. ids \in SUBSET Id  OBVIOUS
  <2> HIDE DEF ids
  <2> QED  BY <2>1, CallIs
<1> HIDE DEF d, ids
<1>3. Id \in SUBSET Id  OBVIOUS
<1>4. /\ Goto(t, d) /\ \A u \in Task \ {t} : call[u] = Idle
      /\ (mode.db => list = RowsOf(db)) /\ OneRuleEach(list)
  BY <1>1, <1>3, BeginCalm
<1>5. call \in [Task -> Calls] /\ db \in [Id -> Row \cup {NoRow}]  BY Before
<1>6. OneRuleEach(RowsOf(new))
  <2>1. KeysApart(db)  BY <1>1, <1>4, KeysOfRows
  <2>2. KeysApart(new)  BY <1>1, <1>5, <2>1, SwapKeys
  <2> QED  BY <2>2, KeysOfRows
<1> HIDE DEF new
<1>7. KeysFit(d, list', db')  BY <1>1, <1>2, <1>6 DEF KeysFit
<1>8. OrderFits(d, list', db') /\ d.pc # "apply" /\ d # Idle  BY <1>2 DEF OrderFits, Idle
<1>9. OneRuleEach(list')  BY <1>1, <1>4
<1> QED  BY <1>2, <1>4, <1>5, <1>7, <1>8, <1>9, CStep

\* The table is read back.
LEMMA SwapLoadCalm ==
    ASSUME TInv, CInv, calm', UNCHANGED mode, NEW t \in Task, SwapLoad(t)
    PROVE  CInv'
<1> DEFINE c == call[t]
           d == [pc |-> "assign", rows |-> Rows]
<1>1. c.pc = "load" /\ Goto(t, d) /\ UNCHANGED <<db, list, calm>>  BY DEF SwapLoad
<1>2. Rows \in BoundedSeq(Entry, MaxId)  BY Before, RowsType DEF Rows
<1>3. d \in Calls /\ d.pc = "assign" /\ d.rows = RowsOf(db)  BY <1>2, CallIs DEF Rows
<1>c. c = call[t]  OBVIOUS
<1> HIDE DEF c, d
<1>4. /\ call \in [Task -> Calls] /\ \A u \in Task \ {t} : call[u] = Idle
      /\ OneRuleEach(list) /\ KeysFit(c, list, db)
  BY <1>1, <1>c, MiddleCalm
<1>5. OneRuleEach(RowsOf(db))  BY <1>1, <1>4 DEF KeysFit
<1>6. OrderFits(d, list', db') /\ KeysFit(d, list', db')
  BY <1>1, <1>3, <1>5 DEF OrderFits, KeysFit
<1>7. d.pc # "apply" /\ d # Idle /\ OneRuleEach(list')  BY <1>1, <1>3, <1>4 DEF Idle
<1> QED  BY <1>1, <1>3, <1>4, <1>6, <1>7, CStep

\* It becomes the list.
LEMMA SwapAssignCalm ==
    ASSUME TInv, CInv, calm', UNCHANGED mode, NEW t \in Task, SwapAssign(t)
    PROVE  CInv'
<1> DEFINE c == call[t]
<1>1. c.pc = "assign" /\ Goto(t, Sync) /\ UNCHANGED <<db, calm>> /\ list' = c.rows
  BY DEF SwapAssign
<1>c. c = call[t]  OBVIOUS
<1> HIDE DEF c
<1>2. /\ call \in [Task -> Calls] /\ \A u \in Task \ {t} : call[u] = Idle
      /\ mode.db => OrderFits(c, list, db)
      /\ KeysFit(c, list, db)
  BY <1>1, <1>c, MiddleCalm
<1>3. (mode.db => list' = RowsOf(db')) /\ OneRuleEach(list')
  BY <1>1, <1>2 DEF OrderFits, KeysFit
<1> QED  BY <1>1, <1>2, <1>3, SyncCalm

\* The list is handed over.
LEMMA SnapshotCalm ==
    ASSUME TInv, CInv, calm', UNCHANGED mode, NEW t \in Task, Snapshot(t)
    PROVE  CInv'
<1> DEFINE c == call[t]
           d == [pc |-> "apply", rules |-> Enabled(list)]
<1>1. c.pc = "sync" /\ Goto(t, d) /\ UNCHANGED <<db, list, calm>>  BY DEF Snapshot
<1>2. Enabled(list) \in BoundedSeq(Rule, MaxId)  BY EnabledType DEF TInv, Types
<1>3. d \in Calls /\ d.pc = "apply" /\ d.rules = Enabled(list)  BY <1>2, CallIs
<1>c. c = call[t]  OBVIOUS
<1> HIDE DEF c, d
<1>4. /\ call \in [Task -> Calls] /\ \A u \in Task \ {t} : call[u] = Idle
      /\ mode.db => OrderFits(c, list, db)
      /\ OneRuleEach(list)
  BY <1>1, <1>c, MiddleCalm
<1>5. mode.db => list = RowsOf(db)  BY <1>1, <1>4 DEF OrderFits
<1>6. (mode.db => OrderFits(d, list', db')) /\ KeysFit(d, list', db')
  BY <1>1, <1>3, <1>5 DEF OrderFits, KeysFit
<1>7. d # Idle /\ OneRuleEach(list') /\ d.rules = Enabled(list')
  BY <1>1, <1>3, <1>4 DEF Idle
<1> QED  BY <1>1, <1>3, <1>4, <1>6, <1>7, CStep

\* The kernel has it, or is known not to.
LEMMA ApplyCalm ==
    ASSUME TInv, CInv, calm', UNCHANGED mode, NEW t \in Task, Apply(t) \/ Abandon(t)
    PROVE  CInv'
<1> DEFINE c == call[t]
<1>1. /\ c.pc = "apply" /\ Goto(t, Idle) /\ UNCHANGED <<db, list, calm>>
      /\ synced' => kernel' = Installed(c.rules)
  BY DEF Apply, Abandon, Handover
<1>c. c = call[t]  OBVIOUS
<1> HIDE DEF c
<1>2. /\ call \in [Task -> Calls] /\ \A u \in Task \ {t} : call[u] = Idle
      /\ mode.db => OrderFits(c, list, db)
      /\ c.rules = Enabled(list)
      /\ OneRuleEach(list)
  BY <1>1, <1>c, MiddleCalm
<1>3. mode.db => list' = RowsOf(db')  BY <1>1, <1>2 DEF OrderFits
<1>4. synced' => kernel' = Installed(Enabled(list'))  BY <1>1, <1>2
<1>5. OneRuleEach(list') /\ Idle \in Calls /\ Idle.pc # "apply"  BY <1>1, <1>2, CallIs DEF Idle
<1> QED  BY <1>1, <1>2, <1>3, <1>4, <1>5, IdleFits, CStep

\* A Suricata rule is looked for in the list.
LEMMA AddSuriRuleCalm ==
    ASSUME TInv, CInv, calm', UNCHANGED mode, NEW t \in Task, NEW rule \in Rule,
           AddSuriRule(t, rule)
    PROVE  CInv'
<1> DEFINE d == [pc |-> "add", rule |-> rule]
<1>1. KeyFree(rule, 0) /\ Begin(t, {}, TRUE, d) /\ UNCHANGED <<db, list>>  BY DEF AddSuriRule
<1>2. d \in Calls /\ d.pc = "add" /\ d.rule = rule  BY CallIs
<1> HIDE DEF d
<1>3. {} \in SUBSET Id  OBVIOUS
<1>4. /\ Goto(t, d) /\ \A u \in Task \ {t} : call[u] = Idle
      /\ (mode.db => list = RowsOf(db)) /\ OneRuleEach(list)
  BY <1>1, <1>3, BeginCalm
<1>5. mode.db => OrderFits(d, list', db')  BY <1>1, <1>2, <1>4 DEF OrderFits
<1>6. FreeIn(list', d.rule, 0)
  <2>1. FreeIn(list, rule, 0)  BY <1>1, KeyFreeIn
  <2> QED  BY <1>1, <1>2, <2>1
<1>7. KeysFit(d, list', db')  BY <1>2, <1>6 DEF KeysFit
<1>8. d.pc # "apply" /\ d # Idle  BY <1>2 DEF Idle
<1>9. OneRuleEach(list') /\ call \in [Task -> Calls]  BY <1>1, <1>4, Before
<1> QED  BY <1>2, <1>4, <1>5, <1>7, <1>8, <1>9, CStep

\* It gets its row.
LEMMA AddSuriRowCalm ==
    ASSUME TInv, CInv, calm', UNCHANGED mode, NEW t \in Task, AddSuriRow(t)
    PROVE  CInv'
<1> DEFINE c == call[t]
           x == seq + 1
           row == [rule |-> c.rule, enabled |-> TRUE]
           e == [id |-> x, rule |-> c.rule, enabled |-> TRUE]
           d == [pc |-> "added", id |-> x, rule |-> c.rule]
<1>1. /\ c.pc = "add" /\ x \in Id /\ Goto(t, d) /\ UNCHANGED <<list, calm>>
      /\ mode.db => db' = [db EXCEPT ![x] = row]
  <2>1. x \in Id  BY Before DEF AddSuriRow, Id
  <2> QED  BY <2>1 DEF AddSuriRow, NewRow
<1>c. c = call[t]  OBVIOUS
<1>x. \A id \in Used(db) : id < x
  <2>1. \A id \in Used(db) : id \in Nat  BY IdTypes DEF Used
  <2>2. seq \in Nat /\ \A id \in Used(db) : id <= seq  BY Before
  <2> QED  BY <2>1, <2>2
<1> HIDE DEF c
<1>2. /\ call \in [Task -> Calls] /\ c \in Calls /\ \A u \in Task \ {t} : call[u] = Idle
      /\ mode.db => OrderFits(c, list, db)
      /\ OneRuleEach(list) /\ KeysFit(c, list, db)
  BY <1>1, <1>c, MiddleCalm
<1>3. c.rule \in Rule  BY <1>1, <1>2, CallTypes
<1>4. d \in Calls /\ d.pc = "added" /\ d.id = x /\ d.rule = c.rule  BY <1>1, <1>3, CallIs
<1>5. row \in Row /\ e = [id |-> x, rule |-> row.rule, enabled |-> row.enabled] /\ e.id = x
  BY <1>3 DEF Row
<1>6. db \in [Id -> Row \cup {NoRow}]  BY Before
<1>e. e = [id |-> d.id, rule |-> d.rule, enabled |-> TRUE]  BY <1>4
<1> HIDE DEF x, row, e, d
<1>7. ASSUME mode.db PROVE Append(list, e) = RowsOf(db')
  <2>1. list = RowsOf(db)  BY <1>1, <1>2, <1>7 DEF OrderFits
  <2>2. Append(RowsOf(db), e) = RowsOf([db EXCEPT ![x] = row])
    BY <1>1, <1>5, <1>6, <1>x, AppendRows
  <2> QED  BY <1>1, <1>7, <2>1, <2>2
<1>8. mode.db => OrderFits(d, list', db')
  <2>1. mode.db => Append(list', [id |-> d.id, rule |-> d.rule, enabled |-> TRUE]) = RowsOf(db')
    BY <1>1, <1>7, <1>e
  <2> QED  BY <1>4, <2>1 DEF OrderFits
<1>9. KeysFit(d, list', db')
  <2>1. FreeIn(list', d.rule, 0)  BY <1>1, <1>2, <1>4 DEF KeysFit
  <2> QED  BY <1>4, <2>1 DEF KeysFit
<1>10. d.pc # "apply" /\ d # Idle /\ OneRuleEach(list')  BY <1>1, <1>2, <1>4 DEF Idle
<1> QED  BY <1>1, <1>2, <1>4, <1>8, <1>9, <1>10, CStep

\* It comes into the list.
LEMMA AddSuriPushCalm ==
    ASSUME TInv, CInv, calm', UNCHANGED mode, NEW t \in Task, AddSuriPush(t)
    PROVE  CInv'
<1> DEFINE c == call[t]
           e == [id |-> c.id, rule |-> c.rule, enabled |-> TRUE]
<1>1. c.pc = "added" /\ Goto(t, Sync) /\ UNCHANGED <<db, calm>> /\ list' = Append(list, e)
  BY DEF AddSuriPush
<1>c. c = call[t]  OBVIOUS
<1> HIDE DEF c
<1>2. /\ call \in [Task -> Calls] /\ c \in Calls /\ \A u \in Task \ {t} : call[u] = Idle
      /\ mode.db => OrderFits(c, list, db)
      /\ OneRuleEach(list) /\ KeysFit(c, list, db)
  BY <1>1, <1>c, MiddleCalm
<1>3. e \in Entry /\ e.rule = c.rule  BY <1>1, <1>2, CallTypes DEF Entry
<1>4. mode.db => list' = RowsOf(db')  BY <1>1, <1>2 DEF OrderFits
<1> HIDE DEF e
<1>5. FreeIn(list, e.rule, 0)  BY <1>1, <1>2, <1>3 DEF KeysFit
<1>6. list \in Seq(Entry)  BY Before
<1>7. OneRuleEach(list')  BY <1>1, <1>2, <1>3, <1>5, <1>6, AppendKeys
<1> QED  BY <1>1, <1>2, <1>4, <1>7, SyncCalm

\* A start hands over what it read.
ReadCalm ==
    /\ call = [t \in Task |-> Idle]
    /\ list = Rows /\ (synced => kernel = Installed(Enabled(list))) /\ OneRuleEach(list)

\* A start that is calm leaves kernel, list and table in agreement.
LEMMA StartCalm == (calm => ReadCalm) => CInv
<1> SUFFICES ASSUME calm, ReadCalm PROVE CInv
  BY DEF CInv
<1>1. \A t \in Task : call[t] = Idle  BY DEF ReadCalm
<1>2. \A t \in Task : /\ OrderFits(call[t], list, db) /\ KeysFit(call[t], list, db)
                      /\ call[t].pc # "apply"
  BY <1>1, IdleFits DEF Idle
<1> QED  BY <1>1, <1>2 DEF CInv, ReadCalm

\* The first start.
LEMMA InitCalm == Init => CInv
BY StartCalm DEF Init, ReadCalm

\* Calm keeps what it says.
LEMMA NextCalm == TInv /\ CInv /\ [Next]_vars => CInv'
<1> SUFFICES ASSUME TInv, CInv, [Next]_vars PROVE CInv'
  OBVIOUS
<1>1. CASE Restart /\ UNCHANGED mode
  <2>1. /\ call' = [t \in Task |-> Idle] /\ (synced' => kernel' = Installed(Enabled(list')))
        /\ calm' = (list' = RowsOf(db') /\ OneRuleEach(list'))
    BY <1>1 DEF Restart, Handover
  <2>2. RowsOf(db') = Rows' /\ Enabled(list)' = Enabled(list')
    BY DEF Rows, RowsOf, InOrder, Used, Enabled, Picked
  <2>3. Installed(Enabled(list))' = Installed(Enabled(list'))  BY <1>1, <2>2 DEF Installed
  <2>4. OneRuleEach(list)' <=> OneRuleEach(list')  BY <1>1 DEF OneRuleEach
  <2>5. calm' => ReadCalm'  BY <2>1, <2>2, <2>3, <2>4 DEF ReadCalm, Idle
  <2>6. (calm => ReadCalm)'  BY <2>5
  <2> QED  BY <2>6, StartCalm, PTL
<1>2. ASSUME NEW t \in Task, Call(t) \/ Step(t), UNCHANGED mode PROVE CInv'
  <2> SUFFICES ASSUME calm' PROVE CInv'
    BY DEF CInv
  <2>1. CASE \E rule \in Rule, id \in Id : KeyFree(rule, 0) /\ Insert(t, rule, id)
    BY <1>2, <2>1, InsertCalm
  <2>2. CASE \E rule \in Rule, id \in Id : Replace(t, id, rule)  BY <1>2, <2>2, ReplaceCalm
  <2>3. CASE \E id \in Id, value \in BOOLEAN : Change(t, id, TRUE, "enabled", value)
    <3>1. PICK id \in Id, value \in BOOLEAN : Change(t, id, TRUE, "enabled", value)  BY <2>3
    <3>2. value \in Rule \cup BOOLEAN /\ "enabled" \in {"rule", "enabled"} /\ "enabled" # "rule"
      OBVIOUS
    <3> QED  BY <1>2, <3>1, <3>2, ChangeCalm
  <2>4. CASE \E id \in Id, value \in Rule : Change(t, id, KeyFree(value, id), "rule", value)
    <3>1. PICK id \in Id, value \in Rule : Change(t, id, KeyFree(value, id), "rule", value)
      BY <2>4
    <3> DEFINE tidy == KeyFree(value, id)
    <3>2. value \in Rule \cup BOOLEAN /\ "rule" \in {"rule", "enabled"}  OBVIOUS
    <3>3. Change(t, id, tidy, "rule", value) /\ KeyFree(value, id)
      BY <3>1 DEF Change, Begin
    <3> HIDE DEF tidy
    <3> QED  BY <1>2, <3>2, <3>3, ChangeCalm
  <2>5. CASE \E ids : Fails(t, ids)  BY <2>5 DEF Fails
  <2>6. CASE \E a, b \in Id : SwapInMemory(t, a, b)  BY <2>6 DEF SwapInMemory, Begin
  <2>7. CASE \E ids \in SUBSET Id : Delete(t, ids)  BY <1>2, <2>7, DeleteCalm
  <2>8. CASE \E id \in Id : DeleteRow(t, id)  BY <1>2, <2>8, DeleteRowCalm
  <2>9. CASE \E a, b \in Id : Swap(t, a, b)  BY <1>2, <2>9, SwapCalm
  <2>10. CASE \E rule \in Rule : AddSuriRule(t, rule)  BY <1>2, <2>10, AddSuriRuleCalm
  <2> QED
    BY <1>2, <2>1, <2>2, <2>3, <2>4, <2>5, <2>6, <2>7, <2>8, <2>9, <2>10, StepCases,
       ChangeTableCalm, ChangeListCalm, SwapLoadCalm, SwapAssignCalm, SnapshotCalm, AddSuriRowCalm,
       AddSuriPushCalm
<1>3. CASE UNCHANGED vars
  <2>1. UNCHANGED <<mode, db, list, kernel, call, calm, synced>>  BY <1>3 DEF vars
  <2>2. /\ OneRuleEach(list)' <=> OneRuleEach(list)
        /\ Rows' = Rows /\ Enabled(list)' = Enabled(list) /\ (AllIdle' <=> AllIdle)
    BY <2>1 DEF OneRuleEach, Rows, RowsOf, InOrder, Used, Enabled, Picked, AllIdle, Idle
  <2>3. Installed(Enabled(list))' = Installed(Enabled(list))  BY <2>1, <2>2 DEF Installed
  <2>4. \A t \in Task : /\ OrderFits(call[t], list, db)' <=> OrderFits(call[t], list, db)
                        /\ KeysFit(call[t], list, db)' <=> KeysFit(call[t], list, db)
    <3>1. ASSUME NEW t \in Task
          PROVE  OrderFits(call[t], list, db)' <=> OrderFits(call[t], list, db)
      <4>1. RowsOf(db)' = RowsOf(db)  BY <2>1 DEF RowsOf, InOrder, Used
      <4>2. RowsOf(Cleared(db, call[t].todo))' = RowsOf(Cleared(db, call[t].todo))
        BY <2>1 DEF RowsOf, InOrder, Used, Cleared
      <4>3. Patched(list, call[t])' = Patched(list, call[t])  BY <2>1 DEF Patched
      <4> QED  BY <2>1, <4>1, <4>2, <4>3 DEF OrderFits
    <3>2. ASSUME NEW t \in Task
          PROVE  KeysFit(call[t], list, db)' <=> KeysFit(call[t], list, db)
      <4>1. RowsOf(db)' = RowsOf(db)  BY <2>1 DEF RowsOf, InOrder, Used
      <4>2. OneRuleEach(RowsOf(db))' <=> OneRuleEach(RowsOf(db))
        BY <2>1, <4>1 DEF OneRuleEach
      <4>3. OneRuleEach(call[t].rows)' <=> OneRuleEach(call[t].rows)
        BY <2>1 DEF OneRuleEach
      <4>4. /\ FreeIn(list, call[t].rule, 0)' <=> FreeIn(list, call[t].rule, 0)
            /\ FreeIn(list, call[t].value, call[t].id)'
                  <=> FreeIn(list, call[t].value, call[t].id)
        BY <2>1 DEF FreeIn
      <4> QED  BY <2>1, <4>2, <4>3, <4>4 DEF KeysFit
    <3> QED  BY <3>1, <3>2
  <2>5. (\A t, u \in Task : call[t] # Idle /\ call[u] # Idle => t = u)'
        <=> \A t, u \in Task : call[t] # Idle /\ call[u] # Idle => t = u
    BY <2>1 DEF Idle
  <2> QED  BY <2>1, <2>2, <2>3, <2>4, <2>5 DEF CInv
<1>4. ASSUME NEW t \in Task, Apply(t) \/ Abandon(t), UNCHANGED mode PROVE CInv'
  <2> SUFFICES ASSUME calm' PROVE CInv'
    BY DEF CInv
  <2> QED  BY <1>4, ApplyCalm
<1> QED  BY <1>1, <1>2, <1>3, <1>4 DEF Next

\* As long as calls come one at a time, the list is the table in the order of its ids, and
\* the kernel enforces just the enabled rules of it, in that order, unless the rewriting
\* asked for last failed part-way or was given up with its call (CalmAgree), whatever the
\* calls are and wherever the daemon was stopped.
THEOREM CalmCorrect == Spec => []CalmAgree
<1>1. CInv => CalmAgree  BY DEF CInv, CalmAgree
<1> QED  BY <1>1, InitTypes, InitCalm, NextTypes, NextCalm, PTL DEF Spec

\* As long as calls come one at a time no two rules have one key (CalmUnique): no change,
\* no exchange of ids and no start brings a key in twice.
THEOREM KeysCorrect == Spec => []CalmUnique
<1>1. CInv => CalmUnique  BY DEF CInv, CalmUnique
<1> QED  BY <1>1, InitTypes, InitCalm, NextTypes, NextCalm, PTL DEF Spec
=============================================================================
