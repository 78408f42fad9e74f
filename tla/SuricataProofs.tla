----------------------------- MODULE SuricataProofs -----------------------------
(***************************************************************************)
(* Proofs about what the daemon takes from Suricata, SuricataEvents, and   *)
(* what it leaves to it, Prefilter.                                        *)
(*                                                                         *)
(* The readers of the records.  The file holds the records since its last  *)
(* renewal, each in two parts, so a position in it is a line between       *)
(* records; the inductive invariant says which records before and after    *)
(* the place of either reader it has passed on, and how often.             *)
(***************************************************************************)
EXTENDS SuricataEvents, Prefilter, FiniteSetTheorems, TLAPS

\* A sequence of parts holds the records after b up to w, each with its head before
\* its rest, the last one perhaps without its rest.
InFull(parts, b, w) ==
    /\ Len(parts) \in {2 * (w - b), 2 * (w - b) - 1}
    /\ \A r \in b + 1 .. w :
          /\ parts[2 * (r - b) - 1] = <<r, "head">>
          /\ 2 * (r - b) <= Len(parts) => parts[2 * (r - b)] = <<r, "rest">>

\* The last record before the file: where it was renewed the last time.
Base == written - ((Len(file) + 1) \div 2)

\* The file holds the records since it was renewed.
FileInOrder ==
    /\ Base \in Nat /\ Base <= written
    /\ InFull(file, Base, written)

\* The alerts among some records, in order.
Alerts(records) == InOrder({r \in records : Log[r] = "alert"})

\* The types of the two readers.
ListenerType ==
    [pc : {"start", "socket", "closed", "tail", "read", "assign", "dead"},
     tries : 0 .. Tries, pos : 0 .. 2 * Len(Log), len : 0 .. 2 * Len(Log)]

AlertsType ==
    [pc : {"start", "socket", "closed", "file", "dead"}, tries : 0 .. Tries,
     pos : 0 .. 2 * Len(Log), of : {"path", "moved"}, behind : BOOLEAN]

\* What is left of the attempts of the alert reader.
AttemptsLeft ==
    /\ alerts.pc \in {"socket", "closed"} /\ config.file => alerts.tries < Tries
    /\ ~config.file => alerts.tries = 0

\* What was handed over is complete, in order, and lies before the place of the alert
\* reader in the file it has open.
HandedTo(b) == \A i \in DOMAIN handed : 2 * (handed[i] - b) - 1 <= alerts.pos

HandedInOrder ==
    /\ \A i, j \in DOMAIN handed : i < j => handed[i] < handed[j]
    /\ \A i \in DOMAIN handed : 2 * (handed[i] - Base) <= Len(file)
    /\ alerts.pc = "file" /\ alerts.of = "path" => HandedTo(Base)
    /\ alerts.of = "moved" =>
          /\ alerts.pc = "file"
          /\ \E b, w \in Nat : b <= w /\ w <= Base /\ InFull(moved, b, w) /\ HandedTo(b)

\* Where the listener stands in a file that was renewed since it last looked.
Place(pos) == IF renewed THEN 0 ELSE pos

Ahead(r, pos) == 2 * (r - Base) - 1 > Place(pos)
Once(r)       == learnt[r] <= IF r \in late THEN 1 ELSE 0

\* A record that is not complete has not been learnt; one that lies ahead of the
\* listener's place was learnt only by a reading that went past the length asked for.
LearntInOrder ==
    \A r \in Record :
        /\ learnt[r] <= IF r \in late THEN 2 ELSE 1
        /\ 2 * (r - Base) > Len(file) => learnt[r] = 0 /\ r \notin late
        /\ listener.pc \in {"tail", "read"} /\ Ahead(r, listener.pos) => Once(r)
        /\ listener.pc = "read" /\ Ahead(r, listener.len) =>
              learnt[r] = 0 /\ (2 * (r - Base) <= Len(file) => r \in late)
        /\ listener.pc = "assign" /\ Ahead(r, listener.len) => Once(r)

\* A record of the file that begins before a position is learnt or excused.
Passed(r, pos) == r > Base /\ 2 * (r - Base) - 1 <= pos => learnt[r] > 0 \/ r \in excused

\* As long as the file is not renewed, all before the listener's place is learnt or
\* excused, and so is the record the length asked for cuts.
NoneLost ==
    ~renewed =>
        /\ listener.pc \in {"tail", "read"} =>
              listener.pos <= Len(file) /\ \A r \in Record : Passed(r, listener.pos)
        /\ listener.pc \in {"read", "assign"} => listener.len <= Len(file)
        /\ listener.pc = "read" =>
              \A r \in Record : 2 * (r - Base) - 1 = listener.len => r \in excused
        /\ listener.pc = "assign" => \A r \in Record : Passed(r, listener.len)

-----------------------------------------------------------------------------
\* A number rounded up to an even one is that or the next.
LEMMA HalfOf ==
    ASSUME NEW i \in Int, NEW h \in Int, 2 * h <= i + 1, i + 1 < 2 * h + 2
    PROVE  i = 2 * h - 1 \/ i = 2 * h
OBVIOUS

\* A position in the file is the head or the rest of one of its records.
LEMMA Positions ==
    ASSUME NEW f \in Seq(Part), NEW b \in Nat, NEW w \in Nat, b <= w, InFull(f, b, w),
           NEW i \in DOMAIN f
    PROVE  \E r \in b + 1 .. w :
               \/ i = 2 * (r - b) - 1 /\ f[i] = <<r, "head">>
               \/ i = 2 * (r - b) /\ f[i] = <<r, "rest">>
<1> DEFINE r == b + ((i + 1) \div 2)
<1>1. i \in Nat /\ 1 <= i /\ i <= Len(f) /\ Len(f) \in Nat
  OBVIOUS
<1>2. r \in b + 1 .. w /\ (i = 2 * (r - b) - 1 \/ i = 2 * (r - b))
  <2> DEFINE h == (i + 1) \div 2
  <2>1. h \in Int /\ 2 * h <= i + 1 /\ i + 1 < 2 * h + 2  BY <1>1
  <2>2. Len(f) = 2 * (w - b) \/ Len(f) = 2 * (w - b) - 1  BY DEF InFull
  <2> HIDE DEF h
  <2>a. i \in Int /\ 1 <= i /\ (i <= 2 * (w - b) \/ i <= 2 * (w - b) - 1)  BY <1>1, <2>2
  <2>b. i \in Int /\ h \in Int /\ 2 * h <= i + 1 /\ i + 1 < 2 * h + 2  BY <2>1, <2>a
  <2>c. i = 2 * h - 1 \/ i = 2 * h  BY <2>b, HalfOf
  <2>d. h >= 1 /\ h <= w - b  BY <2>a, <2>b, <2>c
  <2>3. h >= 1 /\ h <= w - b /\ (i = 2 * h - 1 \/ i = 2 * h)  BY <2>c, <2>d
  <2>4. r = b + h  BY DEF h
  <2> HIDE DEF r
  <2> QED  BY <2>1, <2>3, <2>4
<1>3. f[2 * (r - b) - 1] = <<r, "head">>
      /\ (2 * (r - b) <= Len(f) => f[2 * (r - b)] = <<r, "rest">>)
  BY <1>2 DEF InFull
<1> HIDE DEF r
<1> QED  BY <1>1, <1>2, <1>3

\* Which parts lie between two positions.
LEMMA PartsBetween ==
    ASSUME NEW f \in Seq(Part), NEW b \in Nat, NEW w \in Nat, b <= w, InFull(f, b, w),
           NEW p \in Nat, NEW q \in 0 .. Len(f), NEW r
    PROVE  /\ <<r, "head">> \in Range(SubSeq(f, p + 1, q)) <=>
                  r \in b + 1 .. w /\ 2 * (r - b) - 1 > p /\ 2 * (r - b) - 1 <= q
           /\ <<r, "rest">> \in Range(SubSeq(f, p + 1, q)) <=>
                  r \in b + 1 .. w /\ 2 * (r - b) > p /\ 2 * (r - b) <= q
<1> DEFINE s == SubSeq(f, p + 1, q)
<1>0. q \in Nat /\ q <= Len(f) /\ Len(f) \in Nat /\ DOMAIN f = 1 .. Len(f)
  OBVIOUS
<1>1. DOMAIN s = 1 .. (q - p) /\ \A j \in 1 .. (q - p) : s[j] = f[p + j]
  BY <1>0
<1>2. \A x : x \in Range(s) <=> \E i \in p + 1 .. q : x = f[i]
  <2>1. \A x : x \in Range(s) <=> \E j \in 1 .. (q - p) : x = f[p + j]
    BY <1>1 DEF Range
  <2>2. ASSUME NEW i \in p + 1 .. q PROVE i - p \in 1 .. (q - p) /\ p + (i - p) = i
    BY <1>0
  <2>3. ASSUME NEW j \in 1 .. (q - p) PROVE p + j \in p + 1 .. q
    BY <1>0
  <2> QED  BY <2>1, <2>2, <2>3
<1> HIDE DEF s
<1>3. ASSUME <<r, "head">> \in Range(s)
      PROVE  r \in b + 1 .. w /\ 2 * (r - b) - 1 > p /\ 2 * (r - b) - 1 <= q
  <2>1. PICK i \in p + 1 .. q : <<r, "head">> = f[i]  BY <1>2, <1>3
  <2>2. i \in DOMAIN f  BY <1>0
  <2>3. PICK k \in b + 1 .. w : \/ i = 2 * (k - b) - 1 /\ f[i] = <<k, "head">>
                                \/ i = 2 * (k - b) /\ f[i] = <<k, "rest">>
    BY <2>2, Positions
  <2>4. k = r /\ i = 2 * (k - b) - 1  BY <2>1, <2>3
  <2> QED  BY <2>4
<1>4. ASSUME <<r, "rest">> \in Range(s)
      PROVE  r \in b + 1 .. w /\ 2 * (r - b) > p /\ 2 * (r - b) <= q
  <2>1. PICK i \in p + 1 .. q : <<r, "rest">> = f[i]  BY <1>2, <1>4
  <2>2. i \in DOMAIN f  BY <1>0
  <2>3. PICK k \in b + 1 .. w : \/ i = 2 * (k - b) - 1 /\ f[i] = <<k, "head">>
                                \/ i = 2 * (k - b) /\ f[i] = <<k, "rest">>
    BY <2>2, Positions
  <2>4. k = r /\ i = 2 * (k - b)  BY <2>1, <2>3
  <2> QED  BY <2>4
<1>5. ASSUME r \in b + 1 .. w, 2 * (r - b) - 1 > p, 2 * (r - b) - 1 <= q
      PROVE  <<r, "head">> \in Range(s)
  <2>1. f[2 * (r - b) - 1] = <<r, "head">>
    BY <1>5 DEF InFull
  <2>2. 2 * (r - b) - 1 \in p + 1 .. q
    BY <1>5, <1>0
  <2> QED  BY <2>1, <2>2, <1>2
<1>6. ASSUME r \in b + 1 .. w, 2 * (r - b) > p, 2 * (r - b) <= q
      PROVE  <<r, "rest">> \in Range(s)
  <2>1. 2 * (r - b) <= Len(f)
    BY <1>6, <1>0
  <2>3. f[2 * (r - b)] = <<r, "rest">>
    BY <1>6, <2>1 DEF InFull
  <2>2. 2 * (r - b) \in p + 1 .. q
    BY <1>6, <1>0
  <2> QED  BY <2>2, <2>3, <1>2
<1> QED  BY <1>3, <1>4, <1>5, <1>6 DEF s

\* The records that lie whole between two positions.
LEMMA WholeBetween ==
    ASSUME NEW f \in Seq(Part), NEW b \in Nat, NEW w \in Nat, b <= w, InFull(f, b, w),
           w <= Len(Log), NEW p \in Nat, NEW q \in 0 .. Len(f), NEW r
    PROVE  r \in Whole(SubSeq(f, p + 1, q)) <=>
               r \in b + 1 .. w /\ 2 * (r - b) - 1 > p /\ 2 * (r - b) <= q
<1> DEFINE s == SubSeq(f, p + 1, q)
<1>1. /\ <<r, "head">> \in Range(s) <=>
              r \in b + 1 .. w /\ 2 * (r - b) - 1 > p /\ 2 * (r - b) - 1 <= q
      /\ <<r, "rest">> \in Range(s) <=>
              r \in b + 1 .. w /\ 2 * (r - b) > p /\ 2 * (r - b) <= q
  BY PartsBetween
<1> HIDE DEF s
<1>2. {<<r, "head">>, <<r, "rest">>} \subseteq Range(s) <=>
             r \in b + 1 .. w /\ 2 * (r - b) - 1 > p /\ 2 * (r - b) <= q
  <2>1. q \in Nat  OBVIOUS
  <2> QED  BY <1>1, <2>1
<1>3. r \in b + 1 .. w => r \in Record
  BY BoundsAssumption DEF Record
<1>4. r \in Whole(s) <=> r \in b + 1 .. w /\ 2 * (r - b) - 1 > p /\ 2 * (r - b) <= q
  BY <1>2, <1>3 DEF Whole
<1> QED  BY <1>4 DEF s

\* The records that are begun in a file, whole in it, half written, and those that lie
\* whole beyond a position.
LEMMA InFile ==
    ASSUME NEW f \in Seq(Part), NEW b \in Nat, NEW w \in Nat, b <= w, InFull(f, b, w),
           w <= Len(Log), NEW r
    PROVE  /\ r \in Begun(f) <=> r \in b + 1 .. w
           /\ r \in Whole(f) <=> r \in b + 1 .. w /\ 2 * (r - b) <= Len(f)
           /\ r \in Halves(f) <=> r \in b + 1 .. w /\ 2 * (r - b) > Len(f)
           /\ \A p \in Nat : r \in Whole(From(f, p)) <=>
                  r \in b + 1 .. w /\ 2 * (r - b) - 1 > p /\ 2 * (r - b) <= Len(f)
<1>1. Len(f) \in 0 .. Len(f) /\ Len(f) \in Nat
  OBVIOUS
<1>2. \A p \in Nat : r \in Whole(SubSeq(f, p + 1, Len(f))) <=>
          r \in b + 1 .. w /\ 2 * (r - b) - 1 > p /\ 2 * (r - b) <= Len(f)
  BY <1>1, WholeBetween
<1>3. SubSeq(f, 0 + 1, Len(f)) = f
  OBVIOUS
<1>4. r \in b + 1 .. w => 2 * (r - b) - 1 > 0
  OBVIOUS
<1>5. r \in Whole(f) <=> r \in b + 1 .. w /\ 2 * (r - b) <= Len(f)
  BY <1>2, <1>3, <1>4
<1>6. r \in Begun(f) <=> r \in b + 1 .. w
  <2>1. <<r, "head">> \in Range(SubSeq(f, 0 + 1, Len(f))) <=>
               r \in b + 1 .. w /\ 2 * (r - b) - 1 > 0 /\ 2 * (r - b) - 1 <= Len(f)
    BY <1>1, PartsBetween
  <2>2. r \in b + 1 .. w => 2 * (r - b) - 1 <= Len(f)
    BY DEF InFull
  <2>3. r \in b + 1 .. w => r \in Record
    BY BoundsAssumption DEF Record
  <2> QED  BY <1>3, <1>4, <2>1, <2>2, <2>3 DEF Begun
<1>7. r \in Halves(f) <=> r \in b + 1 .. w /\ 2 * (r - b) > Len(f)
  BY <1>1, <1>5, <1>6 DEF Halves
<1>8. \A p \in Nat : r \in Whole(From(f, p)) <=>
                  r \in b + 1 .. w /\ 2 * (r - b) - 1 > p /\ 2 * (r - b) <= Len(f)
  BY <1>2 DEF From
<1> QED  BY <1>5, <1>6, <1>7, <1>8

-----------------------------------------------------------------------------
\* Each place of a finite set of numbers is taken by one of them, and a greater number
\* has a greater place.
LEMMA Ranks ==
    ASSUME NEW S \in SUBSET Nat, IsFiniteSet(S)
    PROVE  /\ \A r, t \in S : r < t =>
                  Cardinality({q \in S : q <= r}) < Cardinality({q \in S : q <= t})
           /\ \A i \in 1 .. Cardinality(S) :
                  \E r \in S : Cardinality({q \in S : q <= r}) = i
<1> DEFINE Upto(r) == {q \in S : q <= r}
           n == Cardinality(S)
           rank == [r \in S |-> Cardinality(Upto(r))]
<1>1. ASSUME NEW r \in S
      PROVE  IsFiniteSet(Upto(r)) /\ Cardinality(Upto(r)) \in 1 .. n
  <2>1. Upto(r) \in SUBSET S /\ r \in Upto(r)  OBVIOUS
  <2> HIDE DEF Upto
  <2>2. IsFiniteSet(Upto(r)) /\ Cardinality(Upto(r)) <= n  BY <2>1, FS_Subset
  <2>3. Cardinality(Upto(r)) \in Nat /\ n \in Nat  BY <2>2, FS_CardinalityType
  <2>4. Cardinality(Upto(r)) # 0  BY <2>1, <2>2, FS_EmptySet
  <2> QED  BY <2>2, <2>3, <2>4
<1>2. ASSUME NEW r \in S, NEW t \in S, r < t
      PROVE  Cardinality(Upto(r)) < Cardinality(Upto(t))
  <2>0. r \in Nat /\ t \in Nat /\ \A q \in S : q \in Nat  OBVIOUS
  <2>a. \A q \in S : q <= r => q <= t  BY <2>0, <1>2
  <2>b. t <= t /\ ~(t <= r)  BY <2>0, <1>2
  <2>1. Upto(r) \in SUBSET Upto(t) /\ t \in Upto(t) /\ t \notin Upto(r)
    BY <2>a, <2>b
  <2>2. IsFiniteSet(Upto(t)) /\ Cardinality(Upto(r)) \in Nat /\ Cardinality(Upto(t)) \in Nat
    BY <1>1
  <2> HIDE DEF Upto
  <2>3. Cardinality(Upto(r)) <= Cardinality(Upto(t))
        /\ (Cardinality(Upto(t)) = Cardinality(Upto(r)) => Upto(t) = Upto(r))
    BY <2>1, <2>2, FS_Subset
  <2> QED  BY <2>1, <2>2, <2>3
<1>3. n \in Nat /\ IsFiniteSet(1 .. n) /\ Cardinality(1 .. n) = n
  <2>1. n \in Nat  BY FS_CardinalityType
  <2> HIDE DEF n
  <2> QED  BY <2>1, FS_Interval
<1>4. rank \in [S -> 1 .. n]
  BY <1>1
<1>5. ASSUME NEW r \in S, NEW t \in S, r # t PROVE rank[r] # rank[t]
  <2>1. r \in Nat /\ t \in Nat  OBVIOUS
  <2>2. Cardinality(Upto(r)) \in Nat /\ Cardinality(Upto(t)) \in Nat  BY <1>1
  <2>3. rank[r] = Cardinality(Upto(r)) /\ rank[t] = Cardinality(Upto(t))  OBVIOUS
  <2>4. r < t => Cardinality(Upto(r)) < Cardinality(Upto(t))  BY <1>2
  <2>5. t < r => Cardinality(Upto(t)) < Cardinality(Upto(r))  BY <1>2
  <2> HIDE DEF Upto, rank
  <2>6. r < t \/ t < r  BY <2>1, <1>5
  <2> QED  BY <2>2, <2>3, <2>4, <2>5, <2>6
<1> HIDE DEF rank
<1>6. rank \in Injection(S, 1 .. n)
  BY <1>4, <1>5 DEF Injection, IsInjective
<1>7. rank \in Surjection(S, 1 .. n)
  <2> DEFINE T == 1 .. n
  <2>1. rank \in Injection(S, T) /\ IsFiniteSet(T) /\ Cardinality(S) = Cardinality(T)
    BY <1>3, <1>6
  <2> HIDE DEF T
  <2>2. rank \in Surjection(S, T)  BY <2>1, FS_Injection
  <2> QED  BY <2>2 DEF T
<1>8. \A i \in 1 .. n : \E r \in S : rank[r] = i
  BY <1>7 DEF Surjection
<1>9. \A r \in S : rank[r] = Cardinality(Upto(r))
  BY DEF rank
<1> QED  BY <1>2, <1>8, <1>9

\* Records put in the order they were written.
LEMMA Ordered ==
    ASSUME NEW S \in SUBSET Nat, IsFiniteSet(S)
    PROVE  /\ InOrder(S) \in Seq(S)
           /\ \A i, j \in DOMAIN InOrder(S) : i < j => InOrder(S)[i] < InOrder(S)[j]
<1> DEFINE Rank(r) == Cardinality({q \in S : q <= r})
           n == Cardinality(S)
           s == InOrder(S)
<1>1. n \in Nat  BY FS_CardinalityType
<1>2. /\ \A r, t \in S : r < t => Rank(r) < Rank(t)
      /\ \A i \in 1 .. n : \E r \in S : Rank(r) = i
  BY Ranks
<1>3. s = [i \in 1 .. n |-> CHOOSE r \in S : Rank(r) = i]
  BY DEF InOrder
<1> HIDE DEF Rank, n, s
<1>4. ASSUME NEW i \in 1 .. n PROVE s[i] \in S /\ Rank(s[i]) = i
  <2>1. \E r \in S : Rank(r) = i  BY <1>2
  <2> DEFINE c == CHOOSE r \in S : Rank(r) = i
  <2>2. c \in S /\ Rank(c) = i  BY <2>1
  <2>3. s[i] = c  BY <1>3
  <2> HIDE DEF c
  <2> QED  BY <2>2, <2>3
<1>5. DOMAIN s = 1 .. n /\ s \in Seq(S)
  <2>1. DOMAIN s = 1 .. n /\ s \in [1 .. n -> S]  BY <1>3, <1>4
  <2> QED  BY <1>1, <2>1
<1>6. ASSUME NEW i \in 1 .. n, NEW j \in 1 .. n, i < j PROVE s[i] < s[j]
  <2>1. s[i] \in S /\ s[j] \in S /\ Rank(s[i]) = i /\ Rank(s[j]) = j  BY <1>4
  <2>2. s[i] \in Nat /\ s[j] \in Nat  BY <2>1
  <2>3. s[j] < s[i] => Rank(s[j]) < Rank(s[i])  BY <1>2, <2>1
  <2>4. s[j] # s[i]  BY <2>1, <1>6
  <2> QED  BY <2>1, <2>2, <2>3, <2>4, <1>6
<1> QED  BY <1>5, <1>6 DEF s

\* The alerts among records are a sequence of those records, in order.
LEMMA AlertsOf ==
    ASSUME NEW R \in SUBSET Record
    PROVE  /\ Alerts(R) \in Seq(Record)
           /\ \A i \in DOMAIN Alerts(R) : Alerts(R)[i] \in R
           /\ \A i, j \in DOMAIN Alerts(R) : i < j => Alerts(R)[i] < Alerts(R)[j]
<1> DEFINE S == {r \in R : Log[r] = "alert"}
           new == InOrder(S)
<1>1. S \in SUBSET R /\ S \in SUBSET Nat /\ IsFiniteSet(S)
  <2>1. Record = 1 .. Len(Log) /\ Len(Log) \in Nat  BY BoundsAssumption DEF Record
  <2>2. IsFiniteSet(Record)  BY <2>1, FS_Interval
  <2>3. S \in SUBSET Record  OBVIOUS
  <2> HIDE DEF S
  <2>4. IsFiniteSet(S)  BY <2>2, <2>3, FS_Subset
  <2>5. S \in SUBSET R  BY DEF S
  <2> QED  BY <2>1, <2>3, <2>4, <2>5
<1>2. Alerts(R) = new
  BY DEF Alerts
<1> HIDE DEF S
<1>3. new \in Seq(S) /\ \A i, j \in DOMAIN new : i < j => new[i] < new[j]
  BY <1>1, Ordered
<1> HIDE DEF new
<1>4. ASSUME NEW i \in DOMAIN new PROVE new[i] \in S /\ new[i] \in R
  <2>1. new \in Seq(S)  BY <1>3
  <2>2. new[i] \in S  BY <2>1
  <2> QED  BY <1>1, <2>2
<1>5. new \in Seq(Record)
  <2>1. new \in Seq(S)  BY <1>3
  <2>2. DOMAIN new = 1 .. Len(new) /\ Len(new) \in Nat /\ new = [i \in 1 .. Len(new) |-> new[i]]
    BY <2>1
  <2>3. \A i \in 1 .. Len(new) : new[i] \in Record  BY <1>4, <2>2
  <2> QED  BY <2>2, <2>3
<1> QED  BY <1>2, <1>3, <1>4, <1>5

\* Handing over records that come after all that were handed over keeps the order.
LEMMA HandedOver ==
    ASSUME handed \in Seq(Record), NEW R \in SUBSET Record, HandOver(R),
           \A i, j \in DOMAIN handed : i < j => handed[i] < handed[j],
           \A i \in DOMAIN handed : \A r \in R : handed[i] < r
    PROVE  /\ \A i, j \in DOMAIN handed' : i < j => handed'[i] < handed'[j]
           /\ \A i \in DOMAIN handed' :
                  handed'[i] \in R \/ \E j \in DOMAIN handed : handed'[i] = handed[j]
<1> DEFINE new == Alerts(R)
           m == Len(handed)
<1>2. handed' = handed \o new
  BY DEF HandOver, Alerts
<1> HIDE DEF new
<1>3. /\ \A i, j \in DOMAIN new : i < j => new[i] < new[j]
      /\ new \in Seq(Record)
  BY AlertsOf DEF new
<1>7. \A i \in DOMAIN new : new[i] \in R
  BY AlertsOf DEF new
<1>4. new \in Seq(Record) /\ handed' \in Seq(Record)
  BY <1>2, <1>3
<1>5. /\ m \in Nat /\ Len(new) \in Nat
      /\ DOMAIN handed = 1 .. m /\ DOMAIN new = 1 .. Len(new)
      /\ DOMAIN handed' = 1 .. (m + Len(new))
      /\ \A i \in 1 .. m : handed'[i] = handed[i]
      /\ \A i \in (m + 1) .. (m + Len(new)) : handed'[i] = new[i - m]
  BY <1>2, <1>4
<1> HIDE DEF m
<1>6. ASSUME NEW i \in DOMAIN handed' PROVE i \in 1 .. m \/ i - m \in DOMAIN new
  BY <1>5
<1>8. ASSUME NEW i \in DOMAIN handed'
      PROVE  handed'[i] \in R \/ \E j \in DOMAIN handed : handed'[i] = handed[j]
  <2>1. CASE i \in 1 .. m  BY <2>1, <1>5
  <2>2. CASE i \notin 1 .. m
    <3>1. i \in (m + 1) .. (m + Len(new)) /\ i - m \in DOMAIN new  BY <2>2, <1>5
    <3> QED  BY <3>1, <1>5, <1>7
  <2> QED  BY <2>1, <2>2
<1>9. ASSUME NEW i \in DOMAIN handed', NEW j \in DOMAIN handed', i < j
      PROVE  handed'[i] < handed'[j]
  <2>1. CASE j \in 1 .. m
    <3>1. i \in 1 .. m  BY <2>1, <1>5, <1>9
    <3> QED  BY <3>1, <2>1, <1>5, <1>9
  <2>2. CASE j \notin 1 .. m /\ i \in 1 .. m
    <3>1. j \in (m + 1) .. (m + Len(new)) /\ j - m \in DOMAIN new  BY <2>2, <1>5
    <3>2. handed'[j] \in R /\ handed'[i] = handed[i]  BY <3>1, <2>2, <1>5, <1>7
    <3> QED  BY <3>2, <2>2, <1>5
  <2>3. CASE j \notin 1 .. m /\ i \notin 1 .. m
    <3>1. /\ j \in (m + 1) .. (m + Len(new)) /\ j - m \in DOMAIN new
          /\ i \in (m + 1) .. (m + Len(new)) /\ i - m \in DOMAIN new
          /\ i - m < j - m
      BY <2>3, <1>5, <1>9
    <3> QED  BY <3>1, <1>3, <1>5
  <2> QED  BY <2>1, <2>2, <2>3
<1> QED  BY <1>8, <1>9

-----------------------------------------------------------------------------
\* The files are sequences of parts of bounded length.
LEMMA PartsAre ==
    \A f : f \in Parts <=> f \in Seq(Part) /\ Len(f) <= 2 * Len(Log)
<1>1. Len(Log) \in Nat  BY BoundsAssumption
<1>2. Parts = UNION {[1 .. m -> Part] : m \in 0 .. 2 * Len(Log)}
  BY DEF Parts, BoundedSeq, SeqOf
<1>3. ASSUME NEW f \in Parts PROVE f \in Seq(Part) /\ Len(f) <= 2 * Len(Log)
  <2>1. PICK m \in 0 .. 2 * Len(Log) : f \in [1 .. m -> Part]  BY <1>2
  <2>2. m \in Nat /\ m <= 2 * Len(Log)  BY <1>1
  <2>3. f \in Seq(Part) /\ Len(f) = m  BY <2>1, <2>2
  <2> QED  BY <2>2, <2>3
<1>4. ASSUME NEW f \in Seq(Part), Len(f) <= 2 * Len(Log) PROVE f \in Parts
  <2>1. Len(f) \in 0 .. 2 * Len(Log) /\ f \in [1 .. Len(f) -> Part]  BY <1>1, <1>4
  <2> QED  BY <1>2, <2>1
<1> QED  BY <1>3, <1>4

\* The last record before a file follows from its length.
LEMMA BaseIs ==
    ASSUME NEW w \in Nat, NEW b \in Nat, NEW l \in Nat,
           l \in {2 * (w - b), 2 * (w - b) - 1}
    PROVE  w - ((l + 1) \div 2) = b
OBVIOUS

\* The next record is begun only when the last one is whole.
LEMMA HeadWritten ==
    ASSUME TypeOK, FileInOrder, WriteHead
    PROVE  /\ Base' = Base /\ FileInOrder'
           /\ written' = written + 1 /\ written' <= Len(Log)
           /\ Len(file) = 2 * (written - Base) /\ Len(file') = Len(file) + 1
           /\ file' \in Seq(Part)
<1> DEFINE b == Base
<1>1. /\ written \in Nat /\ written <= Len(Log) /\ Len(Log) \in Nat /\ b \in Nat
      /\ b <= written /\ file \in Seq(Part) /\ Len(file) \in Nat /\ InFull(file, b, written)
  BY BoundsAssumption, PartsAre DEF TypeOK, FileInOrder
<1>2. /\ Halves(file) = {} /\ written < Len(Log) /\ written' = written + 1
      /\ file' = Append(file, <<written + 1, "head">>)
  BY DEF WriteHead
<1>b. Base' = written' - ((Len(file') + 1) \div 2)  BY DEF Base
<1> HIDE DEF b
<1>3. Len(file) = 2 * (written - b)
  <2>1. written \notin Halves(file)  BY <1>2
  <2>2. ~(written \in b + 1 .. written /\ 2 * (written - b) > Len(file))
    BY <1>1, <2>1, InFile
  <2>3. Len(file) = 2 * (written - b) \/ Len(file) = 2 * (written - b) - 1
    BY <1>1 DEF InFull
  <2> QED  BY <1>1, <2>2, <2>3
<1>4. <<written + 1, "head">> \in Part
  BY <1>1, <1>2 DEF Part, Record
<1>5. /\ file' \in Seq(Part) /\ Len(file') = Len(file) + 1
      /\ \A i \in 1 .. Len(file) : file'[i] = file[i]
      /\ file'[Len(file) + 1] = <<written + 1, "head">>
  <2>1. file \in Seq(Part) /\ file' = Append(file, <<written + 1, "head">>)  BY <1>1, <1>2
  <2> QED  BY <2>1, <1>4
<1>6. Len(file') \in Nat /\ Len(file') = 2 * (written' - b) - 1 /\ written' \in Nat
  BY <1>1, <1>2, <1>3, <1>5
<1>7. Base' = b
  <2>1. written' - ((Len(file') + 1) \div 2) = b
    <3>1. b \in Nat /\ written' \in Nat /\ Len(file') \in Nat  BY <1>1, <1>6
    <3>2. Len(file') \in {2 * (written' - b), 2 * (written' - b) - 1}  BY <1>6
    <3> QED  BY <3>1, <3>2, BaseIs
  <2> QED  BY <2>1, <1>b
<1>8. InFull(file', b, written')
  <2>1. ASSUME NEW r \in b + 1 .. written' PROVE file'[2 * (r - b) - 1] = <<r, "head">>
    <3>1. CASE r = written + 1
      <4>1. 2 * (r - b) - 1 = Len(file) + 1  BY <3>1, <1>1, <1>3
      <4> QED  BY <4>1, <3>1, <1>5
    <3>2. CASE r # written + 1
      <4>1. r \in b + 1 .. written /\ 2 * (r - b) - 1 \in 1 .. Len(file)
        BY <3>2, <1>1, <1>2, <1>3
      <4>2. file[2 * (r - b) - 1] = <<r, "head">>  BY <4>1, <1>1 DEF InFull
      <4> QED  BY <4>1, <4>2, <1>5
    <3> QED  BY <3>1, <3>2
  <2>2. ASSUME NEW r \in b + 1 .. written', 2 * (r - b) <= Len(file')
        PROVE  file'[2 * (r - b)] = <<r, "rest">>
    <3>1. r \in b + 1 .. written /\ 2 * (r - b) \in 1 .. Len(file)
      BY <2>2, <1>1, <1>2, <1>3, <1>5
    <3>2. file[2 * (r - b)] = <<r, "rest">>  BY <3>1, <1>1 DEF InFull
    <3> QED  BY <3>1, <3>2, <1>5
  <2> QED  BY <2>1, <2>2, <1>6 DEF InFull
<1>9. FileInOrder'
  <2>1. b <= written'  BY <1>1, <1>2
  <2> QED  BY <2>1, <1>1, <1>7, <1>8 DEF FileInOrder
<1>10. written' <= Len(Log)  BY <1>1, <1>2
<1> QED  BY <1>2, <1>3, <1>5, <1>7, <1>9, <1>10 DEF b

\* A record is completed where it was begun.
LEMMA RestWritten ==
    ASSUME TypeOK, FileInOrder, WriteRest
    PROVE  /\ Base' = Base /\ FileInOrder'
           /\ written' = written /\ Base < written
           /\ Len(file) = 2 * (written - Base) - 1 /\ Len(file') = Len(file) + 1
           /\ file' \in Seq(Part)
<1> DEFINE b == Base
<1>1. /\ written \in Nat /\ written <= Len(Log) /\ Len(Log) \in Nat /\ b \in Nat
      /\ b <= written /\ file \in Seq(Part) /\ Len(file) \in Nat /\ InFull(file, b, written)
  BY BoundsAssumption, PartsAre DEF TypeOK, FileInOrder
<1>2. /\ Halves(file) # {} /\ written' = written
      /\ file' = Append(file, <<written, "rest">>)
  BY DEF WriteRest
<1>b. Base' = written' - ((Len(file') + 1) \div 2)  BY DEF Base
<1> HIDE DEF b
<1>3. Len(file) = 2 * (written - b) - 1 /\ b < written
  <2>1. PICK r : r \in Halves(file)  BY <1>2
  <2>2. r \in b + 1 .. written /\ 2 * (r - b) > Len(file)
    BY <1>1, <2>1, InFile
  <2>3. Len(file) = 2 * (written - b) \/ Len(file) = 2 * (written - b) - 1
    BY <1>1 DEF InFull
  <2> QED  BY <1>1, <2>2, <2>3
<1>4. <<written, "rest">> \in Part
  BY <1>1, <1>3 DEF Part, Record
<1>5. /\ file' \in Seq(Part) /\ Len(file') = Len(file) + 1
      /\ \A i \in 1 .. Len(file) : file'[i] = file[i]
      /\ file'[Len(file) + 1] = <<written, "rest">>
  BY <1>1, <1>2, <1>4
<1>6. Len(file') \in Nat /\ Len(file') = 2 * (written' - b) /\ written' \in Nat
  BY <1>1, <1>2, <1>3, <1>5
<1>7. Base' = b
  <2>1. written' - ((Len(file') + 1) \div 2) = b
    <3>1. b \in Nat /\ written' \in Nat /\ Len(file') \in Nat  BY <1>1, <1>6
    <3>2. Len(file') \in {2 * (written' - b), 2 * (written' - b) - 1}  BY <1>6
    <3> QED  BY <3>1, <3>2, BaseIs
  <2> QED  BY <2>1, <1>b
<1>8. InFull(file', b, written')
  <2>1. ASSUME NEW r \in b + 1 .. written' PROVE file'[2 * (r - b) - 1] = <<r, "head">>
    <3>1. r \in b + 1 .. written /\ 2 * (r - b) - 1 \in 1 .. Len(file)
      BY <1>1, <1>2, <1>3
    <3>2. file[2 * (r - b) - 1] = <<r, "head">>  BY <3>1, <1>1 DEF InFull
    <3> QED  BY <3>1, <3>2, <1>5
  <2>2. ASSUME NEW r \in b + 1 .. written', 2 * (r - b) <= Len(file')
        PROVE  file'[2 * (r - b)] = <<r, "rest">>
    <3>1. CASE r = written
      <4>1. 2 * (r - b) = Len(file) + 1  BY <3>1, <1>1, <1>3
      <4> QED  BY <4>1, <3>1, <1>5
    <3>2. CASE r # written
      <4>1. r \in b + 1 .. written /\ 2 * (r - b) \in 1 .. Len(file)
        BY <3>2, <1>1, <1>2, <1>3
      <4>2. file[2 * (r - b)] = <<r, "rest">>  BY <4>1, <1>1 DEF InFull
      <4> QED  BY <4>1, <4>2, <1>5
    <3> QED  BY <3>1, <3>2
  <2> QED  BY <2>1, <2>2, <1>6 DEF InFull
<1>9. FileInOrder'
  BY <1>1, <1>2, <1>7, <1>8 DEF FileInOrder
<1> QED  BY <1>2, <1>3, <1>5, <1>7, <1>9 DEF b

\* A file is renewed between two records.
LEMMA FileRenewed ==
    ASSUME TypeOK, FileInOrder, Renew
    PROVE  /\ Base' = written /\ FileInOrder'
           /\ written' = written
           /\ Len(file) = 2 * (written - Base) /\ file' = <<>> /\ Len(file') = 0
<1> DEFINE b == Base
<1>1. /\ written \in Nat /\ written <= Len(Log) /\ Len(Log) \in Nat /\ b \in Nat
      /\ b <= written /\ file \in Seq(Part) /\ Len(file) \in Nat /\ InFull(file, b, written)
  BY BoundsAssumption, PartsAre DEF TypeOK, FileInOrder
<1>2. Halves(file) = {} /\ written' = written /\ file' = <<>>
  BY DEF Renew
<1>b. Base' = written' - ((Len(file') + 1) \div 2)  BY DEF Base
<1> HIDE DEF b
<1>3. Len(file) = 2 * (written - b)
  <2>1. written \notin Halves(file)  BY <1>2
  <2>2. ~(written \in b + 1 .. written /\ 2 * (written - b) > Len(file))
    BY <1>1, <2>1, InFile
  <2>3. Len(file) = 2 * (written - b) \/ Len(file) = 2 * (written - b) - 1
    BY <1>1 DEF InFull
  <2> QED  BY <1>1, <2>2, <2>3
<1>4. Len(file') = 0 /\ Len(file') \in Nat /\ Len(file') = 2 * (written' - written)
      /\ written' \in Nat
  BY <1>1, <1>2
<1>5. Base' = written
  BY <1>1, <1>2, <1>4, <1>b
<1>6. InFull(file', written, written')
  <2>1. \A r \in written + 1 .. written' : FALSE  BY <1>1, <1>2
  <2> QED  BY <2>1, <1>4 DEF InFull
<1>7. FileInOrder'
  BY <1>1, <1>2, <1>5, <1>6 DEF FileInOrder
<1> QED  BY <1>2, <1>3, <1>4, <1>5, <1>7 DEF b

\* What is handed over are records.
LEMMA HandOverType ==
    ASSUME handed \in Seq(Record), NEW R \in SUBSET Record, HandOver(R)
    PROVE  handed' \in Seq(Record)
<1>1. handed' = handed \o Alerts(R)
  BY DEF HandOver, Alerts
<1>2. Alerts(R) \in Seq(Record)
  BY AlertsOf
<1> QED  BY <1>1, <1>2

\* Every step keeps the types, the shape of the file and the attempts.
LEMMA TypeStep ==
    ASSUME TypeOK, FileInOrder, AttemptsLeft, [Next]_vars
    PROVE  TypeOK' /\ FileInOrder' /\ AttemptsLeft'
<1>0. /\ Len(Log) \in Nat /\ Tries \in Nat \ {0} /\ Renewals \in Nat /\ Record = 1 .. Len(Log)
      /\ config \in [sock : BOOLEAN, file : BOOLEAN]
      /\ written \in Nat /\ file \in Seq(Part) /\ Len(file) \in 0 .. 2 * Len(Log)
      /\ moved \in Seq(Part) /\ Len(moved) \in 0 .. 2 * Len(Log)
      /\ listener \in ListenerType /\ alerts \in AlertsType
      /\ renewed \in BOOLEAN /\ learnt \in [Record -> Nat] /\ excused \subseteq Record
      /\ handed \in Seq(Record)
  <2>1. /\ Len(Log) \in Nat /\ Tries \in Nat \ {0} /\ Renewals \in Nat
        /\ Configs \subseteq [sock : BOOLEAN, file : BOOLEAN]
    BY BoundsAssumption
  <2>2. file \in Parts /\ moved \in Parts /\ config \in Configs /\ written \in Nat
    BY <2>1 DEF TypeOK
  <2>3. /\ file \in Seq(Part) /\ Len(file) <= 2 * Len(Log)
        /\ moved \in Seq(Part) /\ Len(moved) <= 2 * Len(Log)
    BY <2>2, PartsAre
  <2>4. listener \in ListenerType /\ alerts \in AlertsType
        /\ renewed \in BOOLEAN /\ learnt \in [Record -> Nat] /\ excused \subseteq Record
        /\ handed \in Seq(Record)
    BY DEF TypeOK, ListenerType, AlertsType
  <2>5. Len(file) \in Nat /\ Len(moved) \in Nat  BY <2>3
  <2> QED  BY <2>1, <2>2, <2>3, <2>4, <2>5 DEF Record
<1>p. <<>> \in Parts
  <2>1. <<>> \in Seq(Part) /\ Len(<<>>) = 0  OBVIOUS
  <2>2. Len(<<>>) <= 2 * Len(Log)  BY <2>1, <1>0
  <2> QED  BY <2>1, <2>2, PartsAre
<1>t. /\ 0 \in 0 .. 2 * Len(Log) /\ 0 \in 0 .. Tries /\ Tries \in Nat
      /\ listener \in ListenerType /\ alerts \in AlertsType
      /\ config.sock \in BOOLEAN /\ config.file \in BOOLEAN /\ Len(file) \in 0 .. 2 * Len(Log)
  BY <1>0
<1>r. Begun(file) \subseteq Record /\ Halves(file) \subseteq Record
      /\ \A f : Whole(f) \in SUBSET Record
  BY DEF Begun, Whole, Halves
<1>f. ASSUME UNCHANGED <<file, written>> PROVE FileInOrder'
  BY <1>f DEF FileInOrder, Base
<1>l. ASSUME listenerStep, listener' \in ListenerType, learnt' \in [Record -> Nat],
             excused' \subseteq Record, renewed' \in BOOLEAN
      PROVE  TypeOK' /\ FileInOrder' /\ AttemptsLeft'
  <2>1. UNCHANGED <<config, written, file, moved, exists, sock, renewals, alerts, handed, late>>
    BY <1>l DEF listenerStep, suricataVars
  <2>2. listener' \in ListenerType /\ late' \in SUBSET Record  BY <2>1, <1>l DEF TypeOK
  <2>3. TypeOK'  BY <2>1, <2>2, <1>l DEF TypeOK, ListenerType
  <2>4. AttemptsLeft'  BY <2>1 DEF AttemptsLeft
  <2>5. FileInOrder'  BY <2>1, <1>f
  <2> QED  BY <2>3, <2>4, <2>5
<1>a. ASSUME alertStep, alerts' \in AlertsType, AttemptsLeft', handed' \in Seq(Record)
      PROVE  TypeOK' /\ FileInOrder' /\ AttemptsLeft'
  <2>1. UNCHANGED <<config, written, file, moved, exists, sock, renewals, listener, learnt,
                    late, excused, renewed>>
    BY <1>a DEF alertStep, suricataVars
  <2>2. TypeOK'  BY <2>1, <1>a DEF TypeOK, AlertsType
  <2>3. FileInOrder'  BY <2>1, <1>f
  <2> QED  BY <2>2, <2>3, <1>a
<1>1. CASE Create
  BY <1>1, <1>f DEF Create, TypeOK, AttemptsLeft
<1>2. CASE WriteHead
  <2>1. FileInOrder' /\ file' \in Parts
    <3>1. /\ FileInOrder' /\ written' <= Len(Log) /\ Len(file) = 2 * (written - Base)
          /\ Len(file') = Len(file) + 1 /\ file' \in Seq(Part) /\ written' = written + 1
      BY <1>2, HeadWritten
    <3>2. Len(file') <= 2 * Len(Log)  BY <3>1, <1>0 DEF FileInOrder
    <3> QED  BY <3>1, <3>2, PartsAre
  <2>2. UNCHANGED <<config, moved, exists, sock, renewals, listener, alerts, learnt, handed,
                    late, excused, renewed>>
    BY <1>2 DEF WriteHead
  <2>3. written' \in 0 .. Len(Log)
    <3>1. written' = written + 1 /\ written < Len(Log)  BY <1>2 DEF WriteHead
    <3> QED  BY <3>1, <1>0
  <2>4. TypeOK'  BY <2>1, <2>2, <2>3 DEF TypeOK
  <2>5. AttemptsLeft'  BY <2>2 DEF AttemptsLeft
  <2> QED  BY <2>1, <2>4, <2>5
<1>3. CASE WriteRest
  <2>1. FileInOrder' /\ file' \in Parts /\ written \in Record
    <3>1. /\ FileInOrder' /\ Len(file) = 2 * (written - Base) - 1 /\ written' = written
          /\ Len(file') = Len(file) + 1 /\ file' \in Seq(Part) /\ Base < written
      BY <1>3, RestWritten
    <3>2. written <= Len(Log)  BY <1>0 DEF TypeOK
    <3>3. Len(file') <= 2 * Len(Log) /\ written \in Record
      BY <3>1, <3>2, <1>0 DEF FileInOrder
    <3> QED  BY <3>1, <3>3, PartsAre
  <2>2. learnt' \in [Record -> Nat]
    <3>1. learnt \in [Record -> Nat]  BY <1>0
    <3>2. CASE Process({written})  BY <3>1, <3>2 DEF Process
    <3> QED  BY <3>1, <3>2, <1>3 DEF WriteRest
  <2>3. handed' \in Seq(Record)
    <3>1. {written} \in SUBSET Record  BY <2>1
    <3>2. CASE HandOver({written})  BY <3>1, <3>2, <1>0, HandOverType
    <3> QED  BY <3>2, <1>0, <1>3 DEF WriteRest
  <2>4. UNCHANGED <<config, written, moved, exists, sock, renewals, listener, alerts,
                    excused, renewed>>
    BY <1>3 DEF WriteRest
  <2>5. late' \in SUBSET Record
    <3>1. late' = late \/ late' = late \cup {written}  BY <1>3 DEF WriteRest
    <3>2. late \in SUBSET Record  BY DEF TypeOK
    <3> QED  BY <3>1, <3>2, <2>1
  <2>a. config' \in Configs /\ written' \in 0 .. Len(Log) /\ moved' \in Parts
        /\ exists' \in BOOLEAN /\ sock' \in BOOLEAN /\ renewed' \in BOOLEAN
        /\ renewals' \in 0 .. Renewals /\ excused' \subseteq Record
        /\ listener' \in ListenerType /\ alerts' \in AlertsType
    BY <2>4 DEF TypeOK, ListenerType, AlertsType
  <2>6. TypeOK'  BY <2>1, <2>2, <2>3, <2>a, <2>5 DEF TypeOK, ListenerType, AlertsType
  <2>7. AttemptsLeft'  BY <2>4 DEF AttemptsLeft
  <2> QED  BY <2>1, <2>6, <2>7
<1>4. CASE Renew /\ (Rename \/ Truncate)
  <2>1. FileInOrder' /\ file' \in Parts /\ renewals' \in 0 .. Renewals
    <3>1. FileInOrder' /\ file' = <<>>  BY <1>4, FileRenewed
    <3>2. renewals' \in 0 .. Renewals
      <4>1. renewals' = renewals + 1 /\ renewals < Renewals  BY <1>4 DEF Renew
      <4>2. renewals \in 0 .. Renewals /\ Renewals \in Nat  BY <1>0 DEF TypeOK
      <4> QED  BY <4>1, <4>2
    <3> QED  BY <3>1, <3>2, <1>p
  <2>2. moved' \in Parts /\ AttemptsLeft' /\ alerts' \in AlertsType
    <3>1. moved \in Parts /\ file \in Parts  BY DEF TypeOK
    <3>2. alerts' \in AlertsType /\ alerts'.pc = alerts.pc /\ alerts'.tries = alerts.tries
      <4>1. CASE alerts' = alerts  BY <4>1, <1>0
      <4>2. CASE alerts' = [alerts EXCEPT !.of = "moved"]  BY <4>2, <1>0 DEF AlertsType
      <4>3. CASE alerts' = [alerts EXCEPT !.behind = TRUE]  BY <4>3, <1>0 DEF AlertsType
      <4> QED  BY <1>4, <4>1, <4>2, <4>3 DEF Rename, Truncate
    <3> QED  BY <3>1, <3>2, <1>4 DEF Rename, Truncate, Renew, AttemptsLeft
  <2>3. excused' \subseteq Record /\ renewed' \in BOOLEAN
        /\ UNCHANGED <<config, written, exists, sock, listener, learnt, handed, late>>
    BY <1>0, <1>r, <1>4 DEF Renew
  <2> QED  BY <2>1, <2>2, <2>3 DEF TypeOK, AlertsType
<1>5. CASE Listen
  BY <1>5, <1>f DEF Listen, TypeOK, AttemptsLeft
<1>6. CASE Close
  <2>1. listener' \in ListenerType
    BY <1>t, <1>6 DEF Close, Closed, ListenerType
  <2>2. alerts' \in AlertsType /\ AttemptsLeft'
    BY <1>t, <1>6 DEF Close, Closed, AlertsType, AttemptsLeft
  <2> QED  BY <2>1, <2>2, <1>6, <1>f DEF Close, TypeOK, ListenerType, AlertsType, AttemptsLeft
<1>7. CASE ListenerConnects
  <2>1. listener' \in ListenerType  BY <1>t, <1>7 DEF ListenerConnects, ListenerType
  <2> QED  BY <2>1, <1>0, <1>7, <1>l DEF ListenerConnects
<1>8. CASE ListenerFails
  <2>1. listener' \in ListenerType  BY <1>t, <1>8 DEF ListenerFails, ListenerType
  <2> QED  BY <2>1, <1>0, <1>8, <1>l DEF ListenerFails
<1>9. CASE ListenerTails
  <2>1. listener' \in ListenerType
    BY <1>t, <1>9 DEF ListenerTails, TailEveFile, Deaf, ListenerType
  <2>2. excused' \subseteq Record /\ renewed' \in BOOLEAN
    BY <1>0, <1>r, <1>9 DEF ListenerTails, TailEveFile, Deaf
  <2> QED  BY <2>1, <2>2, <1>0, <1>9, <1>l DEF ListenerTails
<1>10. CASE ListenerEnds
  <2>1. listener' \in ListenerType  BY <1>t, <1>10 DEF ListenerEnds, Deaf, ListenerType
  <2> QED  BY <2>1, <1>0, <1>10, <1>l DEF ListenerEnds, Deaf
<1>11. CASE Look
  <2>1. listener' \in ListenerType  BY <1>t, <1>11 DEF Look, ListenerType
  <2>2. excused' \subseteq Record  BY <1>0, <1>r, <1>11 DEF Look
  <2> QED  BY <2>1, <2>2, <1>0, <1>11, <1>l DEF Look
<1>12. CASE ReadLines
  <2>1. learnt' \in [Record -> Nat]
    BY <1>0, <1>12 DEF ReadLines, Process
  <2>2. listener' \in ListenerType  BY <1>t, <1>12 DEF ReadLines, ListenerType
  <2> QED  BY <2>1, <2>2, <1>0, <1>12, <1>l DEF ReadLines
<1>13. CASE AssignPos
  <2>1. listener' \in ListenerType  BY <1>t, <1>13 DEF AssignPos, ListenerType
  <2> QED  BY <2>1, <1>0, <1>13, <1>l DEF AssignPos
<1>14. CASE AlertsConnect
  <2>1. alerts' \in AlertsType /\ AttemptsLeft'
    BY <1>t, <1>14 DEF AlertsConnect, AlertsType, AttemptsLeft, alertStep
  <2> QED  BY <2>1, <1>0, <1>14, <1>a DEF AlertsConnect
<1>15. CASE AlertsFail
  <2>1. alerts' \in AlertsType /\ AttemptsLeft'
    BY <1>t, <1>15 DEF AlertsFail, AlertsType, AttemptsLeft, alertStep
  <2> QED  BY <2>1, <1>0, <1>15, <1>a DEF AlertsFail
<1>16. CASE AlertsTail
  <2>1. alerts' \in AlertsType /\ AttemptsLeft'
    BY <1>t, <1>16 DEF AlertsTail, FileLoop, AlertsType, AttemptsLeft, alertStep
  <2> QED  BY <2>1, <1>0, <1>16, <1>a DEF AlertsTail
<1>17. CASE NothingConfigured
  <2>1. alerts' \in AlertsType /\ AttemptsLeft'
    BY <1>t, <1>17 DEF NothingConfigured, AlertsType, AttemptsLeft, alertStep
  <2> QED  BY <2>1, <1>0, <1>17, <1>a DEF NothingConfigured
<1>18. CASE AlertsClosed
  <2>0. config' = config  BY <1>18 DEF AlertsClosed, alertStep
  <2>1. alerts' \in AlertsType /\ AttemptsLeft'
    <3>1. CASE config.file /\ exists
      <4>1. alerts' = [alerts EXCEPT !.pc = "file", !.tries = 0, !.pos = Len(file)]
        BY <1>18, <3>1 DEF AlertsClosed, FileLoop
      <4> QED  BY <1>t, <2>0, <3>1, <4>1 DEF AlertsType, AttemptsLeft
    <3>2. CASE ~(config.file /\ exists)
      <4>1. alerts' = [alerts EXCEPT !.pc = "start",
                          !.tries = IF config.file THEN alerts.tries + 1 ELSE alerts.tries]
            /\ alerts.pc = "closed"
        BY <1>18, <3>2 DEF AlertsClosed
      <4>2. alerts.tries \in 0 .. Tries /\ (config.file => alerts.tries < Tries)
            /\ (~config.file => alerts.tries = 0)
        BY <1>t, <4>1 DEF AttemptsLeft, AlertsType
      <4>3. (IF config.file THEN alerts.tries + 1 ELSE alerts.tries) \in 0 .. Tries
        BY <4>2, <1>t
      <4> QED  BY <1>t, <2>0, <4>1, <4>2, <4>3 DEF AlertsType, AttemptsLeft
    <3> QED  BY <3>1, <3>2
  <2> QED  BY <2>1, <1>0, <1>18, <1>a DEF AlertsClosed
<1>19. CASE ReadAlerts
  <2> DEFINE R == Whole(From(Opened, alerts.pos))
  <2>1. R \in SUBSET Record  BY <1>r
  <2>2. HandOver(R) /\ alerts' = [alerts EXCEPT !.pos = Len(Opened)] /\ alertStep
        /\ alerts.pc = "file"
    BY <1>19 DEF ReadAlerts
  <2> HIDE DEF R
  <2>3. handed' \in Seq(Record)  BY <2>1, <2>2, <1>0, HandOverType
  <2>4. Len(Opened) \in 0 .. 2 * Len(Log)  BY <1>0 DEF Opened
  <2>5. alerts' \in AlertsType /\ AttemptsLeft'
    BY <2>2, <2>4, <1>0 DEF AlertsType, AttemptsLeft, alertStep
  <2> QED  BY <2>2, <2>3, <2>5, <1>a
<1>20. CASE UNCHANGED vars
  BY <1>20, <1>f DEF vars, suricataVars, TypeOK, AttemptsLeft
<1> QED
  BY <1>1, <1>2, <1>3, <1>4, <1>5, <1>6, <1>7, <1>8, <1>9, <1>10, <1>11, <1>12, <1>13,
     <1>14, <1>15, <1>16, <1>17, <1>18, <1>19, <1>20
     DEF Next, Listener, AlertReader, Rename, Truncate

\* Every step keeps what is handed over in order.
LEMMA HandedStep ==
    ASSUME TypeOK, FileInOrder, FileInOrder', HandedInOrder, [Next]_vars
    PROVE  HandedInOrder'
<1>0. /\ Len(Log) \in Nat /\ written \in Nat /\ written <= Len(Log) /\ Record = 1 .. Len(Log)
      /\ file \in Seq(Part) /\ Len(file) \in Nat /\ moved \in Seq(Part) /\ Len(moved) \in Nat
      /\ Base \in Nat /\ Base <= written /\ InFull(file, Base, written)
      /\ alerts \in AlertsType /\ alerts.pos \in Nat
      /\ handed \in Seq(Record)
      /\ \A i \in DOMAIN handed : handed[i] \in Nat
  <2>1. Len(Log) \in Nat /\ file \in Parts /\ moved \in Parts /\ Record = 1 .. Len(Log)
    BY BoundsAssumption DEF TypeOK, Record
  <2>2. file \in Seq(Part) /\ moved \in Seq(Part)  BY <2>1, PartsAre
  <2>3. Len(file) \in Nat /\ Len(moved) \in Nat  BY <2>2
  <2>4. alerts \in AlertsType /\ handed \in Seq(Record)  BY DEF TypeOK, AlertsType
  <2>5. alerts.pos \in Nat  BY <2>1, <2>4 DEF AlertsType
  <2>6. \A i \in DOMAIN handed : handed[i] \in Record  BY <2>4
  <2>7. \A i \in DOMAIN handed : handed[i] \in Nat  BY <2>1, <2>6
  <2> QED  BY <2>1, <2>2, <2>3, <2>4, <2>5, <2>7 DEF FileInOrder, TypeOK
<1>1. /\ \A i, j \in DOMAIN handed : i < j => handed[i] < handed[j]
      /\ \A i \in DOMAIN handed : 2 * (handed[i] - Base) <= Len(file)
  BY DEF HandedInOrder
<1>b. ASSUME UNCHANGED <<file, written>> PROVE Base' = Base
  BY <1>b DEF Base
\* Steps that leave the alert reader and the files alone.
<1>2. ASSUME UNCHANGED <<file, written, moved, handed, alerts>> PROVE HandedInOrder'
  BY <1>2, <1>b DEF HandedInOrder, HandedTo
\* Steps of the alert reader that do not read, none of which is in the old file.
<1>3. ASSUME UNCHANGED <<file, written, moved, handed>>, alerts.pc # "file",
             alerts'.of = alerts.of, alerts'.pc # "file" \/ alerts'.pos = Len(file)
      PROVE  HandedInOrder'
  <2>1. alerts'.of # "moved"  BY <1>3 DEF HandedInOrder
  <2>2. ASSUME alerts'.pc = "file" PROVE HandedTo(Base)'
    <3>1. alerts'.pos = Len(file) /\ Base' = Base  BY <2>2, <1>3, <1>b
    <3>2. \A i \in DOMAIN handed : 2 * (handed[i] - Base) - 1 <= Len(file)
      BY <1>0, <1>1
    <3> QED  BY <3>1, <3>2, <1>3 DEF HandedTo
  <2> QED  BY <2>1, <2>2, <1>1, <1>3, <1>b DEF HandedInOrder
<1>4. CASE Create \/ Listen \/ listenerStep \/ UNCHANGED vars
  BY <1>4, <1>2 DEF Create, Listen, listenerStep, suricataVars, vars
<1>5. CASE Close
  <2>1. CASE alerts.pc = "socket"
    <3>1. UNCHANGED <<file, written, moved, handed>> /\ alerts'.of = alerts.of
          /\ alerts'.pc = "closed"
      BY <1>0, <1>5, <2>1 DEF Close, Closed, AlertsType
    <3> QED  BY <3>1, <2>1, <1>3
  <2>2. CASE alerts.pc # "socket"
    BY <2>2, <1>5, <1>2 DEF Close, Closed
  <2> QED  BY <2>1, <2>2
<1>6. CASE WriteHead
  <2>1. Base' = Base /\ Len(file') = Len(file) + 1  BY <1>6, HeadWritten
  <2>2. UNCHANGED <<moved, handed, alerts>>  BY <1>6 DEF WriteHead
  <2>3. \A i \in DOMAIN handed : 2 * (handed[i] - Base) <= Len(file) + 1
    BY <1>0, <1>1
  <2> QED  BY <2>1, <2>2, <2>3 DEF HandedInOrder, HandedTo
<1>7. CASE WriteRest
  <2>1. /\ Base' = Base /\ Len(file') = Len(file) + 1
        /\ Len(file) = 2 * (written - Base) - 1 /\ Base < written
    BY <1>7, RestWritten
  <2>2. UNCHANGED <<moved, alerts>>  BY <1>7 DEF WriteRest
  <2>3. \A i \in DOMAIN handed : 2 * (handed[i] - Base) <= Len(file) + 1
    BY <1>0, <1>1
  <2>4. CASE alerts.pc # "socket"
    <3>1. handed' = handed  BY <2>4, <1>7 DEF WriteRest
    <3> QED  BY <2>1, <2>2, <2>3, <3>1 DEF HandedInOrder, HandedTo
  <2>5. CASE alerts.pc = "socket"
    <3>1. HandOver({written})  BY <2>5, <1>7 DEF WriteRest
    <3>2. {written} \in SUBSET Record  BY <2>1, <1>0
    <3>3. \A i \in DOMAIN handed : \A r \in {written} : handed[i] < r
      <4>1. ASSUME NEW i \in DOMAIN handed PROVE handed[i] < written
        BY <4>1, <2>1, <1>0, <1>1
      <4> QED  BY <4>1
    <3>4. /\ \A i, j \in DOMAIN handed' : i < j => handed'[i] < handed'[j]
          /\ \A i \in DOMAIN handed' :
                handed'[i] = written \/ \E j \in DOMAIN handed : handed'[i] = handed[j]
      <4> DEFINE R == {written}
      <4>1. /\ HandOver(R) /\ R \in SUBSET Record
            /\ \A i \in DOMAIN handed : \A r \in R : handed[i] < r
        BY <3>1, <3>2, <3>3
      <4>2. \A r \in R : r = written  OBVIOUS
      <4> HIDE DEF R
      <4> QED  BY <4>1, <4>2, <1>0, <1>1, HandedOver
    <3>5. \A i \in DOMAIN handed' : 2 * (handed'[i] - Base) <= Len(file) + 1
      <4> TAKE i \in DOMAIN handed'
      <4>1. CASE handed'[i] = written  BY <4>1, <2>1, <1>0
      <4>2. CASE \E j \in DOMAIN handed : handed'[i] = handed[j]  BY <4>2, <2>3
      <4> QED  BY <4>1, <4>2, <3>4
    <3>6. alerts'.pc # "file" /\ alerts'.of # "moved"  BY <2>2, <2>5 DEF HandedInOrder
    <3> QED  BY <2>1, <3>4, <3>5, <3>6 DEF HandedInOrder
  <2> QED  BY <2>4, <2>5
<1>8. CASE Rename \/ Truncate
  <2>1. Renew /\ handed' = handed  BY <1>8 DEF Rename, Truncate, Renew
  <2>2. Base' = written /\ Len(file) = 2 * (written - Base) /\ Len(file') = 0
    BY <2>1, FileRenewed
  <2>3. \A i \in DOMAIN handed : handed[i] <= written
    BY <2>2, <1>0, <1>1
  <2>4. \A i \in DOMAIN handed : 2 * (handed[i] - written) <= 0
    BY <2>3, <1>0
  <2>5. \A i \in DOMAIN handed : 2 * (handed[i] - written) - 1 <= alerts.pos
    <3>1. ASSUME NEW i \in DOMAIN handed PROVE 2 * (handed[i] - written) - 1 <= alerts.pos
      <4>1. 2 * (handed[i] - written) <= 0 /\ handed[i] \in Nat  BY <2>4, <1>0
      <4>2. alerts.pos \in Nat /\ written \in Nat  BY <1>0
      <4> QED  BY <4>1, <4>2
    <3> QED  BY <3>1
  <2>6. /\ \A i, j \in DOMAIN handed' : i < j => handed'[i] < handed'[j]
        /\ \A i \in DOMAIN handed' : 2 * (handed'[i] - Base') <= Len(file')
    BY <1>1, <2>1, <2>2, <2>4
  <2>7. CASE Rename /\ alerts.pc = "file" /\ alerts.of = "path"
    <3>1. /\ moved' = file /\ alerts'.pc = "file" /\ alerts'.of = "moved"
          /\ alerts'.pos = alerts.pos
      BY <2>7, <1>0 DEF Rename, AlertsType
    <3>2. HandedTo(Base)  BY <2>7 DEF HandedInOrder
    <3>3. \A i \in DOMAIN handed' : 2 * (handed'[i] - Base) - 1 <= alerts'.pos
      BY <3>1, <3>2, <2>1 DEF HandedTo
    <3>4. Base \in Nat /\ written \in Nat /\ Base <= written /\ written <= Base'
          /\ InFull(moved', Base, written)
      BY <3>1, <2>2, <1>0
    <3>5. \E b, w \in Nat : b <= w /\ w <= Base' /\ InFull(moved', b, w)
                /\ \A i \in DOMAIN handed' : 2 * (handed'[i] - b) - 1 <= alerts'.pos
      BY <3>3, <3>4
    <3> QED  BY <3>1, <3>5, <2>6 DEF HandedInOrder, HandedTo
  <2>8. CASE ~(Rename /\ alerts.pc = "file" /\ alerts.of = "path")
    <3>1. /\ moved' = moved /\ alerts'.pc = alerts.pc /\ alerts'.of = alerts.of
          /\ alerts'.pos = alerts.pos
      BY <2>8, <1>8, <1>0 DEF Rename, Truncate, AlertsType
    <3>2. alerts'.of = "moved" =>
            /\ alerts'.pc = "file"
            /\ \E b, w \in Nat : b <= w /\ w <= Base' /\ InFull(moved', b, w)
                /\ \A i \in DOMAIN handed' : 2 * (handed'[i] - b) - 1 <= alerts'.pos
      <4>1. SUFFICES ASSUME alerts.of = "moved"
                     PROVE  /\ alerts.pc = "file"
                            /\ \E b, w \in Nat : b <= w /\ w <= written /\ InFull(moved, b, w)
                                  /\ \A i \in DOMAIN handed : 2 * (handed[i] - b) - 1 <= alerts.pos
        BY <3>1, <2>1, <2>2
      <4>2. alerts.pc = "file"  BY <4>1 DEF HandedInOrder
      <4>3. PICK b \in Nat, w \in Nat : b <= w /\ w <= Base /\ InFull(moved, b, w) /\ HandedTo(b)
        BY <4>1 DEF HandedInOrder
      <4>4. w <= written  BY <4>3, <1>0
      <4> QED  BY <4>2, <4>3, <4>4 DEF HandedTo
    <3>3. \A i \in DOMAIN handed' : 2 * (handed'[i] - Base') - 1 <= alerts'.pos
      BY <3>1, <2>1, <2>2, <2>5
    <3> QED  BY <3>2, <3>3, <2>6 DEF HandedInOrder, HandedTo
  <2> QED  BY <2>7, <2>8
<1>9. CASE AlertsConnect \/ AlertsFail \/ AlertsTail \/ NothingConfigured \/ AlertsClosed
  <2>1. UNCHANGED <<file, written, moved, handed>> /\ alerts.pc # "file"
    BY <1>9 DEF AlertsConnect, AlertsFail, AlertsTail, NothingConfigured, AlertsClosed,
                alertStep, suricataVars
  <2>2. alerts'.of = alerts.of
    BY <1>0, <1>9 DEF AlertsConnect, AlertsFail, AlertsTail, NothingConfigured, AlertsClosed,
                FileLoop, AlertsType
  <2>3. alerts'.pc # "file" \/ alerts'.pos = Len(file)
    BY <1>0, <1>9, <2>1 DEF AlertsConnect, AlertsFail, AlertsTail, NothingConfigured,
                AlertsClosed, FileLoop, AlertsType
  <2> QED  BY <2>1, <2>2, <2>3, <1>3
<1>10. CASE ReadAlerts
  <2> DEFINE R == Whole(From(Opened, alerts.pos))
  <2>1. /\ UNCHANGED <<file, written, moved>> /\ alerts.pc = "file" /\ HandOver(R)
        /\ alerts' = [alerts EXCEPT !.pos = Len(Opened)] /\ Len(Opened) > alerts.pos
    BY <1>10 DEF ReadAlerts, alertStep, suricataVars
  <2>2. alerts'.pc = "file" /\ alerts'.of = alerts.of /\ alerts'.pos = Len(Opened)
    BY <2>1, <1>0 DEF AlertsType
  <2>3. Base' = Base  BY <2>1, <1>b
  <2>4. \E b, w \in Nat : /\ b <= w /\ w <= Len(Log) /\ InFull(Opened, b, w) /\ HandedTo(b)
                          /\ alerts.of = "path" => b = Base /\ w = written
                          /\ alerts.of = "moved" => w <= Base
    <3>1. CASE alerts.of = "path"
      BY <3>1, <2>1, <1>0 DEF Opened, HandedInOrder
    <3>2. CASE alerts.of = "moved"
      <4>1. PICK b \in Nat, w \in Nat : b <= w /\ w <= Base /\ InFull(moved, b, w) /\ HandedTo(b)
        BY <3>2 DEF HandedInOrder
      <4>2. w <= Len(Log)  BY <4>1, <1>0
      <4> QED  BY <4>1, <4>2, <3>2 DEF Opened
    <3> QED  BY <3>1, <3>2, <1>0 DEF AlertsType
  <2>5. PICK b \in Nat, w \in Nat :
              /\ b <= w /\ w <= Len(Log) /\ InFull(Opened, b, w) /\ HandedTo(b)
              /\ alerts.of = "path" => b = Base /\ w = written
              /\ alerts.of = "moved" => w <= Base
    BY <2>4
  <2>6. Opened \in Seq(Part) /\ Len(Opened) \in Nat  BY <1>0 DEF Opened
  <2>7. \A r : r \in R <=> r \in b + 1 .. w /\ 2 * (r - b) - 1 > alerts.pos
                             /\ 2 * (r - b) <= Len(Opened)
    <3>1. alerts.pos \in Nat  BY <1>0
    <3>2. b <= w /\ w <= Len(Log) /\ InFull(Opened, b, w) /\ Opened \in Seq(Part)  BY <2>5, <2>6
    <3> HIDE DEF Opened
    <3> QED  BY <3>1, <3>2, InFile
  <2>8. R \in SUBSET Record  BY DEF Whole
  <2> HIDE DEF R
  <2>9. \A i \in DOMAIN handed : \A r \in R : handed[i] < r
    <3> TAKE i \in DOMAIN handed
    <3> TAKE r \in R
    <3>1. 2 * (handed[i] - b) - 1 <= alerts.pos  BY <2>5 DEF HandedTo
    <3>2. r \in b + 1 .. w /\ 2 * (r - b) - 1 > alerts.pos  BY <2>7
    <3>3. handed[i] \in Nat /\ alerts.pos \in Nat  BY <1>0
    <3>4. r \in Int  BY <3>2
    <3> QED  BY <3>1, <3>2, <3>3, <3>4
  <2>10. /\ \A i, j \in DOMAIN handed' : i < j => handed'[i] < handed'[j]
         /\ \A i \in DOMAIN handed' :
                handed'[i] \in R \/ \E j \in DOMAIN handed : handed'[i] = handed[j]
    BY <2>1, <2>8, <2>9, <1>0, <1>1, HandedOver
  <2>11. \A i \in DOMAIN handed' : 2 * (handed'[i] - b) - 1 <= Len(Opened)
    <3> TAKE i \in DOMAIN handed'
    <3>1. CASE handed'[i] \in R
      <4>1. handed'[i] \in b + 1 .. w /\ 2 * (handed'[i] - b) <= Len(Opened)  BY <3>1, <2>7
      <4> QED  BY <4>1, <2>6
    <3>2. ASSUME NEW j \in DOMAIN handed, handed'[i] = handed[j]
          PROVE  2 * (handed'[i] - b) - 1 <= Len(Opened)
      <4>1. 2 * (handed[j] - b) - 1 <= alerts.pos  BY <2>5 DEF HandedTo
      <4>2. handed[j] \in Nat /\ alerts.pos \in Nat  BY <1>0
      <4>3. alerts.pos <= Len(Opened)  BY <2>1, <2>6, <4>2
      <4> QED  BY <4>1, <4>2, <4>3, <3>2, <2>6
    <3> QED  BY <3>1, <3>2, <2>10
  <2>12. \A i \in DOMAIN handed' : 2 * (handed'[i] - Base) <= Len(file)
    <3> TAKE i \in DOMAIN handed'
    <3>1. CASE handed'[i] \in R
      <4>1. handed'[i] \in b + 1 .. w /\ 2 * (handed'[i] - b) <= Len(Opened)  BY <3>1, <2>7
      <4>2. CASE alerts.of = "path"
        <5>1. Base = b /\ Opened = file  BY <4>2, <2>5 DEF Opened
        <5> QED  BY <4>1, <5>1
      <4>3. CASE alerts.of = "moved"
        <5>1. w <= Base /\ handed'[i] <= w /\ handed'[i] \in Nat  BY <4>1, <4>3, <2>5
        <5>2. Base \in Nat /\ Len(file) \in Nat  BY <1>0
        <5> HIDE DEF Opened
        <5> QED  BY <5>1, <5>2
      <4> QED  BY <4>2, <4>3, <1>0 DEF AlertsType
    <3>2. CASE \E j \in DOMAIN handed : handed'[i] = handed[j]
      BY <3>2, <1>1
    <3> QED  BY <3>1, <3>2, <2>10
  <2>13. CASE alerts.of = "path"
    BY <2>1, <2>2, <2>3, <2>5, <2>10, <2>11, <2>12, <2>13 DEF HandedInOrder, HandedTo
  <2>14. CASE alerts.of = "moved"
    <3>1. \E b1, w1 \in Nat : b1 <= w1 /\ w1 <= Base' /\ InFull(moved', b1, w1)
                /\ \A i \in DOMAIN handed' : 2 * (handed'[i] - b1) - 1 <= alerts'.pos
      <4>1. InFull(moved', b, w)  BY <2>1, <2>5, <2>14 DEF Opened
      <4> QED  BY <4>1, <2>2, <2>3, <2>5, <2>11, <2>14
    <3> QED  BY <3>1, <2>1, <2>2, <2>3, <2>10, <2>12, <2>14 DEF HandedInOrder, HandedTo
  <2> QED  BY <2>13, <2>14, <1>0 DEF AlertsType
<1> QED
  BY <1>4, <1>5, <1>6, <1>7, <1>8, <1>9, <1>10
     DEF Next, Listener, AlertReader, ListenerConnects, ListenerFails, ListenerTails,
         ListenerEnds, Look, ReadLines, AssignPos

-----------------------------------------------------------------------------
\* The numbers the listener's steps deal with.
LEMMA Numbers ==
    ASSUME TypeOK, FileInOrder
    PROVE  /\ Len(Log) \in Nat /\ Record = 1 .. Len(Log)
           /\ written \in Nat /\ written <= Len(Log)
           /\ file \in Seq(Part) /\ Len(file) \in Nat
           /\ Base \in Nat /\ Base <= written /\ InFull(file, Base, written)
           /\ listener \in ListenerType /\ listener.pos \in Nat /\ listener.len \in Nat
           /\ learnt \in [Record -> Nat] /\ renewed \in BOOLEAN
<1>1. Len(Log) \in Nat /\ Record = 1 .. Len(Log) /\ file \in Parts
  BY BoundsAssumption DEF TypeOK, Record
<1>2. file \in Seq(Part)  BY <1>1, PartsAre
<1>3. Len(file) \in Nat  BY <1>2
<1>4. listener \in ListenerType /\ learnt \in [Record -> Nat] /\ renewed \in BOOLEAN
  BY DEF TypeOK, ListenerType
<1>5. listener.pos \in Nat /\ listener.len \in Nat  BY <1>1, <1>4 DEF ListenerType
<1>6. written \in Nat /\ written <= Len(Log)  BY <1>1 DEF TypeOK
<1> QED  BY <1>1, <1>2, <1>3, <1>4, <1>5, <1>6 DEF FileInOrder

\* What looking at the length of the file does, in the three cases of the code.
LEMMA LookCases ==
    ASSUME TypeOK, FileInOrder, Look
    PROVE  /\ UNCHANGED <<file, written, learnt, late>> /\ renewed' = FALSE
           /\ listener.pc = "tail" /\ excused \subseteq excused'
           /\ \/ /\ Len(file) > listener.pos
                 /\ listener'.pc = "read" /\ listener'.pos = listener.pos
                 /\ listener'.len = Len(file)
              \/ /\ Len(file) <= listener.pos /\ listener'.pc = "tail"
                 /\ listener'.pos = IF Len(file) < listener.pos THEN 0 ELSE listener.pos
<1>1. listener \in ListenerType /\ Len(file) \in Nat /\ listener.pos \in Nat
  BY Numbers
<1>2. UNCHANGED <<file, written, learnt, late>> /\ renewed' = FALSE
      /\ listener.pc = "tail" /\ excused \subseteq excused'
  BY DEF Look, listenerStep, suricataVars
<1>3. CASE Len(file) > listener.pos
  <2>1. listener' = [listener EXCEPT !.pc = "read", !.len = Len(file)]  BY <1>3 DEF Look
  <2> QED  BY <2>1, <1>1, <1>2, <1>3 DEF ListenerType
<1>4. CASE ~(Len(file) > listener.pos)
  <2>1. listener' = [listener EXCEPT !.pos = IF Len(file) < listener.pos THEN 0
                                             ELSE listener.pos]
    BY <1>4 DEF Look
  <2> QED  BY <2>1, <1>1, <1>2, <1>4 DEF ListenerType
<1> QED  BY <1>3, <1>4

\* Every step keeps the number of times a record is learnt.
LEMMA LearntStep ==
    ASSUME TypeOK, FileInOrder, FileInOrder', LearntInOrder, NoneLost, [Next]_vars
    PROVE  LearntInOrder'
<1>0. /\ Record = 1 .. Len(Log) /\ Len(Log) \in Nat
      /\ written \in Nat /\ written <= Len(Log)
      /\ file \in Seq(Part) /\ Len(file) \in Nat
      /\ Base \in Nat /\ Base <= written /\ InFull(file, Base, written)
      /\ listener \in ListenerType /\ listener.pos \in Nat /\ listener.len \in Nat
      /\ learnt \in [Record -> Nat] /\ renewed \in BOOLEAN
  BY Numbers
<1>b. ASSUME UNCHANGED <<file, written>> PROVE Base' = Base
  BY <1>b DEF Base
<1>r. ASSUME NEW r \in Record
      PROVE  /\ r \in Nat /\ learnt[r] \in Nat
             /\ learnt[r] <= IF r \in late THEN 2 ELSE 1
             /\ 2 * (r - Base) > Len(file) => learnt[r] = 0 /\ r \notin late
  BY <1>0 DEF LearntInOrder
\* Steps that leave the file and the listener alone.
<1>1. ASSUME UNCHANGED <<file, written, listener, learnt, late, renewed>>
      PROVE  LearntInOrder'
  BY <1>1, <1>b DEF LearntInOrder, Ahead, Once, Place
\* Steps after which the listener does not read the file.
<1>2. ASSUME UNCHANGED <<file, written, learnt, late>>,
             listener'.pc \notin {"tail", "read", "assign"}
      PROVE  LearntInOrder'
  BY <1>2, <1>b DEF LearntInOrder
<1>3. CASE Create \/ Listen \/ alertStep \/ UNCHANGED vars
  BY <1>1, <1>3 DEF Create, Listen, alertStep, suricataVars, vars
<1>4. CASE Close
  <2>1. CASE listener.pc = "socket"
    <3>1. UNCHANGED <<file, written, learnt, late>> /\ listener'.pc = "closed"
      BY <2>1, <1>4, <1>0 DEF Close, Closed, ListenerType
    <3> QED  BY <3>1, <1>2
  <2>2. CASE listener.pc # "socket"
    BY <2>2, <1>4, <1>1 DEF Close, Closed
  <2> QED  BY <2>1, <2>2
<1>5. CASE WriteHead
  <2>1. Base' = Base /\ Len(file') = Len(file) + 1 /\ Len(file) = 2 * (written - Base)
    BY <1>5, HeadWritten
  <2>2. UNCHANGED <<listener, learnt, late, renewed>>  BY <1>5 DEF WriteHead
  <2>3. ASSUME NEW r \in Record
        PROVE  2 * (r - Base) <= Len(file') <=> 2 * (r - Base) <= Len(file)
    BY <2>1, <1>0, <1>r
  <2>4. ASSUME NEW r \in Record
        PROVE  2 * (r - Base) > Len(file') <=> 2 * (r - Base) > Len(file)
    BY <2>1, <1>0, <1>r
  <2> QED  BY <2>1, <2>2, <2>3, <2>4 DEF LearntInOrder, Ahead, Once, Place
<1>6. CASE WriteRest
  <2>1. /\ Base' = Base /\ Len(file') = Len(file) + 1 /\ written' = written
        /\ Len(file) = 2 * (written - Base) - 1 /\ Base < written
    BY <1>6, RestWritten
  <2>2. /\ UNCHANGED <<listener, renewed>>
        /\ late' = IF listener.pc \in {"read", "assign"} THEN late \cup {written} ELSE late
        /\ IF listener.pc = "socket" THEN Process({written}) ELSE UNCHANGED learnt
    BY <1>6 DEF WriteRest
  <2>3. written \in Record /\ learnt[written] = 0 /\ written \notin late
    <3>1. written \in Record  BY <2>1, <1>0
    <3>2. 2 * (written - Base) > Len(file)  BY <2>1, <1>0
    <3> QED  BY <3>1, <3>2, <1>r
  <2>4. ASSUME NEW r \in Record, r # written
        PROVE  /\ learnt'[r] = learnt[r] /\ (r \in late' <=> r \in late)
               /\ 2 * (r - Base) <= Len(file') <=> 2 * (r - Base) <= Len(file)
               /\ 2 * (r - Base) > Len(file') <=> 2 * (r - Base) > Len(file)
    <3>1. learnt'[r] = learnt[r] /\ (r \in late' <=> r \in late)
      BY <2>2, <2>4, <1>0 DEF Process
    <3>2. r \in Int  BY <1>0
    <3> QED  BY <3>1, <3>2, <2>1, <2>4, <1>0
  <2>5. /\ learnt'[written] = IF listener.pc = "socket" THEN 1 ELSE 0
        /\ written \in late' <=> listener.pc \in {"read", "assign"}
        /\ ~(2 * (written - Base) > Len(file'))
    BY <2>1, <2>2, <2>3, <1>0 DEF Process
  <2> SUFFICES ASSUME NEW r \in Record
               PROVE  (/\ learnt[r] <= IF r \in late THEN 2 ELSE 1
                       /\ 2 * (r - Base) > Len(file) => learnt[r] = 0 /\ r \notin late
                       /\ listener.pc \in {"tail", "read"} /\ Ahead(r, listener.pos) => Once(r)
                       /\ listener.pc = "read" /\ Ahead(r, listener.len) =>
                            learnt[r] = 0 /\ (2 * (r - Base) <= Len(file) => r \in late)
                       /\ listener.pc = "assign" /\ Ahead(r, listener.len) => Once(r))'
    BY DEF LearntInOrder
  <2>6. CASE r = written
    <3>1. listener.pc # "socket" => Once(written)'
      <4>1. listener.pc # "socket" => learnt'[written'] = 0  BY <2>1, <2>5
      <4> QED  BY <4>1 DEF Once
    <3> QED  BY <3>1, <2>1, <2>2, <2>5, <2>6
  <2>7. CASE r # written
    <3>1. Once(r)' <=> Once(r)  BY <2>4, <2>7 DEF Once
    <3>2. /\ Ahead(r, listener.pos)' <=> Ahead(r, listener.pos)
          /\ Ahead(r, listener.len)' <=> Ahead(r, listener.len)
      BY <2>1, <2>2 DEF Ahead, Place
    <3> QED  BY <3>1, <3>2, <2>1, <2>2, <2>4, <2>7 DEF LearntInOrder
  <2> QED  BY <2>6, <2>7
<1>7. CASE Rename \/ Truncate
  <2>1. Renew  BY <1>7 DEF Rename, Truncate
  <2>2. /\ Base' = written /\ Len(file) = 2 * (written - Base) /\ Len(file') = 0
    BY <2>1, FileRenewed
  <2>3. UNCHANGED <<listener, learnt, late>> /\ renewed' = TRUE  BY <2>1 DEF Renew
  <2>4. ASSUME NEW r \in Record, 2 * (r - written) > 0
        PROVE  learnt[r] = 0 /\ r \notin late
    <3>1. 2 * (r - Base) > Len(file)  BY <2>2, <2>4, <1>0, <1>r
    <3> QED  BY <3>1, <1>r
  <2>5. ASSUME NEW r \in Record, 2 * (r - written) - 1 > 0
        PROVE  learnt[r] = 0 /\ r \notin late
    BY <2>4, <2>5, <1>0, <1>r
  <2>6. ASSUME NEW r \in Record, 2 * (r - written) - 1 > 0
        PROVE  ~(2 * (r - written) <= 0)
    BY <2>6, <1>0, <1>r
  <2>7. \A r : learnt[r] = 0 => Once(r)'
    BY <2>3 DEF Once
  <2> QED  BY <2>2, <2>3, <2>4, <2>5, <2>6, <2>7, <1>r DEF LearntInOrder, Ahead, Place
<1>8. CASE ListenerConnects \/ ListenerFails \/ ListenerEnds
  <2>1. UNCHANGED <<file, written, learnt, late>>
    BY <1>8 DEF ListenerConnects, ListenerFails, ListenerEnds, listenerStep, suricataVars
  <2>2. listener'.pc \notin {"tail", "read", "assign"}
    BY <1>8, <1>0 DEF ListenerConnects, ListenerFails, ListenerEnds, Deaf, ListenerType
  <2> QED  BY <2>1, <2>2, <1>2
<1>9. CASE ListenerTails
  <2>1. UNCHANGED <<file, written, learnt, late>>
    BY <1>9 DEF ListenerTails, listenerStep, suricataVars
  <2>2. CASE ~config.file
    <3>1. listener'.pc = "dead"  BY <2>2, <1>9, <1>0 DEF ListenerTails, Deaf, ListenerType
    <3> QED  BY <3>1, <2>1, <1>2
  <2>3. CASE config.file
    <3>1. listener'.pc = "tail" /\ listener'.pos = Len(file) /\ renewed' = FALSE
      BY <2>3, <1>9, <1>0 DEF ListenerTails, TailEveFile, ListenerType
    <3>2. ASSUME NEW r \in Record, 2 * (r - Base) - 1 > Len(file)
          PROVE  learnt[r] = 0
      BY <3>2, <1>0, <1>r
    <3>3. \A r \in Record : learnt[r] = 0 => Once(r)'
      BY <2>1 DEF Once
    <3> QED  BY <3>1, <3>2, <3>3, <2>1, <1>b, <1>r DEF LearntInOrder, Ahead, Place
  <2> QED  BY <2>2, <2>3
<1>10. CASE Look
  <2>1. /\ UNCHANGED <<file, written, learnt, late>> /\ renewed' = FALSE
        /\ listener.pc = "tail"
        /\ \/ /\ Len(file) > listener.pos
              /\ listener'.pc = "read" /\ listener'.pos = listener.pos
              /\ listener'.len = Len(file)
           \/ /\ Len(file) <= listener.pos /\ listener'.pc = "tail"
              /\ listener'.pos = IF Len(file) < listener.pos THEN 0 ELSE listener.pos
    BY <1>10, LookCases
  <2>2. Base' = Base  BY <2>1, <1>b
  <2>3. \A r \in Record : Once(r)' <=> Once(r)  BY <2>1 DEF Once
  <2>4. ASSUME NEW r \in Record, 2 * (r - Base) - 1 > Len(file)
        PROVE  /\ learnt[r] = 0 /\ ~(2 * (r - Base) <= Len(file))
               /\ Once(r)
    BY <2>4, <1>0, <1>r DEF Once
  <2>5. ASSUME NEW r \in Record, 2 * (r - Base) - 1 > listener.pos PROVE Once(r)
    <3>1. 2 * (r - Base) - 1 > 0  BY <2>5, <1>0, <1>r
    <3>2. Ahead(r, listener.pos)  BY <3>1, <2>5 DEF Ahead, Place
    <3> QED  BY <3>2, <2>1 DEF LearntInOrder
  <2>6. ASSUME NEW r \in Record, Len(file) < listener.pos, 2 * (r - Base) - 1 > 0
        PROVE  Once(r)
    <3>1. CASE renewed
      <4>1. Ahead(r, listener.pos)  BY <3>1, <2>6 DEF Ahead, Place
      <4> QED  BY <4>1, <2>1 DEF LearntInOrder
    <3>2. CASE ~renewed
      <4>1. listener.pos <= Len(file)  BY <3>2, <2>1 DEF NoneLost
      <4> QED  BY <4>1, <2>6, <1>0
    <3> QED  BY <3>1, <3>2
  <2>7. CASE Len(file) > listener.pos
    BY <2>1, <2>2, <2>3, <2>4, <2>5, <2>7, <1>0, <1>r DEF LearntInOrder, Ahead, Place
  <2>8. CASE Len(file) <= listener.pos
    BY <2>1, <2>2, <2>3, <2>5, <2>6, <2>8, <1>0, <1>r DEF LearntInOrder, Ahead, Place
  <2> QED  BY <2>7, <2>8, <1>0

<1>11. CASE ReadLines
  <2> DEFINE R == Whole(From(file, listener.pos))
  <2>1. /\ UNCHANGED <<file, written, late, renewed>> /\ listener.pc = "read"
        /\ learnt' = [r \in Record |-> IF r \in R THEN learnt[r] + 1 ELSE learnt[r]]
        /\ listener' = [listener EXCEPT !.pc = "assign"]
    BY <1>11 DEF ReadLines, Process, listenerStep, suricataVars
  <2>2. listener'.pc = "assign" /\ listener'.len = listener.len
    BY <2>1, <1>0 DEF ListenerType
  <2>3. Base' = Base  BY <2>1, <1>b
  <2>4. \A r : r \in R <=> r \in Base + 1 .. written /\ 2 * (r - Base) - 1 > listener.pos
                             /\ 2 * (r - Base) <= Len(file)
    BY <1>0, InFile
  <2> HIDE DEF R
  <2>5. ASSUME NEW r \in R
        PROVE  Ahead(r, listener.pos) /\ 2 * (r - Base) <= Len(file)
    <3>1. /\ r \in Base + 1 .. written /\ 2 * (r - Base) - 1 > listener.pos
          /\ 2 * (r - Base) <= Len(file)
      BY <2>4
    <3>2. 2 * (r - Base) - 1 > 0  BY <3>1, <1>0
    <3> QED  BY <3>1, <3>2 DEF Ahead, Place
  <2>6. ASSUME NEW r \in Record, r \in R
        PROVE  /\ learnt[r] <= IF r \in late THEN 1 ELSE 0
               /\ Ahead(r, listener.len) => learnt[r] = 0 /\ r \in late
    <3>1. Once(r)  BY <2>1, <2>5, <2>6 DEF LearntInOrder
    <3> QED  BY <3>1, <2>1, <2>5, <2>6 DEF LearntInOrder, Once
  <2> SUFFICES ASSUME NEW r \in Record
               PROVE  (/\ learnt[r] <= IF r \in late THEN 2 ELSE 1
                       /\ 2 * (r - Base) > Len(file) => learnt[r] = 0 /\ r \notin late
                       /\ listener.pc = "assign" /\ Ahead(r, listener.len) => Once(r))'
    BY <2>2 DEF LearntInOrder
  <2>7. Ahead(r, listener.len)' <=> Ahead(r, listener.len)
    BY <2>1, <2>2, <2>3 DEF Ahead, Place
  <2>8. CASE r \in R
    <3>1. learnt'[r] = learnt[r] + 1 /\ late' = late /\ file' = file
      BY <2>1, <2>8
    <3>2. ~(2 * (r - Base) > Len(file))  BY <2>5, <2>8, <1>0, <1>r
    <3>3. learnt'[r] <= IF r \in late THEN 2 ELSE 1  BY <3>1, <2>6, <2>8, <1>r
    <3>4. Ahead(r, listener.len) => learnt'[r] = 1 /\ r \in late'
      BY <3>1, <2>6, <2>8
    <3> QED  BY <3>1, <3>2, <3>3, <3>4, <2>3, <2>7 DEF Once
  <2>9. CASE r \notin R
    <3>1. learnt'[r] = learnt[r] /\ late' = late /\ file' = file
      BY <2>1, <2>9
    <3>2. Ahead(r, listener.len) => learnt[r] = 0  BY <2>1 DEF LearntInOrder
    <3> QED  BY <3>1, <3>2, <2>3, <2>7, <1>r DEF Once
  <2> QED  BY <2>8, <2>9
<1>12. CASE AssignPos
  <2>1. /\ UNCHANGED <<file, written, learnt, late, renewed>> /\ listener.pc = "assign"
        /\ listener' = [listener EXCEPT !.pc = "tail", !.pos = listener.len, !.len = 0]
    BY <1>12 DEF AssignPos, listenerStep, suricataVars
  <2>2. listener'.pc = "tail" /\ listener'.pos = listener.len
    BY <2>1, <1>0 DEF ListenerType
  <2> QED  BY <2>1, <2>2, <1>b DEF LearntInOrder, Ahead, Once, Place
<1> QED
  BY <1>3, <1>4, <1>5, <1>6, <1>7, <1>8, <1>9, <1>10, <1>11, <1>12
     DEF Next, Listener, AlertReader, AlertsConnect, AlertsFail, AlertsTail,
         NothingConfigured, AlertsClosed, ReadAlerts

\* Every step keeps what the listener has gone past learnt or excused.
LEMMA LostStep ==
    ASSUME TypeOK, FileInOrder, FileInOrder', NoneLost, [Next]_vars
    PROVE  NoneLost'
<1>0. /\ Record = 1 .. Len(Log) /\ Len(Log) \in Nat
      /\ written \in Nat /\ written <= Len(Log)
      /\ file \in Seq(Part) /\ Len(file) \in Nat
      /\ Base \in Nat /\ Base <= written /\ InFull(file, Base, written)
      /\ listener \in ListenerType /\ listener.pos \in Nat /\ listener.len \in Nat
      /\ learnt \in [Record -> Nat] /\ renewed \in BOOLEAN
  BY Numbers
<1>b. ASSUME UNCHANGED <<file, written>> PROVE Base' = Base
  BY <1>b DEF Base
\* The records of the file are those begun in it.
<1>f. \A r : /\ r \in Begun(file) <=> r \in Base + 1 .. written
             /\ r \in Halves(file) <=> r \in Base + 1 .. written /\ 2 * (r - Base) > Len(file)
  BY <1>0, InFile
<1>g. ASSUME NEW r \in Record, r > Base, 2 * (r - Base) - 1 <= Len(file)
      PROVE  r \in Begun(file) /\ (2 * (r - Base) - 1 = Len(file) => r \in Halves(file))
  <2>1. Len(file) = 2 * (written - Base) \/ Len(file) = 2 * (written - Base) - 1
    BY <1>0 DEF InFull
  <2>2. r \in Base + 1 .. written  BY <2>1, <1>g, <1>0
  <2>3. 2 * (r - Base) - 1 = Len(file) => 2 * (r - Base) > Len(file)  BY <2>2, <1>0
  <2> QED  BY <2>2, <2>3, <1>f
\* Steps that leave the file and the listener alone.
<1>1. ASSUME UNCHANGED <<file, written, listener, learnt, excused, renewed>>
      PROVE  NoneLost'
  BY <1>1, <1>b DEF NoneLost, Passed
\* Steps after which the listener does not read the file.
<1>2. ASSUME listener'.pc \notin {"tail", "read", "assign"}
      PROVE  NoneLost'
  BY <1>2 DEF NoneLost
<1>3. CASE Create \/ Listen \/ alertStep \/ UNCHANGED vars
  BY <1>1, <1>3 DEF Create, Listen, alertStep, suricataVars, vars
<1>4. CASE Close
  <2>1. CASE listener.pc = "socket"
    <3>1. listener'.pc = "closed"
      BY <2>1, <1>4, <1>0 DEF Close, Closed, ListenerType
    <3> QED  BY <3>1, <1>2
  <2>2. CASE listener.pc # "socket"
    BY <2>2, <1>4, <1>1 DEF Close, Closed
  <2> QED  BY <2>1, <2>2
<1>5. CASE WriteHead
  <2>1. Base' = Base /\ Len(file') = Len(file) + 1
    BY <1>5, HeadWritten
  <2>2. UNCHANGED <<listener, learnt, excused, renewed>>  BY <1>5 DEF WriteHead
  <2>3. \A p \in Nat : p <= Len(file) => p <= Len(file')
    BY <2>1, <1>0
  <2> QED  BY <2>1, <2>2, <2>3, <1>0 DEF NoneLost, Passed
<1>6. CASE WriteRest
  <2>1. Base' = Base /\ Len(file') = Len(file) + 1
    BY <1>6, RestWritten
  <2>2. /\ UNCHANGED <<listener, excused, renewed>>
        /\ IF listener.pc = "socket" THEN Process({written}) ELSE UNCHANGED learnt
    BY <1>6 DEF WriteRest
  <2>3. \A p \in Nat : p <= Len(file) => p <= Len(file')
    BY <2>1, <1>0
  <2>4. CASE listener.pc = "socket"
    BY <2>4, <2>2, <1>2
  <2>5. CASE listener.pc # "socket"
    BY <2>1, <2>2, <2>3, <2>5, <1>0 DEF NoneLost, Passed
  <2> QED  BY <2>4, <2>5
<1>7. CASE Rename \/ Truncate
  BY <1>7 DEF Rename, Truncate, Renew, NoneLost
<1>8. CASE ListenerConnects \/ ListenerFails \/ ListenerEnds
  <2>1. listener'.pc \notin {"tail", "read", "assign"}
    BY <1>8, <1>0 DEF ListenerConnects, ListenerFails, ListenerEnds, Deaf, ListenerType
  <2> QED  BY <2>1, <1>2
<1>9. CASE ListenerTails
  <2>1. UNCHANGED <<file, written>>
    BY <1>9 DEF ListenerTails, listenerStep, suricataVars
  <2>2. CASE ~config.file
    <3>1. listener'.pc = "dead"  BY <2>2, <1>9, <1>0 DEF ListenerTails, Deaf, ListenerType
    <3> QED  BY <3>1, <1>2
  <2>3. CASE config.file
    <3>1. /\ listener'.pc = "tail" /\ listener'.pos = Len(file)
          /\ excused' = excused \cup Begun(file)
      BY <2>3, <1>9, <1>0 DEF ListenerTails, TailEveFile, ListenerType
    <3>2. \A r \in Record : r > Base /\ 2 * (r - Base) - 1 <= Len(file) => r \in excused'
      BY <3>1, <1>g
    <3>3. Len(file) <= Len(file)  BY <1>0
    <3> QED  BY <3>1, <3>2, <3>3, <2>1, <1>b DEF NoneLost, Passed
  <2> QED  BY <2>2, <2>3
<1>10. CASE Look
  <2>1. /\ UNCHANGED <<file, written, learnt>> /\ excused \subseteq excused'
        /\ listener.pc = "tail"
        /\ \/ /\ Len(file) > listener.pos
              /\ listener'.pc = "read" /\ listener'.pos = listener.pos
              /\ listener'.len = Len(file)
           \/ /\ Len(file) <= listener.pos /\ listener'.pc = "tail"
              /\ listener'.pos = IF Len(file) < listener.pos THEN 0 ELSE listener.pos
    BY <1>10, LookCases
  <2>2. Base' = Base  BY <2>1, <1>b
  <2>3. /\ Halves(file) \subseteq excused'
        /\ renewed /\ Len(file) >= listener.pos => Begun(file) \subseteq excused'
    BY <1>10 DEF Look
  <2>4. ASSUME NEW r \in Record, Len(file) >= listener.pos
        PROVE  Passed(r, listener.pos)'
    <3>1. SUFFICES ASSUME r > Base, 2 * (r - Base) - 1 <= listener'.pos
                   PROVE  learnt[r] > 0 \/ r \in excused'
      BY <2>1, <2>2 DEF Passed
    <3>2. listener'.pos = listener.pos  BY <2>1, <2>4, <1>0
    <3>3. CASE renewed
      <4>1. r \in Nat  BY <1>0
      <4>2. 2 * (r - Base) - 1 <= Len(file)  BY <4>1, <3>1, <3>2, <2>4, <1>0
      <4>3. r \in Begun(file)  BY <4>2, <3>1, <1>g
      <4> QED  BY <4>3, <3>3, <2>3, <2>4
    <3>4. CASE ~renewed
      <4>1. Passed(r, listener.pos)  BY <3>4, <2>1 DEF NoneLost
      <4> QED  BY <4>1, <3>1, <3>2, <2>1 DEF Passed
    <3> QED  BY <3>3, <3>4
  <2>5. ASSUME NEW r \in Record, Len(file) < listener.pos
        PROVE  Passed(r, listener.pos)'
    <3>1. listener'.pos = 0  BY <2>1, <2>5, <1>0
    <3>2. r > Base => ~(2 * (r - Base) - 1 <= 0)  BY <1>0
    <3> QED  BY <3>1, <3>2, <2>2 DEF Passed
  <2>6. \A r \in Record : Passed(r, listener.pos)'
    BY <2>4, <2>5, <1>0
  <2>7. CASE Len(file) > listener.pos
    <3>1. /\ listener'.pc = "read" /\ listener'.pos = listener.pos
          /\ listener'.len = Len(file)
      BY <2>1, <2>7, <1>0
    <3>2. \A r \in Record : 2 * (r - Base) - 1 = Len(file) => r \in excused'
      <4> SUFFICES ASSUME NEW r \in Record, 2 * (r - Base) - 1 = Len(file)
                   PROVE  r \in excused'
        OBVIOUS
      <4>1. r \in Nat /\ r > Base  BY <1>0
      <4>2. 2 * (r - Base) - 1 <= Len(file)  BY <1>0
      <4> QED  BY <4>1, <4>2, <2>3, <1>g
    <3>3. listener'.pos <= Len(file) /\ Len(file) <= Len(file)  BY <3>1, <2>7, <1>0
    <3> QED  BY <3>1, <3>2, <3>3, <2>1, <2>2, <2>6 DEF NoneLost
  <2>8. CASE Len(file) <= listener.pos
    <3>1. listener'.pc = "tail" /\ listener'.pos <= Len(file)
      BY <2>1, <2>8, <1>0
    <3> QED  BY <3>1, <2>1, <2>6 DEF NoneLost
  <2> QED  BY <2>7, <2>8, <1>0
<1>11. CASE ReadLines
  <2> DEFINE R == Whole(From(file, listener.pos))
  <2>1. /\ UNCHANGED <<file, written, excused, renewed>> /\ listener.pc = "read"
        /\ learnt' = [r \in Record |-> IF r \in R THEN learnt[r] + 1 ELSE learnt[r]]
        /\ listener' = [listener EXCEPT !.pc = "assign"]
    BY <1>11 DEF ReadLines, Process, listenerStep, suricataVars
  <2>2. listener'.pc = "assign" /\ listener'.len = listener.len
    BY <2>1, <1>0 DEF ListenerType
  <2>3. Base' = Base  BY <2>1, <1>b
  <2>4. \A r : r \in R <=> r \in Base + 1 .. written /\ 2 * (r - Base) - 1 > listener.pos
                             /\ 2 * (r - Base) <= Len(file)
    BY <1>0, InFile
  <2> HIDE DEF R
  <2> SUFFICES ASSUME ~renewed
               PROVE  /\ listener.len <= Len(file)
                      /\ \A r \in Record : r > Base /\ 2 * (r - Base) - 1 <= listener.len =>
                                              learnt'[r] > 0 \/ r \in excused
    BY <2>1, <2>2, <2>3 DEF NoneLost, Passed
  <2>5. listener.len <= Len(file)  BY <2>1 DEF NoneLost
  <2>6. ASSUME NEW r \in Record, r > Base, 2 * (r - Base) - 1 <= listener.len
        PROVE  learnt'[r] > 0 \/ r \in excused
    <3>1. r \in Nat /\ learnt[r] \in Nat /\ learnt'[r] = IF r \in R THEN learnt[r] + 1 ELSE learnt[r]
      BY <2>1, <1>0
    <3>2. CASE 2 * (r - Base) - 1 <= listener.pos
      <4>1. Passed(r, listener.pos)  BY <2>1 DEF NoneLost
      <4> QED  BY <4>1, <3>1, <3>2, <2>6 DEF Passed
    <3>3. CASE 2 * (r - Base) - 1 = listener.len
      BY <3>3, <2>1 DEF NoneLost
    <3>4. CASE 2 * (r - Base) - 1 > listener.pos /\ 2 * (r - Base) - 1 # listener.len
      <4>1. 2 * (r - Base) <= Len(file)
        <5>1. r \in Nat /\ Base \in Nat /\ Len(file) \in Nat /\ listener.len \in Nat
          BY <3>1, <1>0
        <5>2. 2 * (r - Base) - 1 < listener.len  BY <5>1, <3>4, <2>6
        <5> QED  BY <5>1, <5>2, <2>5
      <4>2. r \in Begun(file)  BY <4>1, <3>1, <2>6, <1>0, <1>g
      <4>3. r \in R
        <5>1. r \in Base + 1 .. written  BY <4>2, <1>f
        <5> QED  BY <5>1, <4>1, <3>4, <2>4
      <4> QED  BY <4>3, <3>1
    <3> QED  BY <3>1, <3>2, <3>3, <3>4, <1>0
  <2> QED  BY <2>5, <2>6
<1>12. CASE AssignPos
  <2>1. /\ UNCHANGED <<file, written, learnt, excused, renewed>> /\ listener.pc = "assign"
        /\ listener' = [listener EXCEPT !.pc = "tail", !.pos = listener.len, !.len = 0]
    BY <1>12 DEF AssignPos, listenerStep, suricataVars
  <2>2. listener'.pc = "tail" /\ listener'.pos = listener.len
    BY <2>1, <1>0 DEF ListenerType
  <2> QED  BY <2>1, <2>2, <1>b DEF NoneLost, Passed
<1> QED
  BY <1>3, <1>4, <1>5, <1>6, <1>7, <1>8, <1>9, <1>10, <1>11, <1>12
     DEF Next, Listener, AlertReader, AlertsConnect, AlertsFail, AlertsTail,
         NothingConfigured, AlertsClosed, ReadAlerts

-----------------------------------------------------------------------------
\* The inductive invariant.
EInv ==
    /\ TypeOK /\ FileInOrder /\ AttemptsLeft
    /\ HandedInOrder /\ LearntInOrder /\ NoneLost

\* It holds at the start, where nothing is written, learnt or handed over.
LEMMA InvInit ==
    Init => EInv
<1> SUFFICES ASSUME Init PROVE EInv
  OBVIOUS
<1>1. /\ Len(Log) \in Nat /\ Tries \in Nat \ {0} /\ Renewals \in Nat
      /\ Record = 1 .. Len(Log) /\ Configs \subseteq [sock : BOOLEAN, file : BOOLEAN]
  BY BoundsAssumption DEF Record
<1>2. /\ config \in Configs /\ written = 0 /\ renewals = 0
      /\ file = <<>> /\ moved = <<>> /\ Len(file) = 0
      /\ exists \in BOOLEAN /\ sock \in {FALSE, config.sock}
      /\ listener = [pc |-> "start", tries |-> 0, pos |-> 0, len |-> 0]
      /\ alerts = [pc |-> "start", tries |-> 0, pos |-> 0, of |-> "path", behind |-> FALSE]
      /\ learnt = [r \in Record |-> 0] /\ handed = <<>>
      /\ late = {} /\ excused = {} /\ renewed = FALSE
  BY DEF Init, Start
<1>3. 0 \in 0 .. Tries /\ 0 \in 0 .. 2 * Len(Log) /\ 0 \in 0 .. Len(Log) /\ 0 \in 0 .. Renewals
  BY <1>1
<1>4. TypeOK
  <2>1. <<>> \in Parts
    <3>1. <<>> \in Seq(Part) /\ Len(<<>>) = 0  OBVIOUS
    <3>2. Len(<<>>) <= 2 * Len(Log)  BY <3>1, <1>1
    <3> QED  BY <3>1, <3>2, PartsAre
  <2>2. sock \in BOOLEAN  BY <1>1, <1>2
  <2>3. learnt \in [Record -> Nat] /\ handed \in Seq(Record)  BY <1>2
  <2>4. /\ listener \in [pc : {"start", "socket", "closed", "tail", "read", "assign", "dead"},
                tries : 0 .. Tries, pos : 0 .. 2 * Len(Log), len : 0 .. 2 * Len(Log)]
        /\ alerts \in [pc : {"start", "socket", "closed", "file", "dead"}, tries : 0 .. Tries,
                pos : 0 .. 2 * Len(Log), of : {"path", "moved"}, behind : BOOLEAN]
    BY <1>2, <1>3
  <2> QED  BY <2>1, <2>2, <2>3, <2>4, <1>2, <1>3 DEF TypeOK
<1>5. FileInOrder /\ Base = 0
  <2>1. Base = 0  BY <1>2 DEF Base
  <2>2. InFull(file, 0, 0)  BY <1>2 DEF InFull
  <2> QED  BY <2>1, <2>2, <1>2 DEF FileInOrder
<1>6. AttemptsLeft
  BY <1>2 DEF AttemptsLeft
<1>7. HandedInOrder
  <2>1. DOMAIN handed = {}  BY <1>2
  <2> QED  BY <2>1, <1>2 DEF HandedInOrder
<1>8. LearntInOrder
  BY <1>2 DEF LearntInOrder
<1>9. NoneLost
  BY <1>2 DEF NoneLost
<1> QED  BY <1>4, <1>5, <1>6, <1>7, <1>8, <1>9 DEF EInv

\* The invariant in every behaviour.
LEMMA Invariant ==
    Spec => []EInv
<1>1. Init => EInv
  BY InvInit
<1>2. EInv /\ [Next]_vars => EInv'
  BY TypeStep, HandedStep, LearntStep, LostStep DEF EInv
<1> QED  BY <1>1, <1>2, PTL DEF Spec

\* Type correctness: in particular the file stays within the records the bound allows
\* and the attempts of either reader within those of the code.
THEOREM TypeCorrect ==
    Spec => []TypeOK
<1>1. EInv => TypeOK
  BY DEF EInv
<1> QED  BY <1>1, Invariant, PTL

\* No line the listener has gone past is lost but for the reasons the model names.
THEOREM NothingSkipped ==
    Spec => []NoneSkipped
<1>1. EInv => NoneSkipped
  <2> SUFFICES ASSUME EInv, listener.pc = "tail", ~renewed,
                      NEW r \in Whole(SubSeq(file, 1, listener.pos))
               PROVE  learnt[r] > 0 \/ r \in excused
    BY DEF NoneSkipped
  <2>1. /\ TypeOK /\ FileInOrder
        /\ listener.pos <= Len(file) /\ \A q \in Record : Passed(q, listener.pos)
    BY DEF EInv, NoneLost
  <2>2. /\ file \in Seq(Part) /\ Base \in Nat /\ written \in Nat /\ Base <= written
        /\ InFull(file, Base, written) /\ written <= Len(Log) /\ Len(file) \in Nat
        /\ listener.pos \in Nat
    BY <2>1, Numbers
  <2>3. listener.pos \in 0 .. Len(file) /\ 0 \in Nat  BY <2>1, <2>2
  <2>4. r \in Whole(SubSeq(file, 0 + 1, listener.pos))  OBVIOUS
  <2>5. r \in Base + 1 .. written /\ 2 * (r - Base) <= listener.pos
    <3> DEFINE b == Base
               w == written
               q == listener.pos
               p == 0
    <3>1. /\ file \in Seq(Part) /\ b \in Nat /\ w \in Nat /\ b <= w /\ InFull(file, b, w)
          /\ w <= Len(Log) /\ p \in Nat /\ q \in 0 .. Len(file)
          /\ r \in Whole(SubSeq(file, p + 1, q))
      BY <2>2, <2>3, <2>4
    <3> HIDE DEF b, w, p, q
    <3>2. r \in b + 1 .. w /\ 2 * (r - b) <= q  BY <3>1, WholeBetween
    <3> QED  BY <3>2 DEF b, w, q
  <2>6. r \in Record  BY DEF Whole
  <2>7. r > Base /\ 2 * (r - Base) - 1 <= listener.pos  BY <2>2, <2>5
  <2> QED  BY <2>1, <2>6, <2>7 DEF Passed
<1> QED  BY <1>1, Invariant, PTL

\* No line is processed twice but those completed during a reading, and the alerts are
\* handed over in order, none twice.
THEOREM NothingTwice ==
    Spec => []NoneTwice
<1>1. EInv => NoneTwice
  BY DEF EInv, LearntInOrder, HandedInOrder, NoneTwice
<1> QED  BY <1>1, Invariant, PTL

-----------------------------------------------------------------------------
(***************************************************************************)
(* The prefilter: first the keys of its tables, then what the key of a     *)
(* combination is about, then what the combinations of a header are.       *)
(***************************************************************************)
\* A key: protocol and port, what is told of addresses, and the other port.
Laid(p, d, m, s) == <<p, d>> \o m \o <<s>>

HasFields(key, p, d, m, s) ==
    /\ key[1] = p /\ key[2] = d
    /\ \A i \in 1 .. Len(m) : key[2 + i] = m[i]
    /\ key[2 + Len(m) + 1] = s

\* A sequence of bits is one of bits and whatever else there is.
LEMMA WiderSeq ==
    ASSUME NEW S, NEW T, S \subseteq T, NEW m \in Seq(S)
    PROVE  m \in Seq(T)
OBVIOUS

\* Bits and bits are bits.
LEMMA BitsAndBits ==
    ASSUME NEW x \in Seq({0, 1}), NEW y \in Seq({0, 1})
    PROVE  x \o y \in Seq({0, 1}) /\ Len(x \o y) = Len(x) + Len(y)
OBVIOUS

\* A key has the fields it is laid out of.
LEMMA Fields ==
    ASSUME NEW p, NEW d, NEW m \in Seq({0, 1}), NEW s
    PROVE  HasFields(Laid(p, d, m, s), p, d, m, s)
<1> DEFINE front == <<p, d>>
           most  == front \o m
           key   == most \o <<s>>
           S     == {0, 1, p, d, s}
<1>0. p \in S /\ d \in S /\ s \in S /\ m \in Seq(S)
  <2>1. {0, 1} \subseteq S  OBVIOUS
  <2>2. p \in S /\ d \in S /\ s \in S  OBVIOUS
  <2> HIDE DEF S
  <2> QED  BY <2>1, <2>2, WiderSeq
<1> HIDE DEF S
<1>1. front \in Seq(S) /\ Len(front) = 2 /\ front[1] = p /\ front[2] = d
  BY <1>0
<1>2. most \in Seq(S) /\ Len(most) = 2 + Len(m) /\ most[1] = p /\ most[2] = d
  BY <1>0, <1>1
<1>3. \A i \in 1 .. Len(m) : most[2 + i] = m[i]
  BY <1>0, <1>1
<1>4. Len(m) \in Nat /\ <<s>> \in Seq(S) /\ Len(<<s>>) = 1 /\ <<s>>[1] = s
  BY <1>0
<1> HIDE DEF most
<1>5. (\A i \in 1 .. 2 + Len(m) : key[i] = most[i]) /\ key[2 + Len(m) + 1] = s
  BY <1>2, <1>4
<1>6. /\ 1 \in 1 .. 2 + Len(m) /\ 2 \in 1 .. 2 + Len(m)
      /\ \A i \in 1 .. Len(m) : 2 + i \in 1 .. 2 + Len(m)
  BY <1>4
<1> HIDE DEF key
<1>7. key[1] = p /\ key[2] = d /\ \A i \in 1 .. Len(m) : key[2 + i] = m[i]
  BY <1>2, <1>3, <1>5, <1>6
<1>8. Laid(p, d, m, s) = key
  BY DEF Laid, key, most
<1> QED  BY <1>5, <1>7, <1>8 DEF HasFields

\* Two sequences are the same up to a place.
Same(s, t, k) == \A i \in 1 .. k : s[i] = t[i]

\* Two keys agree up to a place in their middle if the fields before it are the same.
LEMMA Agreeing ==
    ASSUME NEW data, NEW p, NEW d, NEW m, NEW s, HasFields(data, p, d, m, s),
           NEW key, NEW p2, NEW d2, NEW m2, NEW s2, HasFields(key, p2, d2, m2, s2),
           NEW l \in Nat, Len(m) = l, Len(m2) = l, NEW k \in 0 .. l
    PROVE  Same(data, key, 2 + k) <=> p = p2 /\ d = d2 /\ Same(m, m2, k)
<1>1. data[1] = p /\ data[2] = d /\ \A i \in 1 .. l : data[2 + i] = m[i]
  BY DEF HasFields
<1>2. key[1] = p2 /\ key[2] = d2 /\ \A i \in 1 .. l : key[2 + i] = m2[i]
  BY DEF HasFields
<1>3. l \in Nat /\ k \in Nat /\ k <= l
  OBVIOUS
<1>4. \A i \in 1 .. k : i \in 1 .. l /\ 2 + i \in 1 .. 2 + k
  BY <1>3
<1>5. ASSUME NEW j \in 1 .. 2 + k, j # 1, j # 2 PROVE \E i \in 1 .. k : j = 2 + i
  <2>1. j - 2 \in 1 .. k /\ j = 2 + (j - 2)  BY <1>3, <1>5
  <2> QED  BY <2>1
<1>6. 1 \in 1 .. 2 + k /\ 2 \in 1 .. 2 + k
  BY <1>3
<1>7. ASSUME Same(data, key, 2 + k)
      PROVE  p = p2 /\ d = d2 /\ Same(m, m2, k)
  <2>1. p = p2 /\ d = d2  BY <1>1, <1>2, <1>6, <1>7 DEF Same
  <2>2. ASSUME NEW i \in 1 .. k PROVE m[i] = m2[i]
    <3>1. i \in 1 .. l /\ data[2 + i] = key[2 + i]  BY <1>4, <1>7 DEF Same
    <3> QED  BY <3>1, <1>1, <1>2
  <2> QED  BY <2>1, <2>2 DEF Same
<1>8. ASSUME p = p2, d = d2, Same(m, m2, k)
      PROVE  Same(data, key, 2 + k)
  <2> SUFFICES ASSUME NEW j \in 1 .. 2 + k PROVE data[j] = key[j]
    BY DEF Same
  <2>1. CASE j = 1  BY <2>1, <1>8, <1>1, <1>2
  <2>2. CASE j = 2  BY <2>2, <1>8, <1>1, <1>2
  <2>3. ASSUME NEW i \in 1 .. k, j = 2 + i PROVE data[j] = key[j]
    <3>1. i \in 1 .. l /\ m[i] = m2[i]  BY <1>4, <1>8 DEF Same
    <3> QED  BY <3>1, <2>3, <1>1, <1>2
  <2> QED  BY <2>1, <2>2, <2>3, <1>5
<1> QED  BY <1>7, <1>8

\* They are the same if all fields are.
LEMMA AgreeingToTheEnd ==
    ASSUME NEW data, NEW p, NEW d, NEW m, NEW s, HasFields(data, p, d, m, s),
           NEW key, NEW p2, NEW d2, NEW m2, NEW s2, HasFields(key, p2, d2, m2, s2),
           NEW l \in Nat, Len(m) = l, Len(m2) = l
    PROVE  Same(data, key, 2 + l + 1) <=> p = p2 /\ d = d2 /\ Same(m, m2, l) /\ s = s2
<1>1. data[2 + l + 1] = s /\ key[2 + l + 1] = s2
  BY DEF HasFields
<1>2. l \in 0 .. l
  OBVIOUS
<1>3. Same(data, key, 2 + l) <=> p = p2 /\ d = d2 /\ Same(m, m2, l)
  BY <1>2, Agreeing
<1>4. \A i : i \in 1 .. 2 + l + 1 <=> i \in 1 .. 2 + l \/ i = 2 + l + 1
  OBVIOUS
<1>5. Same(data, key, 2 + l + 1) <=> Same(data, key, 2 + l) /\ s = s2
  BY <1>1, <1>4 DEF Same
<1> QED  BY <1>3, <1>5

\* The middle of a key: an address or none, and a network.
LEMMA Middle ==
    ASSUME NEW x \in Seq({0, 1}), NEW y \in Seq({0, 1}), Len(x) = Len(y),
           NEW n \in Seq({0, 1}), NEW a \in Seq({0, 1}), Len(n) = Len(a),
           NEW k \in 0 .. Len(n)
    PROVE  Same(x \o n, y \o a, Len(x) + k) <=> x = y /\ Same(n, a, k)
<1> DEFINE l == Len(x)
           xn == x \o n
           ya == y \o a
<1>1. l \in Nat /\ k \in Nat /\ k <= Len(n) /\ Len(n) \in Nat
  OBVIOUS
<1>2. /\ \A i \in 1 .. l : xn[i] = x[i] /\ ya[i] = y[i]
      /\ \A i \in 1 .. k : xn[l + i] = n[i] /\ ya[l + i] = a[i]
  <2>1. ASSUME NEW i \in 1 .. l PROVE xn[i] = x[i] /\ ya[i] = y[i]
    <3>1. i \in 1 .. Len(x) /\ i \in 1 .. Len(y)  OBVIOUS
    <3> QED  BY <3>1
  <2>2. ASSUME NEW i \in 1 .. k PROVE xn[l + i] = n[i] /\ ya[l + i] = a[i]
    <3>1. i \in 1 .. Len(n) /\ i \in 1 .. Len(a) /\ l = Len(y)  BY <1>1
    <3> QED  BY <3>1
  <2> QED  BY <2>1, <2>2
<1>3. x = y <=> \A i \in 1 .. l : x[i] = y[i]
  <2>1. x = [i \in 1 .. l |-> x[i]] /\ y = [i \in 1 .. l |-> y[i]]  OBVIOUS
  <2> QED  BY <2>1
<1> HIDE DEF l, xn, ya
<1>4. /\ \A i \in 1 .. l : i \in 1 .. l + k
      /\ \A i \in 1 .. k : l + i \in 1 .. l + k
  BY <1>1
<1>5. ASSUME NEW j \in 1 .. l + k, j \notin 1 .. l PROVE \E i \in 1 .. k : j = l + i
  <2>1. j - l \in 1 .. k /\ j = l + (j - l)  BY <1>1, <1>5
  <2> QED  BY <2>1
<1>6. (\A i \in 1 .. l + k : xn[i] = ya[i])
         <=> (\A i \in 1 .. l : x[i] = y[i]) /\ \A i \in 1 .. k : n[i] = a[i]
  <2>1. ASSUME \A i \in 1 .. l + k : xn[i] = ya[i]
        PROVE  (\A i \in 1 .. l : x[i] = y[i]) /\ \A i \in 1 .. k : n[i] = a[i]
    BY <2>1, <1>2, <1>4
  <2>2. ASSUME \A i \in 1 .. l : x[i] = y[i], \A i \in 1 .. k : n[i] = a[i],
               NEW j \in 1 .. l + k
        PROVE  xn[j] = ya[j]
    <3>1. CASE j \in 1 .. l  BY <3>1, <2>2, <1>2
    <3>2. ASSUME NEW i \in 1 .. k, j = l + i PROVE xn[j] = ya[j]  BY <3>2, <2>2, <1>2
    <3> QED  BY <3>1, <3>2, <1>5
  <2> QED  BY <2>1, <2>2
<1> QED  BY <1>3, <1>6 DEF l, xn, ya, Same

\* The key with an address or none, x, before the network or address n.
Key(p, d, x, n, s) == Laid(p, d, x \o n, s)

KeysAgree(p, d, x, n, s, p2, d2, y, a, s2) ==
    /\ \A k \in 0 .. Len(n) :
          Same(Key(p, d, x, n, s), Key(p2, d2, y, a, s2), 2 + Len(x) + k)
             <=> p = p2 /\ d = d2 /\ x = y /\ Same(n, a, k)
    /\ Same(Key(p, d, x, n, s), Key(p2, d2, y, a, s2), 2 + Len(x) + Len(n) + 1)
          <=> p = p2 /\ d = d2 /\ x = y /\ Same(n, a, Len(n)) /\ s = s2

\* What two keys must have in common to agree up to a bit of the network, or to the end.
LEMMA KeyBegins ==
    ASSUME NEW p, NEW d, NEW x \in Seq({0, 1}), NEW n \in Seq({0, 1}), NEW s,
           NEW p2, NEW d2, NEW y \in Seq({0, 1}), NEW a \in Seq({0, 1}), NEW s2,
           Len(x) = Len(y), Len(n) = Len(a)
    PROVE  KeysAgree(p, d, x, n, s, p2, d2, y, a, s2)
<1> DEFINE m  == x \o n
           m2 == y \o a
           l  == Len(x) + Len(n)
<1>1. /\ m \in Seq({0, 1}) /\ m2 \in Seq({0, 1}) /\ Len(m) = l /\ Len(m2) = l
      /\ Len(x) \in Nat /\ Len(n) \in Nat /\ l \in Nat
  <2>1. Len(x) \in Nat /\ Len(n) \in Nat /\ l \in Nat  OBVIOUS
  <2>2. m \in Seq({0, 1}) /\ Len(m) = l  BY BitsAndBits
  <2>3. m2 \in Seq({0, 1}) /\ Len(m2) = Len(y) + Len(a)  BY BitsAndBits
  <2> HIDE DEF m, m2, l
  <2>4. l = Len(y) + Len(a)  BY DEF l
  <2> QED  BY <2>1, <2>2, <2>3, <2>4
<1>2. \A k \in 0 .. Len(n) : Same(m, m2, Len(x) + k) <=> x = y /\ Same(n, a, k)
  BY Middle
<1>3. \A k \in 0 .. Len(n) : Len(x) + k \in 0 .. l /\ 2 + Len(x) + k = 2 + (Len(x) + k)
  BY <1>1
<1>4. 2 + Len(x) + Len(n) + 1 = 2 + l + 1 /\ Len(n) \in 0 .. Len(n)
  BY <1>1
<1>5. Same(m, m2, l) <=> x = y /\ Same(n, a, Len(n))
  BY <1>2, <1>4
<1> HIDE DEF m, m2, l
<1>6. HasFields(Laid(p, d, m, s), p, d, m, s) /\ HasFields(Laid(p2, d2, m2, s2), p2, d2, m2, s2)
  BY <1>1, Fields
<1>7. \A k \in 0 .. l :
          Same(Laid(p, d, m, s), Laid(p2, d2, m2, s2), 2 + k)
             <=> p = p2 /\ d = d2 /\ Same(m, m2, k)
  BY <1>1, <1>6, Agreeing
<1>8. Same(Laid(p, d, m, s), Laid(p2, d2, m2, s2), 2 + l + 1)
         <=> p = p2 /\ d = d2 /\ Same(m, m2, l) /\ s = s2
  BY <1>1, <1>6, AgreeingToTheEnd
<1>9. \A k \in 0 .. Len(n) :
          Same(Laid(p, d, m, s), Laid(p2, d2, m2, s2), 2 + Len(x) + k)
             <=> p = p2 /\ d = d2 /\ x = y /\ Same(n, a, k)
  BY <1>2, <1>3, <1>7
<1>10. Same(Laid(p, d, m, s), Laid(p2, d2, m2, s2), 2 + Len(x) + Len(n) + 1)
          <=> p = p2 /\ d = d2 /\ x = y /\ Same(n, a, Len(n)) /\ s = s2
  BY <1>4, <1>5, <1>8
<1> QED  BY <1>9, <1>10 DEF KeysAgree, Key, m, m2

\* An address is a sequence of bits.
LEMMA AddressIsBits ==
    ASSUME Bits \in Nat, NEW a \in Address
    PROVE  a \in Seq({0, 1}) /\ Len(a) = Bits
BY DEF Address

-----------------------------------------------------------------------------
\* What Nets and Combos are made of.
Network == [net : Address, pfx : 0 .. Bits]
Combo   == [src : Network, dst : Network,
            sport : Nat \cup {NoPort}, dport : Nat \cup {NoPort}]
\* A flow as the data plane reads it.
FlowRead == [proto : Protos, src : Address, sport : Nat,
            dst : Address, dport : Nat]

\* An address of a network, and a port that is the one told if any is.
Under(a, n) == Same(n.net, a, n.pfx)
Told(port, p) == port = NoPort \/ p = port

\* What a combination of an expansion is about, in its own direction.
Agrees(c, g) ==
    /\ Under(g.src, c.src) /\ Under(g.dst, c.dst)
    /\ Told(c.sport, g.sport) /\ Told(c.dport, g.dport)

\* An entry is hit by the flows with its protocol, its destination port, its exact
\* address, an address of its network and, when it tells one, its source port.
EntrySays(table, proto, dp, exact, tail, sport, g, y, a, e) ==
    /\ LookupKey(table, g) = Key(g.proto, g.dport, y, a, g.sport)
    /\ e \in Entry(table, <<proto, dp>>, exact, tail, sport)
    => (Begins(e, g)
          <=> /\ g.proto = proto /\ g.dport = dp /\ y = exact
              /\ Under(a, tail) /\ Told(sport, g.sport))

\* It says that of every key it has (Entry, Begins).
LEMMA EntryBegins ==
    ASSUME Bits \in Nat,
           NEW table, NEW proto, NEW dp, NEW exact \in Seq({0, 1}), NEW tail \in Network,
           NEW sport, NEW g, NEW y \in Seq({0, 1}), NEW a \in Address, NEW e,
           Len(y) = Len(exact)
    PROVE  EntrySays(table, proto, dp, exact, tail, sport, g, y, a, e)
<1> SUFFICES ASSUME LookupKey(table, g) = Key(g.proto, g.dport, y, a, g.sport),
                    e \in Entry(table, <<proto, dp>>, exact, tail, sport)
             PROVE  Begins(e, g)
                       <=> /\ g.proto = proto /\ g.dport = dp /\ y = exact
                           /\ Under(a, tail) /\ Told(sport, g.sport)
  BY DEF EntrySays
<1> DEFINE z   == IF sport = NoPort THEN 0 ELSE sport
           net == tail.net
           pfx == tail.pfx
<1>1. /\ net \in Seq({0, 1}) /\ Len(net) = Bits /\ pfx \in 0 .. Bits
      /\ a \in Seq({0, 1}) /\ Len(a) = Bits
  <2>1. net \in Address /\ pfx \in 0 .. Bits  BY DEF Network
  <2> HIDE DEF net, pfx
  <2> QED  BY <2>1, AddressIsBits
<1>3. /\ e.table = table
      /\ e.data = Key(proto, dp, exact, net, z)
      /\ e.len = 2 + Len(exact) + pfx + IF sport = NoPort THEN 0 ELSE 1
      /\ sport = NoPort \/ ~(pfx < Bits)
  <2>1. /\ e = [table |-> table, data |-> Key(proto, dp, exact, net, z),
                 len   |-> 2 + Len(exact) + pfx + IF sport = NoPort THEN 0 ELSE 1]
        /\ sport = NoPort \/ ~(pfx < Bits)
    BY DEF Entry, Key, Laid
  <2> HIDE DEF net, pfx, z
  <2> QED  BY <2>1
<1> DEFINE key == Key(g.proto, g.dport, y, a, g.sport)
           dat == Key(proto, dp, exact, net, z)
<1>4. Begins(e, g) <=> Same(dat, key, e.len)
  <2>1. LookupKey(e.table, g) = key  BY <1>3
  <2>2. e.data = dat  BY <1>3
  <2> HIDE DEF key, dat
  <2> QED  BY <2>1, <2>2 DEF Begins, Same
<1>5. Under(a, tail) <=> Same(net, a, pfx)
  BY DEF Under
<1> HIDE DEF net, pfx
<1>6. /\ \A k \in 0 .. Bits :
             Same(dat, key, 2 + Len(exact) + k)
                <=> proto = g.proto /\ dp = g.dport /\ exact = y /\ Same(net, a, k)
      /\ Same(dat, key, 2 + Len(exact) + Bits + 1)
            <=> proto = g.proto /\ dp = g.dport /\ exact = y /\ Same(net, a, Bits) /\ z = g.sport
  <2> HIDE DEF z
  <2>1. /\ \A k \in 0 .. Len(net) :
               Same(dat, key, 2 + Len(exact) + k)
                  <=> proto = g.proto /\ dp = g.dport /\ exact = y /\ Same(net, a, k)
        /\ Same(dat, key, 2 + Len(exact) + Len(net) + 1)
              <=> /\ proto = g.proto /\ dp = g.dport /\ exact = y
                  /\ Same(net, a, Len(net)) /\ z = g.sport
    <3>1. KeysAgree(proto, dp, exact, net, z, g.proto, g.dport, y, a, g.sport)
      BY <1>1, KeyBegins
    <3> QED  BY <3>1 DEF KeysAgree, key, dat
  <2> HIDE DEF key, dat
  <2> QED  BY <2>1, <1>1
<1>7. Len(exact) \in Nat  OBVIOUS
<1> HIDE DEF key, dat
<1>8. CASE sport = NoPort
  <2>1. e.len = 2 + Len(exact) + pfx  BY <1>8, <1>3, <1>1, <1>7
  <2> QED  BY <2>1, <1>8, <1>1, <1>4, <1>5, <1>6 DEF Told
<1>9. CASE sport # NoPort
  <2>1. pfx = Bits /\ z = sport  BY <1>9, <1>3, <1>1
  <2> HIDE DEF z
  <2>2. e.len = 2 + Len(exact) + Bits + 1  BY <2>1, <1>9, <1>3, <1>1, <1>7
  <2> QED  BY <2>1, <2>2, <1>9, <1>4, <1>5, <1>6 DEF Told
<1> QED  BY <1>8, <1>9

\* A key is about the flows that agree with its combination.
LEMMA OrientationBegins ==
    ASSUME Bits \in Nat \ {0}, NEW proto, NEW c \in Combo, NEW g \in FlowRead,
           NEW e \in Orientation(proto, c)
    PROVE  /\ c.dport # NoPort
           /\ Begins(e, g) <=> g.proto = proto /\ Agrees(c, g)
<1> DEFINE E(table, exact, tail) == Entry(table, <<proto, c.dport>>, exact, tail, c.sport)
<1>1. c.dport # NoPort
  BY DEF Orientation
<1>2. /\ c.src \in Network /\ c.dst \in Network
      /\ g.src \in Address /\ g.dst \in Address
  BY DEF Combo, FlowRead
<1>3. /\ c.src.net \in Address /\ c.src.pfx \in 0 .. Bits
      /\ c.dst.net \in Address /\ c.dst.pfx \in 0 .. Bits
  BY <1>2 DEF Network
<1>4. /\ c.src.net \in Seq({0, 1}) /\ Len(c.src.net) = Bits
      /\ c.dst.net \in Seq({0, 1}) /\ Len(c.dst.net) = Bits
      /\ g.src \in Seq({0, 1}) /\ Len(g.src) = Bits
      /\ g.dst \in Seq({0, 1}) /\ Len(g.dst) = Bits
      /\ <<>> \in Seq({0, 1}) /\ Len(<<>>) = 0
  <2>1. <<>> \in Seq({0, 1}) /\ Len(<<>>) = 0  OBVIOUS
  <2> QED  BY <2>1, <1>2, <1>3, AddressIsBits
<1>5. <<>> \o g.src = g.src /\ <<>> \o g.dst = g.dst
  BY <1>4
<1>6. \A a \in Address, n \in Network :
          /\ n.pfx = Bits => (Under(a, n) <=> a = n.net)
          /\ n.pfx = 0 => Under(a, n)
  <2> SUFFICES ASSUME NEW a \in Address, NEW n \in Network
               PROVE  /\ n.pfx = Bits => (Under(a, n) <=> a = n.net)
                      /\ n.pfx = 0 => Under(a, n)
    OBVIOUS
  <2>1. n.net \in [1 .. Bits -> {0, 1}] /\ a \in [1 .. Bits -> {0, 1}]
    BY DEF Network, Address
  <2>2. a = n.net <=> \A i \in 1 .. Bits : n.net[i] = a[i]
    BY <2>1
  <2> QED  BY <2>2 DEF Under, Same
<1>7. /\ LookupKey("dst", g) = Key(g.proto, g.dport, g.src, g.dst, g.sport)
      /\ LookupKey("src", g) = Key(g.proto, g.dport, g.dst, g.src, g.sport)
      /\ LookupKey("dst_any", g) = Key(g.proto, g.dport, <<>>, g.dst, g.sport)
      /\ LookupKey("src_any", g) = Key(g.proto, g.dport, <<>>, g.src, g.sport)
  BY <1>5 DEF LookupKey, Key, Laid
<1>8. Agrees(c, g) <=> /\ Under(g.src, c.src) /\ Under(g.dst, c.dst)
                       /\ Told(c.sport, g.sport) /\ g.dport = c.dport
  BY <1>1 DEF Agrees, Told
<1>9. \/ c.src.pfx = Bits /\ e \in E("dst", c.src.net, c.dst)
      \/ c.src.pfx = 0 /\ e \in E("dst_any", <<>>, c.dst)
      \/ c.dst.pfx = Bits /\ e \in E("src", c.dst.net, c.src)
      \/ c.dst.pfx = 0 /\ e \in E("src_any", <<>>, c.src)
  BY DEF Orientation
<1> HIDE DEF E
<1>10. CASE c.src.pfx = Bits /\ e \in E("dst", c.src.net, c.dst)
  <2>1. EntrySays("dst", proto, c.dport, c.src.net, c.dst, c.sport, g, g.src, g.dst, e)
    BY <1>2, <1>4, EntryBegins
  <2> QED  BY <2>1, <1>1, <1>2, <1>6, <1>7, <1>8, <1>10 DEF E, EntrySays
<1>11. CASE c.src.pfx = 0 /\ e \in E("dst_any", <<>>, c.dst)
  <2>1. EntrySays("dst_any", proto, c.dport, <<>>, c.dst, c.sport, g, <<>>, g.dst, e)
    BY <1>2, <1>4, EntryBegins
  <2> QED  BY <2>1, <1>1, <1>2, <1>6, <1>7, <1>8, <1>11 DEF E, EntrySays
<1>12. CASE c.dst.pfx = Bits /\ e \in E("src", c.dst.net, c.src)
  <2>1. EntrySays("src", proto, c.dport, c.dst.net, c.src, c.sport, g, g.dst, g.src, e)
    BY <1>2, <1>4, EntryBegins
  <2> QED  BY <2>1, <1>1, <1>2, <1>6, <1>7, <1>8, <1>12 DEF E, EntrySays
<1>13. CASE c.dst.pfx = 0 /\ e \in E("src_any", <<>>, c.src)
  <2>1. EntrySays("src_any", proto, c.dport, <<>>, c.src, c.sport, g, <<>>, g.src, e)
    BY <1>2, <1>4, EntryBegins
  <2> QED  BY <2>1, <1>1, <1>2, <1>6, <1>7, <1>8, <1>13 DEF E, EntrySays
<1> QED  BY <1>9, <1>10, <1>11, <1>12, <1>13

\* The other direction of a flow and of a combination.
LEMMA OtherWay ==
    ASSUME NEW c \in Combo, NEW g \in FlowRead
    PROVE  /\ Opposite(c) \in Combo
           /\ Reply(g) \in FlowRead
           /\ Reply(g).proto = g.proto
           /\ Agrees(Opposite(c), g) <=> Agrees(c, Reply(g))
           /\ Agrees(Opposite(c), Reply(g)) <=> Agrees(c, g)
<1> DEFINE o == Opposite(c)
           r == Reply(g)
<1>1. /\ o.src = c.dst /\ o.dst = c.src /\ o.sport = c.dport /\ o.dport = c.sport
      /\ o \in Combo
  BY DEF Opposite, Combo
<1>2. /\ r.src = g.dst /\ r.dst = g.src /\ r.sport = g.dport /\ r.dport = g.sport
      /\ r.proto = g.proto /\ r \in FlowRead
  BY DEF Reply, FlowRead
<1> HIDE DEF o, r
<1>3. (Agrees(o, g) <=> Agrees(c, r)) /\ (Agrees(o, r) <=> Agrees(c, g))
  BY <1>1, <1>2 DEF Agrees
<1> QED  BY <1>1, <1>2, <1>3 DEF o, r

\* The keys of a combination that is told, together, are about the flows that agree with
\* it in one direction or the other.
LEMMA TuplesHit ==
    ASSUME Bits \in Nat \ {0}, NEW proto, NEW c \in Combo, NEW g \in FlowRead,
           Tuples(proto, {c}) # {}
    PROVE  /\ c.dport # NoPort \/ c.sport # NoPort
           /\ (\E e \in Tuples(proto, {c}) :
                   Begins(e, g) \/ Begins(e, Reply(g)))
                 <=> g.proto = proto /\ (Agrees(c, g) \/ Agrees(c, Reply(g)))
<1> DEFINE o == Opposite(c)
           r == Reply(g)
           Hits(e) == Begins(e, g) \/ Begins(e, r)
           Fit == g.proto = proto /\ (Agrees(c, g) \/ Agrees(c, r))
<1>1. /\ o \in Combo /\ r \in FlowRead /\ r.proto = g.proto
      /\ Agrees(o, g) <=> Agrees(c, r)
      /\ Agrees(o, r) <=> Agrees(c, g)
  BY OtherWay
<1>2. o.dport = c.sport
  BY DEF Opposite
<1>3. \A e : e \in Tuples(proto, {c})
                <=> e \in Orientation(proto, c) \/ e \in Orientation(proto, o)
  BY DEF Tuples
<1> HIDE DEF o, r
<1>4. ASSUME NEW e \in Orientation(proto, c)
      PROVE  c.dport # NoPort /\ (Hits(e) <=> Fit)
  <2>1. /\ c.dport # NoPort
        /\ Begins(e, g) <=> g.proto = proto /\ Agrees(c, g)
    BY OrientationBegins
  <2>2. Begins(e, r) <=> r.proto = proto /\ Agrees(c, r)
    BY <1>1, OrientationBegins
  <2> QED  BY <2>1, <2>2, <1>1
<1>5. ASSUME NEW e \in Orientation(proto, o)
      PROVE  c.sport # NoPort /\ (Hits(e) <=> Fit)
  <2>1. /\ o.dport # NoPort
        /\ Begins(e, g) <=> g.proto = proto /\ Agrees(o, g)
    BY <1>1, OrientationBegins
  <2>2. Begins(e, r) <=> r.proto = proto /\ Agrees(o, r)
    BY <1>1, OrientationBegins
  <2> QED  BY <2>1, <2>2, <1>1, <1>2
<1> HIDE DEF Hits, Fit
<1>6. \A e \in Tuples(proto, {c}) :
          (c.dport # NoPort \/ c.sport # NoPort) /\ (Hits(e) <=> Fit)
  BY <1>3, <1>4, <1>5
<1>7. PICK e : e \in Tuples(proto, {c})
  OBVIOUS
<1>8. (\E q \in Tuples(proto, {c}) : Hits(q)) <=> Fit
  BY <1>6, <1>7
<1> QED  BY <1>6, <1>7, <1>8 DEF Hits, Fit, r

\* The keys of a header are about the flows that agree with one of its combinations.
LEMMA ExpansionHit ==
    ASSUME Bits \in Nat \ {0}, NEW h, NEW g \in FlowRead,
           Combos(h) \subseteq Combo, Expansion(h) # {}
    PROVE  /\ \A c \in Combos(h) : c.dport # NoPort \/ c.sport # NoPort
           /\ (\E e \in Expansion(h) :
                   Begins(e, g) \/ Begins(e, Reply(g)))
                 <=> /\ g.proto = h.proto
                     /\ \E c \in Combos(h) : Agrees(c, g) \/ Agrees(c, Reply(g))
<1> DEFINE combos  == Combos(h)
           Of(c)   == Tuples(h.proto, {c})
           Hits(e) == Begins(e, g) \/ Begins(e, Reply(g))
           Fit(c)  == Agrees(c, g) \/ Agrees(c, Reply(g))
<1>1. /\ \A c \in combos : Of(c) # {}
      /\ Expansion(h) = Tuples(h.proto, combos)
  BY DEF Expansion, Expressible
<1>2. \A e : e \in Tuples(h.proto, combos) <=> \E c \in combos : e \in Of(c)
  BY DEF Tuples
<1>3. \A c \in combos :
          /\ c.dport # NoPort \/ c.sport # NoPort
          /\ (\E e \in Of(c) : Hits(e)) <=> g.proto = h.proto /\ Fit(c)
  BY <1>1, TuplesHit
<1> HIDE DEF combos, Of, Hits, Fit
<1>4. (\E e \in Expansion(h) : Hits(e)) <=> \E c \in combos : \E e \in Of(c) : Hits(e)
  BY <1>1, <1>2
<1>5. (\E e \in Expansion(h) : Hits(e)) <=> g.proto = h.proto /\ \E c \in combos : Fit(c)
  BY <1>3, <1>4
<1> QED  BY <1>3, <1>5 DEF combos, Hits, Fit

-----------------------------------------------------------------------------
\* What is valid and expanded in the specification of an address.
LEMMA NetUnder ==
    ASSUME Bits \in Nat \ {0}, NEW item \in AddrItem, Verdict(item) = "fine",
           NEW a \in Address
    PROVE  /\ Net(item) \in Network
           /\ Under(a, Net(item)) <=> InNet(a, item)
<1>1. \/ item.kind = "any"
      \/ /\ item.kind = "net" /\ item.pfx \in 0 .. Bits
         /\ item.net \in Address
  <2>1. item.kind \notin {"odd", "bad"}
    BY DEF Verdict
  <2> QED  BY <2>1 DEF AddrItem, Word
<1>2. CASE item.kind = "any"
  <2> DEFINE zero == [i \in 1 .. Bits |-> 0]
  <2>1. Net(item) = [net |-> zero, pfx |-> 0]
    BY <1>2 DEF Net
  <2>2. zero \in Address /\ 0 \in 0 .. Bits
    BY DEF Address
  <2> HIDE DEF zero
  <2> QED  BY <2>1, <2>2, <1>2 DEF Network, Under, Same, InNet
<1>3. CASE item.kind = "net" /\ item.pfx \in 0 .. Bits /\ item.net \in Address
  <2> DEFINE net == [i \in 1 .. Bits |-> IF i <= item.pfx THEN item.net[i] ELSE 0]
             pfx == item.pfx
  <2>1. Net(item) = [net |-> net, pfx |-> pfx]
    BY <1>3 DEF Net
  <2>2. net \in Address
    BY <1>3 DEF Address
  <2>3. \A i \in 1 .. pfx : net[i] = item.net[i]
    BY <1>3
  <2>4. pfx \in 0 .. Bits
    BY <1>3
  <2>5. InNet(a, item) <=> \A i \in 1 .. pfx : a[i] = item.net[i]
    BY <1>3 DEF InNet
  <2> HIDE DEF net, pfx
  <2> QED  BY <2>1, <2>2, <2>3, <2>4, <2>5 DEF Network, Under, Same
<1> QED  BY <1>1, <1>2, <1>3

\* What is valid and expanded in the specification of a port; 0 stands for any.
LEMMA PortTold ==
    ASSUME NEW item \in PortItem, Verdict(item) = "fine", NEW q \in Nat \ {0}
    PROVE  /\ PortsOf(item) \subseteq Nat
           /\ (\E p \in PortsOf(item) : Told(Wild(p), q))
                 <=> InPorts(q, item)
<1>1. \/ item.kind = "any"
      \/ item.kind = "port" /\ item.port \in Nat
      \/ item.kind = "range" /\ item.lo \in Nat /\ item.hi \in Nat
  <2>1. item.kind \notin {"odd", "bad"}
    BY DEF Verdict
  <2> QED  BY <2>1 DEF PortItem, Word
<1>2. CASE item.kind = "any"
  BY <1>2 DEF PortsOf, InPorts, Wild, Told
<1>3. CASE item.kind = "port" /\ item.port \in Nat
  BY <1>3 DEF PortsOf, InPorts, Wild, Told, NoPort
<1>4. CASE item.kind = "range" /\ item.lo \in Nat /\ item.hi \in Nat
  <2>1. PortsOf(item) = (item.lo .. item.hi) \ {0}
    BY <1>4 DEF PortsOf
  <2>2. InPorts(q, item) <=> q \in item.lo .. item.hi
    BY <1>4 DEF InPorts
  <2>3. \A p \in (item.lo .. item.hi) \ {0} : p \in Nat /\ (Told(Wild(p), q) <=> q = p)
    BY <1>4 DEF Wild, Told, NoPort
  <2> QED  BY <2>1, <2>2, <2>3
<1> QED  BY <1>1, <1>2, <1>3, <1>4

\* The items of a specification, a list or a single one.
LEMMA ItemsOfSpec ==
    ASSUME NEW S, \A item \in S : item.kind # "list", NEW spec \in SpecOf(S)
    PROVE  Items(spec) \in Seq(S)
BY DEF SpecOf, Items

\* A specification all of which is expanded.
Fine(spec) == \A i \in DOMAIN Items(spec) : Verdict(Items(spec)[i]) = "fine"

\* What two sequences are made of is in their concatenation.
LEMMA InBoth ==
    ASSUME NEW S, NEW x \in Seq(S), NEW y \in Seq(S)
    PROVE  /\ x \o y \in Seq(S)
           /\ \A i \in DOMAIN x : \E j \in DOMAIN (x \o y) : (x \o y)[j] = x[i]
           /\ \A i \in DOMAIN y : \E j \in DOMAIN (x \o y) : (x \o y)[j] = y[i]
<1>1. /\ DOMAIN x = 1 .. Len(x) /\ DOMAIN y = 1 .. Len(y)
      /\ DOMAIN (x \o y) = 1 .. Len(x) + Len(y)
      /\ Len(x) \in Nat /\ Len(y) \in Nat
  OBVIOUS
<1>2. ASSUME NEW i \in 1 .. Len(x)
      PROVE  \E j \in 1 .. Len(x) + Len(y) : (x \o y)[j] = x[i]
  <2>1. i \in 1 .. Len(x) + Len(y) /\ (x \o y)[i] = x[i]  BY <1>1
  <2> QED  BY <2>1
<1>3. ASSUME NEW i \in 1 .. Len(y)
      PROVE  \E j \in 1 .. Len(x) + Len(y) : (x \o y)[j] = y[i]
  <2>1. Len(x) + i \in 1 .. Len(x) + Len(y) /\ (x \o y)[Len(x) + i] = y[i]  BY <1>1
  <2> QED  BY <2>1
<1>4. x \o y \in Seq(S)
  OBVIOUS
<1> QED  BY <1>1, <1>2, <1>3, <1>4

\* The items of the specifications of a header.
LEMMA SpecItems ==
    ASSUME NEW h \in Header
    PROVE  /\ Items(h.src) \in Seq(AddrItem)
           /\ Items(h.dst) \in Seq(AddrItem)
           /\ Items(h.sport) \in Seq(PortItem)
           /\ Items(h.dport) \in Seq(PortItem)
<1>1. \A item \in AddrItem : item.kind # "list"
  BY DEF AddrItem, Word
<1>2. \A item \in PortItem : item.kind # "list"
  BY DEF PortItem, Word
<1>3. /\ h.src \in SpecOf(AddrItem) /\ h.dst \in SpecOf(AddrItem)
      /\ h.sport \in SpecOf(PortItem) /\ h.dport \in SpecOf(PortItem)
  BY DEF Header
<1> QED  BY <1>1, <1>2, <1>3, ItemsOfSpec

\* A header that is expanded has nothing in it but what is valid and expanded.
LEMMA NothingInTheWay ==
    ASSUME NEW h \in Header, Expansion(h) # {}
    PROVE  /\ Fine(h.src) /\ Fine(h.dst)
           /\ Portless(h.proto) \/ (Fine(h.sport) /\ Fine(h.dport))
<1> DEFINE S    == AddrItem \cup PortItem
           src  == Items(h.src)
           dst  == Items(h.dst)
           sp   == Items(h.sport)
           dp   == Items(h.dport)
           rest == IF Portless(h.proto) THEN <<>> ELSE sp \o dp
           all  == src \o dst \o rest
<1>1. \A i \in DOMAIN all : Verdict(all[i]) = "fine"
  <2>1. Obstacles(h) = {}
    BY DEF Expansion, Refused
  <2>2. Expanded(h) = all
    BY DEF Expanded
  <2> HIDE DEF all
  <2> QED  BY <2>1, <2>2 DEF Obstacles
<1>2. src \in Seq(S) /\ dst \in Seq(S) /\ sp \in Seq(S) /\ dp \in Seq(S)
  <2>1. AddrItem \subseteq S /\ PortItem \subseteq S
    OBVIOUS
  <2> HIDE DEF S
  <2> QED  BY <2>1, SpecItems, WiderSeq
<1>3. rest \in Seq(S) /\ (~Portless(h.proto) => rest = sp \o dp)
  <2> HIDE DEF S, sp, dp
  <2>1. <<>> \in Seq(S)  OBVIOUS
  <2>2. sp \o dp \in Seq(S)  BY <1>2, InBoth
  <2> QED  BY <2>1, <2>2
<1> HIDE DEF S, src, dst, sp, dp, rest
<1> DEFINE Is(s) == \A i \in DOMAIN s : Verdict(s[i]) = "fine"
<1>4. ASSUME NEW x \in Seq(S), NEW y \in Seq(S), Is(x \o y)
      PROVE  Is(x) /\ Is(y)
  <2>1. /\ \A i \in DOMAIN x : \E j \in DOMAIN (x \o y) : (x \o y)[j] = x[i]
        /\ \A i \in DOMAIN y : \E j \in DOMAIN (x \o y) : (x \o y)[j] = y[i]
    BY InBoth
  <2> DEFINE xy == x \o y
  <2> HIDE DEF xy
  <2> QED  BY <2>1, <1>4 DEF xy
<1>5. src \o dst \in Seq(S)
  BY <1>2, InBoth
<1>6. Is(all)
  BY <1>1
<1> HIDE DEF Is
<1>7. Is(src \o dst) /\ Is(rest)
  BY <1>3, <1>4, <1>5, <1>6
<1>8. Is(src) /\ Is(dst)
  BY <1>2, <1>4, <1>7
<1>9. Portless(h.proto) \/ (Is(sp) /\ Is(dp))
  BY <1>2, <1>3, <1>4, <1>7
<1> QED  BY <1>8, <1>9 DEF Is, Fine, src, dst, sp, dp

\* An address is in one of the networks of a specification if it fits it.
LEMMA NetsUnder ==
    ASSUME Bits \in Nat \ {0}, NEW spec, Items(spec) \in Seq(AddrItem),
           Fine(spec), NEW a \in Address
    PROVE  /\ Nets(spec) \subseteq Network
           /\ (\E n \in Nets(spec) : Under(a, n))
                 <=> \E i \in DOMAIN Items(spec) : InNet(a, Items(spec)[i])
<1> DEFINE items == Items(spec)
<1>1. \A i \in DOMAIN items : items[i] \in AddrItem /\ Verdict(items[i]) = "fine"
  BY DEF Fine
<1>2. \A i \in DOMAIN items : /\ Net(items[i]) \in Network
                              /\ Under(a, Net(items[i])) <=> InNet(a, items[i])
  BY <1>1, NetUnder
<1>3. Nets(spec) = {Net(items[i]) : i \in DOMAIN items}
  BY DEF Nets
<1> HIDE DEF items
<1>4. /\ Nets(spec) \subseteq Network
      /\ (\E n \in Nets(spec) : Under(a, n)) <=> \E i \in DOMAIN items : InNet(a, items[i])
  BY <1>2, <1>3
<1> QED  BY <1>4 DEF items

\* And a port is told by one of the ports of a specification.
LEMMA PortsTold ==
    ASSUME NEW spec, Items(spec) \in Seq(PortItem), Fine(spec), NEW q \in Nat \ {0}
    PROVE  /\ Ports(spec) \subseteq Nat
           /\ (\E p \in Ports(spec) : Told(Wild(p), q))
                 <=> \E i \in DOMAIN Items(spec) : InPorts(q, Items(spec)[i])
<1> DEFINE items == Items(spec)
<1>1. \A i \in DOMAIN items : items[i] \in PortItem /\ Verdict(items[i]) = "fine"
  BY DEF Fine
<1>2. \A i \in DOMAIN items :
          /\ PortsOf(items[i]) \subseteq Nat
          /\ (\E p \in PortsOf(items[i]) : Told(Wild(p), q))
                <=> InPorts(q, items[i])
  BY <1>1, PortTold
<1>3. \A p : p \in Ports(spec) <=> \E i \in DOMAIN items : p \in PortsOf(items[i])
  BY DEF Ports
<1> HIDE DEF items
<1>4. /\ Ports(spec) \subseteq Nat
      /\ (\E p \in Ports(spec) : Told(Wild(p), q))
            <=> \E i \in DOMAIN items : InPorts(q, items[i])
  BY <1>2, <1>3
<1> QED  BY <1>4 DEF items

\* The ports that are told in the combinations of a header.
SrcPorts(h) == IF Portless(h.proto) THEN {NoPort}
               ELSE {Wild(p) : p \in Ports(h.sport)}
DstPorts(h) == IF Portless(h.proto) THEN {0}
               ELSE {Wild(p) : p \in Ports(h.dport)}

\* What the combinations of a header are made of.
LEMMA CombosOf ==
    ASSUME NEW h
    PROVE  \A c : c \in Combos(h)
                     <=> \E s \in Nets(h.src), d \in Nets(h.dst),
                            sp \in SrcPorts(h), dp \in DstPorts(h) :
                             c = [src |-> s, dst |-> d, sport |-> sp, dport |-> dp]
BY DEF Combos, SrcPorts, DstPorts

\* The combinations of a header that is expanded are about the flows it matches.
LEMMA CombosAgree ==
    ASSUME Bits \in Nat \ {0}, NEW h \in Header, Expansion(h) # {},
           NEW f \in Flow
    PROVE  /\ Combos(h) \subseteq Combo
           /\ h.proto = "sctp" =>
                 \A c \in Combos(h) : c.sport # 0 /\ c.dport # 0
           /\ f.proto = h.proto /\ h.proto # "sctp" =>
                 ((\E c \in Combos(h) : Agrees(c, Seen(f))) <=> Matches(h, f))
<1> DEFINE g  == Seen(f)
           S  == Nets(h.src)
           D  == Nets(h.dst)
           SP == SrcPorts(h)
           DP == DstPorts(h)
           SrcFits == \E i \in DOMAIN Items(h.src) :
                          InNet(f.src, Items(h.src)[i])
           DstFits == \E i \in DOMAIN Items(h.dst) :
                          InNet(f.dst, Items(h.dst)[i])
           SportFits == \E i \in DOMAIN Items(h.sport) :
                            InPorts(f.sport, Items(h.sport)[i])
           DportFits == \E i \in DOMAIN Items(h.dport) :
                            InPorts(f.dport, Items(h.dport)[i])
           Combined(s, d, sp, dp) == [src |-> s, dst |-> d, sport |-> sp, dport |-> dp]
<1>1. /\ f.src \in Address /\ f.dst \in Address
      /\ f.sport \in Nat \ {0} /\ f.dport \in Nat \ {0} /\ f.proto \in Protos
  BY DEF Flow
<1>2. /\ g.src = f.src /\ g.dst = f.dst
      /\ f.proto = h.proto /\ Portless(h.proto) => g.sport = 0 /\ g.dport = 0
      /\ f.proto = h.proto /\ h.proto # "sctp" /\ ~Portless(h.proto)
            => g.sport = f.sport /\ g.dport = f.dport
  BY <1>1 DEF Seen, Flow, Protos, Portless
<1>3. Fine(h.src) /\ Fine(h.dst)
  BY NothingInTheWay
<1>4. /\ S \subseteq Network /\ D \subseteq Network
      /\ (\E s \in S : Under(f.src, s)) <=> SrcFits
      /\ (\E d \in D : Under(f.dst, d)) <=> DstFits
  BY <1>1, <1>3, SpecItems, NetsUnder
<1>5. \A p \in Nat : Wild(p) \in Nat \cup {NoPort} /\ Wild(p) # 0
  BY DEF Wild, NoPort
<1>6. ASSUME ~Portless(h.proto)
      PROVE  /\ SP \subseteq Nat \cup {NoPort} /\ DP \subseteq Nat \cup {NoPort}
             /\ 0 \notin SP /\ 0 \notin DP
             /\ (\E sp \in SP : Told(sp, f.sport)) <=> SportFits
             /\ (\E dp \in DP : Told(dp, f.dport)) <=> DportFits
  <2>1. Fine(h.sport) /\ Fine(h.dport)
    BY <1>6, NothingInTheWay
  <2>2. /\ Ports(h.sport) \subseteq Nat /\ Ports(h.dport) \subseteq Nat
        /\ (\E p \in Ports(h.sport) : Told(Wild(p), f.sport)) <=> SportFits
        /\ (\E p \in Ports(h.dport) : Told(Wild(p), f.dport)) <=> DportFits
    BY <1>1, <2>1, SpecItems, PortsTold
  <2>3. /\ SP = {Wild(p) : p \in Ports(h.sport)}
        /\ DP = {Wild(p) : p \in Ports(h.dport)}
    BY <1>6 DEF SrcPorts, DstPorts
  <2> HIDE DEF SP, DP, SportFits, DportFits
  <2> QED  BY <2>2, <2>3, <1>5
<1>7. ASSUME Portless(h.proto)
      PROVE  SP = {NoPort} /\ DP = {0} /\ h.proto # "sctp"
  BY <1>7 DEF SrcPorts, DstPorts, Portless
<1>8. Matches(h, f)
         <=> /\ h.proto = f.proto /\ SrcFits /\ DstFits
             /\ Portless(h.proto) \/ (SportFits /\ DportFits)
  BY DEF Matches, Fits
<1>9. \A c : c \in Combos(h)
                <=> \E s \in S, d \in D, sp \in SP, dp \in DP : c = Combined(s, d, sp, dp)
  BY CombosOf
<1>10. \A s, d, sp, dp :
          /\ Combined(s, d, sp, dp).src = s /\ Combined(s, d, sp, dp).dst = d
          /\ Combined(s, d, sp, dp).sport = sp /\ Combined(s, d, sp, dp).dport = dp
  OBVIOUS
<1>11. \A s \in Network, d \in Network, sp, dp \in Nat \cup {NoPort} :
           Combined(s, d, sp, dp) \in Combo
  BY DEF Combo
<1>12. \A s, d, sp, dp : Agrees(Combined(s, d, sp, dp), g)
                            <=> /\ Under(f.src, s) /\ Under(f.dst, d)
                                /\ Told(sp, g.sport) /\ Told(dp, g.dport)
  BY <1>2, <1>10 DEF Agrees
<1> HIDE DEF g, S, D, SP, DP, SrcFits, DstFits, SportFits, DportFits, Combined
<1>13. SP \subseteq Nat \cup {NoPort} /\ DP \subseteq Nat \cup {NoPort}
  BY <1>6, <1>7
<1>14. Combos(h) \subseteq Combo
  BY <1>4, <1>9, <1>11, <1>13
<1>15. h.proto = "sctp" => \A c \in Combos(h) : c.sport # 0 /\ c.dport # 0
  BY <1>6, <1>7, <1>9, <1>10
<1>16. (\E c \in Combos(h) : Agrees(c, g))
          <=> /\ \E s \in S : Under(f.src, s)
              /\ \E d \in D : Under(f.dst, d)
              /\ \E sp \in SP : Told(sp, g.sport)
              /\ \E dp \in DP : Told(dp, g.dport)
  BY <1>9, <1>12
<1>17. CASE f.proto = h.proto /\ Portless(h.proto)
  <2>1. (\E sp \in SP : Told(sp, g.sport)) /\ \E dp \in DP : Told(dp, g.dport)
    BY <1>2, <1>7, <1>17 DEF Told
  <2> QED  BY <2>1, <1>4, <1>8, <1>14, <1>15, <1>16, <1>17 DEF g
<1>18. CASE f.proto = h.proto /\ ~Portless(h.proto) /\ h.proto # "sctp"
  BY <1>2, <1>4, <1>6, <1>8, <1>14, <1>16, <1>18 DEF g
<1> QED  BY <1>14, <1>15, <1>17, <1>18
\* A flow by its fields.
FlowOf(proto, src, sport, dst, dport) ==
    [proto |-> proto, src |-> src, sport |-> sport, dst |-> dst, dport |-> dport]

\* Reply turns a flow round.
LEMMA ReplyOf ==
    ASSUME NEW p, NEW s, NEW sp, NEW d, NEW dp
    PROVE  Reply(FlowOf(p, s, sp, d, dp)) = FlowOf(p, d, dp, s, sp)
<1> DEFINE S == [proto : {p}, src : {s, d}, sport : {sp, dp}, dst : {s, d}, dport : {sp, dp}]
           f == FlowOf(p, s, sp, d, dp)
           r == Reply(f)
<1>1. /\ f \in S
      /\ f.proto = p /\ f.src = s /\ f.sport = sp /\ f.dst = d /\ f.dport = dp
  BY DEF FlowOf
<1> HIDE DEF f
<1>2. /\ r \in S
      /\ r.proto = p /\ r.src = d /\ r.sport = dp /\ r.dst = s /\ r.dport = sp
  BY <1>1 DEF Reply
<1> HIDE DEF r
<1>3. r = FlowOf(p, d, dp, s, sp)
  BY <1>2 DEF FlowOf
<1> QED  BY <1>3 DEF f, r

\* Seen leaves the ports of TCP and UDP alone and clears the others.
LEMMA SeenOf ==
    ASSUME NEW p, NEW s, NEW sp, NEW d, NEW dp
    PROVE  Seen(FlowOf(p, s, sp, d, dp))
              = IF p \in {"tcp", "udp"} THEN FlowOf(p, s, sp, d, dp) ELSE FlowOf(p, s, 0, d, 0)
<1> DEFINE S == [proto : {p}, src : {s}, sport : {sp, 0}, dst : {d}, dport : {dp, 0}]
           f == FlowOf(p, s, sp, d, dp)
           g == [f EXCEPT !.sport = 0, !.dport = 0]
<1>1. /\ f \in S /\ f.proto = p /\ f.src = s /\ f.dst = d
  BY DEF FlowOf
<1>2. Seen(f) = IF p \in {"tcp", "udp"} THEN f ELSE g
  BY <1>1 DEF Seen
<1> HIDE DEF f
<1>3. /\ g \in S
      /\ g.proto = p /\ g.src = s /\ g.sport = 0 /\ g.dst = d /\ g.dport = 0
  BY <1>1
<1> HIDE DEF g
<1>4. g = FlowOf(p, s, 0, d, 0)
  BY <1>3 DEF FlowOf
<1> QED  BY <1>2, <1>4 DEF f

\* The other way round, what the data plane reads of a flow is read the other way round.
LEMMA SeenReply ==
    ASSUME NEW f \in Flow
    PROVE  /\ Reply(f) \in Flow /\ Reply(f).proto = f.proto
           /\ Seen(f) \in FlowRead /\ Seen(f).proto = f.proto
           /\ f.proto = "sctp" => Seen(f).sport = 0 /\ Seen(f).dport = 0
           /\ Seen(Reply(f)) = Reply(Seen(f))
<1> DEFINE p == f.proto
           s == f.src
           sp == f.sport
           d == f.dst
           dp == f.dport
<1>1. /\ p \in Protos /\ s \in Address /\ d \in Address
      /\ sp \in Nat \ {0} /\ dp \in Nat \ {0}
      /\ f = FlowOf(p, s, sp, d, dp)
  BY DEF Flow, FlowOf
<1> HIDE DEF p, s, sp, d, dp
<1>2. Reply(f) = FlowOf(p, d, dp, s, sp)
  BY <1>1, ReplyOf
<1>3. Reply(f) \in Flow /\ Reply(f).proto = p
  BY <1>1, <1>2 DEF Flow, FlowOf
<1>4. CASE p \in {"tcp", "udp"}
  <2>1. Seen(f) = f /\ Seen(Reply(f)) = Reply(f)
    BY <1>1, <1>2, <1>4, SeenOf
  <2>2. f \in FlowRead
    BY <1>1 DEF FlowRead, FlowOf
  <2> QED  BY <1>3, <1>4, <2>1, <2>2 DEF p
<1>5. CASE p \notin {"tcp", "udp"}
  <2>1. Seen(f) = FlowOf(p, s, 0, d, 0)
    BY <1>1, <1>5, SeenOf
  <2>2. Seen(Reply(f)) = FlowOf(p, d, 0, s, 0)
    BY <1>2, <1>5, SeenOf
  <2>3. Reply(Seen(f)) = FlowOf(p, d, 0, s, 0)
    BY <2>1, ReplyOf
  <2>4. /\ FlowOf(p, s, 0, d, 0) \in FlowRead
        /\ FlowOf(p, s, 0, d, 0).proto = p
        /\ FlowOf(p, s, 0, d, 0).sport = 0 /\ FlowOf(p, s, 0, d, 0).dport = 0
    BY <1>1 DEF FlowRead, FlowOf
  <2> QED  BY <1>3, <2>1, <2>2, <2>3, <2>4 DEF p
<1> QED  BY <1>4, <1>5

\* The keys of a header are about the flows that match it in one direction or the other;
\* those of SCTP about none, for they have a port and the data plane reads none.
LEMMA HeaderHit ==
    ASSUME Bits \in Nat \ {0}, NEW h \in Header, Expansion(h) # {},
           NEW f \in Flow
    PROVE  (\E e \in Expansion(h) :
                Begins(e, Seen(f)) \/ Begins(e, Seen(Reply(f))))
              <=> /\ f.proto # "sctp"
                  /\ Matches(h, f) \/ Matches(h, Reply(f))
<1> DEFINE g == Seen(f)
           r == Reply(f)
           Hits == \E e \in Expansion(h) :
                       Begins(e, g) \/ Begins(e, Reply(g))
           combos == Combos(h)
<1>1. /\ r \in Flow /\ r.proto = f.proto
      /\ g \in FlowRead /\ g.proto = f.proto
      /\ f.proto = "sctp" => g.sport = 0 /\ g.dport = 0
      /\ Seen(r) = Reply(g)
  BY SeenReply
<1>2. /\ combos \subseteq Combo
      /\ h.proto = "sctp" => \A c \in combos : c.sport # 0 /\ c.dport # 0
      /\ f.proto = h.proto /\ h.proto # "sctp" =>
            /\ (\E c \in combos : Agrees(c, g)) <=> Matches(h, f)
            /\ (\E c \in combos : Agrees(c, Reply(g))) <=> Matches(h, r)
  BY <1>1, CombosAgree
<1>3. /\ \A c \in combos : c.dport # NoPort \/ c.sport # NoPort
      /\ Hits <=> /\ f.proto = h.proto
                  /\ \E c \in combos : Agrees(c, g) \/ Agrees(c, Reply(g))
  BY <1>1, <1>2, ExpansionHit
<1>4. Matches(h, f) \/ Matches(h, r) => f.proto = h.proto
  BY <1>1 DEF Matches
<1>5. ASSUME f.proto = "sctp", h.proto = "sctp", NEW c \in combos
      PROVE  ~Agrees(c, g) /\ ~Agrees(c, Reply(g))
  <2>1. c.sport # 0 /\ c.dport # 0 /\ (c.dport # NoPort \/ c.sport # NoPort)
    BY <1>2, <1>3, <1>5
  <2>2. g.sport = 0 /\ g.dport = 0 /\ Reply(g).sport = 0 /\ Reply(g).dport = 0
    BY <1>1, <1>5 DEF Reply, FlowRead
  <2> QED  BY <2>1, <2>2 DEF Agrees, Told
<1> HIDE DEF Hits, g, r, combos
<1>6. Hits <=> f.proto # "sctp" /\ (Matches(h, f) \/ Matches(h, r))
  <2>1. CASE f.proto # h.proto
    BY <2>1, <1>3, <1>4
  <2>2. CASE f.proto = h.proto /\ h.proto = "sctp"
    BY <2>2, <1>3, <1>5
  <2>3. CASE f.proto = h.proto /\ h.proto # "sctp"
    BY <2>3, <1>2, <1>3
  <2> QED  BY <2>1, <2>2, <2>3
<1> QED  BY <1>1, <1>6 DEF Hits, g, r

\* The tables hold the keys of the rules that are enabled, and the prefilter is on if
\* there are any.
TablesFollow ==
    /\ rules \subseteq [header : Headers \cup Companions, enabled : BOOLEAN]
    /\ tables = UNION {Expansion(r.header) : r \in {x \in rules : x.enabled}}
    /\ on = (tables # {})

\* Every change to the list writes the tables and the switch anew (sync_suricata_rules).
LEMMA FilterFollows ==
    FSpec => []TablesFollow
<1>1. FInit => TablesFollow
  BY DEF FInit, TablesFollow
<1>2. TablesFollow /\ [FNext]_fvars => TablesFollow'
  <2> SUFFICES ASSUME TablesFollow, [FNext]_fvars PROVE TablesFollow'
    OBVIOUS
  <2> DEFINE Listed == [header : Headers \cup Companions, enabled : BOOLEAN]
  <2>1. ASSUME Sync, rules' \subseteq Listed PROVE TablesFollow'
    BY <2>1 DEF Sync, TablesFollow
  <2>2. ASSUME NEW h \in Headers \cup Companions, Add(h) PROVE TablesFollow'
    <3>1. [header |-> h, enabled |-> TRUE] \in Listed  BY <2>2
    <3>2. rules \subseteq Listed  BY DEF TablesFollow
    <3> HIDE DEF Listed
    <3>3. rules' \subseteq Listed  BY <2>2, <3>1, <3>2 DEF Add
    <3> QED  BY <2>1, <2>2, <3>3 DEF Add
  <2>3. ASSUME NEW r \in rules, Delete(r) PROVE TablesFollow'
    BY <2>1, <2>3 DEF Delete, TablesFollow
  <2>4. ASSUME NEW r \in rules, NEW enabled \in BOOLEAN, Patch(r, enabled)
        PROVE  TablesFollow'
    BY <2>1, <2>4 DEF Patch, TablesFollow
  <2>5. CASE UNCHANGED fvars
    BY <2>5 DEF fvars, TablesFollow
  <2> QED  BY <2>2, <2>3, <2>4, <2>5 DEF FNext
<1> QED  BY <1>1, <1>2, PTL DEF FSpec

\* Once the prefilter is on, just the new flows pass it that match an enabled rule which
\* was expanded, in one direction or the other, and none of SCTP (suri_rules_hit against
\* expand_header).
THEOREM PrefilterExact ==
    FSpec => []FilterIsExact
<1>1. ASSUME TablesFollow PROVE FilterIsExact
  <2> SUFFICES ASSUME on, NEW f \in Flows
               PROVE  Passes(f)
                         <=> /\ f.proto # "sctp"
                             /\ \E r \in Prefiltered :
                                    \/ Matches(r.header, f)
                                    \/ Matches(r.header, Reply(f))
    BY DEF FilterIsExact
  <2> DEFINE Hits(e) == \/ Begins(e, Seen(f))
                        \/ Begins(e, Seen(Reply(f)))
             Fitting(h) == Matches(h, f) \/ Matches(h, Reply(f))
  <2>1. /\ Bits \in Nat \ {0} /\ f \in Flow
        /\ \A h \in Headers \cup Companions : h \in Header
    BY FilterBounds
  <2>2. \A r \in rules : r.header \in Header
    BY <1>1, <2>1 DEF TablesFollow
  <2>3. \A e : e \in tables <=> \E r \in rules : r.enabled /\ e \in Expansion(r.header)
    BY <1>1 DEF TablesFollow
  <2>4. Passes(f) <=> \E e \in tables : Hits(e)
    BY DEF Passes, Hit
  <2>5. \A r : r \in Prefiltered
                  <=> r \in rules /\ r.enabled /\ Expansion(r.header) # {}
    BY DEF Prefiltered
  <2>6. \A r \in rules :
            Expansion(r.header) # {} =>
               ((\E e \in Expansion(r.header) : Hits(e))
                   <=> f.proto # "sctp" /\ Fitting(r.header))
    BY <2>1, <2>2, HeaderHit
  <2> HIDE DEF Hits, Fitting
  <2>7. (\E e \in tables : Hits(e)) <=> f.proto # "sctp" /\ \E r \in Prefiltered : Fitting(r.header)
    BY <2>3, <2>5, <2>6
  <2> QED  BY <2>4, <2>7 DEF Fitting
<1>2. TablesFollow => FilterIsExact
  BY <1>1
<1> QED  BY <1>2, FilterFollows, PTL
===============================================================================
