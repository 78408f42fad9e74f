------------------------------- MODULE DhcpProofs -------------------------------
(***************************************************************************)
(* DhcpServer keeps its leases apart, and its clients as far as they are   *)
(* not excused, for any pool, any number of clients and any lifetime.      *)
(*                                                                         *)
(* That two leases differ is inductive with the types alone.  That two     *)
(* clients differ needs that each belief, and each answer on its way, is   *)
(* backed by a lease that ends no sooner.                                  *)
(***************************************************************************)
EXTENDS DhcpServer, FiniteSetTheorems, TLAPS

\* What a client that is not excused believes in is its lease, which ends no sooner.
BeliefBacked ==
    \A c \in Client \ excused :
        Live(belief[c]) => /\ leases[c].addr = belief[c].addr
                           /\ leases[c].left >= belief[c].left

\* So is what an answer on its way gives, as far as anything is left of it.
AnswerBacked ==
    \A c \in Client :
        Live(answer[c]) => /\ leases[c].addr = answer[c].addr
                           /\ leases[c].left >= answer[c].left

IInv == TypeOK /\ LeasesExclusive /\ BeliefBacked /\ AnswerBacked

-----------------------------------------------------------------------------
\* addr_at stays in its segment.
LEMMA AddrInSegment ==
    ASSUME NEW o \in Nat
    PROVE  o % Segment \in Addr
BY BoundsAssumption, SMT DEF Addr

\* A probe reads an address of the segment.
LEMMA ScannedIsAddr ==
    ASSUME TypeOK, NEW k \in FreeProbes
    PROVE  /\ k \in Nat
           /\ Scanned(k) \in Addr
           /\ (next_offset + k + 1) % Segment \in Addr
<1>1. k \in Nat
  BY BoundsAssumption DEF FreeProbes
<1>2. next_offset \in Nat
  BY BoundsAssumption DEF TypeOK, Addr
<1>3. next_offset + k + 1 \in Nat
  BY <1>1, <1>2
<1> QED
  BY <1>1, <1>3, AddrInSegment DEF Scanned, AddrAt

\* Removing expired leases changes no live one.
LEMMA WithoutKeeps ==
    ASSUME TypeOK, NEW S \in Prunable
    PROVE  /\ Without(S) \in [Client -> Lease \cup {NoLease}]
           /\ \A c \in Client : Live(leases[c]) => Without(S)[c] = leases[c]
           /\ \A c \in Client : Live(Without(S)[c]) => Without(S)[c] = leases[c]
<1>1. S \subseteq Expired
  BY DEF Prunable
<1>2. ~Live(NoLease)
  BY DEF Live, NoLease
<1> QED
  BY <1>1, <1>2 DEF TypeOK, Without, Expired

\* The answer, if any, is the one given.
LEMMA AnsweredIs ==
    ASSUME TypeOK, NEW m \in Message, NEW addr \in Addr \cup {Unspecified},
           NEW left \in Lifetime, Answered(m, addr, left)
    PROVE  /\ answer' \in [Client -> Answer \cup {NoAnswer}]
           /\ \A c \in Client :
                \/ answer'[c] = answer[c]
                \/ c = m.client /\ answer'[c] = [addr |-> addr, left |-> left]
<1>1. [addr |-> addr, left |-> left] \in Answer
  BY DEF Answer
<1>2. m.client \in Client
  BY DEF Message
<1> QED
  BY <1>1, <1>2 DEF TypeOK, Answered

\* What is backed is backed by a live lease.
LEMMA BackedIsLive ==
    ASSUME IInv, NEW d \in Client
    PROVE  /\ Live(belief[d]) /\ d \notin excused => Live(leases[d])
           /\ Live(answer[d]) => Live(leases[d])
BY DEF IInv, TypeOK, BeliefBacked, AnswerBacked, Live, Lease, NoLease, Lifetime, Answer, NoAnswer

\* An answer from a live lease changes nothing the invariant sees but the answer.
LEMMA ReuseKeeps ==
    ASSUME IInv, NEW m \in Message, Reuse(m), UNCHANGED <<belief, excused>>, wire' \subseteq Message
    PROVE  IInv'
<1> DEFINE c == m.client
<1>1. c \in Client
  BY DEF Message
<1>2. PICK S \in Prunable : leases' = Without(S)
  BY DEF Reuse
<1>3. /\ leases' \in [Client -> Lease \cup {NoLease}]
      /\ \A d \in Client : Live(leases[d]) => leases'[d] = leases[d]
      /\ \A d \in Client : Live(leases'[d]) => leases'[d] = leases[d]
  BY <1>2, WithoutKeeps DEF IInv
<1>4. leases[c] \in Lease /\ leases[c].addr \in Addr /\ leases[c].left \in Lifetime
  BY <1>1 DEF IInv, TypeOK, Reuse, Live, Lease, NoLease, Lifetime
<1>5. /\ answer' \in [Client -> Answer \cup {NoAnswer}]
      /\ \A d \in Client :
           \/ answer'[d] = answer[d]
           \/ d = c /\ answer'[d] = [addr |-> leases[c].addr, left |-> leases[c].left]
  BY <1>4, AnsweredIs DEF Reuse, IInv
<1>6. TypeOK'
  BY <1>3, <1>5 DEF IInv, TypeOK, Reuse
<1>7. LeasesExclusive'
  BY <1>3 DEF IInv, LeasesExclusive
<1>8. BeliefBacked'
  <2> SUFFICES ASSUME NEW d \in Client \ excused, Live(belief[d])
               PROVE  leases'[d].addr = belief[d].addr /\ leases'[d].left >= belief[d].left
    BY DEF BeliefBacked
  <2>1. leases[d].addr = belief[d].addr /\ leases[d].left >= belief[d].left
    BY DEF IInv, BeliefBacked
  <2>2. Live(leases[d])
    BY <2>1 DEF Live, IInv, TypeOK, Lease, NoLease, Lifetime
  <2> QED
    BY <2>1, <2>2, <1>3
<1>9. AnswerBacked'
  <2> SUFFICES ASSUME NEW d \in Client, Live(answer'[d])
               PROVE  leases'[d].addr = answer'[d].addr /\ leases'[d].left >= answer'[d].left
    BY DEF AnswerBacked
  <2>1. CASE answer'[d] = answer[d]
    <3>1. leases[d].addr = answer[d].addr /\ leases[d].left >= answer[d].left
      BY <2>1 DEF IInv, AnswerBacked
    <3>2. Live(leases[d])
      BY <2>1, <3>1 DEF Live, IInv, TypeOK, Lease, NoLease, Lifetime, Answer, NoAnswer
    <3> QED
      BY <2>1, <3>1, <3>2, <1>3
  <2>2. CASE d = c /\ answer'[d] = [addr |-> leases[c].addr, left |-> leases[c].left]
    <3>1. leases'[c] = leases[c]
      BY <1>1, <1>3 DEF Reuse
    <3> QED
      BY <2>2, <3>1, <1>4 DEF Lifetime
  <2> QED
    BY <2>1, <2>2, <1>5
<1> QED
  BY <1>6, <1>7, <1>8, <1>9 DEF IInv

\* A new lease is on an address no live lease has, and its client had none.
LEMMA AllocateKeeps ==
    ASSUME IInv, NEW m \in Message, Allocate(m), UNCHANGED <<belief, excused>>,
           wire' \subseteq Message
    PROVE  IInv'
<1> DEFINE c == m.client
<1>1. c \in Client
  BY DEF Message
<1>2. PICK k \in FreeProbes, S \in Prunable :
        /\ ~Live(leases[c])
        /\ leases' = [Without(S) EXCEPT ![c] = [addr |-> Scanned(k), left |-> Valid]]
        /\ next_offset' = (next_offset + k + 1) % Segment
        /\ Answered(m, Scanned(k), Valid)
  BY DEF Allocate
<1>3. /\ Scanned(k) \in Addr
      /\ next_offset' \in Addr
      /\ Valid \in Lifetime
      /\ [addr |-> Scanned(k), left |-> Valid] \in Lease
  BY <1>2, ScannedIsAddr, BoundsAssumption DEF IInv, Lifetime, Lease
<1>4. /\ leases' \in [Client -> Lease \cup {NoLease}]
      /\ leases'[c] = [addr |-> Scanned(k), left |-> Valid]
      /\ \A d \in Client \ {c} : Live(leases[d]) => leases'[d] = leases[d]
      /\ \A d \in Client \ {c} : Live(leases'[d]) => leases'[d] = leases[d]
  BY <1>1, <1>2, <1>3, WithoutKeeps DEF IInv
<1>5. /\ answer' \in [Client -> Answer \cup {NoAnswer}]
      /\ \A d \in Client :
           \/ answer'[d] = answer[d]
           \/ d = c /\ answer'[d] = leases'[c]
  BY <1>2, <1>3, <1>4, AnsweredIs DEF IInv
<1>6. TypeOK'
  BY <1>3, <1>4, <1>5 DEF IInv, TypeOK
<1>7. LeasesExclusive'
  <2> SUFFICES ASSUME NEW d \in Client, NEW e \in Client, d # e,
                      Live(leases'[d]), Live(leases'[e]), leases'[d].addr = leases'[e].addr
               PROVE  FALSE
    BY DEF LeasesExclusive
  <2>1. \A b \in Client : ~(leases[b].addr = Scanned(k) /\ Live(leases[b]))
    BY <1>2 DEF FreeProbes, InUse
  <2>2. CASE d = c
    BY <2>1, <2>2, <1>4
  <2>3. CASE e = c
    BY <2>1, <2>3, <1>4
  <2>4. CASE d # c /\ e # c
    BY <2>4, <1>4 DEF IInv, LeasesExclusive
  <2> QED
    BY <2>2, <2>3, <2>4
<1>8. BeliefBacked'
  <2> SUFFICES ASSUME NEW d \in Client \ excused, Live(belief[d])
               PROVE  leases'[d].addr = belief[d].addr /\ leases'[d].left >= belief[d].left
    BY DEF BeliefBacked
  <2>1. Live(leases[d])
    BY BackedIsLive
  <2> QED
    BY <2>1, <1>2, <1>4 DEF IInv, BeliefBacked
<1>9. AnswerBacked'
  <2> SUFFICES ASSUME NEW d \in Client, Live(answer'[d])
               PROVE  leases'[d].addr = answer'[d].addr /\ leases'[d].left >= answer'[d].left
    BY DEF AnswerBacked
  <2>1. CASE answer'[d] = answer[d]
    <3>1. Live(leases[d])
      BY <2>1, BackedIsLive
    <3> QED
      BY <2>1, <3>1, <1>2, <1>4 DEF IInv, AnswerBacked
  <2>2. CASE d = c /\ answer'[d] = leases'[c]
    BY <2>2, <1>3, <1>4 DEF Lifetime
  <2> QED
    BY <2>1, <2>2, <1>5
<1> QED
  BY <1>6, <1>7, <1>8, <1>9 DEF IInv

\* A client that is told :: had no live lease.
LEMMA RunDryKeeps ==
    ASSUME IInv, NEW m \in Message, RunDry(m), UNCHANGED <<belief, excused>>,
           wire' \subseteq Message
    PROVE  IInv'
<1> DEFINE c == m.client
<1>1. c \in Client
  BY DEF Message
<1>2. PICK S \in Prunable : leases' = [Without(S) EXCEPT ![c] = NoLease]
  BY DEF RunDry
<1>3. ~Live(leases[c])
  BY DEF RunDry
<1>4. /\ leases' \in [Client -> Lease \cup {NoLease}]
      /\ leases'[c] = NoLease
      /\ \A d \in Client \ {c} : Live(leases[d]) => leases'[d] = leases[d]
      /\ \A d \in Client \ {c} : Live(leases'[d]) => leases'[d] = leases[d]
  BY <1>1, <1>2, WithoutKeeps DEF IInv
<1>5. /\ answer' \in [Client -> Answer \cup {NoAnswer}]
      /\ \A d \in Client :
           \/ answer'[d] = answer[d]
           \/ answer'[d] = [addr |-> Unspecified, left |-> 0]
  BY AnsweredIs, BoundsAssumption DEF IInv, RunDry, Lifetime
<1>6. TypeOK'
  BY <1>4, <1>5 DEF IInv, TypeOK, RunDry
<1>7. ~Live(NoLease) /\ ~Live([addr |-> Unspecified, left |-> 0])
  BY DEF Live, NoLease
<1>8. LeasesExclusive'
  <2> SUFFICES ASSUME NEW d \in Client, NEW e \in Client,
                      Live(leases'[d]), Live(leases'[e]), leases'[d].addr = leases'[e].addr
               PROVE  d = e
    BY DEF LeasesExclusive
  <2>1. d # c /\ e # c
    BY <1>4, <1>7
  <2> QED
    BY <2>1, <1>4 DEF IInv, LeasesExclusive
<1>9. BeliefBacked'
  <2> SUFFICES ASSUME NEW d \in Client \ excused, Live(belief[d])
               PROVE  leases'[d].addr = belief[d].addr /\ leases'[d].left >= belief[d].left
    BY DEF BeliefBacked
  <2>1. Live(leases[d])
    BY BackedIsLive
  <2> QED
    BY <2>1, <1>3, <1>4 DEF IInv, BeliefBacked
<1>10. AnswerBacked'
  <2> SUFFICES ASSUME NEW d \in Client, Live(answer'[d])
               PROVE  leases'[d].addr = answer'[d].addr /\ leases'[d].left >= answer'[d].left
    BY DEF AnswerBacked
  <2>1. answer'[d] = answer[d]
    BY <1>5, <1>7
  <2>2. Live(leases[d])
    BY <2>1, BackedIsLive
  <2> QED
    BY <2>1, <2>2, <1>3, <1>4 DEF IInv, AnswerBacked
<1> QED
  BY <1>6, <1>8, <1>9, <1>10 DEF IInv

\* A message that is handled stays under way or does not.
LEMMA TakenKeeps ==
    ASSUME TypeOK, NEW m \in wire, Taken(m)
    PROVE  wire' \subseteq Message
BY DEF TypeOK, Taken

\* The end of a lease excuses its client and voids the answers made from it.
LEMMA ReleaseKeeps ==
    ASSUME IInv, NEW m \in wire, HandleRelease(m)
    PROVE  IInv'
<1> DEFINE c == m.client
<1>1. c \in Client /\ wire' \subseteq Message
  BY TakenKeeps DEF IInv, TypeOK, Message, HandleRelease
<1>2. ~Live(NoLease) /\ NoLease \in Lease \cup {NoLease}
  BY DEF Live, NoLease
<1>3. /\ leases' \in [Client -> Lease \cup {NoLease}]
      /\ \A d \in Client \ {c} : leases'[d] = leases[d]
      /\ leases'[c] \in {leases[c], NoLease}
  BY <1>1 DEF IInv, TypeOK, HandleRelease, Without
<1>4. /\ answer' \in [Client -> Answer \cup {NoAnswer}]
      /\ \A d \in Client \ {c} : answer'[d] = answer[d]
      /\ ~Live(answer'[c])
  <2>1. answer' = Voided({c})
    BY DEF HandleRelease
  <2>2. answer \in [Client -> Answer \cup {NoAnswer}]
    BY DEF IInv, TypeOK
  <2>3. [answer[c] EXCEPT !.left = 0] \in Answer \cup {NoAnswer}
    BY <1>1, <2>2, BoundsAssumption DEF Answer, NoAnswer, Lifetime
  <2> QED
    BY <1>1, <2>1, <2>2, <2>3, BoundsAssumption DEF Voided, Live, Answer, NoAnswer
<1>5. excused' = excused \cup {d \in {c} : Live(belief[d])} /\ UNCHANGED <<next_offset, belief>>
  BY DEF HandleRelease
<1>6. TypeOK'
  BY <1>1, <1>3, <1>4, <1>5 DEF IInv, TypeOK
<1>7. LeasesExclusive'
  BY <1>1, <1>2, <1>3 DEF IInv, LeasesExclusive
<1>8. BeliefBacked'
  BY <1>1, <1>3, <1>5 DEF IInv, BeliefBacked
<1>9. AnswerBacked'
  BY <1>1, <1>3, <1>4 DEF IInv, AnswerBacked
<1> QED
  BY <1>6, <1>7, <1>8, <1>9 DEF IInv

\* A restart leaves no lease, and nothing that claims to be backed by one.
LEMMA RestartKeeps ==
    ASSUME IInv, Restart
    PROVE  IInv'
<1>1. /\ leases' = [c \in Client |-> NoLease]
      /\ ~Live(NoLease)
  BY DEF Restart, Live, NoLease
<1>2. /\ answer' \in [Client -> Answer \cup {NoAnswer}]
      /\ \A d \in Client : ~Live(answer'[d])
  <2>1. answer' = [c \in Client |-> [answer[c] EXCEPT !.left = 0]]
    BY DEF Restart, Voided
  <2>2. answer \in [Client -> Answer \cup {NoAnswer}]
    BY DEF IInv, TypeOK
  <2>3. ASSUME NEW d \in Client
        PROVE  [answer[d] EXCEPT !.left = 0] \in Answer \cup {NoAnswer}
    BY <2>2, BoundsAssumption DEF Answer, NoAnswer, Lifetime
  <2>4. ASSUME NEW d \in Client
        PROVE  ~Live([answer[d] EXCEPT !.left = 0])
    BY <2>2 DEF Answer, NoAnswer, Live
  <2> QED
    BY <2>1, <2>3, <2>4
<1>3. TypeOK'
  BY <1>1, <1>2, BoundsAssumption DEF IInv, TypeOK, Restart, Addr
<1>4. LeasesExclusive'
  BY <1>1 DEF LeasesExclusive
<1>5. BeliefBacked'
  BY DEF BeliefBacked, Restart
<1>6. AnswerBacked'
  BY <1>2 DEF AnswerBacked
<1> QED
  BY <1>3, <1>4, <1>5, <1>6 DEF IInv

\* The steps of clients and network leave the leases alone, and but for Accept they
\* only take beliefs and answers away.
LEMMA ClientKeeps ==
    ASSUME IInv, NEW c \in Client, Ask(c) \/ GiveUp(c) \/ LoseAnswer(c)
    PROVE  IInv'
<1>1. ~Live(NoLease) /\ ~Live(NoAnswer) /\ NoLease # NoAnswer
  BY DEF Live, NoLease, NoAnswer, Unspecified
<1>2. /\ UNCHANGED <<leases, next_offset>>
      /\ answer' = [answer EXCEPT ![c] = NoAnswer]
      /\ \/ UNCHANGED <<belief, excused>>
         \/ belief' = [belief EXCEPT ![c] = NoLease] /\ excused' = excused \ {c}
  BY DEF Ask, GiveUp, LoseAnswer
<1>3. wire' \subseteq Message
  <2>1. Outdated(c) \subseteq Message
    BY DEF IInv, TypeOK, Outdated, Message
  <2>2. /\ [type |-> "request", client |-> c, current |-> TRUE] \in Message
        /\ [type |-> "release", client |-> c, current |-> TRUE] \in Message
    BY DEF Message
  <2>3. CASE Ask(c)
    BY <2>1, <2>2, <2>3 DEF Ask
  <2>4. CASE GiveUp(c)
    BY <2>1, <2>2, <2>4 DEF GiveUp
  <2>5. CASE LoseAnswer(c)
    BY <2>5 DEF LoseAnswer, IInv, TypeOK
  <2> QED
    BY <2>3, <2>4, <2>5
<1>4. TypeOK'
  BY <1>2, <1>3 DEF IInv, TypeOK
<1>5. LeasesExclusive'
  BY <1>2 DEF IInv, LeasesExclusive
<1>6. BeliefBacked'
  BY <1>1, <1>2 DEF IInv, TypeOK, BeliefBacked
<1>7. AnswerBacked'
  BY <1>1, <1>2 DEF IInv, TypeOK, AnswerBacked
<1> QED
  BY <1>4, <1>5, <1>6, <1>7 DEF IInv

\* A full answer is backed for its whole lifetime; any other excuses the client.
LEMMA AcceptKeeps ==
    ASSUME IInv, NEW c \in Client, Accept(c)
    PROVE  IInv'
<1>1. ~Live(NoAnswer)
  BY DEF Live, NoAnswer
<1>2. /\ UNCHANGED <<leases, next_offset>>
      /\ answer' = [answer EXCEPT ![c] = NoAnswer]
      /\ belief' = [belief EXCEPT ![c] = [addr |-> answer[c].addr, left |-> Valid]]
      /\ excused' = IF answer[c].left < Valid THEN excused \cup {c} ELSE excused \ {c}
      /\ wire' = Outdated(c)
      /\ answer[c].addr \in Addr
  BY DEF Accept
<1>3. wire' \subseteq Message
  BY <1>2 DEF IInv, TypeOK, Outdated, Message
<1>4. [addr |-> answer[c].addr, left |-> Valid] \in Lease
  BY <1>2, BoundsAssumption DEF Lease, Lifetime
<1>5. TypeOK'
  BY <1>2, <1>3, <1>4 DEF IInv, TypeOK
<1>6. LeasesExclusive'
  BY <1>2 DEF IInv, LeasesExclusive
<1>7. BeliefBacked'
  <2> SUFFICES ASSUME NEW d \in Client \ excused', Live(belief'[d])
               PROVE  leases[d].addr = belief'[d].addr /\ leases[d].left >= belief'[d].left
    BY <1>2 DEF BeliefBacked
  <2>1. CASE d = c
    <3>1. belief'[c] = [addr |-> answer[c].addr, left |-> Valid]
      BY <1>2 DEF IInv, TypeOK
    <3>2. answer[c].left \in Lifetime
      BY BoundsAssumption DEF IInv, TypeOK, Answer, NoAnswer, Lifetime
    <3>3. answer[c].left = Valid /\ Live(answer[c])
      <4>1. ~(answer[c].left < Valid)
        BY <1>2, <2>1
      <4> QED
        BY <4>1, <3>2, BoundsAssumption DEF Lifetime, Live
    <3> QED
      BY <2>1, <3>1, <3>3 DEF IInv, AnswerBacked
  <2>2. CASE d # c
    BY <2>2, <1>2 DEF IInv, TypeOK, BeliefBacked
  <2> QED
    BY <2>1, <2>2
<1>8. AnswerBacked'
  BY <1>1, <1>2 DEF IInv, TypeOK, AnswerBacked
<1> QED
  BY <1>5, <1>6, <1>7, <1>8 DEF IInv

\* Time takes the same from leases, answers and beliefs.
LEMMA TickKeeps ==
    ASSUME IInv, Tick
    PROVE  IInv'
<1>1. \A l \in Lease \cup {NoLease} :
        /\ Later(l) \in Lease \cup {NoLease}
        /\ Ended(l) \in Lease \cup {NoLease}
        /\ Later(l).addr = l.addr
        /\ Live(Later(l)) => Live(l)
        /\ Later(l).left = IF l.left > 0 THEN l.left - 1 ELSE 0
        /\ l.left \in Int
        /\ Live(Ended(l)) => l.left > 1 /\ Ended(l) = Later(l)
  <2>1. ASSUME NEW l \in Lease \cup {NoLease}
        PROVE  /\ l.left \in Lifetime
               /\ Later(l) = [addr |-> l.addr, left |-> IF l.left > 0 THEN l.left - 1 ELSE 0]
    BY BoundsAssumption DEF Later, Lease, NoLease, Lifetime
  <2>2. ASSUME NEW l \in Lease \cup {NoLease}
        PROVE  Later(l) \in Lease \cup {NoLease}
    BY <2>1, BoundsAssumption DEF Lease, NoLease, Lifetime
  <2>3. ~Live(NoLease)
    BY DEF Live, NoLease
  <2> QED
    BY <2>1, <2>2, <2>3, BoundsAssumption DEF Ended, Live, Lifetime
<1>2. \A a \in Answer \cup {NoAnswer} :
        /\ Later(a) \in Answer \cup {NoAnswer}
        /\ Later(a).addr = a.addr
        /\ Live(Later(a)) => Live(a)
        /\ Later(a).left = IF a.left > 0 THEN a.left - 1 ELSE 0
        /\ a.left \in Int
  <2>1. ASSUME NEW a \in Answer \cup {NoAnswer}
        PROVE  /\ a.left \in Lifetime
               /\ Later(a) = [addr |-> a.addr, left |-> IF a.left > 0 THEN a.left - 1 ELSE 0]
    BY BoundsAssumption DEF Later, Answer, NoAnswer, Lifetime
  <2> QED
    BY <2>1, BoundsAssumption DEF Answer, NoAnswer, Live, Lifetime
<1>3. /\ leases' = [c \in Client |-> Later(leases[c])]
      /\ answer' = [c \in Client |-> Later(answer[c])]
      /\ belief' = [c \in Client |-> Ended(belief[c])]
      /\ excused' = excused \ {c \in Client : belief[c].left <= 1}
      /\ UNCHANGED <<next_offset, wire>>
  BY DEF Tick
<1>4. /\ leases \in [Client -> Lease \cup {NoLease}]
      /\ belief \in [Client -> Lease \cup {NoLease}]
      /\ answer \in [Client -> Answer \cup {NoAnswer}]
  BY DEF IInv, TypeOK
<1>5. TypeOK'
  BY <1>1, <1>2, <1>3 DEF IInv, TypeOK
<1>6. LeasesExclusive'
  BY <1>1, <1>3, <1>4 DEF IInv, LeasesExclusive
<1>7. BeliefBacked'
  <2> SUFFICES ASSUME NEW c \in Client \ excused', Live(belief'[c])
               PROVE  leases'[c].addr = belief'[c].addr /\ leases'[c].left >= belief'[c].left
    BY DEF BeliefBacked
  <2>1. belief[c].left > 1 /\ belief'[c] = Later(belief[c])
    BY <1>1, <1>3, <1>4
  <2>2. Live(belief[c])
    BY <2>1, <1>1, <1>4 DEF Live
  <2>3. c \notin excused
    BY <2>1, <1>1, <1>3, <1>4
  <2>4. leases[c].addr = belief[c].addr /\ leases[c].left >= belief[c].left
    BY <2>2, <2>3 DEF IInv, BeliefBacked
  <2> QED
    BY <2>1, <2>4, <1>1, <1>3, <1>4
<1>8. AnswerBacked'
  <2> SUFFICES ASSUME NEW c \in Client, Live(answer'[c])
               PROVE  leases'[c].addr = answer'[c].addr /\ leases'[c].left >= answer'[c].left
    BY DEF AnswerBacked
  <2>1. Live(answer[c]) /\ answer'[c] = Later(answer[c])
    BY <1>2, <1>3, <1>4
  <2>2. leases[c].addr = answer[c].addr /\ leases[c].left >= answer[c].left
    BY <2>1 DEF IInv, AnswerBacked
  <2> QED
    BY <2>1, <2>2, <1>1, <1>2, <1>3, <1>4 DEF Live
<1> QED
  BY <1>5, <1>6, <1>7, <1>8 DEF IInv

-----------------------------------------------------------------------------
\* At the start there is no lease, no message and no belief.
LEMMA InitIInv == Init => IInv
<1> SUFFICES ASSUME Init PROVE IInv
  OBVIOUS
<1>1. ~Live(NoLease) /\ ~Live(NoAnswer)
  BY DEF Live, NoLease, NoAnswer
<1>2. TypeOK
  BY BoundsAssumption DEF Init, TypeOK, Addr
<1> QED
  BY <1>1, <1>2 DEF Init, IInv, LeasesExclusive, BeliefBacked, AnswerBacked

\* Every step keeps the invariant.
LEMMA NextIInv == IInv /\ [Next]_vars => IInv'
<1> SUFFICES ASSUME IInv, [Next]_vars PROVE IInv'
  OBVIOUS
<1>1. ASSUME NEW m \in wire, HandleRequest(m) PROVE IInv'
  <2>1. m \in Message /\ wire' \subseteq Message
    BY <1>1, TakenKeeps DEF IInv, TypeOK, HandleRequest
  <2> QED
    BY <1>1, <2>1, ReuseKeeps, AllocateKeeps, RunDryKeeps DEF HandleRequest, AllocFor
<1>2. ASSUME NEW m \in wire, Refuse(m) \/ LoseMessage(m) PROVE IInv'
  <2>1. wire' \subseteq Message
    BY <1>2, TakenKeeps DEF IInv, TypeOK, Refuse, LoseMessage
  <2> QED
    BY <1>2, <2>1 DEF IInv, TypeOK, Refuse, LoseMessage, LeasesExclusive, BeliefBacked, AnswerBacked
<1>3. ASSUME NEW m \in wire, HandleRelease(m) PROVE IInv'
  BY <1>3, ReleaseKeeps
<1>4. CASE Restart
  BY <1>4, RestartKeeps
<1>5. ASSUME NEW c \in Client, Ask(c) \/ GiveUp(c) \/ LoseAnswer(c) PROVE IInv'
  BY <1>5, ClientKeeps
<1>6. ASSUME NEW c \in Client, Accept(c) PROVE IInv'
  BY <1>6, AcceptKeeps
<1>7. CASE Tick
  BY <1>7, TickKeeps
<1>8. CASE UNCHANGED vars
  BY <1>8 DEF vars, IInv, TypeOK, LeasesExclusive, BeliefBacked, AnswerBacked
<1> QED
  BY <1>1, <1>2, <1>3, <1>4, <1>5, <1>6, <1>7, <1>8 DEF Next

\* The table of leases, the offset, the messages and the beliefs keep their types,
\* for any pool and any clients.
THEOREM TypeCorrect == Spec => []TypeOK
<1>1. IInv => TypeOK
  BY DEF IInv
<1> QED
  BY <1>1, InitIInv, NextIInv, PTL DEF Spec

\* alloc_addr_locked leases no address twice, for any pool and any number of clients.
THEOREM LeasesCorrect == Spec => []LeasesExclusive
<1>1. IInv => LeasesExclusive
  BY DEF IInv
<1> QED
  BY <1>1, InitIInv, NextIInv, PTL DEF Spec

\* Two clients hold one address only if one of them was answered from an old lease,
\* or late, or lost its lease to a restart or a late RELEASE.
THEOREM HoldersCorrect == Spec => []HoldersExclusive
<1>1. IInv => HoldersExclusive
  <2> SUFFICES ASSUME IInv, NEW c \in Client \ excused, NEW d \in Client \ excused,
                      Live(belief[c]), Live(belief[d]), belief[c].addr = belief[d].addr
               PROVE  c = d
    BY DEF HoldersExclusive
  <2>1. Live(leases[c]) /\ Live(leases[d])
    BY BackedIsLive
  <2>2. leases[c].addr = leases[d].addr
    BY DEF IInv, BeliefBacked
  <2> QED
    BY <2>1, <2>2 DEF IInv, LeasesExclusive
<1> QED
  BY <1>1, InitIInv, NextIInv, PTL DEF Spec
-----------------------------------------------------------------------------
\* No two probes of an allocation try the same address: it tries no more than
\* there are, and addr_at goes round the segment.
LEMMA ProbesDiffer ==
    ASSUME TypeOK, NEW j \in 0 .. ScanLimit - 1, NEW k \in 0 .. ScanLimit - 1,
           Scanned(j) = Scanned(k)
    PROVE  j = k
<1>1. /\ next_offset \in 0 .. Segment - 1
      /\ Segment \in Nat \ {0} /\ ScanLimit \in 1 .. Segment
  BY BoundsAssumption DEF TypeOK, Addr
<1>2. ASSUME NEW x \in 0 .. 2 * Segment - 1
      PROVE  x % Segment = IF x < Segment THEN x ELSE x - Segment
  BY <1>1, SMT
<1>3. ASSUME NEW i \in 0 .. ScanLimit - 1
      PROVE  Scanned(i) = IF next_offset + i + 1 < Segment THEN next_offset + i + 1
                          ELSE next_offset + i + 1 - Segment
  BY <1>1, <1>2 DEF Scanned, AddrAt
<1> QED
  BY <1>1, <1>3

\* If all probes find their address in use, each finds another live lease.
LEMMA ProbesFindLeases ==
    ASSUME TypeOK, FreeProbes = {}
    PROVE  Cardinality({d \in Client : Live(leases[d])}) >= ScanLimit
<1> DEFINE Tried == 0 .. ScanLimit - 1
           Alive == {d \in Client : Live(leases[d])}
           finds == [k \in Tried |-> CHOOSE d \in Alive : leases[d].addr = Scanned(k)]
<1>1. IsFiniteSet(Tried) /\ Cardinality(Tried) = ScanLimit
  BY FS_Interval, BoundsAssumption
<1>2. IsFiniteSet(Alive) /\ Cardinality(Alive) \in Nat
  BY FS_Subset, FS_CardinalityType, BoundsAssumption
<1>3. \A k \in Tried : \E d \in Alive : leases[d].addr = Scanned(k)
  BY DEF FreeProbes, InUse
<1>4. \A k \in Tried : finds[k] \in Alive /\ leases[finds[k]].addr = Scanned(k)
  BY <1>3
<1>5. finds \in [Tried -> Alive]
  BY <1>4
<1>6. \A j, k \in Tried : finds[j] = finds[k] => j = k
  BY <1>4, ProbesDiffer
<1> HIDE DEF finds, Tried, Alive
<1>7. ~(Cardinality(Alive) < Cardinality(Tried))
  BY <1>1, <1>2, <1>5, <1>6, FS_PigeonHole
<1> QED
  BY <1>1, <1>2, <1>7, BoundsAssumption DEF Alive

\* :: is answered only when as many leases are live as an allocation tries
\* addresses (alloc_addr_locked), for any pool, any number of clients and any
\* length of the scan, wherever the offset stands.
THEOREM PoolCorrect == Spec => PoolIsUsedUp
<1> DEFINE A == \A c \in Client :
                  answer'[c].addr = Unspecified /\ answer[c].addr # Unspecified
                      => Cardinality({d \in Client : Live(leases[d])}) >= ScanLimit
<1>1. IInv /\ [Next]_vars => A
  <2> SUFFICES ASSUME IInv, [Next]_vars, NEW c \in Client,
                      answer'[c].addr = Unspecified, answer[c].addr # Unspecified
               PROVE  Cardinality({d \in Client : Live(leases[d])}) >= ScanLimit
    OBVIOUS
  <2>1. TypeOK /\ answer \in [Client -> Answer \cup {NoAnswer}]
    BY DEF IInv, TypeOK
  <2>2. NoAnswer.addr # Unspecified
    BY DEF NoAnswer, Unspecified
  <2>3. ASSUME NEW m \in wire, HandleRequest(m)
        PROVE  FreeProbes = {}
    <3>1. m \in Message /\ m.client \in Client
      BY <2>1 DEF TypeOK, Message
    <3>2. CASE Reuse(m)
      <4>1. leases[m.client].addr \in Addr /\ leases[m.client].left \in Lifetime
        BY <2>1, <3>1, <3>2 DEF TypeOK, Reuse, Live, Lease, NoLease
      <4>2. \/ answer'[c] = answer[c]
            \/ answer'[c] = [addr |-> leases[m.client].addr, left |-> leases[m.client].left]
        BY <2>1, <3>1, <3>2, <4>1, AnsweredIs DEF Reuse
      <4> QED
        BY <4>1, <4>2, BoundsAssumption DEF Addr, Unspecified
    <3>3. CASE Allocate(m)
      <4>1. PICK k \in FreeProbes : Answered(m, Scanned(k), Valid)
        BY <3>3 DEF Allocate
      <4>2. Scanned(k) \in Addr /\ Valid \in Lifetime
        BY <2>1, ScannedIsAddr, BoundsAssumption DEF Lifetime
      <4>3. answer'[c] = answer[c] \/ answer'[c] = [addr |-> Scanned(k), left |-> Valid]
        BY <2>1, <3>1, <4>1, <4>2, AnsweredIs
      <4> QED
        BY <4>2, <4>3, BoundsAssumption DEF Addr, Unspecified
    <3>4. CASE RunDry(m)
      BY <3>4 DEF RunDry
    <3> QED
      BY <2>3, <3>2, <3>3, <3>4 DEF HandleRequest, AllocFor
  <2>4. ASSUME NEW m \in wire, Refuse(m) \/ LoseMessage(m)
        PROVE  FALSE
    BY <2>4 DEF Refuse, LoseMessage
  <2>5. ASSUME NEW C \in SUBSET Client
        PROVE  Voided(C)[c].addr = answer[c].addr
    BY <2>1 DEF Voided, Answer, NoAnswer
  <2>6. ASSUME NEW m \in wire, HandleRelease(m)
        PROVE  FALSE
    <3>1. m.client \in Client
      BY <2>1 DEF TypeOK, Message
    <3> QED
      BY <2>5, <2>6, <3>1 DEF HandleRelease
  <2>7. CASE Restart
    BY <2>5, <2>7 DEF Restart
  <2>8. ASSUME NEW d \in Client, Ask(d) \/ GiveUp(d) \/ Accept(d) \/ LoseAnswer(d)
        PROVE  FALSE
    BY <2>1, <2>2, <2>8 DEF Ask, GiveUp, Accept, LoseAnswer
  <2>9. CASE Tick
    <3>1. answer'[c] = Later(answer[c])
      BY <2>9 DEF Tick
    <3>2. Later(answer[c]).addr = answer[c].addr
      BY <2>1 DEF Later, Answer, NoAnswer
    <3> QED
      BY <3>1, <3>2
  <2>10. CASE UNCHANGED vars
    BY <2>10 DEF vars
  <2> QED
    BY <2>1, <2>3, <2>4, <2>6, <2>7, <2>8, <2>9, <2>10, ProbesFindLeases DEF Next
<1> QED
  BY <1>1, InitIInv, NextIInv, PTL DEF Spec, PoolIsUsedUp
=============================================================================
