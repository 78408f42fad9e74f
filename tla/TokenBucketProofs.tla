--------------------------- MODULE TokenBucketProofs ---------------------------
(***************************************************************************)
(* Proofs about TokenBucket, for any rates, bursts, widths and clock.      *)
(***************************************************************************)
EXTENDS TokenBucket, TLAPS

\* What a packet finds is what its predecessor left and what the time since then
\* earned; the account of a bucket is in tokens times Second, so that nothing is
\* rounded.  last lags behind since only until the first packet after a change of
\* the configuration, and until then nothing has passed.
Account ==
    ~shrunk =>
        /\ tokens <= burst
        /\ last < since => passed = 0
        /\ last >= since => (passed + tokens - burst) * Second <= rate * (last - since)

IInv == TypeOK /\ Account

-----------------------------------------------------------------------------
\* Division and remainder of natural numbers.
LEMMA DivMul ==
    ASSUME NEW x \in Nat, NEW y \in Nat \ {0}
    PROVE  x \div y \in Nat /\ (x \div y) * y <= x
  BY SMT

LEMMA ModRange ==
    ASSUME NEW x \in Int, NEW y \in Nat \ {0}
    PROVE  x % y \in 0 .. y - 1
  BY SMT

LEMMA ModLess ==
    ASSUME NEW x \in Nat, NEW y \in Nat \ {0}
    PROVE  x % y \in Nat /\ x % y <= x
  BY SMT

LEMMA ModSmall ==
    ASSUME NEW x \in Nat, NEW y \in Nat \ {0}, x < y
    PROVE  x % y = x
  BY SMT

LEMMA MulMonotone ==
    ASSUME NEW a \in Int, NEW b \in Int, NEW c \in Nat, a <= b
    PROVE  c * a <= c * b
  BY SMT

LEMMA Types ==
    ASSUME TypeOK
    PROVE  /\ kind \in Kind
           /\ rate \in Nat /\ burst \in Nat /\ burst < Word /\ burst >= 1
           /\ tokens \in Nat /\ tokens < Word
           /\ now \in Nat /\ last \in Nat /\ since \in Nat /\ passed \in Nat
           /\ last <= now /\ since <= now
           /\ Second \in Nat /\ Second # 0 /\ Word \in Nat /\ Word # 0
           /\ LongWord \in Nat /\ LongWord # 0 /\ Window \in Nat /\ Word <= LongWord
  BY ConfigAssumption, WidthAssumption DEF TypeOK

\* A time interval earns a whole number of tokens, worth no more than the interval.
LEMMA EarnedBound ==
    ASSUME TypeOK, NEW e \in Nat
    PROVE  Earned(e) \in Nat /\ Earned(e) * Second <= rate * e
<1> DEFINE time == Least(e, Window)
           worth == (time * rate) % LongWord
<1>1. time \in Nat /\ time <= e
  BY Types DEF Least
<1>2. time * rate \in Nat /\ time * rate <= rate * e
  BY <1>1, MulMonotone, Types
<1>3. worth \in Nat /\ worth <= time * rate
  <2> HIDE DEF time
  <2> QED  BY <1>2, ModLess, ConfigAssumption
<1>4. worth \div Second \in Nat /\ (worth \div Second) * Second <= worth
  <2> HIDE DEF worth
  <2> QED  BY <1>3, DivMul, ConfigAssumption
<1>5. Earned(e) = worth \div Second
  BY DEF Earned
<1> HIDE DEF time, worth
<1> QED  BY <1>2, <1>3, <1>4, <1>5, Types

\* What a packet finds fits the word; where the capacity was never lowered below
\* the tokens it fits the bucket, too, and it exceeds the tokens by what was earned.
LEMMA RefilledBound ==
    ASSUME IInv
    PROVE  /\ Refilled \in 0 .. Word - 1
           /\ ~shrunk => /\ Refilled <= burst
                         /\ (Refilled - tokens) * Second <= rate * (now - last)
<1> DEFINE earned == Earned(now - last)
           add    == Least(earned, Headroom)
<1>1. CASE ~(now > last)
  BY <1>1, Types DEF Refilled, IInv, Account
<1>2. CASE now > last
  <2>1. earned \in Nat /\ earned * Second <= rate * (now - last)
    BY <1>2, EarnedBound, Types DEF IInv
  <2>2. Headroom \in Nat /\ (tokens <= burst => Headroom = burst - tokens)
    <3> DEFINE room == burst - tokens
    <3>1. room \in Int /\ (tokens <= burst => room \in Nat /\ room < LongWord)
      BY Types DEF IInv
    <3> HIDE DEF room
    <3>2. room % LongWord \in 0 .. LongWord - 1
      BY <3>1, ModRange, ConfigAssumption
    <3>3. tokens <= burst => room % LongWord = room
      BY <3>1, ModSmall, ConfigAssumption
    <3>4. Headroom = room % LongWord
      BY DEF Headroom, room
    <3> QED  BY <3>2, <3>3, <3>4, ConfigAssumption DEF room
  <2>3. add \in Nat /\ add <= earned /\ add <= Headroom
    BY <2>1, <2>2 DEF Least
  <2> HIDE DEF add, earned
  <2> DEFINE sum == tokens + add
  <2>4. Refilled = sum % Word
    BY <1>2 DEF Refilled, add, earned
  <2>5. sum \in Nat /\ sum % Word \in 0 .. Word - 1 /\ (sum < Word => sum % Word = sum)
    <3>1. sum \in Nat
      BY <2>3, Types DEF IInv
    <3> HIDE DEF sum
    <3>2. sum % Word \in 0 .. Word - 1
      BY <3>1, ModRange, ConfigAssumption
    <3>3. sum < Word => sum % Word = sum
      BY <3>1, ModSmall, ConfigAssumption
    <3> QED  BY <3>1, <3>2, <3>3
  <2>6. ASSUME ~shrunk
        PROVE  Refilled <= burst /\ (Refilled - tokens) * Second <= rate * (now - last)
    <3>1. tokens <= burst
      BY <2>6 DEF IInv, Account
    <3>2. sum <= burst /\ sum < Word
      BY <2>2, <2>3, <3>1, Types DEF IInv
    <3>3. Refilled = tokens + add
      BY <2>4, <2>5, <3>2
    <3>4. Second * add <= Second * earned
      BY <2>1, <2>3, MulMonotone, Types DEF IInv
    <3>5. Refilled - tokens = add
      BY <2>3, <3>3, Types DEF IInv
    <3>6. earned * Second = Second * earned /\ add * Second = Second * add
      BY <2>1, <2>3, Types DEF IInv
    <3> QED  BY <2>1, <2>3, <3>2, <3>3, <3>4, <3>5, <3>6, Types DEF IInv
  <2> QED  BY <2>4, <2>5, <2>6
<1> QED  BY <1>1, <1>2, Types DEF IInv

-----------------------------------------------------------------------------
LEMMA InitOK == Init => IInv
<1> SUFFICES ASSUME Init PROVE IInv
  OBVIOUS
<1>1. /\ rate \in Nat /\ burst \in Nat /\ burst >= 1 /\ burst < Word /\ Word \in Nat
      /\ Second \in Nat /\ MaxTime \in Nat
  BY ConfigAssumption DEF Init
<1>2. tokens \in 0 .. Word - 1 /\ tokens <= burst /\ passed \in Nat /\ passed + tokens <= burst
  BY <1>1 DEF Init, Kind
<1>3. TypeOK
  <2>1. /\ kind \in Kind /\ rate \in Rates /\ burst \in Bursts /\ shrunk \in BOOLEAN
        /\ last = 0 /\ now = 0 /\ since = 0 /\ passAt = 0
    BY DEF Init
  <2> QED  BY <2>1, <1>1, <1>2 DEF TypeOK
<1>4. last = 0 /\ since = 0 /\ rate * (last - since) = 0
  BY <1>1 DEF Init
<1>5. Second * (passed + tokens - burst) <= Second * 0
  BY <1>1, <1>2, MulMonotone
<1>6. (passed + tokens - burst) * Second = Second * (passed + tokens - burst)
  BY <1>1, <1>2
<1> QED  BY <1>1, <1>2, <1>3, <1>4, <1>5, <1>6 DEF IInv, Account

\* What has passed and what the next packet finds, together: since the configuration
\* changed they have grown by no more than was earned.
LEMMA Balance ==
    ASSUME IInv, ~shrunk
    PROVE  (passed + Refilled - burst) * Second <= rate * (now - since)
<1> DEFINE r == Refilled
<1>1. r \in Nat /\ r <= burst /\ (r - tokens) * Second <= rate * (now - last)
  BY RefilledBound, Types DEF IInv
<1> HIDE DEF r
<1>2. CASE last < since
  <2>1. passed + r - burst <= 0
    BY <1>2, <1>1, Types DEF IInv, Account
  <2>2. Second * (passed + r - burst) <= Second * 0
    BY <2>1, <1>1, MulMonotone, Types DEF IInv
  <2>3. rate * 0 <= rate * (now - since)
    BY MulMonotone, Types DEF IInv
  <2>4. (passed + r - burst) * Second = Second * (passed + r - burst)
    BY <1>1, Types DEF IInv
  <2> QED  BY <2>2, <2>3, <2>4, <1>1, Types DEF IInv, r
<1>3. CASE last >= since
  <2>1. (passed + tokens - burst) * Second <= rate * (last - since)
    BY <1>3 DEF IInv, Account
  <2>2. (passed + r - burst) * Second
           = (passed + tokens - burst) * Second + (r - tokens) * Second
    BY <1>1, Types DEF IInv
  <2>3. rate * (now - since) = rate * (last - since) + rate * (now - last)
    BY Types DEF IInv
  <2>4. /\ (passed + tokens - burst) * Second \in Int
        /\ (r - tokens) * Second \in Int
        /\ rate * (last - since) \in Int
        /\ rate * (now - last) \in Int
    BY <1>1, Types DEF IInv
  <2>5. (passed + r - burst) * Second <= rate * (now - since)
    BY <1>1, <2>1, <2>2, <2>3, <2>4
  <2> QED  BY <2>5 DEF r
<1> QED  BY <1>2, <1>3, Types DEF IInv

LEMMA StepOK == IInv /\ [Next]_vars => IInv'
<1> SUFFICES ASSUME IInv, [Next]_vars PROVE IInv'
  OBVIOUS
<1>1. ASSUME NEW cost \in CostsOf(kind), Pass(cost)
      PROVE  IInv'
  <2>1. cost \in Nat /\ cost <= Refilled
    BY <1>1, ConfigAssumption DEF CostsOf, Pass
  <2>2. Refilled \in 0 .. Word - 1
    BY RefilledBound
  <2>3. TypeOK'
    BY <1>1, <2>1, <2>2, Types DEF IInv, TypeOK, Pass
  <2>4. /\ tokens' = Refilled - cost /\ passed' = passed + cost
        /\ last' = now /\ UNCHANGED <<rate, burst, since, shrunk>>
    BY <1>1 DEF Pass
  <2>5. passed' + tokens' - burst' = passed + Refilled - burst
    BY <2>1, <2>2, <2>4, Types DEF IInv
  <2>6. ~shrunk => Refilled - cost <= burst
    BY <2>1, <2>2, RefilledBound, Types DEF IInv
  <2>7. last' >= since'
    BY <2>4, Types DEF IInv
  <2> QED  BY <2>3, <2>4, <2>5, <2>6, <2>7, Balance, Types DEF IInv, Account
<1>2. ASSUME NEW cost \in CostsOf(kind), Drop(cost)
      PROVE  IInv'
  <2>1. Refilled \in 0 .. Word - 1
    BY RefilledBound
  <2>2. TypeOK'
    BY <1>2, <2>1, Types DEF IInv, TypeOK, Drop, history
  <2>3. /\ tokens' = Refilled /\ last' = now
        /\ UNCHANGED <<rate, burst, passed, since, shrunk>>
    BY <1>2 DEF Drop, history
  <2>4. last' >= since'
    BY <2>3, Types DEF IInv
  <2> QED  BY <2>2, <2>3, <2>4, RefilledBound, Balance, Types DEF IInv, Account
<1>3. ASSUME NEW r \in Rates, NEW b \in Bursts, Configure(r, b)
      PROVE  IInv'
  <2>1. r \in Nat /\ b \in Nat /\ b < Word /\ b >= 1
    BY ConfigAssumption
  <2>2. TypeOK'
    BY <1>3, <2>1, Types DEF IInv, TypeOK, Configure
  <2>3. passed' = 0 /\ since' = now /\ burst' = b /\ rate' = r /\ now' = now
    BY <1>3 DEF Configure
  <2>4. tokens' \in Nat /\ last' \in Nat /\ last' <= now
    BY <1>3, <2>1, Types DEF IInv, Configure
  <2>5. tokens' > b => shrunk'
    BY <1>3, Zenon DEF Configure
  <2>6. ~shrunk' => tokens' <= b
    BY <2>1, <2>4, <2>5
  <2>7. ASSUME ~shrunk', last' >= since'
        PROVE  (passed' + tokens' - burst') * Second <= rate' * (last' - since')
    <3>1. last' - since' = 0
      BY <2>3, <2>4, <2>7, Types DEF IInv
    <3>2. rate' * (last' - since') = 0
      BY <2>1, <2>3, <3>1
    <3>3. passed' + tokens' - burst' <= 0 /\ passed' + tokens' - burst' \in Int
      <4>1. tokens' <= b
        BY <2>6, <2>7
      <4>2. passed' + tokens' - burst' = tokens' - b
        BY <2>1, <2>3, <2>4
      <4> QED  BY <2>1, <2>4, <4>1, <4>2
    <3>4. Second * (passed' + tokens' - burst') <= Second * 0
      BY <3>3, MulMonotone, ConfigAssumption
    <3>5. (passed' + tokens' - burst') * Second = Second * (passed' + tokens' - burst')
      BY <3>3, ConfigAssumption
    <3> QED  BY <3>2, <3>4, <3>5, ConfigAssumption
  <2> QED  BY <2>2, <2>3, <2>6, <2>7 DEF IInv, Account
<1>4. CASE Tick
  <2>1. TypeOK'
    BY <1>4, Types, ConfigAssumption DEF IInv, TypeOK, Tick, history
  <2> QED  BY <1>4, <2>1 DEF IInv, Account, Tick, history
<1>5. CASE UNCHANGED vars
  BY <1>5 DEF IInv, Account, TypeOK, vars, history
<1> QED  BY <1>1, <1>2, <1>3, <1>4, <1>5 DEF Next

LEMMA Inductive == Spec => []IInv
<1> QED  BY InitOK, StepOK, PTL DEF Spec

-----------------------------------------------------------------------------
\* The fields of a bucket keep their widths and ranges; the clock never runs behind
\* the last refill (rate_limited, syn_flood_check, the classes of QoS).
THEOREM TypeCorrect == Spec => []TypeOK
<1>1. IInv => TypeOK
  BY DEF IInv
<1> QED  BY <1>1, Inductive, PTL

\* No bucket holds more than its capacity, for any rate, burst and width of the
\* arithmetic, unless the capacity is lowered below what a bucket holds.
THEOREM CapacityCorrect == Spec => []TokensFit
<1>1. IInv => TokensFit
  BY DEF IInv, Account, TokensFit
<1> QED  BY <1>1, Inductive, PTL

\* No source and no class is let through more than burst plus rate times time since
\* the limit was set, whatever the rounding, the window and the wrap of the product.
THEOREM RateCorrect == Spec => []RateHolds
<1>1. IInv => RateHolds
  <2> SUFFICES ASSUME IInv, ~shrunk
               PROVE  (passed - burst) * Second <= rate * (now - since)
    BY DEF RateHolds
  <2>1. Refilled \in Nat
    BY RefilledBound, Types DEF IInv
  <2>2. passed - burst <= passed + Refilled - burst
    BY <2>1, Types DEF IInv
  <2>3. Second * (passed - burst) <= Second * (passed + Refilled - burst)
    BY <2>1, <2>2, MulMonotone, Types DEF IInv
  <2>4. /\ Second * (passed - burst) = (passed - burst) * Second
        /\ Second * (passed + Refilled - burst) = (passed + Refilled - burst) * Second
        /\ (passed - burst) * Second \in Int
        /\ (passed + Refilled - burst) * Second \in Int
        /\ rate * (now - since) \in Int
    BY <2>1, Types DEF IInv
  <2> QED  BY <2>3, <2>4, Balance
<1> QED  BY <1>1, Inductive, PTL
=============================================================================
