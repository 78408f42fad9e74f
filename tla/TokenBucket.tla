------------------------------ MODULE TokenBucket ------------------------------
(***************************************************************************)
(* A token bucket of the data plane (k-firewall-ebpf/src/main.rs).  Three  *)
(* of them limit a source or a class: RATE_LIMITS (packets of a source),   *)
(* SYN_LIMITS (new connections of a source) and QOS_BUCKETS (bytes of a    *)
(* class).  Their arithmetic is the same; they differ in how a bucket      *)
(* starts, what a packet costs, and in what a change of the configuration  *)
(* does to the tokens a bucket holds.                                      *)
(***************************************************************************)
EXTENDS Integers

CONSTANTS
    Rates, Bursts,   \* values the configuration may take
    Costs,           \* lengths of packets, for the buckets that count bytes
    Second,          \* ticks of the clock in a second
    Window,          \* elapsed time is cut off here (1000 s)
    Word,            \* 2^32: tokens are unsigned words
    LongWord,        \* 2^64: the arithmetic is done in long words
    MaxTime          \* bound on the clock

Kind == {"rate", "syn", "qos"}

ASSUME ConfigAssumption ==
    /\ Second \in Nat \ {0}
    /\ Window \in Nat
    /\ Word \in Nat \ {0}
    /\ LongWord \in Nat \ {0}
    /\ Rates \subseteq Nat \ {0}
    /\ Bursts \subseteq 1 .. Word - 1
    /\ Costs \subseteq Nat \ {0}
    /\ MaxTime \in Nat

ASSUME WidthAssumption == Word <= LongWord

VARIABLES
    kind,     \* which of the three buckets this is
    rate,     \* tokens per second
    burst,    \* capacity
    tokens,   \* tokens held
    last,     \* time of the last refill
    now,      \* bpf_ktime_get_ns
    passed,   \* history: cost of the packets passed since the last configuration
    since,    \* history: time of the last configuration
    passAt,   \* history: time of the last configuration or packet passed
    shrunk    \* history: the capacity was once set below the tokens held

history == <<passed, since, passAt, shrunk>>
vars == <<kind, rate, burst, tokens, last, now, history>>

\* A source's bucket is written full by the daemon; a class's bucket is empty and
\* fills at its first packet; a SYN bucket is created by the first SYN, which it
\* lets pass.
Init ==
    /\ kind \in Kind
    /\ rate \in Rates
    /\ burst \in Bursts
    /\ tokens = CASE kind = "rate" -> burst [] kind = "syn" -> burst - 1 [] kind = "qos" -> 0
    /\ last = 0
    /\ now = 0
    /\ passed = IF kind = "syn" THEN 1 ELSE 0
    /\ since = 0
    /\ passAt = 0
    /\ shrunk = FALSE

-----------------------------------------------------------------------------
Least(a, b) == IF a <= b THEN a ELSE b

\* What a time interval is worth.  The product is a long word: it wraps where
\* Window times the rate reaches LongWord.
Earned(elapsed) == ((Least(elapsed, Window) * rate) % LongWord) \div Second

\* Room in the bucket, in unsigned arithmetic: it wraps when there is none.
Headroom == (burst - tokens) % LongWord

\* Mutant: the capacity is not looked at.
Refilled_Unbounded == IF now > last THEN (tokens + Earned(now - last)) % Word ELSE tokens

Refilled ==
    IF now > last THEN (tokens + Least(Earned(now - last), Headroom)) % Word ELSE tokens

CostsOf(k) == IF k = "qos" THEN Costs ELSE {1}

\* Mutant: the time of the refill is not recorded.
Pass_SameTime(cost) ==
    /\ cost <= Refilled
    /\ tokens' = Refilled - cost
    /\ passed' = passed + cost
    /\ passAt' = now
    /\ UNCHANGED <<kind, rate, burst, last, now, since, shrunk>>

\* Mutant: an empty bucket is drawn from.
Pass_Overdrawn(cost) ==
    /\ tokens' = Refilled - cost
    /\ last' = now
    /\ passed' = passed + cost
    /\ passAt' = now
    /\ UNCHANGED <<kind, rate, burst, now, since, shrunk>>

\* A packet that finds its tokens.
Pass(cost) ==
    /\ cost <= Refilled
    /\ tokens' = Refilled - cost
    /\ last' = now
    /\ passed' = passed + cost
    /\ passAt' = now
    /\ UNCHANGED <<kind, rate, burst, now, since, shrunk>>

\* A packet that does not: it is dropped, the refill is kept.
Drop(cost) ==
    /\ cost > Refilled
    /\ tokens' = Refilled
    /\ last' = now
    /\ UNCHANGED <<kind, rate, burst, now, history>>

\* The daemon changes rate and capacity.  It writes a source's bucket anew; the
\* other two keep their tokens and the time of their last refill.
Configure(r, b) ==
    /\ rate' = r
    /\ burst' = b
    /\ IF kind = "rate" THEN tokens' = b /\ last' = 0
                        ELSE UNCHANGED <<tokens, last>>
    /\ passed' = 0
    /\ since' = now
    /\ passAt' = now
    /\ shrunk' = (shrunk \/ tokens' > b)
    /\ UNCHANGED <<kind, now>>

Tick ==
    /\ now < MaxTime
    /\ now' = now + 1
    /\ UNCHANGED <<kind, rate, burst, tokens, last, history>>

Next ==
    \/ \E cost \in CostsOf(kind) : Pass(cost) \/ Drop(cost)
    \/ \E r \in Rates, b \in Bursts : Configure(r, b)
    \/ Tick

Spec == Init /\ [][Next]_vars

-----------------------------------------------------------------------------
(***************************************************************************)
(* Properties.                                                             *)
(***************************************************************************)
\* The widths and ranges of the fields (RateState, SynState, QosBucket).
TypeOK ==
    /\ kind \in Kind
    /\ rate \in Rates
    /\ burst \in Bursts
    /\ tokens \in 0 .. Word - 1
    /\ now \in 0 .. MaxTime
    /\ last \in 0 .. now
    /\ since \in 0 .. now
    /\ passAt \in since .. now
    /\ passed \in Nat
    /\ shrunk \in BOOLEAN

\* A bucket never holds more than its capacity, as long as the capacity was never
\* set below what it held ("当前可用令牌数（≤ burst）").
TokensFit == ~shrunk => tokens <= burst

\* What the limit is for: since it was configured, no source or class has been let
\* through more than the burst and the rate times the time allow.
RateHolds ==
    ~shrunk => (passed - burst) * Second <= rate * (now - since)

\* The rate is also granted: no packet is dropped when none has passed for as long
\* as a token takes to arrive ("`rate` 为每秒令牌（pps）").  Not so: README, section 4.
RateIsGranted ==
    [][kind # "qos" /\ Drop(1) => (now - passAt) * rate < Second]_vars
=============================================================================
