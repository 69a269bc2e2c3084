--------------------------- MODULE GatewayProofs ---------------------------
(***************************************************************************)
(* The parts a turn passes through, each for every value of its constants: *)
(* lazily created, refilled and evicted buckets answer as permanent ones;  *)
(* the breaker is half-open only while a probe is in flight; no command is *)
(* offered a tool its policy does not; every turn settles, resumes only    *)
(* what it may and tells what claude's run came to.                        *)
(***************************************************************************)
EXTENDS RateLimiter, Breaker, Turn, ToolSurface,
        FiniteSetTheorems, SequenceTheorems, WellFoundedInduction, TLAPS

-----------------------------------------------------------------------------
(* The router's rate limiter.                                               *)
(* The conjunction the proofs carry along.                                 *)
BucketIInv == TypeOK /\ BucketsSane

LEMMA CapPositive == ASSUME NEW b \in Buckets PROVE Cap(b) \in Nat /\ Cap(b) >= 1
<1>1. MaxPer * Multiplier \in Nat /\ MaxPer * Multiplier >= 1
  BY RateAssumption
<1> QED
  BY <1>1, RateAssumption DEF Cap

LEMMA Products ==
  ASSUME NEW c \in Nat, NEW d \in Nat, NEW e \in Nat
  PROVE  /\ c * d \in Nat
         /\ c * (d + 1) = c * d + c
         /\ d >= e => c * d >= c * e
         /\ c >= 1 => c * d >= d
<1>1. c * d \in Nat /\ c * (d + 1) = c * d + c
  OBVIOUS
<1>2. d >= e => c * d >= c * e
  <2> SUFFICES ASSUME d >= e PROVE c * d >= c * e
    OBVIOUS
  <2>1. PICK x \in Nat : d = e + x
    BY d - e \in Nat, d = e + (d - e)
  <2>2. c * d = c * e + c * x /\ c * x \in Nat
    BY <2>1
  <2>3. c * e \in Nat
    OBVIOUS
  <2> QED
    BY <2>2, <2>3
<1>3. c >= 1 => c * d >= d
  <2> SUFFICES ASSUME c >= 1 PROVE c * d >= d
    OBVIOUS
  <2>1. PICK x \in Nat : c = 1 + x
    BY c - 1 \in Nat, c = 1 + (c - 1)
  <2>2. c * d = d + x * d /\ x * d \in Nat
    BY <2>1
  <2> QED
    BY <2>2
<1> QED
  BY <1>1, <1>2, <1>3

LEMMA FullEnough == ASSUME NEW b \in Buckets PROVE Full(b) \in Nat /\ Full(b) >= Window
  BY CapPositive, Products, RateAssumption DEF Full

LEMMA LookupType ==
  ASSUME BucketIInv, NEW b \in Buckets
  PROVE  /\ Lookup(b) \in BucketOf(b)
         /\ Lookup(b).lastRefill <= now
         /\ Lookup(b).lastRefill = 0 => Lookup(b) = NewBucket(b)
<1>1. NewBucket(b) \in BucketOf(b) /\ NewBucket(b).lastRefill = 0
  BY FullEnough, RateAssumption DEF NewBucket, BucketOf
<1>2. CASE buckets[b] = Absent
  BY <1>1, <1>2 DEF Lookup, BucketIInv, TypeOK
<1>3. CASE buckets[b] # Absent
  BY <1>3 DEF Lookup, BucketIInv, TypeOK, BucketsSane
<1> QED
  BY <1>2, <1>3

LEMMA TokensType == ASSUME BucketIInv, NEW b \in Buckets PROVE Tokens(b) \in 0..Full(b)
<1> DEFINE k == Lookup(b)
<1>1. k.tokens \in 0..Full(b) /\ k.lastRefill \in Nat /\ now \in Nat /\ now - k.lastRefill \in Nat
  BY LookupType, RateAssumption DEF BucketOf, BucketIInv, TypeOK
<1>2. Cap(b) * (now - k.lastRefill) \in Nat
  BY <1>1, CapPositive, Products
<1> HIDE DEF k
<1>3. AtMost(Full(b), k.tokens + Cap(b) * (now - k.lastRefill)) \in 0..Full(b)
  BY <1>1, <1>2, FullEnough DEF AtMost
<1> QED
  BY <1>1, <1>3 DEF Tokens, k

-----------------------------------------------------------------------------
(* What a step leaves behind, bucket by bucket.                            *)

(* A bucket that was just stamped holds what was written into it.          *)
LEMMA Stamped ==
  ASSUME BucketIInv, NEW b \in Buckets, NEW x \in 0..Full(b), NEW f \in BOOLEAN, now' = now,
         buckets'[b] = [tokens |-> x, lastRefill |-> now, notified |-> f]
  PROVE  /\ buckets'[b] # Absent /\ buckets'[b] \in BucketOf(b)
         /\ buckets'[b].lastRefill = now /\ now # 0
         /\ Lookup(b)' = buckets'[b] /\ Tokens(b)' = x
<1>1. now \in 1..MaxTime /\ x \in Nat /\ x <= Full(b) /\ Full(b) \in Nat /\ Cap(b) \in Nat
  BY FullEnough, CapPositive DEF BucketIInv, TypeOK
<1>2. buckets'[b] # Absent /\ buckets'[b] \in BucketOf(b)
  BY <1>1, RateAssumption DEF BucketOf
<1>3. Lookup(b)' = buckets'[b]
  BY <1>2 DEF Lookup
<1>4. Tokens(b)' = AtMost(Full(b), x + Cap(b) * (now - now))
  BY <1>1, <1>3 DEF Tokens
<1>5. Cap(b) * (now - now) = 0
  BY <1>1
<1> QED
  BY <1>1, <1>2, <1>3, <1>4, <1>5 DEF AtMost

(* A bucket that was only created, or not touched, holds what it held.     *)
LEMMA Untouched ==
  ASSUME BucketIInv, NEW b \in Buckets, now' = now,
         buckets'[b] = Lookup(b) \/ buckets'[b] = buckets[b]
  PROVE  Lookup(b)' = Lookup(b) /\ Tokens(b)' = Tokens(b)
<1>1. Lookup(b)' = Lookup(b)
  BY DEF Lookup, NewBucket
<1> QED
  BY <1>1 DEF Tokens

(* Sound buckets after a step that stamps, creates or keeps each of them.  *)
BucketKept(b) ==
  \/ buckets'[b] = buckets[b]
  \/ buckets'[b] = Lookup(b)
  \/ buckets'[b] = Absent
  \/ \E x \in 0..Full(b), f \in BOOLEAN :
        buckets'[b] = [tokens |-> x, lastRefill |-> now, notified |-> f]

LEMMA KeptSane ==
  ASSUME BucketIInv, NEW b \in Buckets, now' = now, BucketKept(b), buckets'[b] # Absent
  PROVE  /\ buckets'[b] \in BucketOf(b)
         /\ buckets'[b].lastRefill <= now
         /\ buckets'[b].lastRefill = 0 => buckets'[b] = NewBucket(b)
<1>1. CASE buckets'[b] = buckets[b]
  BY <1>1 DEF BucketIInv, TypeOK, BucketsSane
<1>2. CASE buckets'[b] = Lookup(b)
  BY <1>2, LookupType
<1>3. CASE \E x \in 0..Full(b), f \in BOOLEAN :
             buckets'[b] = [tokens |-> x, lastRefill |-> now, notified |-> f]
  BY <1>3, Stamped DEF BucketIInv, TypeOK
<1> QED
  BY <1>1, <1>2, <1>3 DEF BucketKept

LEMMA NotifiedType == ASSUME BucketIInv, NEW b \in Buckets PROVE Lookup(b).notified \in BOOLEAN
  BY LookupType DEF BucketOf

LEMMA TakenKept ==
  ASSUME BucketIInv, NEW b \in Buckets, HasToken(b)
  PROVE  Tokens(b) - Window \in 0..Full(b)
  BY TokensType, FullEnough, RateAssumption DEF HasToken

LEMMA AdmitKept ==
  ASSUME BucketIInv, NEW u \in Users, NEW s \in Sessions, Admit(u, s), NEW b \in Buckets
  PROVE  BucketKept(b)
  BY TakenKept DEF Admit, BucketKept, Taken, Buckets

LEMMA RejectKept ==
  ASSUME BucketIInv, NEW c \in Buckets, NEW passed \in SUBSET Buckets, NEW unasked \in SUBSET Buckets,
         Reject(c, passed, unasked), NEW b \in Buckets
  PROVE  BucketKept(b)
<1>1. CASE b = c \/ b \in passed
  BY <1>1, TokensType, NotifiedType DEF Reject, BucketKept, Blocked, Peeked
<1>2. CASE b # c /\ b \notin passed
  BY <1>2 DEF Reject, BucketKept
<1> QED
  BY <1>1, <1>2

-----------------------------------------------------------------------------
LEMMA InitBuckets == Init => BucketIInv
  BY RateAssumption DEF Init, BucketIInv, TypeOK, BucketsSane

(* allow and Reap's rlMu section rewrite the map and leave the clock.      *)
LEMMA MapStep ==
  ASSUME BucketIInv, now' = now, reapNow' \in {0, reapNow},
         verdict' \in {verdict, "admitted", "notify", "silent"},
         buckets' = [b \in Buckets |-> buckets'[b]], \A b \in Buckets : BucketKept(b)
  PROVE  BucketIInv'
<1>1. TypeOK'
  <2>1. \A b \in Buckets : buckets'[b] # Absent => buckets'[b] \in BucketOf(b)
    BY KeptSane
  <2>2. now \in 1..MaxTime /\ reapNow' \in 0..MaxTime
    BY RateAssumption DEF BucketIInv, TypeOK
  <2>3. verdict' \in {"none", "admitted", "notify", "silent"}
    BY DEF BucketIInv, TypeOK
  <2> QED
    BY <2>1, <2>2, <2>3 DEF TypeOK, BucketOf
<1>2. BucketsSane'
  <2>1. \A b \in Buckets : buckets'[b] # Absent =>
          /\ buckets'[b].lastRefill <= now
          /\ buckets'[b].lastRefill = 0 => buckets'[b] = NewBucket(b)
    BY KeptSane
  <2>2. NewBucket(0) = NewBucket(0)' /\ reapNow' <= now'
    BY DEF BucketIInv, TypeOK, BucketsSane
  <2> QED
    BY <2>1, <2>2 DEF BucketsSane, NewBucket
<1> QED
  BY <1>1, <1>2 DEF BucketIInv

LEMMA AllowBuckets == ASSUME BucketIInv, NEW u \in Users, NEW s \in Sessions, Allow(u, s) PROVE BucketIInv'
<1>1. CASE Admit(u, s)
  <2>1. \A b \in Buckets : BucketKept(b)
    BY <1>1, AdmitKept
  <2> QED
    BY <1>1, <2>1, MapStep DEF Admit
<1>2. ASSUME NEW c \in Buckets, NEW passed \in SUBSET Buckets, NEW unasked \in SUBSET Buckets,
             Reject(c, passed, unasked)
      PROVE  BucketIInv'
  <2>1. \A b \in Buckets : BucketKept(b)
    BY <1>2, RejectKept
  <2>2. buckets' = [b \in Buckets |-> buckets'[b]] /\ now' = now /\ reapNow' = reapNow
    BY <1>2 DEF Reject
  <2>3. verdict' \in {"notify", "silent"}
    BY <1>2 DEF Reject
  <2> QED
    BY <2>1, <2>2, <2>3, MapStep
<1> QED
  BY <1>1, <1>2 DEF Allow, Buckets

LEMMA ReapInv == ASSUME BucketIInv, ReapBuckets PROVE BucketIInv'
<1>1. \A b \in Buckets : BucketKept(b)
  BY DEF ReapBuckets, BucketKept
<1> QED
  BY <1>1, MapStep DEF ReapBuckets

LEMMA ClockInv == ASSUME BucketIInv, ReapBegin \/ Tick \/ UNCHANGED vars PROVE BucketIInv'
<1>1. /\ buckets' = buckets /\ verdict' = verdict
      /\ now' \in 1..MaxTime /\ reapNow' \in 0..MaxTime /\ reapNow' <= now' /\ now <= now'
  BY RateAssumption DEF BucketIInv, TypeOK, BucketsSane, ReapBegin, Tick, vars
<1>2. TypeOK'
  BY <1>1 DEF BucketIInv, TypeOK, BucketOf
<1>3. BucketsSane'
  <2>1. ASSUME NEW b \in Buckets, buckets[b] # Absent
        PROVE  /\ buckets[b].lastRefill <= now'
               /\ buckets[b].lastRefill = 0 => buckets[b] = NewBucket(b)
    BY <1>1, <2>1 DEF BucketIInv, TypeOK, BucketsSane, BucketOf
  <2> QED
    BY <1>1, <2>1 DEF BucketsSane, NewBucket
<1> QED
  BY <1>2, <1>3 DEF BucketIInv

(* Buckets stay within their capacity, stamped in the past, and full while *)
(* never asked.                                                            *)
THEOREM BucketInvariant == Spec => []BucketIInv
<1>1. BucketIInv /\ [Next]_vars => BucketIInv'
  BY AllowBuckets, ReapInv, ClockInv DEF Next
<1> QED
  BY InitBuckets, <1>1, PTL DEF Spec

(* Every variable keeps its type.                                         *)
THEOREM BucketTypes == Spec => []TypeOK
<1>1. BucketIInv => TypeOK
  BY DEF BucketIInv
<1> QED
  BY <1>1, BucketInvariant, PTL

(* The part of the invariant the runs check by name.                       *)
THEOREM BucketsStaySane == Spec => []BucketsSane
<1>1. BucketIInv => BucketsSane
  BY DEF BucketIInv
<1> QED
  BY <1>1, BucketInvariant, PTL

-----------------------------------------------------------------------------
(* Refinement.  Level is what a bucket holds now, whether or not it has    *)
(* been refilled, created or evicted; ToldOf is the debounce flag of a     *)
(* bucket that is dry (the flag of one that is not cannot be seen).        *)
ToldOf(b) == Lookup(b).notified /\ ~HasToken(b)

LEMMA SameNames ==
  /\ RL!Buckets = Buckets
  /\ \A b : RL!Cap(b) = Cap(b) /\ RL!Full(b) = Full(b)
  /\ \A m, n : RL!AtMost(m, n) = AtMost(m, n)
  BY DEF RL!Buckets, Buckets, RL!Cap, Cap, RL!Full, Full, RL!AtMost, AtMost

LEMMA InitRefines == Init => RL!Init
<1> SUFFICES ASSUME Init PROVE RL!Init
  OBVIOUS
<1>1. \A b \in Buckets : Lookup(b) = NewBucket(b) /\ Tokens(b) = Full(b)
  BY DEF Init, Lookup, Tokens, NewBucket
<1>2. \A b \in Buckets : ~ToldOf(b)
  BY <1>1 DEF ToldOf, NewBucket
<1> QED
  BY <1>1, <1>2, SameNames DEF Init, RL!Init, ToldOf

LEMMA AdmitRefines ==
  ASSUME BucketIInv, NEW u \in Users, NEW s \in Sessions, Admit(u, s)
  PROVE  RL!Admit(u, s)
<1> DEFINE three == {Global, u, s}
<1>1. three \subseteq Buckets /\ now' = now
  BY DEF Buckets, Admit
<1>2. ASSUME NEW b \in three
      PROVE  Tokens(b)' = Tokens(b) - Window /\ Lookup(b)'.notified = FALSE
  <2>1. buckets'[b] = [tokens |-> Tokens(b) - Window, lastRefill |-> now, notified |-> FALSE]
    BY <1>1 DEF Admit, Taken
  <2>2. Tokens(b) - Window \in 0..Full(b)
    BY <1>1, TakenKept DEF Admit
  <2>3. Lookup(b)' = buckets'[b] /\ Tokens(b)' = Tokens(b) - Window
    BY <1>1, <2>1, <2>2, Stamped
  <2> QED
    BY <2>1, <2>3
<1>3. ASSUME NEW b \in Buckets \ three
      PROVE  Tokens(b)' = Tokens(b) /\ Lookup(b)' = Lookup(b)
  BY <1>1, Untouched DEF Admit
<1>4. \A b \in Buckets : ToldOf(b)' <=> (ToldOf(b) /\ b \notin three)
  <2>1. ASSUME NEW b \in three PROVE ~ToldOf(b)'
    BY <1>2, <2>1 DEF ToldOf
  <2>2. ASSUME NEW b \in Buckets \ three PROVE ToldOf(b)' <=> ToldOf(b)
    BY <1>3, <2>2 DEF ToldOf, HasToken
  <2> QED
    BY <2>1, <2>2
<1> QED
  BY <1>1, <1>2, <1>3, <1>4, SameNames DEF Admit, RL!Admit, ToldOf, HasToken

LEMMA RejectRefines ==
  ASSUME BucketIInv, NEW c \in Buckets, NEW passed \in SUBSET Buckets, NEW unasked \in SUBSET Buckets,
         Reject(c, passed, unasked)
  PROVE  RL!Refuse(c, passed)
<1>0. now' = now
  BY DEF Reject
<1>1. ASSUME NEW b \in passed \cup {c}
      PROVE  /\ Tokens(b)' = Tokens(b)
             /\ Lookup(b)'.notified = IF b = c THEN TRUE ELSE Lookup(b).notified
  <2> DEFINE f == IF b = c THEN TRUE ELSE Lookup(b).notified
  <2>1. buckets'[b] = [tokens |-> Tokens(b), lastRefill |-> now, notified |-> f]
    BY DEF Reject, Blocked, Peeked
  <2>2. Tokens(b) \in 0..Full(b) /\ f \in BOOLEAN
    BY TokensType, NotifiedType
  <2> HIDE DEF f
  <2>3. Lookup(b)' = buckets'[b] /\ Tokens(b)' = Tokens(b)
    BY <1>0, <2>1, <2>2, Stamped
  <2>4. Lookup(b)'.notified = f
    BY <2>1, <2>3
  <2> QED
    BY <2>3, <2>4 DEF f
<1>2. ASSUME NEW b \in Buckets \ (passed \cup {c})
      PROVE  Tokens(b)' = Tokens(b) /\ Lookup(b)' = Lookup(b)
  BY <1>0, Untouched DEF Reject
<1>3. ASSUME NEW b \in Buckets PROVE Tokens(b)' = Tokens(b)
  BY <1>1, <1>2
<1>4. ASSUME NEW b \in Buckets \ {c} PROVE ToldOf(b)' <=> ToldOf(b)
  <2>1. Lookup(b)'.notified = Lookup(b).notified
    BY <1>1, <1>2
  <2>2. Tokens(b)' = Tokens(b)
    BY <1>3
  <2> QED
    BY <2>1, <2>2 DEF ToldOf, HasToken
<1>5. ToldOf(c)'
  <2>1. Lookup(c)'.notified = TRUE /\ Tokens(c)' = Tokens(c)
    BY <1>1
  <2> QED
    BY <2>1 DEF ToldOf, HasToken, Reject
<1>6. verdict' = IF ToldOf(c) THEN "silent" ELSE "notify"
  BY DEF Reject, ToldOf
<1> DEFINE levelOf == [b \in Buckets |-> Tokens(b)]
           toldOf == [b \in Buckets |-> ToldOf(b)]
<1>7. levelOf' = levelOf /\ now' = now
  BY <1>0, <1>3, Zenon
<1>8. toldOf' = [toldOf EXCEPT ![c] = TRUE]
  <2>1. toldOf' = [b \in Buckets |-> IF b = c THEN TRUE ELSE ToldOf(b)]
    <3>1. ASSUME NEW b \in Buckets
          PROVE  ToldOf(b)' = IF b = c THEN TRUE ELSE ToldOf(b)
      <4>1. CASE b = c
        <5>1. ToldOf(b)' = TRUE
          BY <1>5, <4>1 DEF ToldOf
        <5> QED
          BY <5>1, <4>1
      <4>2. CASE b # c
        <5>1. ToldOf(b)' = ToldOf(b)
          BY <1>4, <4>2 DEF ToldOf
        <5> QED
          BY <5>1, <4>2
      <4> QED
        BY <4>1, <4>2
    <3> QED
      BY <3>1, Zenon
  <2> QED
    BY <2>1
<1>9. levelOf[c] < Window /\ \A a \in passed : levelOf[a] >= Window
  BY TokensType, FullEnough, RateAssumption DEF Reject, HasToken
<1> QED
  BY <1>6, <1>7, <1>8, <1>9 DEF RL!Refuse, ToldOf

(* An idle bucket is full again, so nobody is waiting to hear about it.    *)
LEMMA IdleIsFull ==
  ASSUME BucketIInv, NEW b \in Buckets, IdleBucket(b)
  PROVE  Tokens(b) = Full(b) /\ HasToken(b)
<1> DEFINE k == buckets[b]
<1>1. k \in BucketOf(b) /\ k.lastRefill # 0 /\ Lookup(b) = k /\ reapNow <= now
  BY DEF IdleBucket, BucketIInv, TypeOK, BucketsSane, Lookup
<1>2. /\ k.tokens \in Nat /\ k.lastRefill \in Nat /\ now \in Nat /\ reapNow \in Nat
      /\ EffectiveIdle \in Nat /\ EffectiveIdle >= Window
  BY <1>1, RateAssumption DEF BucketOf, BucketIInv, TypeOK, EffectiveIdle
<1>3. now - k.lastRefill \in Nat /\ now - k.lastRefill >= Window
  BY <1>1, <1>2, RateAssumption DEF IdleBucket
<1>4. Cap(b) * (now - k.lastRefill) >= Full(b) /\ Cap(b) * (now - k.lastRefill) \in Nat
  BY <1>3, CapPositive, Products, RateAssumption DEF Full
<1>5. AtMost(Full(b), k.tokens + Cap(b) * (now - k.lastRefill)) = Full(b)
  BY <1>2, <1>4, FullEnough DEF AtMost
<1>6. Tokens(b) = Full(b)
  BY <1>1, <1>5 DEF Tokens
<1> QED
  BY <1>6, FullEnough DEF HasToken

LEMMA ReapRefines == ASSUME BucketIInv, ReapBuckets PROVE UNCHANGED RL!vars
<1>0. now' = now /\ verdict' = verdict
  BY DEF ReapBuckets
<1>1. ASSUME NEW b \in Buckets PROVE Tokens(b)' = Tokens(b) /\ ToldOf(b)' = ToldOf(b)
  <2>1. CASE IdleBucket(b)
    <3>1. Lookup(b)' = NewBucket(b)
      BY <2>1 DEF ReapBuckets, Lookup, NewBucket
    <3>2. Tokens(b)' = Full(b) /\ Lookup(b)'.notified = FALSE
      BY <3>1 DEF Tokens, NewBucket
    <3>3. ToldOf(b)' = FALSE
      BY <3>2 DEF ToldOf
    <3>4. ToldOf(b) = FALSE
      BY <2>1, IdleIsFull DEF ToldOf
    <3> QED
      BY <2>1, <3>2, <3>3, <3>4, IdleIsFull
  <2>2. CASE ~IdleBucket(b)
    <3>1. Lookup(b)' = Lookup(b) /\ Tokens(b)' = Tokens(b)
      BY <1>0, <2>2, Untouched DEF ReapBuckets
    <3> QED
      BY <3>1 DEF ToldOf, HasToken
  <2> QED
    BY <2>1, <2>2
<1> DEFINE levelOf == [b \in Buckets |-> Tokens(b)]
           toldOf == [b \in Buckets |-> ToldOf(b)]
<1>2. levelOf' = levelOf /\ toldOf' = toldOf
  BY <1>1, Zenon
<1> QED
  BY <1>0, <1>2 DEF RL!vars, ToldOf

(* One tick adds one tick's refill, also to a bucket nobody looks at.      *)
LEMMA TickLevel ==
  ASSUME BucketIInv, Tick, NEW b \in Buckets
  PROVE  Lookup(b)' = Lookup(b) /\ Tokens(b)' = AtMost(Full(b), Tokens(b) + Cap(b))
<1>1. PICK k : k = Lookup(b)
  OBVIOUS
<1>2. PICK d : d = now - k.lastRefill
  OBVIOUS
<1>3. Lookup(b)' = k
  BY <1>1 DEF Tick, Lookup, NewBucket
<1>4. /\ k.tokens \in 0..Full(b) /\ k.lastRefill \in Nat /\ now \in Nat /\ d \in Nat
      /\ Full(b) \in Nat /\ Cap(b) \in Nat
  BY <1>1, <1>2, LookupType, FullEnough, CapPositive, RateAssumption DEF BucketOf, BucketIInv, TypeOK
<1>5. CASE k.lastRefill = 0
  <2>1. k.tokens = Full(b)
    BY <1>1, <1>5, LookupType DEF NewBucket
  <2>2. Tokens(b) = Full(b) /\ Tokens(b)' = Full(b)
    BY <1>1, <1>3, <1>5, <2>1 DEF Tokens
  <2> QED
    BY <1>1, <1>3, <1>4, <2>2 DEF AtMost
<1>6. CASE k.lastRefill # 0
  <2>1. Tokens(b) = AtMost(Full(b), k.tokens + Cap(b) * d)
    BY <1>1, <1>2, <1>6 DEF Tokens
  <2>2. now' = now + 1
    BY DEF Tick
  <2>3. Tokens(b)' = AtMost(Full(b), k.tokens + Cap(b) * (now' - k.lastRefill))
    BY <1>3, <1>6 DEF Tokens
  <2>4. now' - k.lastRefill = d + 1
    BY <1>2, <1>4, <2>2
  <2>5. Cap(b) * d \in Nat /\ Cap(b) * (d + 1) = Cap(b) * d + Cap(b)
    BY <1>4, Products
  <2>6. AtMost(Full(b), k.tokens + Cap(b) * (d + 1))
          = AtMost(Full(b), AtMost(Full(b), k.tokens + Cap(b) * d) + Cap(b))
    BY <1>4, <2>5 DEF AtMost
  <2> QED
    BY <1>1, <1>3, <2>1, <2>3, <2>4, <2>6
<1> QED
  BY <1>5, <1>6

LEMMA TickRefines == ASSUME BucketIInv, Tick PROVE RL!Tick
<1> DEFINE levelOf == [b \in Buckets |-> Tokens(b)]
           toldOf == [b \in Buckets |-> ToldOf(b)]
<1>1. ASSUME NEW b \in Buckets PROVE ToldOf(b)' = (ToldOf(b) /\ levelOf'[b] < Window)
  <2>1. levelOf'[b] = AtMost(Full(b), Tokens(b) + Cap(b)) /\ levelOf'[b] = Tokens(b)'
    BY TickLevel
  <2>2. Tokens(b) \in Nat /\ Tokens(b)' \in Nat /\ (Tokens(b)' < Window => Tokens(b) < Window)
    BY <2>1, TokensType, FullEnough, CapPositive, RateAssumption DEF AtMost
  <2>3. Lookup(b)'.notified = Lookup(b).notified
    BY TickLevel
  <2>4. ToldOf(b)' <=> (ToldOf(b) /\ Tokens(b)' < Window)
    <3>1. CASE Tokens(b)' < Window
      <4>1. ~HasToken(b)' /\ ~HasToken(b)
        BY <2>2, <3>1, RateAssumption DEF HasToken
      <4> QED
        BY <2>3, <3>1, <4>1, Zenon DEF ToldOf
    <3>2. CASE ~(Tokens(b)' < Window)
      <4>1. HasToken(b)'
        BY <2>2, <3>2, RateAssumption DEF HasToken
      <4> QED
        BY <3>2, <4>1, Zenon DEF ToldOf
    <3> QED
      BY <3>1, <3>2
  <2> QED
    BY <2>1, <2>4 DEF ToldOf
<1>2. levelOf' = [b \in Buckets |-> AtMost(Full(b), levelOf[b] + Cap(b))]
  <2>1. levelOf' = [b \in Buckets |-> AtMost(Full(b), Tokens(b) + Cap(b))]
    BY TickLevel, Zenon
  <2> QED
    BY <2>1
<1>3. toldOf' = [b \in Buckets |-> toldOf[b] /\ levelOf'[b] < Window]
  <2>1. toldOf' = [b \in Buckets |-> ToldOf(b) /\ levelOf'[b] < Window]
    BY <1>1, Zenon
  <2> QED
    BY <2>1
<1> QED
  BY <1>2, <1>3, SameNames DEF Tick, RL!Tick, ToldOf

LEMMA StepRefines == BucketIInv /\ [Next]_vars => [RL!Next]_RL!vars
<1> SUFFICES ASSUME BucketIInv, [Next]_vars PROVE [RL!Next]_RL!vars
  OBVIOUS
<1>1. ASSUME NEW u \in Users, NEW s \in Sessions, Allow(u, s) PROVE RL!Message(u, s)
  BY <1>1, AdmitRefines, RejectRefines DEF Allow, RL!Message, Buckets
<1>2. CASE ReapBegin
  BY <1>2 DEF ReapBegin, RL!vars, Tokens, Lookup, HasToken
<1>3. CASE UNCHANGED vars
  BY <1>3 DEF vars, RL!vars, Tokens, Lookup, HasToken
<1> QED
  BY <1>1, <1>2, <1>3, ReapRefines, TickRefines DEF Next, RL!Next

(* Eviction never changes behaviour: the lazily kept, reaped buckets give  *)
(* exactly the answers permanent ones could give.                          *)
THEOREM EvictionInvisible == Spec => ImplementsRateLimit
  BY InitRefines, StepRefines, BucketInvariant, PTL DEF Spec, RL!Spec, ImplementsRateLimit

-----------------------------------------------------------------------------
(* The gateway's circuit breaker.                                           *)
(* The three facts together: each uses the types, and the last two are     *)
(* what Trip's case distinction on the state relies on.                    *)
BreakerIInv == BreakerTypeOK /\ HalfOpenHasProbe /\ OpenMeansThreshold

USE DEF Phases

LEMMA InitBreaker == BreakerInit => BreakerIInv
  BY BreakerAssumption DEF BreakerInit, BreakerIInv, BreakerTypeOK, HalfOpenHasProbe, OpenMeansThreshold

(* What onResult does to the breaker, for either outcome.                  *)
LEMMA OnResult ==
  ASSUME BreakerIInv, Reset \/ Trip
  PROVE  /\ state' \in {"closed", "open"}
         /\ consecFails' \in Nat /\ coolingFor' \in 0..Cooldown
         /\ state' # "closed" <=> consecFails' >= Threshold
<1>1. CASE Reset
  BY <1>1, BreakerAssumption DEF Reset, BreakerIInv, BreakerTypeOK
<1>2. CASE Trip
  BY <1>2, BreakerAssumption DEF Trip, BreakerIInv, BreakerTypeOK, OpenMeansThreshold
<1> QED
  BY <1>1, <1>2

(* A report closes or opens the breaker, so no probe is needed after it.   *)
LEMMA ReportInv ==
  ASSUME BreakerIInv, NEW t \in Turns, NEW phase \in Phases, Reset \/ Trip, MoveTo(t, phase)
  PROVE  BreakerIInv'
<1>1. BreakerTypeOK'
  BY OnResult DEF BreakerIInv, BreakerTypeOK, MoveTo
<1>2. HalfOpenHasProbe'
  BY OnResult DEF HalfOpenHasProbe
<1>3. OpenMeansThreshold'
  BY OnResult DEF OpenMeansThreshold
<1> QED
  BY <1>1, <1>2, <1>3 DEF BreakerIInv

(* A turn that is not the probe moves without touching the breaker.        *)
LEMMA MoveInv ==
  ASSUME BreakerIInv, NEW t \in Turns, NEW phase \in Phases, turn[t] # "probing",
         MoveTo(t, phase), UNCHANGED <<state, consecFails, coolingFor>>
  PROVE  BreakerIInv'
<1>1. BreakerTypeOK'
  BY DEF BreakerIInv, BreakerTypeOK, MoveTo
<1>2. HalfOpenHasProbe'
  BY DEF BreakerIInv, BreakerTypeOK, HalfOpenHasProbe, MoveTo
<1>3. OpenMeansThreshold'
  BY DEF BreakerIInv, OpenMeansThreshold
<1> QED
  BY <1>1, <1>2, <1>3 DEF BreakerIInv

LEMMA AllowBreaker == ASSUME BreakerIInv, NEW t \in Turns, AllowTurn(t) PROVE BreakerIInv'
<1>1. CASE state = "open" /\ coolingFor = 0 /\ MoveTo(t, "probing") /\ state' = "halfOpen"
  <2>1. BreakerTypeOK'
    BY <1>1 DEF AllowTurn, BreakerIInv, BreakerTypeOK, MoveTo
  <2>2. HalfOpenHasProbe'
    BY <1>1 DEF BreakerIInv, BreakerTypeOK, HalfOpenHasProbe, MoveTo
  <2>3. OpenMeansThreshold'
    BY <1>1 DEF AllowTurn, BreakerIInv, OpenMeansThreshold
  <2> QED
    BY <2>1, <2>2, <2>3 DEF BreakerIInv
<1>2. CASE UNCHANGED state /\ (MoveTo(t, "running") \/ MoveTo(t, "shorted"))
  BY <1>2, MoveInv DEF AllowTurn
<1> QED
  BY <1>1, <1>2 DEF AllowTurn

LEMMA StepBreaker == BreakerIInv /\ [BreakerNext]_breakerVars => BreakerIInv'
<1> SUFFICES ASSUME BreakerIInv, [BreakerNext]_breakerVars PROVE BreakerIInv'
  OBVIOUS
<1>1. ASSUME NEW t \in Turns, Begin(t) \/ Conclude(t) \/ ReplyShorted(t) \/ Finish(t)
      PROVE  BreakerIInv'
  BY <1>1, MoveInv DEF Begin, Conclude, ReplyShorted, Finish
<1>2. ASSUME NEW t \in Turns, ReportHealthy(t) \/ ReportTransient(t) \/ Panic(t)
      PROVE  BreakerIInv'
  BY <1>2, ReportInv DEF ReportHealthy, ReportTransient, Panic
<1>3. CASE CooldownTick
  BY <1>3, BreakerAssumption
  DEF CooldownTick, BreakerIInv, BreakerTypeOK, HalfOpenHasProbe, OpenMeansThreshold
<1>4. CASE UNCHANGED breakerVars
  BY <1>4 DEF breakerVars, BreakerIInv, BreakerTypeOK, HalfOpenHasProbe, OpenMeansThreshold
<1> QED
  BY <1>1, <1>2, <1>3, <1>4, AllowBreaker DEF BreakerNext, TurnStep

(* Every variable keeps its type, for any turns, threshold and cooldown.   *)
THEOREM BreakerTypes == BreakerSpec => []BreakerTypeOK
<1>1. BreakerSpec => []BreakerIInv
  BY InitBreaker, StepBreaker, PTL DEF BreakerSpec
<1> QED
  BY <1>1, PTL DEF BreakerIInv

(* A half-open breaker always has its probe in flight: recoverTurn and the *)
(* report of a failed spawn leave no path that forgets it.  And it is away *)
(* from closed exactly while its counter stands at the threshold.          *)
THEOREM NoWedgedProbe == BreakerSpec => []BreakerSane
<1>1. BreakerSpec => []BreakerIInv
  BY InitBreaker, StepBreaker, PTL DEF BreakerSpec
<1> QED
  BY <1>1, PTL DEF BreakerIInv, BreakerSane

HIDE DEF Phases

-----------------------------------------------------------------------------
(* The tools the agent drivers offer.                                       *)

(* A list that was filtered is given just when it says something, and says  *)
(* what is left of it.                                                     *)
LEMMA Filtered ==
  ASSUME NEW l \in Lists
  PROVE  LET f == FilterValidToolNames(l)
         IN  /\ f \in Lists
             /\ f.given <=> Meant(l)
             /\ Meant(l) => f.names = l.names \ Malformed
             /\ ~l.given => l = Nil
             /\ l.given \in BOOLEAN /\ l.names \in SUBSET Names
<1>1. CASE l = Nil
  BY <1>1 DEF FilterValidToolNames, Nil, Lists, Meant
<1>2. ASSUME NEW ns \in SUBSET Names, l = List(ns)
      PROVE  LET f == FilterValidToolNames(l)
             IN  /\ f \in Lists
                 /\ f.given <=> Meant(l)
                 /\ Meant(l) => f.names = l.names \ Malformed
                 /\ ~l.given => l = Nil
                 /\ l.given \in BOOLEAN /\ l.names \in SUBSET Names
  <2>1. l.given = TRUE /\ l.names = ns
    BY <1>2 DEF List
  <2>2. CASE ns # {} /\ ns \ Malformed = {}
    BY <2>1, <2>2 DEF FilterValidToolNames, Nil, Lists, Meant
  <2>3. CASE ~(ns # {} /\ ns \ Malformed = {})
    <3>1. FilterValidToolNames(l) = [l EXCEPT !.names = ns \ Malformed]
      BY <2>1, <2>3 DEF FilterValidToolNames
    <3>2. FilterValidToolNames(l) = List(ns \ Malformed)
      BY <1>2, <3>1 DEF List
    <3>3. /\ FilterValidToolNames(l).given = TRUE
          /\ FilterValidToolNames(l).names = ns \ Malformed
      BY <3>2 DEF List
    <3>4. FilterValidToolNames(l) \in Lists
      <4>1. ns \ Malformed \in SUBSET Names
        OBVIOUS
      <4> QED
        BY <3>2, <4>1 DEF Lists
    <3> QED
      BY <2>1, <2>3, <3>3, <3>4 DEF Meant
  <2> QED
    BY <2>2, <2>3
<1> QED
  BY <1>1, <1>2 DEF Lists

(* What a turn goes by when policy p rules.                                *)
GoesBy(l, p) ==
  /\ l \in Lists
  /\ Meant(Ruling(p)) => l.given = TRUE /\ l.names = Ruling(p).names \ Malformed
  /\ ~Meant(Ruling(p)) => l.given = FALSE

LEMMA PolicyTypes ==
  ASSUME NEW p \in Policies
  PROVE  /\ p.default \in Lists /\ p.channel.list \in Lists /\ p.channel.has \in BOOLEAN
         /\ p.channel = Missing \/ p.channel = Entry(p.channel.list)
         /\ p.channel.has = TRUE => p.channel = Entry(p.channel.list)
         /\ p.channel.has = FALSE => p.channel = Missing
         /\ Ruling(p) \in Lists
<1>1. /\ p.default \in Lists
      /\ p.channel = Missing \/ \E l \in Lists : p.channel = Entry(l)
  BY ToolsAssumption
<1>2. /\ p.channel.list \in Lists /\ p.channel.has \in BOOLEAN
      /\ p.channel = Missing \/ p.channel = Entry(p.channel.list)
      /\ p.channel.has = TRUE => p.channel = Entry(p.channel.list)
      /\ p.channel.has = FALSE => p.channel = Missing
  <2>1. Missing.list \in Lists /\ Missing.has = FALSE
    BY DEF Missing, Lists
  <2>2. \A l \in Lists : Entry(l).list = l /\ Entry(l).has = TRUE
    BY DEF Entry
  <2> QED
    BY <1>1, <2>1, <2>2
<1>3. Ruling(p) \in Lists
  BY <1>1, <1>2 DEF Ruling
<1> QED
  BY <1>1, <1>2, <1>3

LEMMA SanitizedRules ==
  ASSUME NEW p \in Policies
  PROVE  GoesBy(AllowedTools(SanitizeToolPolicy(p)), p)
<1> DEFINE d == FilterValidToolNames(p.default)
           f == FilterValidToolNames(p.channel.list)
           s == SanitizeToolPolicy(p)
<1>1. /\ p.default \in Lists /\ p.channel.list \in Lists /\ p.channel.has \in BOOLEAN
      /\ p.channel.has = TRUE => p.channel = Entry(p.channel.list)
      /\ p.channel.has = FALSE => p.channel = Missing
  BY PolicyTypes
<1>2. /\ d \in Lists /\ (d.given <=> Meant(p.default)) /\ (Meant(p.default) => d.names = p.default.names \ Malformed)
      /\ d.given \in BOOLEAN /\ (~d.given => d = Nil)
  BY <1>1, Filtered
<1>3. /\ f \in Lists /\ (f.given <=> Meant(p.channel.list))
      /\ (Meant(p.channel.list) => f.names = p.channel.list.names \ Malformed)
      /\ f.given \in BOOLEAN /\ (~f.given => f = Nil)
      /\ p.channel.list.given \in BOOLEAN /\ (~p.channel.list.given => p.channel.list = Nil)
  BY <1>1, Filtered
<1>4. /\ s.default = d
      /\ s.channel = IF p.channel.list.given /\ ~f.given THEN Missing ELSE [p.channel EXCEPT !.list = f]
  BY DEF SanitizeToolPolicy
<1>5. Nil \in Lists /\ Nil.given = FALSE /\ Missing.has = FALSE /\ Missing.list = Nil
  BY DEF Lists, Nil, Missing
<1> HIDE DEF d, f, s
<1>6. CASE p.channel.has = FALSE
  <2>1. Ruling(p) = p.default
    BY <1>6 DEF Ruling
  <2>2. s.channel.has = FALSE
    <3>1. p.channel = Missing
      BY <1>1, <1>6
    <3>2. [Missing EXCEPT !.list = f].has = FALSE
      BY DEF Missing
    <3> QED
      BY <1>4, <1>5, <3>1, <3>2
  <2>3. AllowedTools(s) = IF d.given THEN d ELSE Nil
    BY <1>2, <1>4, <2>2 DEF AllowedTools
  <2> QED
    BY <1>2, <1>5, <2>1, <2>3 DEF GoesBy, s
<1>7. CASE p.channel.has = TRUE /\ p.channel.list.given /\ ~f.given
  <2>1. Ruling(p) = p.default
    BY <1>3, <1>7 DEF Ruling
  <2>2. s.channel.has = FALSE
    BY <1>4, <1>5, <1>7
  <2>3. AllowedTools(s) = IF d.given THEN d ELSE Nil
    BY <1>2, <1>4, <2>2 DEF AllowedTools
  <2> QED
    BY <1>2, <1>5, <2>1, <2>3 DEF GoesBy, s
<1>8. CASE p.channel.has = TRUE /\ ~(p.channel.list.given /\ ~f.given)
  <2>1. Ruling(p) = p.channel.list
    BY <1>3, <1>8 DEF Ruling
  <2>2. s.channel.has = TRUE /\ s.channel.list = f
    <3>1. s.channel = [Entry(p.channel.list) EXCEPT !.list = f]
      BY <1>1, <1>4, <1>8
    <3> QED
      BY <3>1 DEF Entry
  <2>3. AllowedTools(s) = f
    BY <2>2 DEF AllowedTools
  <2>4. f.given = TRUE <=> Meant(p.channel.list)
    BY <1>3
  <2> QED
    BY <1>3, <2>1, <2>3, <2>4 DEF GoesBy, s
<1> QED
  BY <1>1, <1>6, <1>7, <1>8

(* The policy of the start was refused if a name of it is malformed.        *)
LEMMA StartupRules ==
  ASSUME NEW p \in Policies, ValidNames(p.default), ValidNames(p.channel.list)
  PROVE  GoesBy(AllowedTools(p), p)
<1>1. /\ p.default \in Lists /\ p.channel.list \in Lists /\ p.channel.has \in BOOLEAN
  BY PolicyTypes
<1>2. ASSUME NEW l \in Lists, ValidNames(l)
      PROVE  /\ Meant(l) <=> l.given = TRUE
             /\ l.given = FALSE <=> ~l.given
             /\ l.names = l.names \ Malformed
  <2>1. l.given \in BOOLEAN
    BY Filtered
  <2>2. l.names = l.names \ Malformed
    BY <1>2 DEF ValidNames
  <2> QED
    BY <2>1, <2>2 DEF Meant
<1>3. Nil \in Lists /\ Nil.given = FALSE
  BY DEF Lists, Nil
<1>4. CASE p.channel.has = FALSE
  <2>1. Ruling(p) = p.default /\ AllowedTools(p) = IF p.default.given THEN p.default ELSE Nil
    BY <1>4 DEF Ruling, AllowedTools
  <2> QED
    BY <1>1, <1>2, <1>3, <2>1 DEF GoesBy
<1>5. CASE p.channel.has = TRUE
  <2>1. AllowedTools(p) = p.channel.list
    BY <1>5 DEF AllowedTools
  <2>2. Ruling(p) = p.channel.list
    BY <1>1, <1>2, <1>5 DEF Ruling
  <2>3. p.channel.list.given \in BOOLEAN
    BY <1>1, Filtered
  <2> QED
    BY <1>1, <1>2, <2>1, <2>2, <2>3 DEF GoesBy
<1> QED
  BY <1>1, <1>4, <1>5

(* Where a turn is, and what it goes by: until it has read the file, what    *)
(* the file holds is in force for it; until it has asked for the binary,     *)
(* that one is on the path for it; what it goes by is what a policy that is   *)
(* in force means.                                                         *)
ProbeType == [state : {"none", "ok", "failed"}, age : Nat]
ToolQuery ==
  [at : {"idle", "begun", "resolved", "probing", "spawned"}, inForce : SUBSET Policies,
   bins : SUBSET Binaries, policy : Lists, mcp : BOOLEAN, bin : Binaries,
   tools : SUBSET (Names \cup Fallback), basis : ProbeType]

Scoped(q) ==
  \E p \in q.inForce :
    IF Meant(Ruling(p)) THEN q.tools = Ruling(p).names \ (Malformed \cup Interactive)
    ELSE IsFallback(q) \/ \E b \in q.bins : IsSurfaceOf(q, b)

ToolQueryOK(q) ==
  /\ q.at = "begun" => file \in q.inForce
  /\ q.at \in {"begun", "resolved"} => binary \in q.bins
  /\ q.at = "resolved" => \E p \in q.inForce : GoesBy(q.policy, p)
  /\ q.at = "probing" => q.bin \in q.bins /\ \E p \in q.inForce : ~Meant(Ruling(p))
  /\ q.at = "spawned" => Scoped(q)

ToolTypes ==
  /\ startup \in Policies /\ ValidNames(startup.default) /\ ValidNames(startup.channel.list)
  /\ file \in Policies /\ binary \in Binaries
  /\ has \in [Binaries -> SUBSET Names]
  /\ probes \in [Binaries -> ProbeType]
  /\ query \in [Queries -> ToolQuery]

ToolsIInv ==
  /\ ToolTypes
  /\ \A b \in Binaries : probes[b].state = "ok" => FilterTools(has[b]) # {}
  /\ \A t \in Queries : ToolQueryOK(query[t])

(* The turn that moved, when nothing else did.                             *)
LEMMA ToolTurnMoves ==
  ASSUME ToolsIInv, NEW t \in Queries, NEW q \in ToolQuery, query' = [query EXCEPT ![t] = q],
         UNCHANGED rest, ToolQueryOK(q),
         probes' \in [Binaries -> ProbeType],
         \A b \in Binaries : probes'[b].state = "ok" => FilterTools(has[b]) # {}
  PROVE  ToolsIInv'
<1>1. ToolTypes'
  BY DEF ToolsIInv, ToolTypes, rest
<1>2. ASSUME NEW u \in Queries PROVE ToolQueryOK(query[u])'
  <2>1. query'[u] = q \/ query'[u] = query[u]
    BY DEF ToolsIInv, ToolTypes
  <2>2. ToolQueryOK(query[u])
    BY DEF ToolsIInv
  <2> QED
    BY <2>1, <2>2 DEF ToolQueryOK, Scoped, IsFallback, IsSurfaceOf, rest
<1> QED
  BY <1>1, <1>2 DEF ToolsIInv, rest

LEMMA IdleTurn ==
  ASSUME ToolsIInv
  PROVE  /\ Idle \in ToolQuery /\ Idle.at = "idle" /\ NotProbed \in ProbeType
<1>1. (CHOOSE b \in Binaries : TRUE) \in Binaries
  BY DEF ToolsIInv, ToolTypes
<1>2. NotProbed \in ProbeType
  BY DEF NotProbed, Probe, ProbeType
<1>3. Nil \in Lists
  BY DEF Lists
<1> QED
  BY <1>1, <1>2, <1>3 DEF Idle, ToolQuery

(* The surface of a probe, whatever it came to.                             *)
LEMMA DefaultScoped ==
  ASSUME ToolsIInv, NEW q \in ToolQuery, NEW p \in ProbeType, NEW b \in q.bins, NEW mcp \in BOOLEAN,
         p.state = "ok" => FilterTools(has[b]) # {},
         p.state = "ok" \/ (p.state = "failed" /\ p.age < RetryAfter),
         \E r \in q.inForce : ~Meant(Ruling(r))
  PROVE  LET w == WithTools(q, DefaultTools(p, b, mcp), p)
         IN  w \in ToolQuery /\ w.at = "spawned" /\ Scoped(w)
<1> DEFINE T == DefaultTools(p, b, mcp)
           w == WithTools(q, T, p)
<1>1. b \in Binaries
  BY DEF ToolQuery
<1>2. T \in SUBSET (Names \cup Fallback)
  BY <1>1 DEF ToolsIInv, ToolTypes, DefaultTools, WithMCPWildcard, FilterTools, Names
<1> HIDE DEF T
<1>3. /\ w \in ToolQuery /\ w.at = "spawned" /\ w.tools = T /\ w.basis = p
      /\ w.inForce = q.inForce /\ w.bins = q.bins
  BY <1>2, IdleTurn DEF WithTools, ToolQuery
<1> HIDE DEF w
<1>4. IsFallback(w) \/ IsSurfaceOf(w, b)
  <2>1. CASE p.state = "ok"
    <3>1. T = has[b] \ Interactive \/ T = (has[b] \ Interactive) \cup {Mcp}
      BY <2>1 DEF T, DefaultTools, WithMCPWildcard, FilterTools
    <3>2. has[b] \ Interactive # {}
      BY <2>1 DEF FilterTools
    <3> QED
      BY <1>3, <3>1, <3>2 DEF IsSurfaceOf
  <2>2. CASE p.state # "ok"
    BY <1>3, <2>2 DEF T, DefaultTools, IsFallback
  <2> QED
    BY <2>1, <2>2
<1>5. Scoped(w)
  BY <1>3, <1>4 DEF Scoped
<1> QED
  BY <1>3, <1>5 DEF w, T

LEMMA ArgsScoped ==
  ASSUME ToolsIInv, NEW t \in Queries, BuildArgs(t)
  PROVE  ToolsIInv'
<1> DEFINE l == query[t].policy
           p == probes[binary]
<1>1. PICK mcp \in BOOLEAN :
        LET q == [query[t] EXCEPT !.mcp = mcp, !.bin = binary]
        IN  query' = [query EXCEPT ![t] =
              IF l.given THEN WithTools(q, Whitelist(l, mcp), NotProbed)
              ELSE IF Cached(p) THEN WithTools(q, DefaultTools(p, binary, mcp), p)
              ELSE [q EXCEPT !.at = "probing"]]
  BY DEF BuildArgs
<1>2. /\ query[t].at = "resolved" /\ UNCHANGED rest /\ probes' = probes
      /\ query[t] \in ToolQuery /\ ToolQueryOK(query[t]) /\ binary \in Binaries /\ p \in ProbeType
      /\ p.state = "ok" => FilterTools(has[binary]) # {}
  BY DEF BuildArgs, ToolsIInv, ToolTypes
<1>3. binary \in query[t].bins /\ l \in Lists /\ query[t].inForce \in SUBSET Policies
  BY <1>2 DEF ToolQueryOK, ToolQuery
<1>4. PICK r \in query[t].inForce : GoesBy(l, r)
  BY <1>2 DEF ToolQueryOK
<1>5. /\ probes' \in [Binaries -> ProbeType]
      /\ \A b \in Binaries : probes'[b].state = "ok" => FilterTools(has[b]) # {}
  BY <1>2 DEF ToolsIInv, ToolTypes
<1> DEFINE q == [query[t] EXCEPT !.mcp = mcp, !.bin = binary]
<1>6. /\ q \in ToolQuery /\ q.inForce = query[t].inForce /\ q.bins = query[t].bins
      /\ q.policy = l /\ q.bin = binary
  BY <1>2 DEF ToolQuery
<1>7. query' = [query EXCEPT ![t] =
              IF l.given THEN WithTools(q, Whitelist(l, mcp), NotProbed)
              ELSE IF Cached(p) THEN WithTools(q, DefaultTools(p, binary, mcp), p)
              ELSE [q EXCEPT !.at = "probing"]]
  BY <1>1
<1> HIDE DEF q, l, p
<1>8. CASE l.given
  <2> DEFINE w == WithTools(q, Whitelist(l, mcp), NotProbed)
  <2>1. Meant(Ruling(r)) /\ l.names = Ruling(r).names \ Malformed
    BY <1>4, <1>8 DEF GoesBy
  <2>2. Whitelist(l, mcp) = Ruling(r).names \ (Malformed \cup Interactive)
    BY <2>1 DEF Whitelist, FilterTools
  <2>3. l.names \in SUBSET Names
    BY <1>3, Filtered
  <2>4. Whitelist(l, mcp) \in SUBSET (Names \cup Fallback)
    BY <2>3 DEF Whitelist, FilterTools
  <2>5. /\ w \in ToolQuery /\ w.at = "spawned" /\ w.tools = Whitelist(l, mcp)
        /\ w.inForce = q.inForce
    BY <1>6, <2>4, IdleTurn DEF WithTools, ToolQuery
  <2>6. query' = [query EXCEPT ![t] = w]
    BY <1>7, <1>8
  <2> HIDE DEF w
  <2>7. Scoped(w)
    BY <1>4, <1>6, <2>1, <2>2, <2>5 DEF Scoped
  <2>8. ToolQueryOK(w)
    BY <2>5, <2>7 DEF ToolQueryOK
  <2> QED
    BY <1>2, <1>5, <2>5, <2>6, <2>8, ToolTurnMoves
<1>9. CASE ~l.given /\ Cached(p)
  <2> DEFINE w == WithTools(q, DefaultTools(p, binary, mcp), p)
  <2>1. ~Meant(Ruling(r))
    BY <1>4, <1>9 DEF GoesBy
  <2>2. p.state = "ok" \/ (p.state = "failed" /\ p.age < RetryAfter)
    BY <1>9 DEF Cached
  <2>3. w \in ToolQuery /\ w.at = "spawned" /\ Scoped(w)
    BY <1>2, <1>3, <1>4, <1>6, <2>1, <2>2, DefaultScoped
  <2>4. query' = [query EXCEPT ![t] = w]
    BY <1>7, <1>9
  <2> HIDE DEF w
  <2>5. ToolQueryOK(w)
    BY <2>3 DEF ToolQueryOK
  <2> QED
    BY <1>2, <1>5, <2>3, <2>4, <2>5, ToolTurnMoves
<1>10. CASE ~l.given /\ ~Cached(p)
  <2> DEFINE w == [q EXCEPT !.at = "probing"]
  <2>1. ~Meant(Ruling(r))
    BY <1>4, <1>10 DEF GoesBy
  <2>2. w \in ToolQuery /\ w.at = "probing" /\ w.inForce = q.inForce /\ w.bins = q.bins /\ w.bin = q.bin
    BY <1>6 DEF ToolQuery
  <2>3. query' = [query EXCEPT ![t] = w]
    BY <1>7, <1>10
  <2> HIDE DEF w
  <2>4. ToolQueryOK(w)
    BY <1>3, <1>4, <1>6, <2>1, <2>2 DEF ToolQueryOK
  <2> QED
    BY <1>2, <1>5, <2>2, <2>3, <2>4, ToolTurnMoves
<1> QED
  BY <1>8, <1>9, <1>10

LEMMA ProbeScoped ==
  ASSUME ToolsIInv, NEW t \in Queries, ProbeLands(t)
  PROVE  ToolsIInv'
<1>1. PICK p \in {Probe("ok", 0), Probe("failed", 0)} :
        /\ p.state = "ok" => FilterTools(has[query[t].bin]) # {}
        /\ probes' = [probes EXCEPT ![query[t].bin] = p]
        /\ query' = [query EXCEPT ![t] =
             WithTools(query[t], DefaultTools(p, query[t].bin, query[t].mcp), p)]
  BY DEF ProbeLands
<1>2. /\ query[t].at = "probing" /\ UNCHANGED rest
      /\ query[t] \in ToolQuery /\ ToolQueryOK(query[t])
  BY DEF ProbeLands, ToolsIInv, ToolTypes
<1>3. /\ p \in ProbeType /\ (p.state = "ok" \/ (p.state = "failed" /\ p.age < RetryAfter))
  BY <1>1, ToolsAssumption DEF Probe, ProbeType
<1>4. /\ query[t].bin \in query[t].bins /\ query[t].bin \in Binaries /\ query[t].mcp \in BOOLEAN
      /\ \E r \in query[t].inForce : ~Meant(Ruling(r))
  BY <1>2 DEF ToolQueryOK, ToolQuery
<1> DEFINE w == WithTools(query[t], DefaultTools(p, query[t].bin, query[t].mcp), p)
<1>5. w \in ToolQuery /\ w.at = "spawned" /\ Scoped(w)
  BY <1>1, <1>2, <1>3, <1>4, DefaultScoped
<1>6. query' = [query EXCEPT ![t] = w]
  BY <1>1
<1> HIDE DEF w
<1>7. ToolQueryOK(w)
  BY <1>5 DEF ToolQueryOK
<1>8. /\ probes' \in [Binaries -> ProbeType]
      /\ \A b \in Binaries : probes'[b].state = "ok" => FilterTools(has[b]) # {}
  BY <1>1, <1>3, <1>4 DEF ToolsIInv, ToolTypes
<1> QED
  BY <1>2, <1>5, <1>6, <1>7, <1>8, ToolTurnMoves

LEMMA ToolsStep == ToolsIInv /\ [ToolsNext]_toolsVars => ToolsIInv'
<1> SUFFICES ASSUME ToolsIInv, [ToolsNext]_toolsVars PROVE ToolsIInv'
  OBVIOUS
<1>0. /\ probes \in [Binaries -> ProbeType]
      /\ \A b \in Binaries : probes[b].state = "ok" => FilterTools(has[b]) # {}
      /\ query \in [Queries -> ToolQuery] /\ file \in Policies /\ binary \in Binaries /\ startup \in Policies
      /\ ValidNames(startup.default) /\ ValidNames(startup.channel.list)
      /\ \A t \in Queries : ToolQueryOK(query[t])
  BY DEF ToolsIInv, ToolTypes
<1>1. ASSUME NEW t \in Queries, TurnBegins(t) PROVE ToolsIInv'
  <2> DEFINE w == [Idle EXCEPT !.at = "begun", !.inForce = {file}, !.bins = {binary}]
  <2>1. /\ w \in ToolQuery /\ w.at = "begun" /\ w.inForce = {file} /\ w.bins = {binary}
    BY <1>0, IdleTurn DEF ToolQuery
  <2>2. query' = [query EXCEPT ![t] = w] /\ UNCHANGED rest /\ probes' = probes
    BY <1>1 DEF TurnBegins
  <2> HIDE DEF w
  <2>3. ToolQueryOK(w)
    BY <2>1 DEF ToolQueryOK
  <2> QED
    BY <1>0, <2>1, <2>2, <2>3, ToolTurnMoves
<1>2. ASSUME NEW t \in Queries, ResolveTools(t) PROVE ToolsIInv'
  <2>1. PICK ok \in BOOLEAN :
          query' = [query EXCEPT ![t].at = "resolved", ![t].policy = Resolved(ok),
                                 ![t].inForce = IF ok THEN @ ELSE @ \cup {startup}]
    BY <1>2 DEF ResolveTools
  <2>2. /\ query[t].at = "begun" /\ UNCHANGED rest /\ probes' = probes
        /\ query[t] \in ToolQuery /\ ToolQueryOK(query[t])
    BY <1>0, <1>2 DEF ResolveTools
  <2> DEFINE I == IF ok THEN query[t].inForce ELSE query[t].inForce \cup {startup}
             w == [query[t] EXCEPT !.at = "resolved", !.policy = Resolved(ok), !.inForce = I]
  <2>3. \E p \in I : GoesBy(Resolved(ok), p)
    <3>1. CASE ok
      BY <1>0, <2>2, <3>1, SanitizedRules DEF Resolved, ToolQueryOK
    <3>2. CASE ~ok
      BY <1>0, <3>2, StartupRules DEF Resolved
    <3> QED
      BY <3>1, <3>2
  <2>4. Resolved(ok) \in Lists /\ I \in SUBSET Policies
    BY <1>0, <2>2, <2>3 DEF GoesBy, ToolQuery
  <2>5. query' = [query EXCEPT ![t] = w]
    BY <1>0, <2>1
  <2> HIDE DEF I
  <2>6. /\ w \in ToolQuery /\ w.at = "resolved" /\ w.policy = Resolved(ok) /\ w.inForce = I
        /\ w.bins = query[t].bins
    BY <2>2, <2>4 DEF ToolQuery
  <2> HIDE DEF w
  <2>7. ToolQueryOK(w)
    BY <2>2, <2>3, <2>6 DEF ToolQueryOK
  <2> QED
    BY <1>0, <2>2, <2>5, <2>6, <2>7, ToolTurnMoves
<1>3. ASSUME NEW t \in Queries, BuildArgs(t) PROVE ToolsIInv'
  BY <1>3, ArgsScoped
<1>4. ASSUME NEW t \in Queries, ProbeLands(t) PROVE ToolsIInv'
  BY <1>4, ProbeScoped
<1>5. ASSUME NEW t \in Queries, QueryEnds(t) PROVE ToolsIInv'
  <2>1. query' = [query EXCEPT ![t] = Idle] /\ UNCHANGED rest /\ probes' = probes
    BY <1>5 DEF QueryEnds
  <2>2. ToolQueryOK(Idle)
    BY IdleTurn DEF ToolQueryOK
  <2> QED
    BY <1>0, <2>1, <2>2, IdleTurn, ToolTurnMoves
<1>6. CASE EditPolicy
  <2>1. PICK p \in Policies : /\ file' = p
          /\ query' = [t \in Queries |-> IF query[t].at = "begun"
                        THEN [query[t] EXCEPT !.inForce = @ \cup {p}] ELSE query[t]]
    BY <1>6 DEF EditPolicy
  <2>2. UNCHANGED <<startup, binary, has, probes>>
    BY <1>6 DEF EditPolicy
  <2>3. ASSUME NEW t \in Queries PROVE query'[t] \in ToolQuery /\ ToolQueryOK(query[t])'
    <3>0. query[t] \in ToolQuery /\ ToolQueryOK(query[t])
      BY <1>0
    <3>1. CASE query[t].at = "begun"
      <4> DEFINE w == [query[t] EXCEPT !.inForce = @ \cup {p}]
      <4>1. query'[t] = w
        BY <2>1, <3>1
      <4>2. w \in ToolQuery /\ w.at = "begun" /\ w.inForce = query[t].inForce \cup {p} /\ w.bins = query[t].bins
        BY <3>0, <3>1 DEF ToolQuery
      <4> HIDE DEF w
      <4> QED
        BY <2>1, <2>2, <3>0, <3>1, <4>1, <4>2 DEF ToolQueryOK
    <3>2. CASE query[t].at # "begun"
      <4>1. query'[t] = query[t]
        BY <2>1, <3>2
      <4> QED
        BY <2>2, <3>0, <3>2, <4>1 DEF ToolQueryOK, Scoped, IsFallback, IsSurfaceOf
    <3> QED
      BY <3>1, <3>2
  <2>4. ToolTypes'
    <3>1. query' \in [Queries -> ToolQuery]
      BY <2>1, <2>3
    <3> QED
      BY <2>1, <2>2, <3>1 DEF ToolsIInv, ToolTypes
  <2> QED
    BY <1>0, <2>2, <2>3, <2>4 DEF ToolsIInv
<1>7. CASE BinaryMoves
  <2>1. PICK b \in Binaries : /\ binary' = b
          /\ query' = [t \in Queries |-> IF query[t].at \in {"begun", "resolved"}
                        THEN [query[t] EXCEPT !.bins = @ \cup {b}] ELSE query[t]]
    BY <1>7 DEF BinaryMoves
  <2>2. UNCHANGED <<startup, file, has, probes>>
    BY <1>7 DEF BinaryMoves
  <2>3. ASSUME NEW t \in Queries PROVE query'[t] \in ToolQuery /\ ToolQueryOK(query[t])'
    <3>0. query[t] \in ToolQuery /\ ToolQueryOK(query[t])
      BY <1>0
    <3>1. CASE query[t].at \in {"begun", "resolved"}
      <4> DEFINE w == [query[t] EXCEPT !.bins = @ \cup {b}]
      <4>1. query'[t] = w
        BY <2>1, <3>1
      <4>2. /\ w \in ToolQuery /\ w.at = query[t].at /\ w.inForce = query[t].inForce
            /\ w.bins = query[t].bins \cup {b} /\ w.policy = query[t].policy
        BY <3>0, <3>1 DEF ToolQuery
      <4> HIDE DEF w
      <4> QED
        BY <2>1, <2>2, <3>0, <3>1, <4>1, <4>2 DEF ToolQueryOK
    <3>2. CASE query[t].at \notin {"begun", "resolved"}
      <4>1. query'[t] = query[t]
        BY <2>1, <3>2
      <4> QED
        BY <2>2, <3>0, <3>2, <4>1 DEF ToolQueryOK, Scoped, IsFallback, IsSurfaceOf
    <3> QED
      BY <3>1, <3>2
  <2>4. ToolTypes'
    <3>1. query' \in [Queries -> ToolQuery]
      BY <2>1, <2>3
    <3> QED
      BY <2>1, <2>2, <3>1 DEF ToolsIInv, ToolTypes
  <2> QED
    BY <1>0, <2>2, <2>3, <2>4 DEF ToolsIInv
<1>8. CASE ToolsTick \/ UNCHANGED toolsVars
  <2>1. UNCHANGED <<rest, query>>
    BY <1>8 DEF ToolsTick, toolsVars, rest
  <2>2. /\ probes' \in [Binaries -> ProbeType]
        /\ \A b \in Binaries : probes'[b].state = probes[b].state
    <3>1. CASE ToolsTick
      <4>1. ASSUME NEW b \in Binaries
            PROVE  [probes[b] EXCEPT !.age = @ + 1] \in ProbeType
                   /\ [probes[b] EXCEPT !.age = @ + 1].state = probes[b].state
        BY <1>0 DEF ProbeType
      <4> QED
        BY <1>0, <3>1, <4>1 DEF ToolsTick
    <3>2. CASE UNCHANGED toolsVars
      BY <1>0, <3>2 DEF toolsVars
    <3> QED
      BY <1>8, <3>1, <3>2
  <2>3. ToolTypes'
    BY <2>1, <2>2 DEF ToolsIInv, ToolTypes, rest
  <2>4. \A t \in Queries : ToolQueryOK(query[t])'
    BY <1>0, <2>1 DEF rest, ToolQueryOK, Scoped, IsFallback, IsSurfaceOf
  <2> QED
    BY <1>0, <2>1, <2>2, <2>3, <2>4 DEF ToolsIInv, rest
<1> QED
  BY <1>1, <1>2, <1>3, <1>4, <1>5, <1>6, <1>7, <1>8 DEF ToolsNext

(* For any policies, turns, binaries and retry interval, with any number of  *)
(* edits: a turn is offered the tools of a policy that was in force after it  *)
(* began (bot.go:424-450), or, where that names none, those of a binary that  *)
(* was on the path since, or the fallback after a fresh failure of the probe  *)
(* (claude.go:228-276, 294-344).                                           *)
THEOREM ToolsAreScoped == ToolsSpec => []ToolsScoped
<1>1. ToolsInit => ToolsIInv
  <2> SUFFICES ASSUME ToolsInit PROVE ToolsIInv
    OBVIOUS
  <2>1. /\ startup \in Policies /\ ValidNames(startup.default) /\ ValidNames(startup.channel.list)
        /\ file = startup /\ binary \in Binaries
        /\ has \in [Binaries -> {Interactive, {"Read", "Edit"} \cup Interactive}]
        /\ probes = [b \in Binaries |-> NotProbed] /\ query = [q \in Queries |-> Idle]
    BY DEF ToolsInit
  <2>2. (CHOOSE b \in Binaries : TRUE) \in Binaries
    BY <2>1
  <2>3. NotProbed \in ProbeType /\ NotProbed.state = "none"
    BY DEF NotProbed, Probe, ProbeType
  <2>4. Idle \in ToolQuery /\ Idle.at = "idle"
    BY <2>2, <2>3 DEF Idle, ToolQuery, Lists
  <2>5. has \in [Binaries -> SUBSET Names]
    BY <2>1 DEF Names
  <2>6. ToolQueryOK(Idle)
    BY <2>4 DEF ToolQueryOK
  <2> QED
    BY <2>1, <2>3, <2>4, <2>5, <2>6 DEF ToolsIInv, ToolTypes
<1>2. ToolsIInv => ToolsScoped
  BY DEF ToolsIInv, ToolsScoped, ToolQueryOK, Scoped
<1> QED
  BY <1>1, <1>2, ToolsStep, PTL DEF ToolsSpec

-----------------------------------------------------------------------------
(* The gateway's turn.                                                      *)
(* Induction over the naturals, in the form the proofs below use.          *)
LEMMA LeastNat ==
  ASSUME NEW T, T \subseteq Nat, T # {}
  PROVE  \E n \in T : \A m \in T : n <= m
<1> DEFINE R == {ss \in Nat \X Nat : ss[1] < ss[2]}
<1>1. IsWellFoundedOn(R, Nat)
  BY NatLessThanWellFounded DEF OpToRel
<1> HIDE DEF R
<1>2. PICK n \in T : \A m \in T : ~ (<<m, n>> \in R)
  BY <1>1, WFMin
<1>3. ASSUME NEW m \in T PROVE n <= m
  <2>1. n \in Nat /\ m \in Nat /\ <<m, n>> \notin R
    BY <1>2
  <2>2. ~ (m < n)
    BY <2>1 DEF R
  <2>3. QED
    BY <2>1, <2>2
<1>4. QED
  BY <1>3

(* A flattened sequence is a chain of concatenations.                      *)
LEMMA FlattenSteps ==
  ASSUME NEW S, NEW ss \in Seq(Seq(S)), Len(ss) # 0
  PROVE  \E f : /\ FlattenSeq(ss) = f[Len(ss)]
                /\ \A i \in 1..Len(ss) :
                     f[i] \in Seq(S) /\ f[i] = IF i = 1 THEN ss[i] ELSE f[i - 1] \o ss[i]
<1> DEFINE K == Len(ss)
           Step(f, i) == f[i - 1] \o ss[i]
           Rec(f, n) == f = [i \in 1..n |-> IF i = 1 THEN ss[i] ELSE Step(f, i)]
           flat == CHOOSE f : Rec(f, K)
<1>1. K \in Nat /\ \A i \in 1..K : ss[i] \in Seq(S)
  OBVIOUS
<1>2. K # 0
  OBVIOUS
<1>3. FlattenSeq(ss) = flat[K]
  BY <1>2 DEF FlattenSeq
<1>4. \A n \in 1..K : \E f \in [1..n -> Seq(S)] : Rec(f, n)
  <2> DEFINE T == {n \in 1..K : ~ \E f \in [1..n -> Seq(S)] : Rec(f, n)}
  <2>1. SUFFICES ASSUME T # {} PROVE FALSE
    OBVIOUS
  <2>2. PICK n \in T : \A m \in T : n <= m
    <3>1. T \subseteq Nat
      <4>1. T \subseteq 1..K
        OBVIOUS
      <4> HIDE DEF T
      <4>2. QED
        BY <1>1, <4>1
    <3> HIDE DEF T
    <3>2. QED
      BY <2>1, <3>1, LeastNat
  <2>3. n \in 1..K /\ n \in Nat
    BY <1>1
  <2>4. CASE n = 1
    <3> DEFINE f == [i \in 1..1 |-> ss[1]]
    <3>1. f \in [1..1 -> Seq(S)] /\ Rec(f, 1)
      BY <1>1, <2>3, <2>4
    <3>2. QED
      BY <2>2, <2>4, <3>1
  <2>5. CASE n # 1
    <3>1. n - 1 \in 1..K /\ n - 1 \notin T
      <4> HIDE DEF T
      <4>1. QED
        BY <1>1, <2>2, <2>3, <2>5
    <3>2. PICK f \in [1..(n - 1) -> Seq(S)] : Rec(f, n - 1)
      BY <3>1
    <3> DEFINE g == [i \in 1..n |-> IF i = n THEN Step(f, n) ELSE f[i]]
    <3>3. Step(f, n) \in Seq(S)
      <4>1. f[n - 1] \in Seq(S) /\ ss[n] \in Seq(S)
        BY <1>1, <2>3, <2>5, <3>2
      <4>2. QED
        BY <4>1
    <3>4. g \in [1..n -> Seq(S)]
      <4>1. \A i \in 1..n : i # n => f[i] \in Seq(S)
        BY <2>3, <3>2
      <4> HIDE DEF Step
      <4>2. QED
        BY <3>3, <4>1
    <3>5. ASSUME NEW i \in 1..n
          PROVE  g[i] = IF i = 1 THEN ss[i] ELSE Step(g, i)
      <4>1. CASE i = n
        <5>0. n \in 1..n
          BY <2>3
        <5>1. g[n] = Step(f, n)
          <6> HIDE DEF Step
          <6>1. QED
            BY <5>0
        <5>2. n - 1 \in 1..n /\ n - 1 # n /\ g[n - 1] = f[n - 1]
          BY <2>3, <2>5
        <5>3. Step(g, n) = Step(f, n)
          BY <5>2
        <5> HIDE DEF g, Step
        <5>4. QED
          BY <2>5, <4>1, <5>1, <5>3
      <4>2. CASE i # n
        <5>1. i \in 1..(n - 1) /\ g[i] = f[i]
          BY <2>3, <4>2
        <5>2. f[i] = IF i = 1 THEN ss[i] ELSE Step(f, i)
          BY <3>2, <5>1
        <5>3. i # 1 => g[i - 1] = f[i - 1]
          BY <2>3, <4>2
        <5>4. QED
          BY <5>1, <5>2, <5>3
      <4>3. QED
        BY <4>1, <4>2
    <3>6. Rec(g, n)
      BY <3>5
    <3>7. QED
      BY <2>2, <3>4, <3>6
  <2>6. QED
    BY <2>4, <2>5
<1>5. Rec(flat, K)
  <2>1. \E f : Rec(f, K)
    <3>1. K \in 1..K
      BY <1>1, <1>2
    <3>2. QED
      BY <1>4, <3>1
  <2>2. QED
    BY <2>1
<1> HIDE DEF flat
<1>6. \A i \in 1..K : flat[i] \in Seq(S)
  <2> DEFINE T == {i \in 1..K : flat[i] \notin Seq(S)}
  <2>1. SUFFICES ASSUME T # {} PROVE FALSE
    OBVIOUS
  <2>2. PICK i \in T : \A m \in T : i <= m
    <3>1. T \subseteq Nat
      <4>1. T \subseteq 1..K
        OBVIOUS
      <4> HIDE DEF T
      <4>2. QED
        BY <1>1, <4>1
    <3> HIDE DEF T
    <3>2. QED
      BY <2>1, <3>1, LeastNat
  <2>3. flat[i] = IF i = 1 THEN ss[i] ELSE Step(flat, i)
    BY <1>5
  <2>4. CASE i = 1
    BY <1>1, <2>3, <2>4
  <2>5. CASE i # 1
    <3>1. i - 1 \in 1..K /\ i - 1 \notin T
      <4>1. i \in 1..K /\ i \in Nat
        BY <1>1
      <4> HIDE DEF T
      <4>2. QED
        BY <1>1, <2>2, <2>5, <4>1
    <3>2. flat[i - 1] \in Seq(S) /\ ss[i] \in Seq(S)
      BY <1>1, <3>1
    <3>3. flat[i] \in Seq(S)
      BY <2>3, <2>5, <3>2
    <3>4. QED
      BY <3>3
  <2>6. QED
    BY <2>4, <2>5
<1>7. \A i \in 1..K : flat[i] = IF i = 1 THEN ss[i] ELSE Step(flat, i)
  BY <1>5
<1>8. QED
  BY <1>3, <1>6, <1>7

(* What a flattened sequence of sequences over S is made of.               *)
LEMMA FlattenTyped ==
  ASSUME NEW S, NEW ss \in Seq(Seq(S))
  PROVE  FlattenSeq(ss) \in Seq(S)
<1>1. CASE Len(ss) = 0
  <2>1. ss = <<>> /\ FlattenSeq(ss) = ss
    BY <1>1 DEF FlattenSeq
  <2>2. <<>> \in Seq(S)
    OBVIOUS
  <2>3. QED
    BY <2>1, <2>2
<1>2. CASE Len(ss) # 0
  <2>1. PICK f : /\ FlattenSeq(ss) = f[Len(ss)]
                 /\ \A i \in 1..Len(ss) : f[i] \in Seq(S)
    BY <1>2, FlattenSteps
  <2>2. Len(ss) \in 1..Len(ss)
    BY <1>2
  <2>3. QED
    BY <2>1, <2>2
<1>3. QED
  BY <1>1, <1>2

(* ... and holds what they hold.                                           *)
LEMMA FlattenRange ==
  ASSUME NEW S, NEW ss \in Seq(Seq(S))
  PROVE  Range(FlattenSeq(ss)) = UNION {Range(ss[i]) : i \in DOMAIN ss}
<1> DEFINE K == Len(ss)
           Upto(n) == UNION {Range(ss[i]) : i \in 1..n}
<1>1. K \in Nat /\ DOMAIN ss = 1..K /\ \A i \in 1..K : ss[i] \in Seq(S)
  OBVIOUS
<1>2. CASE K = 0
  <2>1. FlattenSeq(ss) = ss /\ DOMAIN ss = {}
    BY <1>2 DEF FlattenSeq
  <2>2. QED
    BY <2>1 DEF Range
<1>3. CASE K # 0
  <2>1. PICK f : /\ FlattenSeq(ss) = f[K]
                 /\ \A i \in 1..K :
                      f[i] \in Seq(S) /\ f[i] = IF i = 1 THEN ss[i] ELSE f[i - 1] \o ss[i]
    BY <1>3, FlattenSteps
  <2>2. ASSUME NEW n \in 1..K, Range(f[n]) # Upto(n) PROVE FALSE
    <3> DEFINE T == {m \in 1..K : Range(f[m]) # Upto(m)}
    <3>1. T \subseteq Nat /\ T # {}
      <4>1. T \subseteq 1..K /\ n \in T
        BY <2>2
      <4> HIDE DEF T
      <4>2. QED
        BY <1>1, <4>1
    <3>2. PICK m \in T : \A i \in T : m <= i
      <4> HIDE DEF T
      <4>1. QED
        BY <3>1, LeastNat
    <3>3. m \in 1..K /\ Range(f[m]) # Upto(m)
      OBVIOUS
    <3>4. m # 1
      <4>0. 1 \in 1..K
        BY <1>1, <1>3
      <4>1. f[1] = ss[1]
        BY <2>1, <4>0
      <4>3. 1..1 = {1}
        OBVIOUS
      <4>4. Upto(1) = Range(ss[1])
        BY <4>3
      <4>2. QED
        BY <3>3, <4>1, <4>4
    <3>5. m - 1 \in 1..K /\ m - 1 \notin T /\ m \in Nat
      <4>1. m \in Nat /\ m - 1 \in 1..K
        BY <1>1, <3>3, <3>4
      <4> HIDE DEF T
      <4>2. QED
        BY <3>2, <4>1
    <3>6. Range(f[m - 1]) = Upto(m - 1)
      BY <3>5
    <3>7. f[m] = f[m - 1] \o ss[m] /\ f[m - 1] \in Seq(S) /\ ss[m] \in Seq(S)
      BY <1>1, <2>1, <3>3, <3>4, <3>5
    <3>8. Range(f[m]) = Range(f[m - 1]) \cup Range(ss[m])
      <4>1. \A a, b \in Seq(S) : Range(a \o b) = Range(a) \cup Range(b)
        <5>1. ASSUME NEW a \in Seq(S), NEW b \in Seq(S)
              PROVE  Range(a \o b) = Range(a) \cup Range(b)
          <6>1. /\ DOMAIN (a \o b) = 1..(Len(a) + Len(b)) /\ DOMAIN a = 1..Len(a) /\ DOMAIN b = 1..Len(b)
                /\ Len(a) \in Nat /\ Len(b) \in Nat
                /\ \A i \in DOMAIN a : (a \o b)[i] = a[i]
                /\ \A i \in DOMAIN b : (a \o b)[i + Len(a)] = b[i]
            OBVIOUS
          <6>2. ASSUME NEW i \in DOMAIN (a \o b)
                PROVE  (a \o b)[i] \in Range(a) \cup Range(b)
            <7>1. CASE i <= Len(a)
              BY <6>1, <7>1 DEF Range
            <7>2. CASE ~ (i <= Len(a))
              <8>1. i - Len(a) \in DOMAIN b /\ (i - Len(a)) + Len(a) = i
                BY <6>1, <7>2
              <8>2. QED
                BY <6>1, <8>1 DEF Range
            <7>3. QED
              BY <7>1, <7>2
          <6>3. ASSUME NEW i \in DOMAIN b PROVE b[i] \in Range(a \o b)
            <7>1. i + Len(a) \in DOMAIN (a \o b)
              BY <6>1
            <7>2. QED
              BY <6>1, <7>1 DEF Range
          <6>4. ASSUME NEW i \in DOMAIN a PROVE a[i] \in Range(a \o b)
            <7>1. i \in DOMAIN (a \o b)
              BY <6>1
            <7>2. QED
              BY <6>1, <7>1 DEF Range
          <6>5. QED
            BY <6>2, <6>3, <6>4 DEF Range
        <5>2. QED
          BY <5>1
      <4>2. QED
        BY <3>7, <4>1
    <3>9. Upto(m) = Upto(m - 1) \cup Range(ss[m])
      <4>1. 1..m = 1..(m - 1) \cup {m}
        BY <1>1, <3>3
      <4>2. QED
        BY <4>1
    <3>10. QED
      BY <3>3, <3>6, <3>8, <3>9
  <2>3. K \in 1..K
    BY <1>1, <1>3
  <2>4. QED
    BY <1>1, <2>1, <2>2, <2>3
<1>4. QED
  BY <1>2, <1>3

Kinds == {"sessionStarted", "system", "textDelta", "thinking", "toolUse", "toolResult",
          "turnDone", "error"}
Classes == {"", "error_during_execution", "error_max_turns"}
Signs == {"capacity", "deadEnd", "unknown", "tooLong"}

(* Events of the kinds K, about the sessions S, stale or not as in T and   *)
(* poisoned or not as in P.                                                *)
EventsAs(K, S, T, P) ==
  [kind : K, sid : S, usage : BOOLEAN, says : SUBSET Signs, class : Classes,
   recoverable : BOOLEAN, stale : T, transient : BOOLEAN, poisoned : P]

(* What the CLI can say of a run that resumes r in the session s.          *)
OutOf(r, s, K) == EventsAs(K, {NoId, s}, {FALSE}, IF r = NoId THEN {FALSE} ELSE BOOLEAN)
RawOf(s, K) == EventsAs(K, {NoId, s}, {FALSE}, {FALSE})
ErrOf(T) == EventsAs({"error"}, {NoId}, T, {FALSE})

LEMMA Records ==
  ASSUME NEW K, NEW S, NEW T, NEW P, "error" \in K, NoId \in S, FALSE \in T, FALSE \in P,
         NEW k \in K, NEW says \in SUBSET Signs, NEW rec \in BOOLEAN
  PROVE  /\ Event(k) \in EventsAs(K, S, T, P)
         /\ ErrorEvent(says, rec) \in EventsAs(K, S, T, P)
<1>1. Event(k) \in EventsAs(K, S, T, P)
  BY DEF Event, EventsAs, Classes
<1>2. ErrorEvent(says, rec) \in EventsAs(K, S, T, P)
  <2>1. IsTransientUpstream(says) \in BOOLEAN
    BY DEF IsTransientUpstream
  <2>2. QED
    BY <2>1 DEF ErrorEvent, Event, EventsAs, Classes
<1>3. QED
  BY <1>1, <1>2

LEMMA Tagged ==
  ASSUME NEW r, NEW s, NEW K, NEW evs \in Seq(RawOf(s, K))
  PROVE  TagPoisonedResume(evs, r) \in Seq(OutOf(r, s, K))
<1> DEFINE P(ev) == /\ r # NoId /\ ev.kind = "error"
                    /\ ~ev.recoverable /\ ~ev.transient /\ ~ev.stale
                    /\ IsPoisonedResume(ev.class, ev.says)
           T(i) == [evs[i] EXCEPT !.poisoned = P(evs[i])]
<1>1. TagPoisonedResume(evs, r) = [i \in DOMAIN evs |-> T(i)]
  BY DEF TagPoisonedResume
<1>2. ASSUME NEW i \in DOMAIN evs PROVE T(i) \in OutOf(r, s, K)
  <2>1. evs[i] \in RawOf(s, K)
    OBVIOUS
  <2>2. P(evs[i]) \in IF r = NoId THEN {FALSE} ELSE BOOLEAN
    <3>1. CASE r = NoId
      BY <3>1
    <3>2. CASE r # NoId
      BY <3>2
    <3>3. QED
      BY <3>1, <3>2
  <2> HIDE DEF P
  <2>3. QED
    BY <2>1, <2>2 DEF RawOf, OutOf, EventsAs
<1>3. DOMAIN evs = 1..Len(evs) /\ Len(evs) \in Nat
  OBVIOUS
<1> HIDE DEF T
<1>4. QED
  BY <1>1, <1>2, <1>3

(* The lines a scanner takes.                                              *)
LEMMA PlainLines ==
  /\ \A s : Started(s).type # "tooLong"
  /\ Done.type # "tooLong"
  /\ \A b : Block(b).type # "tooLong"
  /\ \A says : Retries(says).type # "tooLong"
  /\ \A c, says : Failed(c, says).type # "tooLong"
BY DEF Started, Done, Block, Retries, Failed

(* The lines of the runs, parsed.                                          *)
LEMMA ParsedLines ==
  ASSUME NEW s, NEW r, NEW K, driver \in Drivers, "error" \in K
  PROVE  /\ "sessionStarted" \in K => ParseOut(driver, Started(s), r) \in Seq(OutOf(r, s, K))
         /\ "textDelta" \in K => ParseOut(driver, Block("text"), r) \in Seq(OutOf(r, s, K))
         /\ "toolUse" \in K => ParseOut(driver, Block("tool_use"), r) \in Seq(OutOf(r, s, K))
         /\ ParseOut(driver, Retries({"capacity"}), r) \in Seq(OutOf(r, s, K))
         /\ "turnDone" \in K => ParseOut(driver, Done, r) \in Seq(OutOf(r, s, K))
         /\ \A c \in Classes, says \in SUBSET Signs :
               "turnDone" \in K => ParseOut(driver, Failed(c, says), r) \in Seq(OutOf(r, s, K))
         /\ ParseOut(driver, TooLong, r) \in Seq(OutOf(r, s, K))
<1> DEFINE Raw == RawOf(s, K)
           Parse(l) == IF driver = "claude" THEN ParseClaudeLine(l) ELSE ParseCodexLine(l)
<1>1. ASSUME NEW l, Parse(l) \in Seq(Raw), l.type # "tooLong"
      PROVE  ParseOut(driver, l, r) \in Seq(OutOf(r, s, K))
  BY <1>1, Tagged DEF ParseOut
<1>a. ParseOut(driver, TooLong, r) \in Seq(OutOf(r, s, K))
  <2> DEFINE S == {NoId, s}
             P == IF r = NoId THEN {FALSE} ELSE BOOLEAN
  <2>1. ParseOut(driver, TooLong, r) = << ErrorEvent({}, FALSE) >>
    BY DEF ParseOut, TooLong
  <2>2. NoId \in S /\ FALSE \in P /\ {} \in SUBSET Signs /\ FALSE \in {FALSE}
        /\ OutOf(r, s, K) = EventsAs(K, S, {FALSE}, P)
    BY DEF OutOf
  <2> DEFINE T == {FALSE}
  <2> HIDE DEF S, P
  <2>5. FALSE \in T /\ FALSE \in BOOLEAN /\ OutOf(r, s, K) = EventsAs(K, S, T, P)
    BY <2>2
  <2> HIDE DEF T
  <2>6. ErrorEvent({}, FALSE) \in EventsAs(K, S, T, P)
    BY <2>2, <2>5, Records
  <2>3. ErrorEvent({}, FALSE) \in OutOf(r, s, K)
    BY <2>5, <2>6
  <2> DEFINE X == OutOf(r, s, K)
             e == ErrorEvent({}, FALSE)
  <2> HIDE DEF X, e
  <2>7. e \in X
    BY <2>3 DEF X, e
  <2>8. << e >> \in Seq(X)
    BY <2>7
  <2>4. QED
    BY <2>1, <2>8 DEF X, e
<1>b. /\ Started(s).type # "tooLong" /\ Done.type # "tooLong"
      /\ \A b : Block(b).type # "tooLong"
      /\ \A says : Retries(says).type # "tooLong"
      /\ \A c, says : Failed(c, says).type # "tooLong"
  BY PlainLines<1>2. \A k \in K : Event(k) \in Raw
  BY Records DEF RawOf
<1>3. \A says \in SUBSET Signs, rec \in BOOLEAN : ErrorEvent(says, rec) \in Raw
  BY Records DEF RawOf
<1> HIDE DEF Raw
<1>4. /\ \A e \in Raw : << e >> \in Seq(Raw)
     /\ \A e, f \in Raw : << e, f >> \in Seq(Raw)
  OBVIOUS
<1>5. driver = "claude" \/ (driver = "codex" /\ driver # "claude")
  BY DEF Drivers
<1>6. ASSUME "sessionStarted" \in K PROVE Parse(Started(s)) \in Seq(Raw)
  <2>1. Parse(Started(s)) = << [Event("sessionStarted") EXCEPT !.sid = s] >>
    BY <1>5 DEF Started, ParseClaudeLine, ClaudeSystemEvents, ParseCodexLine
  <2>2. [Event("sessionStarted") EXCEPT !.sid = s] \in Raw
    BY <1>6 DEF Event, RawOf, EventsAs, Classes, Raw
  <2> HIDE DEF Parse
  <2>3. QED
    BY <1>4, <2>1, <2>2
<1>7. ASSUME NEW b \in {"text", "tool_use"}, NEW k \in K, ClaudeBlockEvents(b) = << Event(k) >>,
             CodexItemEvents(CASE b = "text" -> "agent_message" [] b = "tool_use" -> "command_execution")
               = << Event(k) >>
      PROVE  Parse(Block(b)) \in Seq(Raw)
  <2>1. CASE driver = "claude"
    <3> DEFINE bs == << b >>
               ss == [i \in DOMAIN bs |-> ClaudeBlockEvents(bs[i])]
    <3>1. Parse(Block(b)) = FlattenSeq(ss)
      BY <2>1 DEF Block, ParseClaudeLine, EventsOfBlocks
    <3>2. ss \in Seq(Seq(Raw))
      <4>1. << Event(k) >> \in Seq(Raw)
        BY <1>2
      <4>2. DOMAIN bs = 1..1 /\ \A i \in 1..1 : bs[i] = b
        OBVIOUS
      <4>3. \A i \in 1..1 : ClaudeBlockEvents(bs[i]) \in Seq(Raw)
        BY <1>7, <4>1, <4>2
      <4>4. QED
        BY <4>2, <4>3
    <3> HIDE DEF ss
    <3>3. QED
      BY <3>1, <3>2, FlattenTyped
  <2>2. CASE driver = "codex"
    <3>1. Parse(Block(b)) = << Event(k) >>
      BY <1>7, <2>2 DEF Block, ParseCodexLine
    <3> HIDE DEF Parse
    <3>2. QED
      BY <1>2, <1>7, <1>4, <3>1
  <2>3. QED
    BY <1>5, <2>1, <2>2
<1>8. "textDelta" \in K => Parse(Block("text")) \in Seq(Raw)
  BY <1>7 DEF ClaudeBlockEvents, CodexItemEvents
<1>9. "toolUse" \in K => Parse(Block("tool_use")) \in Seq(Raw)
  BY <1>7 DEF ClaudeBlockEvents, CodexItemEvents
<1>10. Parse(Retries({"capacity"})) \in Seq(Raw)
  <2> DEFINE e == ErrorEvent({"capacity"}, TRUE)
             m == [e EXCEPT !.transient = TRUE]
  <2>1. e \in Raw /\ m \in Raw
    <3>1. e \in Raw
      BY <1>3 DEF Signs
    <3> HIDE DEF e
    <3>2. QED
      BY <3>1 DEF RawOf, EventsAs, Raw
  <2>2. Parse(Retries({"capacity"})) \in { <<e>>, <<m>> }
    <3>1. CASE driver = "claude"
      <4> DEFINE l == [type |-> "system", subtype |-> "api_retry", status |-> 529,
                       says |-> {"capacity"}]
      <4>1. Retries({"capacity"}) = l
        BY <3>1 DEF Retries
      <4>2. l.type = "system" /\ l.subtype = "api_retry" /\ l.status = 529 /\ l.says = {"capacity"}
        OBVIOUS
      <4> HIDE DEF l
      <4>3. Parse(l) = << [e EXCEPT !.transient = @ \/ l.status \in {429, 503, 529}] >>
        BY <3>1, <4>2 DEF ParseClaudeLine, ClaudeSystemEvents
      <4>4. [e EXCEPT !.transient = @ \/ l.status \in {429, 503, 529}] = m
        BY <4>2 DEF ErrorEvent, Event
      <4>5. QED
        BY <4>1, <4>3, <4>4
    <3>2. CASE driver = "codex"
      BY <3>2 DEF Retries, ParseCodexLine
    <3>3. QED
      BY <1>5, <3>1, <3>2
  <2> HIDE DEF e, m, Parse
  <2>3. QED
    BY <1>4, <2>1, <2>2
<1>11. ASSUME "turnDone" \in K
       PROVE  [Event("turnDone") EXCEPT !.usage = TRUE] \in Raw
  BY <1>11 DEF Event, RawOf, EventsAs, Classes, Raw
<1>12. ASSUME "turnDone" \in K PROVE Parse(Done) \in Seq(Raw)
  <2>1. Parse(Done) = << [Event("turnDone") EXCEPT !.usage = TRUE] >>
    BY <1>5 DEF Done, ParseClaudeLine, ClaudeResultEvents, ParseCodexLine
  <2> HIDE DEF Parse
  <2>2. QED
    BY <1>11, <1>12, <1>4, <2>1
<1>13. ASSUME "turnDone" \in K, NEW c \in Classes, NEW says \in SUBSET Signs
       PROVE  Parse(Failed(c, says)) \in Seq(Raw)
  <2> DEFINE e == ErrorEvent(says, FALSE)
             f == [e EXCEPT !.class = c]
             d == [Event("turnDone") EXCEPT !.usage = TRUE]
  <2>1. e \in Raw /\ f \in Raw /\ d \in Raw
    <3>1. e \in Raw
      BY <1>3
    <3> HIDE DEF e
    <3>2. f \in Raw
      BY <3>1 DEF RawOf, EventsAs, Raw
    <3>3. QED
      BY <1>11, <1>13, <3>1, <3>2
  <2>2. Parse(Failed(c, says)) \in { <<e>>, <<f, d>> }
    BY <1>5 DEF Failed, ParseClaudeLine, ClaudeResultEvents, ParseCodexLine
  <2> HIDE DEF e, f, d, Parse
  <2>3. QED
    BY <1>4, <2>1, <2>2
<1> HIDE DEF Parse
<1>14. QED
  BY <1>1, <1>a, <1>b, <1>6, <1>8, <1>9, <1>10, <1>12, <1>13

(* A line that parses into S contributes events of S to the run.           *)
LEMMA StdoutTyped ==
  ASSUME NEW S, NEW L, NEW lines \in Seq(L), NEW r,
         \A l \in L : ParseOut(driver, l, r) \in Seq(S)
  PROVE  StdoutEvents(driver, lines, r) \in Seq(S)
<1> DEFINE Read(i) == \A j \in 1..(i - 1) : lines[j].type # "tooLong"
           ss == [i \in DOMAIN lines |-> IF Read(i) THEN ParseOut(driver, lines[i], r) ELSE <<>>]
<1>1. DOMAIN lines = 1..Len(lines) /\ Len(lines) \in Nat /\ \A i \in DOMAIN lines : lines[i] \in L
  OBVIOUS
<1>2. (\A i \in DOMAIN lines : ParseOut(driver, lines[i], r) \in Seq(S)) /\ << >> \in Seq(S)
  BY <1>1
<1> HIDE DEF Read
<1>3. ss \in Seq(Seq(S))
  BY <1>1, <1>2
<1> HIDE DEF ss
<1>4. FlattenSeq(ss) \in Seq(S)
  BY <1>3, FlattenTyped
<1>5. QED
  BY <1>4 DEF StdoutEvents, ss, Read

(* What is said on stderr is what the parser makes of its lines.           *)
LEMMA StderrTold ==
  ASSUME NEW S, NEW Q, NEW lines \in Seq(Q), NEW r,
         \A q \in Q : ParseErr(driver, q, r) \in S
  PROVE  /\ StderrEvents(driver, lines, r) \in Seq(S)
         /\ lines # <<>> => ParseErr(driver, lines[1], r) \in Range(StderrEvents(driver, lines, r))
<1> DEFINE Read(i) == \A j \in 1..(i - 1) : "tooLong" \notin lines[j]
           Heard1(i) == << ParseErr(driver, lines[i], r) >>
           ss == [i \in DOMAIN lines |-> IF Read(i) THEN Heard1(i) ELSE <<>>]
<1>1. DOMAIN lines = 1..Len(lines) /\ Len(lines) \in Nat /\ \A i \in DOMAIN lines : lines[i] \in Q
  OBVIOUS
<1>2. << >> \in Seq(S) /\ \A e \in S : << e >> \in Seq(S) /\ Range(<< e >>) = {e}
  BY DEF Range
<1>3. ASSUME NEW i \in DOMAIN lines
      PROVE  Heard1(i) \in Seq(S) /\ Range(Heard1(i)) = {ParseErr(driver, lines[i], r)}
  <2>1. ParseErr(driver, lines[i], r) \in S
    BY <1>1
  <2>2. QED
    BY <1>2, <2>1
<1>4. Range(<< >>) = {}
  BY DEF Range
<1> HIDE DEF Heard1, Read
<1>5. ss \in Seq(Seq(S)) /\ DOMAIN ss = DOMAIN lines
  BY <1>1, <1>2, <1>3
<1>6. \A i \in DOMAIN lines : ss[i] = IF Read(i) THEN Heard1(i) ELSE <<>>
  OBVIOUS
<1> HIDE DEF ss
<1>7. FlattenSeq(ss) \in Seq(S) /\ Range(FlattenSeq(ss)) = UNION {Range(ss[i]) : i \in DOMAIN ss}
  BY <1>5, FlattenTyped, FlattenRange
<1>8. StderrEvents(driver, lines, r) = FlattenSeq(ss)
  BY DEF StderrEvents, ss, Read, Heard1
<1>10. ASSUME lines # <<>>
       PROVE  ParseErr(driver, lines[1], r) \in Range(FlattenSeq(ss))
  <2>1. 1 \in DOMAIN lines /\ Read(1)
    <3>1. 1..(1 - 1) = {}
      OBVIOUS
    <3>2. QED
      BY <1>10, <3>1 DEF Read
  <2>2. ParseErr(driver, lines[1], r) \in Range(ss[1])
    BY <1>3, <1>6, <2>1
  <2>3. QED
    BY <1>5, <1>7, <2>1, <2>2
<1>11. QED
  BY <1>7, <1>8, <1>10

LEMMA StderrTyped ==
  ASSUME NEW T, NEW Q \in SUBSET SUBSET Signs, NEW lines \in Seq(Q), NEW r, driver \in Drivers,
         FALSE \in T, TRUE \in T \/ \A q \in Q : "unknown" \notin q
  PROVE  StderrEvents(driver, lines, r) \in Seq(ErrOf(T))
<1>2. ASSUME NEW says \in Q
      PROVE  ParseErr(driver, says, r) \in ErrOf(T)
  <2>1. says \in SUBSET Signs /\ "stdin" \notin says
    BY <1>2 DEF Signs
  <2> DEFINE K == {"error"}
             S == {NoId}
             P == {FALSE}
  <2>2. "error" \in K /\ NoId \in S /\ FALSE \in P /\ ErrOf(T) = EventsAs(K, S, T, P)
    BY DEF ErrOf
  <2> HIDE DEF K, S, P
  <2>3. Event("error") \in ErrOf(T) /\ \A rec \in BOOLEAN : ErrorEvent(says, rec) \in ErrOf(T)
    <3>1. ASSUME NEW rec \in BOOLEAN
          PROVE  /\ Event("error") \in EventsAs(K, S, T, P)
                 /\ ErrorEvent(says, rec) \in EventsAs(K, S, T, P)
      <4>1. says \in SUBSET Signs /\ FALSE \in T
        BY <2>1
      <4>2. QED
        BY <2>2, <4>1, Records
    <3>2. QED
      BY <2>2, <3>1
  <2>4. ASSUME NEW e \in ErrOf(T), NEW stale \in T
        PROVE  /\ [e EXCEPT !.stale = stale, !.transient = FALSE] \in ErrOf(T)
               /\ [e EXCEPT !.says = says, !.recoverable = TRUE, !.stale = stale] \in ErrOf(T)
               /\ [e EXCEPT !.says = says, !.recoverable = TRUE] \in ErrOf(T)
    BY <2>1, <2>4 DEF ErrOf, EventsAs
  <2>5. "unknown" \in says => TRUE \in T
    BY <1>2
  <2>6. CASE "tooLong" \notin says /\ driver = "claude"
    <3>1. ClaudeStderrEvent(says, r) \in ErrOf(T)
      BY <2>3, <2>4, <2>5 DEF ClaudeStderrEvent
    <3>2. QED
      BY <2>6, <3>1 DEF ParseErr
  <2>7. CASE "tooLong" \notin says /\ driver = "codex"
    <3>1. CodexStderrEvent(says, r) \in ErrOf(T)
      BY <2>1, <2>3, <2>4, <2>5 DEF CodexStderrEvent
    <3>2. QED
      BY <2>7, <3>1 DEF ParseErr
  <2>8. CASE "tooLong" \in says
    <3>1. {} \in SUBSET Signs /\ FALSE \in T /\ TRUE \in BOOLEAN
      OBVIOUS
    <3>4. ErrorEvent({}, TRUE) \in EventsAs(K, S, T, P)
      BY <2>2, <3>1, Records
    <3>2. ErrorEvent({}, TRUE) \in ErrOf(T)
      BY <2>2, <3>4
    <3>3. QED
      BY <2>8, <3>2 DEF ParseErr
  <2>9. QED
    BY <2>6, <2>7, <2>8 DEF Drivers
<1>4. QED
  BY <1>2, StderrTold

(* What a CLI that knows its session says, and how it ends.                *)
LEMMA SpokenRun ==
  ASSUME NEW s, NEW r, driver \in Drivers, NEW run \in HealthyRuns(s) \cup DeadEndRuns(r, s)
  PROVE  /\ StdoutEvents(driver, run.out, r) \in Seq(OutOf(r, s, Kinds))
         /\ StderrEvents(driver, run.errs, r) \in Seq(ErrOf({FALSE}))
         /\ run.exit \in {"good", "bad", "never"} /\ run.tool \in BOOLEAN
         /\ \E Q : run.errs \in Seq(Q)
<1> DEFINE L == {Started(s), Block("text"), Block("tool_use"), Retries({"capacity"}), Done}
                \cup {Failed(c, says) : c \in Classes, says \in SUBSET Signs} \cup {TooLong}
           Q == {{}, {"capacity"}, {"tooLong"}}
<1>1. \A l \in L : ParseOut(driver, l, r) \in Seq(OutOf(r, s, Kinds))
  BY ParsedLines DEF Kinds
<1>2. /\ Started(s) \in L /\ Block("text") \in L /\ Block("tool_use") \in L
      /\ Retries({"capacity"}) \in L /\ Done \in L
      /\ \A c \in Classes, says \in SUBSET Signs : Failed(c, says) \in L
      /\ TooLong \in L
  OBVIOUS
<1>3. /\ {} \in SUBSET Signs /\ {"capacity"} \in SUBSET Signs /\ {"deadEnd"} \in SUBSET Signs
      /\ "error_during_execution" \in Classes /\ "error_max_turns" \in Classes
  BY DEF Signs, Classes
<1>4. /\ {} \in Q /\ {"capacity"} \in Q /\ {"tooLong"} \in Q /\ Q \in SUBSET SUBSET Signs
      /\ \A q \in Q : "unknown" \notin q
  BY <1>3 DEF Signs
<1> HIDE DEF L, Q
<1>5. /\ << >> \in Seq(L)
      /\ \A a \in L : << a >> \in Seq(L)
      /\ \A a, b \in L : << a, b >> \in Seq(L)
      /\ \A a, b, c \in L : << a, b, c >> \in Seq(L)
      /\ \A a, b, c, d \in L : << a, b, c, d >> \in Seq(L)
  OBVIOUS
<1>6. << >> \in Seq(Q) /\ \A q \in Q : << q >> \in Seq(Q)
  OBVIOUS
<1>7. /\ run.out \in Seq(L) /\ run.errs \in Seq(Q)
      /\ run.exit \in {"good", "bad", "never"} /\ run.tool \in BOOLEAN
  <2> DEFINE ok(x) == /\ x.out \in Seq(L) /\ x.errs \in Seq(Q)
                      /\ x.exit \in {"good", "bad", "never"} /\ x.tool \in BOOLEAN
  <2>a. ASSUME NEW v, NEW tool \in BOOLEAN, NEW o \in Seq(L), NEW e \in Seq(Q),
               NEW x \in {"good", "bad", "never"}
        PROVE  ok(Run(v, tool, o, e, x))
    BY DEF Run
  <2>b. /\ << >> \in Seq(Q) /\ << {} >> \in Seq(Q) /\ << {"capacity"} >> \in Seq(Q)
        /\ << {"tooLong"} >> \in Seq(Q)
        /\ << Started(s), Block("tool_use"), TooLong, Done >> \in Seq(L)
        /\ << Started(s), Block("tool_use"), Block("text"), Done >> \in Seq(L)
        /\ << Started(s), Retries({"capacity"}), Block("text"), Done >> \in Seq(L)
        /\ << Started(s), Failed("error_during_execution", {"capacity"}) >> \in Seq(L)
        /\ << Started(s), Block("tool_use"), Failed("error_during_execution", {}) >> \in Seq(L)
        /\ << Started(s), Block("tool_use"), Failed("error_max_turns", {"deadEnd"}) >> \in Seq(L)
        /\ << Started(s), Block("tool_use") >> \in Seq(L)
        /\ << Started(s) >> \in Seq(L)
    BY <1>2, <1>3, <1>4, <1>5, <1>6
  <2> HIDE DEF ok
  <2>1. CASE run \in HealthyRuns(s)
    <3>1. ok(run)
      BY <2>1, <2>a, <2>b DEF HealthyRuns
    <3>2. QED
      BY <3>1 DEF ok
  <2>2. CASE run \in DeadEndRuns(r, s)
    <3> DEFINE v == IF r = NoId THEN "error" ELSE "poisoned"
               o == << Started(s), Block("tool_use"), Failed("error_max_turns", {"deadEnd"}) >>
    <3>1. run = Run(v, TRUE, o, << >>, "bad")
      BY <2>2 DEF DeadEndRuns
    <3> HIDE DEF v, o
    <3>3. ok(run)
      BY <2>a, <2>b, <3>1 DEF o
    <3>2. QED
      BY <3>3 DEF ok
  <2>3. QED
    BY <2>1, <2>2
<1>8. QED
  BY <1>1, <1>4, <1>7, StdoutTyped, StderrTyped

(* What one says that does not: it starts no session and runs no tool.     *)
LEMMA UnknownRun ==
  ASSUME NEW s, NEW r, driver \in Drivers, NEW run \in UnknownRuns
  PROVE  /\ StdoutEvents(driver, run.out, r) \in Seq(OutOf(r, s, Kinds \ {"sessionStarted"}))
         /\ StderrEvents(driver, run.errs, r) \in Seq(ErrOf(BOOLEAN))
         /\ run.exit \in {"good", "bad", "never"} /\ run.tool = FALSE
<1> DEFINE l == Failed("error_during_execution", {"unknown"})
           K == Kinds \ {"sessionStarted"}
<1>1. /\ {"unknown"} \in SUBSET Signs /\ "error_during_execution" \in Classes
      /\ "turnDone" \in K /\ "error" \in K
  BY DEF Signs, Classes, Kinds
<1>2. \A m \in {l} : ParseOut(driver, m, r) \in Seq(OutOf(r, s, K))
  <2> HIDE DEF K
  <2>1. QED
    BY <1>1, ParsedLines
<1>3. /\ run.out \in { << >>, << l >> } /\ run.errs = << {"unknown"} >>
      /\ run.exit \in {"good", "bad", "never"} /\ run.tool = FALSE
  BY DEF UnknownRuns, Run
<1> HIDE DEF l, K
<1>4. run.out \in Seq({l}) /\ run.errs \in Seq(SUBSET Signs)
  <2>1. << >> \in Seq({l}) /\ << l >> \in Seq({l}) /\ << {"unknown"} >> \in Seq(SUBSET Signs)
    BY <1>1
  <2>2. QED
    BY <1>3, <2>1
<1>5. StdoutEvents(driver, run.out, r) \in Seq(OutOf(r, s, K))
  BY <1>2, <1>4, StdoutTyped
<1>6. StderrEvents(driver, run.errs, r) \in Seq(ErrOf(BOOLEAN))
  BY <1>4, StderrTyped
<1>7. QED
  BY <1>3, <1>5, <1>6 DEF K

-----------------------------------------------------------------------------
Results == [newResume : Ids \cup {NoId}, failed : BOOLEAN, transient : BOOLEAN,
            poisoned : BOOLEAN, resumeBad : BOOLEAN, short : BOOLEAN]

Live(i) == i # NoId => minted[i] = driver /\ i \notin retired \ held

(* The session of this run: what it resumes, or one no row has yet.        *)
Own(i) == Live(i) /\ (i \in {NoId, sid} \/ i \notin Stored)

(* Events that are about the run's session, and poisoned only if resumed.  *)
Heard == {e \in EventsAs(Kinds, Ids \cup {NoId}, BOOLEAN, BOOLEAN) :
            Own(e.sid) /\ (e.poisoned = TRUE => sid # NoId)}
Fresh == {e \in Heard : e.stale = FALSE}
Muttered == {e \in Heard : e.kind = "error"}

Made == {i \in Ids : minted[i] # "no"}

TurnShape ==
  /\ minted \in [Ids -> Drivers \cup {"no"}] /\ turns \in 0..MaxTurns /\ attempt \in {0, 1}
  /\ res \in Results /\ gated \in BOOLEAN
  /\ pc = "stream" => out \in Seq(Fresh) /\ errs \in Seq(Muttered) /\ sawDone \in BOOLEAN

EndInv ==
  /\ pc \notin {"idle", "answered"} => told = <<>>
  /\ pc = "answered" => told = << "answer" >>
  /\ pc \notin {"spawn", "stream", "deliver"} => owed = FALSE
  /\ pc = "deliver" /\ res.short = TRUE => owed = FALSE
  /\ pc = "stream" => res.short = FALSE
  /\ pc \in {"idle", "answered"} => typing = FALSE
  /\ OneReply

RowsInv ==
  /\ resumes \in [Drivers -> Ids \cup {NoId}]
  /\ retired \subseteq Made /\ held \subseteq retired
  /\ \A d \in Drivers : resumes[d] # NoId => minted[resumes[d]] = d /\ resumes[d] \notin retired \ held

IdInv ==
  /\ Cardinality(Made) <= turns + 1
  /\ pc \in {"admit", "compose", "allow", "spawn"} \/ (pc = "stream" /\ sid # NoId)
       => Cardinality(Made) <= turns
  /\ RowsInv
  /\ pc \in {"allow", "spawn", "stream", "deliver"} => Live(sid)
  /\ pc \in {"idle", "admit", "compose"} => sid = NoId
  /\ pc \in {"stream", "deliver"} => Own(res.newResume) /\ (res.poisoned = TRUE => sid # NoId)

(* The attempt resumes an id the CLI does not know, and nothing has come of *)
(* it.                                                                     *)
Doomed ==
  /\ 0 \notin ran /\ gated = TRUE /\ shown = FALSE /\ sid # NoId
  /\ out \in Seq({e \in Fresh : e.kind # "sessionStarted"})

RunInv ==
  /\ attempt = 1 => 0 \notin ran /\ sid = NoId
  /\ pc \notin {"stream", "deliver", "answered"} /\ attempt = 0 => ran = {}
  /\ pc \in {"idle", "admit", "compose", "allow"} => attempt = 0
  /\ pc = "stream" => Doomed \/ (res.resumeBad = FALSE /\ errs \in Seq(Fresh))
  /\ pc = "spawn" /\ attempt = 1 => shown = FALSE

TurnInv == TurnTypeOK /\ TurnShape /\ EndInv /\ IdInv /\ RunInv

(* There is always an id no CLI has made.                                  *)
LEMMA UnusedIs ==
  ASSUME TurnInv, Cardinality(Made) <= turns
  PROVE  Unused(minted) \in Ids /\ minted[Unused(minted)] = "no"
<1>1. IsFiniteSet(Made) /\ Cardinality(Made) \in Nat /\ Cardinality(Ids) \in Nat
  BY TurnAssumption, FS_Subset, FS_CardinalityType DEF Made
<1>2. Made # Ids
  BY <1>1, TurnAssumption DEF TurnInv, TurnShape
<1>3. \E i \in Ids : minted[i] = "no"
  BY <1>2 DEF Made
<1>4. QED
  BY <1>3 DEF Unused

(* Consuming an event, or dropping it.                                     *)
LEMMA EmitIs ==
  ASSUME res \in Results, gated \in BOOLEAN, NEW ev \in Heard, Emit(ev)
  PROVE  /\ res' \in Results /\ res'.short = res.short
         /\ Own(res.newResume) => Own(res'.newResume)
         /\ res'.poisoned = TRUE => res.poisoned = TRUE \/ sid # NoId
         /\ gated' \in BOOLEAN
         /\ ev.stale = FALSE => res'.resumeBad = res.resumeBad
         /\ gated = TRUE /\ shown = FALSE /\ ev.kind # "sessionStarted"
              => gated' = TRUE /\ shown' = FALSE
<1>1. /\ ev.stale \in BOOLEAN /\ ev.transient \in BOOLEAN /\ ev.poisoned \in BOOLEAN
      /\ ev.sid \in Ids \cup {NoId} /\ Own(ev.sid) /\ (ev.poisoned = TRUE => sid # NoId)
  BY DEF Heard, EventsAs
<1>2. CASE UNCHANGED <<res, gated, shown>>
  BY <1>2
<1>3. CASE ev.stale /\ res' = [res EXCEPT !.resumeBad = TRUE] /\ UNCHANGED <<gated, shown>>
  BY <1>1, <1>3 DEF Results
<1>4. CASE ~ev.stale /\ res' = FoldEvent(ev) /\ PassThrough(ev)
  <2>1. /\ res' \in Results /\ res'.short = res.short /\ res'.resumeBad = res.resumeBad
        /\ res'.newResume \in {res.newResume, ev.sid}
        /\ res'.poisoned \in {res.poisoned, ev.poisoned}
    BY <1>1, <1>4 DEF FoldEvent, Results
  <2>2. gated' \in BOOLEAN
    BY <1>4 DEF PassThrough
  <2>3. gated = TRUE /\ shown = FALSE /\ ev.kind # "sessionStarted"
          => gated' = TRUE /\ shown' = FALSE
    BY <1>4 DEF PassThrough
  <2>4. QED
    BY <1>1, <2>1, <2>2, <2>3
<1>5. QED
  BY <1>1, <1>2, <1>3, <1>4 DEF Emit, ConsumeEvent

(* A second reply after the first.                                         *)
LEMMA AppendOne ==
  ASSUME NEW a, NEW b
  PROVE  Append(<< a >>, b) = << a, b >>
<1> DEFINE S == {a, b}
           v == << a >>
           t == Append(v, b)
           u == << a, b >>
<1>1. Len(v) = 1 /\ v[1] = a
  OBVIOUS
<1>2. v \in Seq(S) /\ a \in S /\ b \in S
  OBVIOUS
<1> HIDE DEF v, S
<1>3. u \in Seq(S) /\ Len(u) = 2 /\ u[1] = a /\ u[2] = b
  BY <1>2
<1>4. /\ t \in Seq(S) /\ Len(t) = Len(v) + 1 /\ t[Len(v) + 1] = b
      /\ \A i \in 1..Len(v) : t[i] = v[i]
  BY <1>2
<1> HIDE DEF t, u
<1>5. Len(t) = 2 /\ t[2] = b /\ t[1] = a
  <2>1. 1 \in 1..1 /\ 1 + 1 = 2
    OBVIOUS
  <2>2. QED
    BY <1>1, <1>4, <2>1
<1>6. \A i \in 1..Len(t) : t[i] = u[i]
  <2>1. \A i \in 1..2 : i = 1 \/ i = 2
    OBVIOUS
  <2>2. QED
    BY <1>3, <1>5, <2>1
<1>7. QED
  BY <1>3, <1>4, <1>5, <1>6, SeqEqual DEF t, u, v

(* A turn that ends settles: what its last step says and does to the rows   *)
(* is all there is to show.                                                *)
LEMMA EndsWell ==
  ASSUME TurnInv, Concludes, owed' = FALSE, typing' = FALSE,
         Len(told') = 1 \/ told' = << "answer", "error" >>,
         UNCHANGED lifeVars, RowsInv'
  PROVE  TurnInv'
<1>1. told' # <<>> /\ (Len(told') <= 1 \/ told' = << "answer", "error" >>)
  <2>1. CASE Len(told') = 1
    <3>1. Len(<<>>) = 0
      OBVIOUS
    <3>2. told' # <<>>
      BY <2>1, <3>1
    <3>3. QED
      BY <2>1, <3>2
  <2>2. CASE told' = << "answer", "error" >>
    <3>1. << "answer", "error" >> # <<>>
      OBVIOUS
    <3>2. QED
      BY <2>2, <3>1
  <2>3. QED
    BY <2>1, <2>2
<1>2. Made' = Made /\ minted' = minted /\ turns' = turns /\ driver' = driver
  BY DEF lifeVars, Made
<1>3. /\ pc' = "idle" /\ ctx' = "live" /\ exit' = "ended" /\ attempt' = 0 /\ sid' = NoId
      /\ res' = NoResult /\ gated' = FALSE /\ ran' = {}
  BY DEF Concludes
<1>4. NoResult \in Results
  BY DEF NoResult, Results
<1>5. held' \subseteq retired' /\ retired' \subseteq Ids
  BY DEF RowsInv, Made
<1>6. TurnTypeOK'
  BY <1>2, <1>3, <1>5 DEF TurnInv, TurnTypeOK, RowsInv
<1>7. TurnShape'
  BY <1>2, <1>3, <1>4 DEF TurnInv, TurnShape
<1>8. EndInv'
  BY <1>1, <1>3 DEF EndInv, OneReply
<1>9. IdInv'
  BY <1>2, <1>3 DEF TurnInv, IdInv
<1>10. RunInv'
  BY <1>3 DEF RunInv
<1>11. QED
  BY <1>6, <1>7, <1>8, <1>9, <1>10 DEF TurnInv

(* The turn's reply is its last step.                                      *)
LEMMA Settles ==
  ASSUME TurnInv, pc \notin {"idle", "answered"}, Concludes, NEW reply, OnReply(reply), owed' = FALSE,
         UNCHANGED lifeVars, RowsInv'
  PROVE  TurnInv'
<1>1. told = <<>> /\ told' = << reply >> /\ typing' = FALSE
  BY DEF TurnInv, EndInv, OnReply
<1>2. QED
  BY <1>1, EndsWell

(* Rows that stay, rows that are all deleted, and rows that lose the id of   *)
(* this driver, stay sound.                                                *)
LEMMA RowsKept ==
  ASSUME RowsInv, UNCHANGED <<minted, resumes, retired, held>>
  PROVE  RowsInv'
BY DEF RowsInv, Made

LEMMA StoredMade ==
  ASSUME RowsInv
  PROVE  Stored \subseteq Made
<1>1. ASSUME NEW i \in Stored PROVE i \in Made
  <2>1. PICK d \in Drivers : i = resumes[d] /\ i # NoId
    BY DEF Stored
  <2>2. i \in Ids /\ minted[i] = d
    BY <2>1 DEF RowsInv
  <2>3. QED
    BY <2>2 DEF Made, Drivers
<1>2. QED
  BY <1>1

LEMMA RowsDeleted ==
  ASSUME RowsInv, minted' = minted, resumes' = [d \in Drivers |-> NoId],
         retired' = retired \cup Stored, held' \subseteq held \cup Stored
  PROVE  RowsInv'
<1>1. Made' = Made /\ Stored \subseteq Made
  BY StoredMade DEF Made
<1>2. QED
  BY <1>1 DEF RowsInv

LEMMA RowDropped ==
  ASSUME TurnInv, sid # NoId, minted[sid] = driver, minted' = minted, ClearsResume
  PROVE  RowsInv'
<1>1. /\ resumes \in [Drivers -> Ids \cup {NoId}] /\ retired \subseteq Made /\ driver \in Drivers
      /\ sid \in Ids /\ driver # "no" /\ held \subseteq retired
  BY DEF TurnInv, TurnTypeOK, IdInv, RowsInv, Drivers
<1>2. Made' = Made /\ sid \in Made
  BY <1>1 DEF Made
<1>3. /\ resumes' \in [Drivers -> Ids \cup {NoId}] /\ resumes'[driver] = NoId
      /\ \A d \in Drivers : d # driver => resumes'[d] = resumes[d]
      /\ retired' = retired \cup {sid} /\ held' = held \ {sid}
  BY <1>1 DEF ClearsResume, Retires
<1>4. ASSUME NEW d \in Drivers, resumes'[d] # NoId
      PROVE  minted'[resumes'[d]] = d /\ resumes'[d] \notin retired' \ held'
  <2>1. d # driver /\ resumes'[d] = resumes[d]
    BY <1>3, <1>4
  <2>2. minted[resumes[d]] = d /\ resumes[d] \notin retired \ held
    BY <1>4, <2>1 DEF TurnInv, IdInv, RowsInv
  <2>3. resumes[d] # sid
    BY <2>1, <2>2
  <2>4. QED
    BY <1>3, <2>1, <2>2, <2>3
<1>5. retired' \subseteq Made' /\ held' \subseteq retired'
  BY <1>1, <1>2, <1>3
<1>6. QED
  BY <1>3, <1>4, <1>5 DEF RowsInv

LEMMA InitTurn == TurnInit => TurnInv
<1>1. SUFFICES ASSUME TurnInit PROVE TurnInv
  OBVIOUS
<1> DEFINE first == Unused([i \in Ids |-> "no"])
<1>2. first \in Ids
  <2>1. Ids # {}
    BY TurnAssumption, FS_EmptySet
  <2>2. \E i \in Ids : [j \in Ids |-> "no"][i] = "no"
    BY <2>1
  <2>3. QED
    BY <2>2 DEF Unused
<1> HIDE DEF first
<1>3. /\ pc = "idle" /\ driver \in Drivers /\ retired = {} /\ held = {} /\ turns = 0 /\ ctx = "live"
      /\ exit = "ended" /\ attempt = 0 /\ sid = NoId /\ res = NoResult /\ gated = FALSE
      /\ ran = {} /\ typing = FALSE /\ owed = FALSE /\ told = <<>>
  BY <1>1 DEF TurnInit
<1>4. /\ minted \in [Ids -> Drivers \cup {"no"}] /\ resumes \in [Drivers -> Ids \cup {NoId}]
      /\ Made \subseteq {first}
      /\ \A d \in Drivers : resumes[d] # NoId => minted[resumes[d]] = d
  <2>1. CASE /\ resumes = [d \in Drivers |-> NoId] /\ minted = [i \in Ids |-> "no"]
    BY <2>1 DEF Made
  <2>2. CASE /\ resumes = [d \in Drivers |-> IF d = driver THEN first ELSE NoId]
             /\ minted = [i \in Ids |-> IF i = first THEN driver ELSE "no"]
    BY <1>2, <1>3, <2>2 DEF Made
  <2>3. QED
    BY <1>1, <2>1, <2>2 DEF TurnInit, first
<1>5. Cardinality(Made) <= 1
  <2>1. Cardinality({first}) = 1 /\ IsFiniteSet({first})
    BY FS_Singleton
  <2>2. Cardinality(Made) <= Cardinality({first})
    BY <1>4, <2>1, FS_Subset
  <2>3. QED
    BY <2>1, <2>2
<1>6. NoResult \in Results /\ 0 \in 0..MaxTurns
  BY TurnAssumption DEF NoResult, Results
<1>7. TurnTypeOK
  BY <1>3, <1>4 DEF TurnTypeOK
<1>8. TurnShape
  BY <1>3, <1>4, <1>6 DEF TurnShape
<1>9. EndInv
  BY <1>3 DEF EndInv, OneReply
<1>10. IdInv
  BY <1>3, <1>4, <1>5 DEF IdInv, RowsInv
<1>11. RunInv
  BY <1>3 DEF RunInv
<1>12. QED
  BY <1>7, <1>8, <1>9, <1>10, <1>11 DEF TurnInv

-----------------------------------------------------------------------------
(* The CLI is started: what it will say is about a session that lives, and *)
(* if it does not know the one it resumes, the attempt is doomed.          *)
LEMMA SpawnStarts ==
  ASSUME TurnInv, Spawn
  PROVE  TurnInv'
<1> DEFINE s == SessionOf(sid)
<1>1. /\ pc = "spawn" /\ driver \in Drivers /\ Cardinality(Made) <= turns /\ Live(sid)
      /\ minted \in [Ids -> Drivers \cup {"no"}] /\ turns \in 0..MaxTurns /\ sid \in Ids \cup {NoId}
      /\ RowsInv /\ retired \subseteq Made /\ driver # "no"
      /\ NoId \notin Ids
  BY TurnAssumption
     DEF Spawn, TurnInv, TurnTypeOK, TurnShape, IdInv, RowsInv, Drivers
<1>2. /\ pc' = "stream" /\ sid' = sid /\ attempt' = attempt /\ driver' = driver /\ turns' = turns
      /\ ctx' = ctx /\ resumes' = resumes /\ retired' = retired /\ held' = held /\ told' = told
      /\ owed' = owed /\ typing' = typing /\ sawDone' = FALSE
      /\ res' = NoResult /\ gated' = (sid # NoId) /\ shown' = FALSE
      /\ minted' = [minted EXCEPT ![s] = driver]
  BY DEF Spawn, rowVars, replyVars
<1>3. PICK run \in CliRuns(sid, s) :
         /\ out' = StdoutEvents(driver, run.out, sid)
         /\ errs' = StderrEvents(driver, run.errs, sid)
         /\ exit' = run.exit
         /\ ran' = IF run.tool THEN ran \cup {attempt} ELSE ran
  BY DEF Spawn
<1>4. /\ s \in Ids /\ minted[s] \in {"no", driver} /\ s \notin retired \ held
      /\ (sid # NoId => s = sid /\ minted[s] = driver)
      /\ (sid = NoId => minted[s] = "no")
      /\ (s = sid \/ s \notin Stored)
  <2>1. CASE sid = NoId
    <3>1. s \in Ids /\ minted[s] = "no"
      BY <1>1, <2>1, UnusedIs DEF SessionOf
    <3>2. QED
      BY <1>1, <2>1, <3>1, StoredMade DEF Made
  <2>2. CASE sid # NoId
    BY <1>1, <2>2 DEF SessionOf, Live
  <2>3. QED
    BY <2>1, <2>2
<1>5. /\ minted' \in [Ids -> Drivers \cup {"no"}] /\ minted'[s] = driver
      /\ \A i \in Ids : i # s => minted'[i] = minted[i]
  BY <1>1, <1>2, <1>4
<1> HIDE DEF s
<1>6. /\ Made' = Made \cup {s} /\ Cardinality(Made') <= turns' + 1
      /\ (sid # NoId => Cardinality(Made') <= turns')
  <2>1. Made' = Made \cup {s}
    BY <1>1, <1>4, <1>5 DEF Made
  <2>2. IsFiniteSet(Made) /\ Cardinality(Made) \in Nat
    BY TurnAssumption, FS_Subset, FS_CardinalityType DEF Made
  <2>3. Cardinality(Made') \in {Cardinality(Made), Cardinality(Made) + 1}
    BY <2>1, <2>2, FS_AddElement
  <2>4. sid # NoId => Made' = Made
    BY <1>1, <1>4, <2>1 DEF Made
  <2>5. turns \in Nat
    BY <1>1, TurnAssumption
  <2>6. Cardinality(Made') <= turns + 1
    BY <1>1, <2>2, <2>3, <2>5
  <2>7. QED
    BY <1>1, <1>2, <2>1, <2>4, <2>6
<1>7. RowsInv'
  <2>1. ASSUME NEW d \in Drivers, resumes[d] # NoId
        PROVE  minted'[resumes[d]] = d
    <3>1. minted[resumes[d]] = d /\ resumes[d] \in Ids
      BY <1>1, <2>1 DEF RowsInv
    <3>2. CASE resumes[d] = s
      BY <1>4, <1>5, <2>1, <3>1, <3>2 DEF Drivers
    <3>3. CASE resumes[d] # s
      BY <1>5, <3>1, <3>3
    <3>4. QED
      BY <3>2, <3>3
  <2>2. QED
    BY <1>1, <1>2, <1>6, <2>1 DEF RowsInv
<1>8. \A i \in {NoId, s} : Own(i)'
  <2>1. Stored' = Stored /\ NoId \notin Stored
    BY <1>2 DEF Stored
  <2>2. QED
    BY <1>2, <1>4, <1>5, <2>1 DEF Own, Live
<1>9. /\ run.exit \in {"good", "bad", "never"} /\ run.tool \in BOOLEAN
      /\ \E K \in SUBSET Kinds, T \in SUBSET BOOLEAN :
           /\ out' \in Seq(OutOf(sid, s, K)) /\ errs' \in Seq(ErrOf(T))
           /\ \/ T = {FALSE}
              \/ sid # NoId /\ run.tool = FALSE /\ "sessionStarted" \notin K
  <2>1. CASE run \in UnknownRuns /\ sid # NoId
    BY <1>1, <1>3, <2>1, UnknownRun
  <2>2. CASE run \in HealthyRuns(s) \cup DeadEndRuns(sid, s)
    <3>1. {FALSE} \in SUBSET BOOLEAN /\ Kinds \in SUBSET Kinds
      OBVIOUS
    <3>2. QED
      BY <1>1, <1>3, <2>2, <3>1, SpokenRun
  <2>3. run \in HealthyRuns(s) \cup DeadEndRuns(sid, s) \/ (run \in UnknownRuns /\ sid # NoId)
    BY <1>3 DEF CliRuns
  <2>4. QED
    BY <2>1, <2>2, <2>3
<1>10. PICK K \in SUBSET Kinds, T \in SUBSET BOOLEAN :
           /\ out' \in Seq(OutOf(sid, s, K)) /\ errs' \in Seq(ErrOf(T))
           /\ \/ T = {FALSE}
              \/ sid # NoId /\ run.tool = FALSE /\ "sessionStarted" \notin K
  BY <1>9
<1>11. OutOf(sid, s, K) \subseteq {e \in Fresh' : e.kind \in K}
  <2>1. ASSUME NEW e \in OutOf(sid, s, K)
        PROVE  e \in EventsAs(Kinds, Ids \cup {NoId}, BOOLEAN, BOOLEAN) /\ e.sid \in {NoId, s}
               /\ e.stale = FALSE /\ (e.poisoned = TRUE => sid # NoId) /\ e.kind \in K
    BY <1>4 DEF OutOf, EventsAs
  <2>2. QED
    BY <1>2, <1>8, <2>1 DEF Fresh, Heard
<1>12. ErrOf(T) \subseteq {e \in Muttered' : e.stale \in T}
  <2>1. ASSUME NEW e \in ErrOf(T)
        PROVE  e \in EventsAs(Kinds, Ids \cup {NoId}, BOOLEAN, BOOLEAN) /\ e.sid = NoId
               /\ e.stale \in T /\ (e.poisoned = TRUE => sid # NoId) /\ e.kind = "error"
    BY DEF ErrOf, EventsAs, Kinds
  <2>2. QED
    BY <1>2, <1>8, <2>1 DEF Heard, Muttered
<1>13. /\ out' \in Seq({e \in Fresh' : e.kind \in K}) /\ out' \in Seq(Fresh')
       /\ errs' \in Seq({e \in Muttered' : e.stale \in T}) /\ errs' \in Seq(Muttered')
  <2>1. \A A, B : A \subseteq B => Seq(A) \subseteq Seq(B)
    OBVIOUS
  <2>2. {e \in Fresh' : e.kind \in K} \subseteq Fresh' /\ {e \in Muttered' : e.stale \in T} \subseteq Muttered'
    OBVIOUS
  <2>3. QED
    BY <1>10, <1>11, <1>12, <2>1, <2>2
<1>14. NoResult \in Results /\ NoResult.resumeBad = FALSE /\ NoResult.short = FALSE
       /\ NoResult.newResume = NoId /\ NoResult.poisoned = FALSE
  BY DEF NoResult, Results
<1>15. TurnTypeOK'
  BY <1>1, <1>2, <1>3, <1>9 DEF TurnInv, TurnTypeOK
<1>16. TurnShape'
  BY <1>2, <1>5, <1>13, <1>14 DEF TurnInv, TurnShape
<1>17. EndInv'
  BY <1>1, <1>2, <1>14 DEF TurnInv, EndInv, OneReply
<1>18. IdInv'
  <2>1. Live(sid)' /\ Own(res.newResume)'
    BY <1>2, <1>4, <1>8, <1>14 DEF Live, Own
  <2>2. QED
    BY <1>2, <1>6, <1>7, <1>14, <2>1 DEF IdInv
<1>19. RunInv'
  <2>1. attempt \in {0, 1} /\ (attempt = 1 => 0 \notin ran /\ sid = NoId) /\ (attempt = 0 => ran = {})
    BY <1>1 DEF TurnInv, TurnShape, RunInv
  <2>2. attempt' = 1 => 0 \notin ran' /\ sid' = NoId
    BY <1>2, <1>3, <2>1
  <2>3. CASE T = {FALSE}
    <3>1. {e \in Muttered' : e.stale \in T} \subseteq Fresh'
      BY <2>3 DEF Fresh, Muttered
    <3>2. \A A, B : A \subseteq B => Seq(A) \subseteq Seq(B)
      OBVIOUS
    <3>3. errs' \in Seq(Fresh')
      BY <1>13, <3>1, <3>2
    <3>4. QED
      BY <1>2, <1>14, <2>2, <3>3 DEF RunInv
  <2>4. CASE sid # NoId /\ run.tool = FALSE /\ "sessionStarted" \notin K
    <3>1. 0 \notin ran'
      BY <1>3, <2>1, <2>4
    <3>2. {e \in Fresh' : e.kind \in K} \subseteq {e \in Fresh' : e.kind # "sessionStarted"}
      BY <2>4
    <3>3. \A A, B : A \subseteq B => Seq(A) \subseteq Seq(B)
      OBVIOUS
    <3>4. out' \in Seq({e \in Fresh' : e.kind # "sessionStarted"})
      BY <1>13, <3>2, <3>3
    <3>5. Doomed'
      BY <1>2, <2>4, <3>1, <3>4 DEF Doomed
    <3>6. QED
      BY <1>2, <2>2, <3>5 DEF RunInv
  <2>5. QED
    BY <1>10, <2>3, <2>4
<1>20. QED
  BY <1>15, <1>16, <1>17, <1>18, <1>19 DEF TurnInv

(* A pipe or the exit status is heard, or dropped.                         *)
LEMMA Hears ==
  ASSUME TurnInv, pc = "stream", NEW ev \in Heard, Emit(ev), UNCHANGED streamRest,
         out' \in Seq(Fresh), errs' \in Seq(Muttered), sawDone' \in BOOLEAN,
         exit' \in {"good", "bad", "never", "ended"},
         errs \in Seq(Fresh) => errs' \in Seq(Fresh) /\ ev.stale = FALSE,
         out \in Seq({e \in Fresh : e.kind # "sessionStarted"}) =>
           /\ out' \in Seq({e \in Fresh : e.kind # "sessionStarted"})
           /\ ev.kind # "sessionStarted"
  PROVE  TurnInv'
<1>1. /\ UNCHANGED <<minted, turns, driver, resumes, retired, held, pc, ctx, attempt, sid, ran, owed, told>>
  BY DEF streamRest, lifeVars, rowVars
<1>2. res \in Results /\ gated \in BOOLEAN
  BY DEF TurnInv, TurnShape
<1>3. /\ res' \in Results /\ res'.short = res.short
      /\ Own(res.newResume) => Own(res'.newResume)
      /\ res'.poisoned = TRUE => res.poisoned = TRUE \/ sid # NoId
      /\ gated' \in BOOLEAN
      /\ ev.stale = FALSE => res'.resumeBad = res.resumeBad
      /\ gated = TRUE /\ shown = FALSE /\ ev.kind # "sessionStarted"
           => gated' = TRUE /\ shown' = FALSE
  BY <1>2, EmitIs
<1>4. Heard' = Heard /\ Fresh' = Fresh /\ Muttered' = Muttered /\ Made' = Made
  BY <1>1 DEF Heard, Fresh, Muttered, Live, Own, Stored, Made
<1>5. TurnTypeOK'
  BY <1>1 DEF TurnInv, TurnTypeOK
<1>6. TurnShape'
  BY <1>1, <1>3, <1>4 DEF TurnInv, TurnShape
<1>7. EndInv'
  BY <1>1, <1>3 DEF TurnInv, EndInv, OneReply
<1>8. IdInv'
  <2>1. RowsInv'
    BY <1>1, RowsKept DEF TurnInv, IdInv
  <2>2. Own(res'.newResume) /\ (res'.poisoned = TRUE => sid # NoId)
    BY <1>3 DEF TurnInv, IdInv
  <2>3. Own(res.newResume)' /\ Live(sid)'
    BY <1>1, <2>2 DEF Own, Stored, Live, TurnInv, IdInv
  <2>4. QED
    BY <1>1, <1>4, <2>1, <2>2, <2>3 DEF TurnInv, IdInv
<1>9. RunInv'
  <2>1. CASE Doomed
    <3>1. Doomed'
      BY <1>1, <1>3, <1>4, <2>1 DEF Doomed
    <3>2. QED
      BY <1>1, <3>1 DEF TurnInv, RunInv
  <2>2. CASE res.resumeBad = FALSE /\ errs \in Seq(Fresh)
    BY <1>1, <1>3, <1>4, <2>2 DEF TurnInv, RunInv
  <2>3. QED
    BY <2>1, <2>2 DEF TurnInv, RunInv
<1>10. QED
  BY <1>5, <1>6, <1>7, <1>8, <1>9 DEF TurnInv

(* Nothing of the turn's own moves, except that the CLI may fall silent.   *)
LEMMA Waits ==
  ASSUME TurnInv, UNCHANGED <<lifeVars, rowVars, pc, attemptVars, replyVars>>,
         ctx' \in {"live", "expired", "cancelled"},
         exit' \in {"good", "bad", "never", "ended"}, sawDone' = sawDone,
         UNCHANGED <<out, errs>> \/ (out' = <<>> /\ errs' = <<>>)
  PROVE  TurnInv'
<1>1. UNCHANGED <<minted, turns, driver, resumes, retired, held, pc, attempt, sid, ran, res, gated, shown,
                  owed, told, typing>>
  BY DEF lifeVars, rowVars, attemptVars, replyVars
<1>2. Heard' = Heard /\ Fresh' = Fresh /\ Muttered' = Muttered /\ Made' = Made
  BY <1>1 DEF Heard, Fresh, Muttered, Live, Own, Stored, Made
<1>3. \A S : (out \in Seq(S) => out' \in Seq(S)) /\ (errs \in Seq(S) => errs' \in Seq(S))
  <2>1. \A S : << >> \in Seq(S)
    OBVIOUS
  <2>2. QED
    BY <2>1
<1>4. TurnTypeOK'
  BY <1>1 DEF TurnInv, TurnTypeOK
<1>5. TurnShape'
  BY <1>1, <1>2, <1>3 DEF TurnInv, TurnShape
<1>6. EndInv'
  BY <1>1 DEF TurnInv, EndInv, OneReply
<1>7. IdInv'
  <2>1. RowsInv'
    BY <1>1, RowsKept DEF TurnInv, IdInv
  <2>2. QED
    BY <1>1, <1>2, <2>1 DEF TurnInv, IdInv, Live, Own, Stored
<1>8. RunInv'
  <2>1. CASE Doomed
    <3>1. Doomed'
      BY <1>1, <1>2, <1>3, <2>1 DEF Doomed
    <3>2. QED
      BY <1>1, <3>1 DEF TurnInv, RunInv
  <2>2. CASE res.resumeBad = FALSE /\ errs \in Seq(Fresh)
    BY <1>1, <1>2, <1>3, <2>2 DEF TurnInv, RunInv
  <2>3. CASE pc # "stream"
    BY <1>1, <2>3 DEF TurnInv, RunInv
  <2>4. QED
    BY <2>1, <2>2, <2>3 DEF TurnInv, RunInv
<1>9. QED
  BY <1>4, <1>5, <1>6, <1>7, <1>8 DEF TurnInv

LEMMA StepTurn ==
  ASSUME TurnInv, [TurnNext]_turnVars
  PROVE  TurnInv'
<1>1. /\ TurnTypeOK /\ TurnShape /\ EndInv /\ IdInv /\ RunInv /\ RowsInv
      /\ turns \in 0..MaxTurns /\ turns \in Nat /\ MaxTurns \in Nat
      /\ Cardinality(Made) \in Nat /\ Cardinality(Made) <= turns + 1
      /\ driver \in Drivers
  <2>1. Cardinality(Made) \in Nat
    BY TurnAssumption, FS_Subset, FS_CardinalityType DEF Made
  <2>2. QED
    BY <2>1, TurnAssumption DEF TurnInv, TurnTypeOK, TurnShape, IdInv
<1>2. CASE BeginTurn
  <2>1. /\ pc = "idle" /\ pc' = "admit" /\ turns' = turns + 1 /\ turns < MaxTurns /\ told' = <<>>
        /\ UNCHANGED <<minted, driver, resumes, retired, held, ctx, exit, attempt, sid, ran, res, gated,
                       shown, owed>>
    BY <1>2 DEF BeginTurn, rowVars, localVars, cliVars, attemptVars
  <2>2. Made' = Made /\ RowsInv'
    BY <1>1, <2>1, RowsKept DEF Made
  <2>3. turns' \in 0..MaxTurns /\ Cardinality(Made') <= turns' /\ Cardinality(Made') <= turns' + 1
    BY <1>1, <2>1, <2>2
  <2>4. TurnTypeOK' /\ TurnShape'
    BY <1>1, <2>1, <2>3 DEF TurnTypeOK, TurnShape
  <2>5. EndInv' /\ RunInv'
    BY <1>1, <2>1 DEF EndInv, OneReply, RunInv
  <2>6. IdInv'
    BY <1>1, <2>1, <2>2, <2>3 DEF IdInv
  <2>7. QED
    BY <2>4, <2>5, <2>6 DEF TurnInv
<1>3. ASSUME UNCHANGED lifeVars, UNCHANGED rowVars
      PROVE  RowsInv'
  BY <1>1, <1>3, RowsKept DEF lifeVars, rowVars
<1>4. CASE FailTurn
  <2>1. pc \notin {"idle", "answered"} /\ owed' = FALSE /\ UNCHANGED lifeVars /\ RowsInv'
    BY <1>1, <1>3, <1>4 DEF FailTurn, EndInv
  <2>2. QED
    BY <1>4, <2>1, Settles DEF FailTurn
(* One of the places before the CLI is started gives way to the next.      *)
<1>5. ASSUME UNCHANGED <<lifeVars, rowVars, ctx, exit, attempt, ran, gated, shown, told>>,
             pc \in {"admit", "compose", "allow"}, pc' \in {"compose", "allow", "spawn", "deliver"},
             sid' \in Ids \cup {NoId}, Live(sid'),
             pc' = "compose" => sid' = NoId,
             res' = IF pc' = "deliver"
                      THEN [NoResult EXCEPT !.failed = TRUE, !.transient = TRUE, !.short = TRUE]
                      ELSE res,
             owed' = FALSE \/ pc' = "spawn",
             pc = "allow" \/ pc' \in {"compose", "allow"}
      PROVE  TurnInv'
  <2>1. UNCHANGED <<minted, turns, driver, resumes, retired, held>>
    BY <1>5 DEF lifeVars, rowVars
  <2>2. Made' = Made /\ RowsInv'
    BY <1>1, <2>1, RowsKept DEF Made
  <2>3. /\ res' \in Results
        /\ pc' = "deliver" => res'.newResume = NoId /\ res'.poisoned = FALSE /\ res'.short = TRUE
    BY <1>1, <1>5 DEF TurnShape, NoResult, Results
  <2>4. TurnTypeOK' /\ TurnShape'
    BY <1>1, <1>5, <2>1, <2>3 DEF TurnTypeOK, TurnShape
  <2>5. EndInv'
    BY <1>1, <1>5, <2>1 DEF EndInv, OneReply
  <2>6. IdInv'
    <3>1. Live(sid)'
      BY <1>5, <2>1 DEF Live
    <3>2. pc' = "deliver" => Own(res.newResume)' /\ res'.poisoned = FALSE
      BY <1>5, <2>3 DEF Live, Own
    <3>3. Cardinality(Made') <= turns' /\ Cardinality(Made') <= turns' + 1
      BY <1>1, <1>5, <2>1, <2>2 DEF IdInv
    <3>4. QED
      BY <1>5, <2>2, <3>1, <3>2, <3>3 DEF IdInv
  <2>7. RunInv'
    BY <1>1, <1>5 DEF RunInv
  <2>8. QED
    BY <2>4, <2>5, <2>6, <2>7 DEF TurnInv
<1>6. CASE AdmitTurn
  <2>1. /\ pc = "admit" /\ pc' = "compose" /\ UNCHANGED <<lifeVars, rowVars>>
        /\ UNCHANGED <<ctx, exit, attempt, ran, gated, shown, told, sid, res, owed>>
    BY <1>6 DEF AdmitTurn, localVars, cliVars, attemptVars, replyVars
  <2>2. owed = FALSE /\ sid = NoId
    BY <1>1, <2>1 DEF EndInv, IdInv
  <2>3. QED
    BY <1>5, <2>1, <2>2 DEF Live
<1>7. CASE SlashCommand
  <2>1. /\ pc = "admit" /\ UNCHANGED lifeVars /\ Concludes /\ OnReply("command") /\ owed' = FALSE
    BY <1>1, <1>7 DEF SlashCommand, EndInv
  <2>2. minted' = minted /\ Made' = Made
    BY <2>1 DEF lifeVars, Made
  <2>3. RowsInv'
    <3>1. CASE UNCHANGED rowVars
      BY <1>3, <2>1, <3>1
    <3>2. CASE resumes' = [d \in Drivers |-> NoId] /\ Retires(Stored)
      BY <1>1, <2>2, <3>2, RowsDeleted DEF Retires
    <3>3. QED
      BY <1>7, <3>1, <3>2 DEF SlashCommand
  <2>4. QED
    BY <2>1, <2>3, Settles
<1>8. CASE Compose
  <2>1. /\ pc = "compose" /\ pc' = "allow" /\ UNCHANGED <<lifeVars, rowVars>>
        /\ UNCHANGED <<ctx, exit, attempt, ran, gated, shown, told, res, owed>>
        /\ sid' \in {resumes[driver], NoId}
    BY <1>8 DEF Compose, Resume, cliVars, replyVars
  <2>2. owed = FALSE
    BY <1>1, <2>1 DEF EndInv
  <2>3. Live(sid') /\ sid' \in Ids \cup {NoId}
    BY <1>1, <2>1 DEF RowsInv, Live
  <2>4. QED
    BY <1>5, <2>1, <2>2, <2>3
<1>9. CASE AskBreaker
  <2>1. /\ pc = "allow" /\ UNCHANGED <<lifeVars, rowVars>>
        /\ UNCHANGED <<ctx, exit, attempt, ran, gated, shown, told, sid>>
    BY <1>9 DEF AskBreaker, cliVars
  <2>2. owed = FALSE /\ Live(sid) /\ sid \in Ids \cup {NoId}
    BY <1>1, <2>1 DEF EndInv, IdInv, TurnTypeOK
  <2>3. CASE owed' = TRUE /\ pc' = "spawn" /\ UNCHANGED res
    BY <1>5, <2>1, <2>2, <2>3
  <2>4. CASE /\ res' = [NoResult EXCEPT !.failed = TRUE, !.transient = TRUE, !.short = TRUE]
             /\ pc' = "deliver" /\ UNCHANGED owed
    BY <1>5, <2>1, <2>2, <2>4
  <2>5. QED
    BY <1>9, <2>3, <2>4 DEF AskBreaker
<1>10. CASE QueryFails
  <2>1. pc \notin {"idle", "answered"} /\ owed' = FALSE /\ UNCHANGED lifeVars /\ RowsInv'
    BY <1>3, <1>10 DEF QueryFails
  <2>2. QED
    BY <1>10, <2>1, Settles DEF QueryFails
<1>11. CASE Spawn
  BY <1>11, SpawnStarts
<1>12. CASE Decay
  <2>1. /\ pc = "idle" /\ driver' \in Drivers
        /\ UNCHANGED <<minted, turns, resumes, retired, held, pc, ctx, exit, attempt, sid, ran, res, gated,
                       shown, owed, told, typing>>
    BY <1>1, <1>12 DEF Decay, rowVars, localVars, cliVars, attemptVars, replyVars
  <2>2. Made' = Made /\ RowsInv'
    BY <1>1, <2>1, RowsKept DEF Made
  <2>3. TurnTypeOK' /\ TurnShape'
    BY <1>1, <2>1 DEF TurnTypeOK, TurnShape
  <2>4. EndInv' /\ RunInv'
    BY <1>1, <2>1 DEF EndInv, OneReply, RunInv
  <2>5. IdInv'
    BY <1>1, <2>1, <2>2 DEF IdInv
  <2>6. QED
    BY <2>3, <2>4, <2>5 DEF TurnInv
<1>13. CASE StdoutEvent
  <2>1. /\ pc = "stream" /\ out \in Seq(Fresh) /\ out # <<>> /\ out' = Tail(out)
        /\ errs' = errs /\ errs \in Seq(Muttered) /\ exit' = exit /\ Emit(Head(out)) /\ UNCHANGED streamRest
        /\ sawDone' \in BOOLEAN
    BY <1>1, <1>13 DEF StdoutEvent, TurnShape
  <2>2. \A S : out \in Seq(S) => Head(out) \in S /\ Tail(out) \in Seq(S)
    BY <2>1
  <2>3. Head(out) \in Heard /\ Head(out).stale = FALSE
    BY <2>1, <2>2 DEF Fresh
  <2>4. /\ out' \in Seq(Fresh)
        /\ out \in Seq({e \in Fresh : e.kind # "sessionStarted"}) =>
             /\ out' \in Seq({e \in Fresh : e.kind # "sessionStarted"})
             /\ Head(out).kind # "sessionStarted"
    BY <2>1, <2>2
  <2>5. exit \in {"good", "bad", "never", "ended"}
    BY <1>1 DEF TurnTypeOK
  <2>6. QED
    BY <2>1, <2>3, <2>4, <2>5, Hears
<1>14. CASE StderrEvent
  <2>1. /\ pc = "stream" /\ errs \in Seq(Muttered) /\ errs # <<>> /\ errs' = Tail(errs)
        /\ out' = out /\ out \in Seq(Fresh) /\ exit' = exit /\ Emit(Head(errs)) /\ UNCHANGED streamRest
        /\ sawDone' \in BOOLEAN
    BY <1>1, <1>14 DEF StderrEvent, TurnShape
  <2>2. \A S : errs \in Seq(S) => Head(errs) \in S /\ Tail(errs) \in Seq(S)
    BY <2>1
  <2>3. /\ Head(errs) \in Heard /\ Head(errs).kind # "sessionStarted" /\ errs' \in Seq(Muttered)
        /\ errs \in Seq(Fresh) => errs' \in Seq(Fresh) /\ Head(errs).stale = FALSE
    BY <2>1, <2>2 DEF Fresh, Muttered
  <2>4. exit \in {"good", "bad", "never", "ended"}
    BY <1>1 DEF TurnTypeOK
  <2>5. QED
    BY <2>1, <2>3, <2>4, Hears
<1>15. CASE ExitError
  <2> DEFINE ev == ExitEvent(sawDone)
  <2>1. /\ pc = "stream" /\ errs = <<>> /\ out = <<>> /\ errs' = errs /\ out' = out
        /\ exit' = "ended" /\ Emit(ev) /\ UNCHANGED streamRest /\ sawDone' = sawDone
    BY <1>15 DEF ExitError
  <2>2. /\ ev.stale = FALSE /\ ev.kind = "error" /\ ev.sid = NoId /\ ev.poisoned = FALSE
    BY DEF ExitEvent, ErrorEvent, Event
  <2>3. sawDone \in BOOLEAN
    BY <1>1, <2>1 DEF TurnShape
  <2>4. ev \in Heard
    <3> DEFINE S == Ids \cup {NoId}
               B == BOOLEAN
    <3>1. "error" \in Kinds /\ NoId \in S /\ FALSE \in B /\ {} \in SUBSET Signs
      BY DEF Kinds
    <3> HIDE DEF S, B
    <3>2. ErrorEvent({}, sawDone) \in EventsAs(Kinds, S, B, B)
      BY <2>3, <3>1, Records
    <3>3. QED
      BY <2>2, <3>2 DEF ExitEvent, Heard, Own, Live, S, B
  <2> HIDE DEF ev
  <2>5. \A S : << >> \in Seq(S)
    OBVIOUS
  <2>6. /\ out' \in Seq(Fresh) /\ errs' \in Seq(Muttered) /\ errs' \in Seq(Fresh)
        /\ out' \in Seq({e \in Fresh : e.kind # "sessionStarted"})
        /\ ev.kind # "sessionStarted" /\ sawDone' \in BOOLEAN
        /\ exit' \in {"good", "bad", "never", "ended"}
    BY <2>1, <2>2, <2>3, <2>5
  <2>7. QED
    BY <2>1, <2>2, <2>4, <2>6, Hears
<1>16. ASSUME pc = "stream", ctx' = ctx \/ ctx' \in {"expired", "cancelled"},
              exit' \in {exit, "bad"}, sawDone' = sawDone,
              UNCHANGED <<lifeVars, rowVars, pc, attemptVars, replyVars>>,
              UNCHANGED <<out, errs>> \/ (out' = <<>> /\ errs' = <<>>)
       PROVE  TurnInv'
  <2>1. ctx' \in {"live", "expired", "cancelled"} /\ exit' \in {"good", "bad", "never", "ended"}
    BY <1>1, <1>16 DEF TurnTypeOK
  <2>2. QED
    BY <1>16, <2>1, Waits
<1>17. CASE Killed
  BY <1>16, <1>17 DEF Killed, streamRest, attemptVars, replyVars
<1>18. CASE IdleExpires
  BY <1>16, <1>18 DEF IdleExpires, cliVars
<1>19. CASE CallerCancels
  BY <1>16, <1>19 DEF CallerCancels, cliVars
<1>20. CASE StreamEnds
  <2>1. /\ pc = "stream" /\ exit' = "ended" /\ out = <<>> /\ errs = <<>> /\ out' = out /\ errs' = errs
        /\ UNCHANGED <<minted, turns, driver, ctx, res, gated, ran, told, owed>>
        /\ res.resumeBad => shown' = shown
    BY <1>20 DEF StreamEnds, lifeVars
  <2>2. res.short = FALSE /\ Live(sid) /\ Own(res.newResume) /\ (res.poisoned = TRUE => sid # NoId)
    BY <1>1, <2>1 DEF EndInv, IdInv
  <2>3. Made' = Made
    BY <2>1 DEF Made
  <2>4. CASE ShouldRetryFreshResume
    <3>1. /\ attempt' = 1 /\ sid' = NoId /\ pc' = "spawn"
          /\ res.resumeBad /\ sid # NoId /\ attempt = 0
      BY <1>20, <2>4 DEF StreamEnds, ShouldRetryFreshResume
    <3>2. RowsInv' /\ held' \subseteq retired' /\ retired' \subseteq Ids
      <4>1. CASE UNCHANGED rowVars
        BY <1>1, <2>1, <4>1, RowsKept DEF rowVars, TurnTypeOK
      <4>2. CASE ClearsResume
        <5>1. minted[sid] = driver
          BY <2>2, <3>1 DEF Live
        <5>2. RowsInv'
          BY <1>1, <2>1, <3>1, <4>2, <5>1, RowDropped
        <5>3. QED
          BY <5>2 DEF RowsInv, Made
      <4>3. QED
        BY <1>20, <2>4, <4>1, <4>2 DEF StreamEnds
    <3>3. Doomed
      BY <1>1, <2>1, <3>1 DEF RunInv
    <3>4. TurnTypeOK' /\ TurnShape'
      BY <1>1, <2>1, <3>1, <3>2 DEF TurnTypeOK, TurnShape, RowsInv
    <3>5. EndInv'
      BY <1>1, <2>1, <3>1 DEF EndInv, OneReply
    <3>6. Cardinality(Made') <= turns'
      BY <1>1, <2>1, <2>3, <3>1 DEF IdInv
    <3>7. IdInv'
      BY <1>1, <2>1, <2>3, <3>1, <3>2, <3>6 DEF IdInv, Live
    <3>8. RunInv'
      BY <2>1, <3>1, <3>3 DEF RunInv, Doomed
    <3>9. QED
      BY <3>4, <3>5, <3>7, <3>8 DEF TurnInv
  <2>5. CASE ~ShouldRetryFreshResume
    <3>1. /\ pc' = "deliver" /\ UNCHANGED <<attempt, sid, resumes, retired, held>>
      BY <1>20, <2>5 DEF StreamEnds, rowVars
    <3>2. RowsInv'
      BY <1>1, <2>1, <3>1, RowsKept
    <3>3. TurnTypeOK' /\ TurnShape'
      BY <1>1, <2>1, <3>1 DEF TurnTypeOK, TurnShape
    <3>4. EndInv'
      BY <1>1, <2>1, <2>2, <3>1 DEF EndInv, OneReply
    <3>5. IdInv'
      BY <1>1, <2>1, <2>2, <2>3, <3>1, <3>2 DEF IdInv, Live, Own, Stored
    <3>6. RunInv'
      BY <1>1, <2>1, <3>1 DEF RunInv
    <3>7. QED
      BY <3>3, <3>4, <3>5, <3>6 DEF TurnInv
  <2>6. QED
    BY <2>4, <2>5
<1>21. CASE Delivers
  <2>1. pc = "deliver" /\ UNCHANGED lifeVars /\ (Concludes \/ DeliverSuccess)
    BY <1>21 DEF Delivers, DeliverTimeout, DeliverPoisoned, DeliverError, DeliverSuccess
  <2>2. /\ Own(res.newResume) /\ (res.poisoned = TRUE => sid # NoId) /\ UNCHANGED <<minted, driver>>
        /\ Made' = Made /\ sid \in Ids \cup {NoId} /\ res \in Results
    BY <1>1, <2>1 DEF IdInv, TurnTypeOK, TurnShape, lifeVars, Made
  <2>3. CASE DeliverTimeout
    BY <1>3, <2>1, <2>3, Settles DEF DeliverTimeout
  <2>4. CASE DeliverError
    <3>1. owed' = FALSE
      BY <1>1, <2>1, <2>2, <2>4 DEF DeliverError, EndInv, Results
    <3>2. UNCHANGED rowVars
      BY <2>4 DEF DeliverError
    <3>3. RowsInv'
      BY <1>3, <2>1, <3>2
    <3>4. \E reply : OnReply(reply)
      BY <2>4 DEF DeliverError
    <3>5. QED
      BY <2>1, <2>4, <3>1, <3>3, <3>4, Settles DEF DeliverError
  <2>5. CASE DeliverPoisoned
    <3>1. OnReply("poisoned") /\ owed' = FALSE /\ sid # NoId
      BY <2>2, <2>5 DEF DeliverPoisoned, Results
    <3>2. RowsInv'
      <4>1. CASE UNCHANGED rowVars
        BY <1>3, <2>1, <4>1
      <4>2. CASE ClearsResume
        <5>1. minted[sid] = driver
          BY <1>1, <2>1, <3>1 DEF IdInv, Live
        <5>2. QED
          BY <2>2, <3>1, <4>2, <5>1, RowDropped
      <4>3. QED
        BY <2>5, <4>1, <4>2 DEF DeliverPoisoned
    <3>3. QED
      BY <2>1, <2>5, <3>1, <3>2, Settles DEF DeliverPoisoned
  <2>6. CASE DeliverSuccess
    <3>1. /\ OnReply("answer") /\ owed' = FALSE /\ retired' = retired /\ held' = held /\ pc' = "answered"
          /\ UNCHANGED <<turns, ctx, exit, attempt, sid, res, gated, ran>>
      BY <2>6 DEF DeliverSuccess, lifeVars, localVars, cliVars, attemptVars
    <3>2. RowsInv'
      <4>1. CASE UNCHANGED resumes
        BY <1>1, <2>2, <3>1, <4>1, RowsKept
      <4>2. CASE res.newResume # NoId /\ resumes' = [resumes EXCEPT ![driver] = res.newResume]
        <5>1. res.newResume \in Ids /\ minted[res.newResume] = driver /\ res.newResume \notin retired \ held
          BY <2>2, <4>2 DEF Results, Own, Live
        <5>2. /\ resumes' \in [Drivers -> Ids \cup {NoId}] /\ resumes'[driver] = res.newResume
              /\ \A d \in Drivers : d # driver => resumes'[d] = resumes[d]
          BY <1>1, <4>2, <5>1 DEF RowsInv
        <5>3. QED
          BY <1>1, <2>2, <3>1, <5>1, <5>2 DEF RowsInv
      <4>3. QED
        BY <2>6, <4>1, <4>2 DEF DeliverSuccess
    <3>3. told' = << "answer" >> /\ typing' = FALSE
      BY <1>1, <2>1, <3>1 DEF OnReply, EndInv
    <3>4. TurnTypeOK' /\ TurnShape'
      BY <1>1, <2>2, <3>1, <3>2 DEF TurnTypeOK, TurnShape, RowsInv
    <3>5. EndInv' /\ RunInv'
      BY <1>1, <2>1, <3>1, <3>3 DEF EndInv, RunInv, OneReply
    <3>6. IdInv'
      BY <1>1, <2>1, <2>2, <3>1, <3>2 DEF IdInv
    <3>7. QED
      BY <3>4, <3>5, <3>6 DEF TurnInv
  <2>7. QED
    BY <1>21, <2>3, <2>4, <2>5, <2>6 DEF Delivers
<1>22. CASE Panics
  <2>1. /\ pc # "idle" /\ owed' = FALSE /\ UNCHANGED lifeVars /\ RowsInv' /\ Concludes /\ OnReply("error")
    BY <1>3, <1>22 DEF Panics
  <2>2. CASE pc = "answered"
    <3>1. told = << "answer" >> /\ told' = Append(told, "error") /\ typing' = FALSE
      BY <1>1, <2>1, <2>2 DEF EndInv, OnReply
    <3>4. Append(<< "answer" >>, "error") = << "answer", "error" >>
      BY AppendOne
    <3>2. told' = << "answer", "error" >>
      BY <3>1, <3>4
    <3>3. QED
      BY <2>1, <3>1, <3>2, EndsWell
  <2>3. CASE pc # "answered"
    BY <2>1, <2>3, Settles
  <2>4. QED
    BY <2>2, <2>3
<1>25. CASE Finishes
  <2>1. /\ pc = "answered" /\ Concludes /\ UNCHANGED lifeVars /\ RowsInv'
        /\ owed' = owed /\ typing' = typing /\ told' = told
    BY <1>3, <1>25 DEF Finishes, replyVars
  <2>2. owed = FALSE /\ typing = FALSE /\ Len(told) = 1
    BY <1>1, <2>1 DEF EndInv
  <2>3. QED
    BY <2>1, <2>2, EndsWell
<1>26. CASE SessionReset
  <2>1. /\ UNCHANGED <<minted, turns, driver, pc, ctx, exit, attempt, sid, ran, res, gated, shown,
                       out, errs, sawDone, owed, told, typing>>
        /\ resumes' = [d \in Drivers |-> NoId] /\ retired' = retired \cup Stored
        /\ held' \subseteq held \cup Stored
    BY <1>26 DEF SessionReset, lifeVars, localVars, cliVars, attemptVars, replyVars
  <2>2. RowsInv' /\ Made' = Made /\ held' \subseteq retired' /\ retired' \subseteq Ids
    <3>1. RowsInv'
      BY <1>1, <2>1, RowsDeleted
    <3>2. QED
      BY <2>1, <3>1 DEF RowsInv, Made
  <2>3. Stored' = {}
    BY <2>1 DEF Stored
(* What the turn resumes was held if the reset has cleared it.             *)
  <2>4. ASSUME pc \in {"allow", "spawn", "stream", "deliver"}
        PROVE  /\ Live(sid) => Live(sid)'
               /\ \A i : Own(i) => Own(i)'
    <3>1. held' = (held \ Stored) \cup (Stored \cap {sid})
      BY <1>26, <2>4 DEF SessionReset
    <3>2. NoId \notin Stored
      BY DEF Stored
    <3>3. \A i : i \notin Stored \/ i = sid => (i \notin retired \ held => i \notin retired' \ held')
      BY <2>1, <3>1
    <3>4. QED
      BY <2>1, <2>3, <3>2, <3>3 DEF Live, Own
  <2>5. TurnTypeOK'
    BY <1>1, <2>1, <2>2 DEF TurnTypeOK, RowsInv
  <2>6. EndInv'
    BY <1>1, <2>1 DEF EndInv, OneReply
  <2>7. IdInv'
    BY <1>1, <2>1, <2>2, <2>4 DEF IdInv
  <2>8. ASSUME pc = "stream"
        PROVE  /\ Fresh \subseteq Fresh' /\ Muttered \subseteq Muttered'
               /\ {e \in Fresh : e.kind # "sessionStarted"} \subseteq {e \in Fresh' : e.kind # "sessionStarted"}
    <3>1. Heard \subseteq Heard'
      BY <2>1, <2>4, <2>8 DEF Heard
    <3>2. QED
      BY <3>1 DEF Fresh, Muttered
  <2>9. \A A, B : A \subseteq B => Seq(A) \subseteq Seq(B)
    OBVIOUS
  <2>10. TurnShape'
    BY <1>1, <2>1, <2>8, <2>9 DEF TurnShape
  <2>11. RunInv'
    <3>1. ASSUME pc = "stream", Doomed PROVE Doomed'
      BY <2>1, <2>8, <2>9, <3>1 DEF Doomed
    <3>2. pc = "stream" => Doomed' \/ (res'.resumeBad = FALSE /\ errs' \in Seq(Fresh'))
      BY <1>1, <2>1, <2>8, <2>9, <3>1 DEF RunInv
    <3>3. QED
      BY <1>1, <2>1, <3>2 DEF RunInv
  <2>12. QED
    BY <2>5, <2>6, <2>7, <2>10, <2>11 DEF TurnInv
<1>23. CASE UNCHANGED turnVars
  <2>1. /\ UNCHANGED <<lifeVars, rowVars, pc, attemptVars, replyVars, ctx, exit, sawDone, out, errs>>
    BY <1>23 DEF turnVars, localVars, cliVars
  <2>2. ctx \in {"live", "expired", "cancelled"} /\ exit \in {"good", "bad", "never", "ended"}
    BY <1>1 DEF TurnTypeOK
  <2>3. QED
    BY <2>1, <2>2, Waits
<1>24. QED
  BY <1>2, <1>4, <1>6, <1>7, <1>8, <1>9, <1>10, <1>11, <1>12, <1>13, <1>14, <1>15, <1>17, <1>18,
     <1>19, <1>20, <1>21, <1>22, <1>23, <1>25, <1>26 DEF TurnNext, TurnRuns

LEMMA TurnHolds == TurnSpec => []TurnInv
<1>1. TurnInit => TurnInv
  BY InitTurn
<1>2. TurnInv /\ [TurnNext]_turnVars => TurnInv'
  BY StepTurn
<1>3. QED
  BY <1>1, <1>2, PTL DEF TurnSpec

(* However a turn ends, its user is answered (once, unless it panics after   *)
(* the answer), the breaker has heard of it and no heartbeat stays, for any   *)
(* number of turns and ids.                                                *)
THEOREM TurnsSettle == TurnSpec => []TurnSettles
<1>1. TurnInv => TurnSettles
  BY DEF TurnInv, EndInv, TurnSettles, OneReply, ProbeResolved, NoTypingAfterTurn
<1>2. QED
  BY <1>1, TurnHolds, PTL

(* What is resumed is this driver's own and was not cleared, but for what a   *)
(* session.reset cleared under the turn that was resuming it; and the retry  *)
(* after a stale id repeats nothing a tool did or a user saw.              *)
THEOREM ResumesAreSafe == TurnSpec => []ResumeSafe
<1>1. TurnInv => ResumeSafe
  BY DEF TurnInv, IdInv, RunInv, ResumeSafe, Live
<1>2. QED
  BY <1>1, TurnHolds, PTL

-----------------------------------------------------------------------------
(* Claude's verdict.                                                        *)
(* What of an event decides the verdict, and whether x tells of v.          *)
Terminal(ev) == ev.kind = "error" /\ ev.recoverable = FALSE
Ends(ev) == ev.kind = "turnDone"
Tells(v, x) == (x.transient = TRUE <=> v = "busy") /\ (x.poisoned = TRUE <=> v = "poisoned")

(* What a run says is what its lines say.                                  *)
LEMMA StdoutRange ==
  ASSUME NEW S, NEW L, NEW lines \in Seq(L), NEW r,
         \A l \in L : ParseOut(driver, l, r) \in Seq(S) /\ l.type # "tooLong"
  PROVE  Range(StdoutEvents(driver, lines, r))
           = UNION {Range(ParseOut(driver, l, r)) : l \in Range(lines)}
<1> DEFINE ss == [i \in DOMAIN lines |-> ParseOut(driver, lines[i], r)]
<1>1. DOMAIN lines = 1..Len(lines) /\ Len(lines) \in Nat /\ \A i \in DOMAIN lines : lines[i] \in L
  OBVIOUS
<1>2. ss \in Seq(Seq(S)) /\ DOMAIN ss = DOMAIN lines
  <2>1. \A i \in DOMAIN lines : ParseOut(driver, lines[i], r) \in Seq(S)
    BY <1>1
  <2>2. QED
    BY <1>1, <2>1
<1>3. \A i \in DOMAIN ss : ss[i] = ParseOut(driver, lines[i], r)
  OBVIOUS
<1> HIDE DEF ss
<1>4. Range(FlattenSeq(ss)) = UNION {Range(ss[i]) : i \in DOMAIN ss}
  BY <1>2, FlattenRange
<1>5. UNION {Range(ss[i]) : i \in DOMAIN ss} = UNION {Range(ParseOut(driver, l, r)) : l \in Range(lines)}
  <2> DEFINE G(l) == Range(ParseOut(driver, l, r))
  <2>1. \A i \in DOMAIN ss : Range(ss[i]) = G(lines[i])
    BY <1>3
  <2>2. {Range(ss[i]) : i \in DOMAIN ss} = {G(lines[i]) : i \in DOMAIN lines}
    BY <1>2, <2>1
  <2> HIDE DEF G
  <2>4. {G(lines[i]) : i \in DOMAIN lines} = {G(l) : l \in Range(lines)}
    BY DEF Range
  <2>3. QED
    BY <2>2, <2>4 DEF G
<1>6. StdoutEvents(driver, lines, r) = FlattenSeq(ss)
  <2> DEFINE Read(i) == \A j \in 1..(i - 1) : lines[j].type # "tooLong"
             ts == [i \in DOMAIN lines |-> IF Read(i) THEN ParseOut(driver, lines[i], r) ELSE <<>>]
  <2>1. \A i \in DOMAIN lines : Read(i)
    BY <1>1
  <2>2. ts = ss
    BY <2>1 DEF ss
  <2> HIDE DEF ts
  <2>3. QED
    BY <2>2 DEF StdoutEvents, ts
<1>7. QED
  BY <1>4, <1>5, <1>6

(* Tagging changes nothing but the tag.                                    *)
LEMMA TagRange ==
  ASSUME NEW evs, NEW r
  PROVE  /\ \A e \in Range(TagPoisonedResume(evs, r)) : \E d \in Range(evs) :
               e = [d EXCEPT !.poisoned = /\ r # NoId /\ d.kind = "error"
                                          /\ ~d.recoverable /\ ~d.transient /\ ~d.stale
                                          /\ IsPoisonedResume(d.class, d.says)]
         /\ \A d \in Range(evs) : \E e \in Range(TagPoisonedResume(evs, r)) :
               e = [d EXCEPT !.poisoned = /\ r # NoId /\ d.kind = "error"
                                          /\ ~d.recoverable /\ ~d.transient /\ ~d.stale
                                          /\ IsPoisonedResume(d.class, d.says)]
<1> DEFINE P(ev) == /\ r # NoId /\ ev.kind = "error"
                    /\ ~ev.recoverable /\ ~ev.transient /\ ~ev.stale
                    /\ IsPoisonedResume(ev.class, ev.says)
           T(d) == [d EXCEPT !.poisoned = P(d)]
           tagged == TagPoisonedResume(evs, r)
<1>1. DOMAIN tagged = DOMAIN evs /\ \A i \in DOMAIN evs : tagged[i] = T(evs[i])
  BY DEF TagPoisonedResume
<1> HIDE DEF tagged, T
<1>2. /\ \A e \in Range(tagged) : \E d \in Range(evs) : e = T(d)
      /\ \A d \in Range(evs) : \E e \in Range(tagged) : e = T(d)
  BY <1>1 DEF Range
<1>3. QED
  BY <1>2 DEF T, tagged

(* What each line of claude's is to the turn.                              *)
LEMMA ClaudeLines ==
  ASSUME NEW s, NEW r, driver = "claude"
  PROVE  /\ \A l \in {Started(s), Block("text"), Block("tool_use"), Retries({"capacity"})} :
               \A e \in Range(ParseOut(driver, l, r)) : ~Terminal(e) /\ ~Ends(e)
         /\ \A e \in Range(ParseOut(driver, Done, r)) : ~Terminal(e)
         /\ \E e \in Range(ParseOut(driver, Done, r)) : Ends(e)
         /\ \A c \in Classes, says \in SUBSET Signs :
               /\ \A e \in Range(ParseOut(driver, Failed(c, says), r)) :
                     Terminal(e) => /\ e.transient = TRUE <=> "capacity" \in says
                                    /\ e.poisoned = TRUE <=> r # NoId /\ IsPoisonedResume(c, says)
               /\ \E e \in Range(ParseOut(driver, Failed(c, says), r)) : Terminal(e)
               /\ \E e \in Range(ParseOut(driver, Failed(c, says), r)) : Ends(e)
         /\ (\A e \in Range(ParseOut(driver, TooLong, r)) : ~Ends(e) /\ Tells("error", e))
            /\ \E e \in Range(ParseOut(driver, TooLong, r)) : Terminal(e)
<1> DEFINE P(ev) == /\ r # NoId /\ ev.kind = "error"
                    /\ ~ev.recoverable /\ ~ev.transient /\ ~ev.stale
                    /\ IsPoisonedResume(ev.class, ev.says)
           T(d) == [d EXCEPT !.poisoned = P(d)]
           Said(l) == Range(ParseOut(driver, l, r))
<1>1. ASSUME NEW l, NEW D, Range(ParseClaudeLine(l)) = D, l.type # "tooLong"
      PROVE  (\A e \in Said(l) : \E d \in D : e = T(d)) /\ \A d \in D : \E e \in Said(l) : e = T(d)
  <2>1. ParseOut(driver, l, r) = TagPoisonedResume(ParseClaudeLine(l), r)
    BY <1>1 DEF ParseOut
  <2>2. QED
    BY <1>1, <2>1, TagRange
<1>2. \A d : /\ Range(<< d >>) = {d}
             /\ \A e : Range(<< d, e >>) = {d, e}
  BY DEF Range
<1>0. ASSUME NEW l, NEW d, ParseClaudeLine(l) = << d >>, l.type # "tooLong"
      PROVE  (\A e \in Said(l) : e = T(d)) /\ \E e \in Said(l) : e = T(d)
  <2>1. Range(ParseClaudeLine(l)) = {d}
    BY <1>0, <1>2
  <2> HIDE DEF T, Said
  <2>2. QED
    BY <1>0, <1>1, <2>1
<1>3. ASSUME NEW k, k \notin {"error", "turnDone"}, NEW i
      PROVE  ~Terminal(T([Event(k) EXCEPT !.sid = i])) /\ ~Ends(T([Event(k) EXCEPT !.sid = i]))
             /\ ~Terminal(T(Event(k))) /\ ~Ends(T(Event(k)))
  BY <1>3 DEF Terminal, Ends, Event
<1>4. ASSUME NEW says, NEW b
      PROVE  ~Terminal(T([ErrorEvent(says, TRUE) EXCEPT !.transient = b]))
             /\ ~Ends(T([ErrorEvent(says, TRUE) EXCEPT !.transient = b]))
  BY DEF Terminal, Ends, ErrorEvent, Event
<1>5. ~Terminal(T([Event("turnDone") EXCEPT !.usage = TRUE])) /\ Ends(T([Event("turnDone") EXCEPT !.usage = TRUE]))
  BY DEF Terminal, Ends, Event
<1>6. ASSUME NEW says \in SUBSET Signs, NEW c
      PROVE  LET e == T([ErrorEvent(says, FALSE) EXCEPT !.class = c])
             IN  /\ Terminal(e)
                 /\ e.transient = TRUE <=> "capacity" \in says
                 /\ e.poisoned = TRUE <=> r # NoId /\ IsPoisonedResume(c, says)
  <2> DEFINE d == [ErrorEvent(says, FALSE) EXCEPT !.class = c]
  <2>1. /\ d.kind = "error" /\ d.recoverable = FALSE /\ d.stale = FALSE /\ d.class = c /\ d.says = says
        /\ d.transient = IsTransientUpstream(says)
        /\ DOMAIN d = {"kind", "sid", "usage", "says", "class", "recoverable", "stale", "transient", "poisoned"}
    BY DEF ErrorEvent, Event
  <2> HIDE DEF d
  <2>2. T(d).kind = "error" /\ T(d).recoverable = FALSE /\ T(d).transient = d.transient /\ T(d).poisoned = P(d)
    BY <2>1
  <2>3. P(d) <=> r # NoId /\ IsPoisonedResume(c, says)
    BY <2>1 DEF IsPoisonedResume
  <2>4. IsTransientUpstream(says) <=> "capacity" \in says
    BY DEF IsTransientUpstream
  <2> HIDE DEF T
  <2>5. QED
    BY <2>1, <2>2, <2>3, <2>4 DEF Terminal, d
<1> HIDE DEF T
<1>7. ASSUME NEW e \in Said(Started(s)) PROVE ~Terminal(e) /\ ~Ends(e)
  <2>1. ParseClaudeLine(Started(s)) = << [Event("sessionStarted") EXCEPT !.sid = s] >>
    BY DEF Started, ParseClaudeLine, ClaudeSystemEvents
  <2>2. e = T([Event("sessionStarted") EXCEPT !.sid = s])
    BY <1>1, <1>2, <1>7, <2>1, PlainLines
  <2>3. QED
    BY <1>3, <2>2
<1>8. ASSUME NEW b \in {"text", "tool_use"}, NEW e \in Said(Block(b)) PROVE ~Terminal(e) /\ ~Ends(e)
  <2>1. PICK k \in {"textDelta", "toolUse"} : ClaudeBlockEvents(b) = << Event(k) >>
    BY DEF ClaudeBlockEvents
  <2> DEFINE bs == << b >>
             ss == [i \in DOMAIN bs |-> ClaudeBlockEvents(bs[i])]
  <2>2. ParseClaudeLine(Block(b)) = FlattenSeq(ss)
    BY DEF Block, ParseClaudeLine, EventsOfBlocks
  <2>3. DOMAIN bs = 1..1 /\ \A i \in 1..1 : bs[i] = b
    OBVIOUS
  <2>4. DOMAIN ss = 1..1 /\ ss[1] = << Event(k) >> /\ ss \in Seq(Seq({Event(k)}))
    <3>1. << Event(k) >> \in Seq({Event(k)})
      OBVIOUS
    <3>2. \A i \in 1..1 : ClaudeBlockEvents(bs[i]) = << Event(k) >>
      BY <2>1, <2>3
    <3>3. DOMAIN ss = 1..1 /\ \A i \in 1..1 : ss[i] = << Event(k) >>
      BY <2>3, <3>2
    <3>4. ss = [i \in 1..1 |-> << Event(k) >>]
      BY <2>3, <3>2
    <3> HIDE DEF ss
    <3>5. QED
      BY <3>1, <3>3, <3>4
  <2> HIDE DEF ss
  <2>5. Range(FlattenSeq(ss)) = UNION {Range(ss[i]) : i \in DOMAIN ss}
    BY <2>4, FlattenRange
  <2>6. Range(FlattenSeq(ss)) = {Event(k)}
    BY <1>2, <2>4, <2>5
  <2>7. e = T(Event(k))
    BY <1>1, <1>8, <2>2, <2>6, PlainLines
  <2>8. QED
    BY <1>3, <2>7
<1>9. ASSUME NEW e \in Said(Retries({"capacity"})) PROVE ~Terminal(e) /\ ~Ends(e)
  <2> DEFINE l == [type |-> "system", subtype |-> "api_retry", status |-> 529,
                   says |-> {"capacity"}]
  <2>1. Retries({"capacity"}) = l
    BY DEF Retries
  <2>2. l.type = "system" /\ l.subtype = "api_retry" /\ l.says = {"capacity"}
    OBVIOUS
  <2> HIDE DEF l
  <2>3. PICK b : ParseClaudeLine(l) = << [ErrorEvent({"capacity"}, TRUE) EXCEPT !.transient = b] >>
    BY <2>2 DEF ParseClaudeLine, ClaudeSystemEvents
  <2>4. e = T([ErrorEvent({"capacity"}, TRUE) EXCEPT !.transient = b])
    BY <1>0, <1>9, <2>1, <2>3, PlainLines
  <2>5. QED
    BY <1>4, <2>4
<1>10. (\A e \in Said(Done) : ~Terminal(e)) /\ \E e \in Said(Done) : Ends(e)
  <2>1. ParseClaudeLine(Done) = << [Event("turnDone") EXCEPT !.usage = TRUE] >>
    BY DEF Done, ParseClaudeLine, ClaudeResultEvents
  <2>2. /\ \A e \in Said(Done) : e = T([Event("turnDone") EXCEPT !.usage = TRUE])
        /\ \E e \in Said(Done) : e = T([Event("turnDone") EXCEPT !.usage = TRUE])
    BY <1>0, <2>1, PlainLines
  <2>3. QED
    BY <1>5, <2>2
<1>11. ASSUME NEW c \in Classes, NEW says \in SUBSET Signs
       PROVE  /\ \A e \in Said(Failed(c, says)) :
                     Terminal(e) => /\ e.transient = TRUE <=> "capacity" \in says
                                    /\ e.poisoned = TRUE <=> r # NoId /\ IsPoisonedResume(c, says)
              /\ \E e \in Said(Failed(c, says)) : Terminal(e)
              /\ \E e \in Said(Failed(c, says)) : Ends(e)
  <2> DEFINE f == [ErrorEvent(says, FALSE) EXCEPT !.class = c]
             d == [Event("turnDone") EXCEPT !.usage = TRUE]
  <2>1. ParseClaudeLine(Failed(c, says)) = << f, d >>
    BY DEF Failed, ParseClaudeLine, ClaudeResultEvents
  <2> HIDE DEF f, d
  <2>2. /\ \A e \in Said(Failed(c, says)) : e = T(f) \/ e = T(d)
        /\ \E e \in Said(Failed(c, says)) : e = T(f)
        /\ \E e \in Said(Failed(c, says)) : e = T(d)
    BY <1>1, <1>2, <2>1, PlainLines
  <2>3. ~Terminal(T(d)) /\ Ends(T(d))
    BY <1>5 DEF d
  <2>4. /\ Terminal(T(f))
        /\ T(f).transient = TRUE <=> "capacity" \in says
        /\ T(f).poisoned = TRUE <=> r # NoId /\ IsPoisonedResume(c, says)
    BY <1>6 DEF f
  <2>5. QED
    BY <2>2, <2>3, <2>4
<1>12. (\A e \in Said(TooLong) : ~Ends(e) /\ Tells("error", e)) /\ \E e \in Said(TooLong) : Terminal(e)
  <2> DEFINE d == ErrorEvent({}, FALSE)
  <2>1. d.kind = "error" /\ d.recoverable = FALSE /\ d.transient = FALSE /\ d.poisoned = FALSE
    <3>1. IsTransientUpstream({}) = FALSE
      BY DEF IsTransientUpstream
    <3>2. QED
      BY <3>1 DEF ErrorEvent, Event
  <2>2. Said(TooLong) = {d}
    <3>1. ParseOut(driver, TooLong, r) = << d >>
      BY DEF ParseOut, TooLong
    <3> HIDE DEF d
    <3>2. QED
      BY <1>2, <3>1
  <2> HIDE DEF d, Said
  <2>3. QED
    BY <2>1, <2>2 DEF Ends, Terminal, Tells
<1>13. QED
  BY <1>7, <1>8, <1>9, <1>10, <1>11, <1>12

(* What a run of claude's comes to, in what it says and how it ends.       *)
LEMMA ClaudeRuns ==
  ASSUME NEW s, NEW r, driver = "claude", NEW run \in HealthyRuns(s) \cup DeadEndRuns(r, s)
  PROVE  LET said == Range(StdoutEvents(driver, run.out, r))
         IN  \/ /\ run.cameTo = "answer" /\ \A e \in said : ~Terminal(e)
                /\ \E e \in said : Ends(e)
             \/ run.cameTo = "hung" /\ run.exit = "never"
             \/ /\ run.cameTo \in {"busy", "error", "poisoned"}
                /\ \A e \in said : Terminal(e) => Tells(run.cameTo, e)
                /\ (\E e \in said : Terminal(e)) /\ \E e \in said : Ends(e)
             \/ /\ run.cameTo = "error" /\ \A e \in said : Terminal(e) => Tells(run.cameTo, e)
                /\ \E e \in said : Terminal(e)
             \/ /\ run.cameTo = "error" /\ run.exit = "bad"
                /\ \A e \in said : ~Terminal(e) /\ ~Ends(e)
<1> DEFINE L == {Started(s), Block("text"), Block("tool_use"), Retries({"capacity"}), Done}
                \cup {Failed(c, says) : c \in Classes, says \in SUBSET Signs}
           Said(l) == Range(ParseOut(driver, l, r))
           Quiet == {l \in L : \A e \in Said(l) : ~Terminal(e) /\ ~Ends(e)}
           R(lines) == Range(StdoutEvents(driver, lines, r))
           dead == <<Started(s), Block("tool_use"), Failed("error_max_turns", {"deadEnd"})>>
<1>1. driver \in Drivers
  BY DEF Drivers
<1>2. \A l \in L : ParseOut(driver, l, r) \in Seq(OutOf(r, s, Kinds)) /\ l.type # "tooLong"
  BY <1>1, ParsedLines, PlainLines DEF Kinds
<1>3. /\ Started(s) \in L /\ Block("text") \in L /\ Block("tool_use") \in L
      /\ Retries({"capacity"}) \in L /\ Done \in L
      /\ \A c \in Classes, says \in SUBSET Signs : Failed(c, says) \in L
  OBVIOUS
<1>4. /\ {} \in SUBSET Signs /\ {"capacity"} \in SUBSET Signs /\ {"deadEnd"} \in SUBSET Signs
      /\ "error_during_execution" \in Classes /\ "error_max_turns" \in Classes
  BY DEF Signs, Classes
<1> HIDE DEF L
<1>5. ASSUME NEW lines \in Seq(L)
      PROVE  R(lines) = UNION {Said(l) : l \in Range(lines)}
  <2>1. Range(StdoutEvents(driver, lines, r))
           = UNION {Range(ParseOut(driver, l, r)) : l \in Range(lines)}
    BY <1>2, StdoutRange
  <2>2. QED
    BY <2>1
<1>6. \A a \in L : << a >> \in Seq(L) /\ Range(<< a >>) = {a}
  BY DEF Range
<1>7. \A a, b \in L : << a, b >> \in Seq(L) /\ Range(<< a, b >>) = {a, b}
  BY DEF Range
<1>8. \A a, b, c \in L : << a, b, c >> \in Seq(L) /\ Range(<< a, b, c >>) = {a, b, c}
  BY DEF Range
<1>9. \A a, b, c, d \in L : << a, b, c, d >> \in Seq(L) /\ Range(<< a, b, c, d >>) = {a, b, c, d}
  BY DEF Range
<1> HIDE DEF R
<1>10. /\ \A a \in L : R(<< a >>) = Said(a)
       /\ \A a, b \in L : R(<< a, b >>) = Said(a) \cup Said(b)
       /\ \A a, b, c \in L : R(<< a, b, c >>) = Said(a) \cup Said(b) \cup Said(c)
       /\ \A a, b, c, d \in L : R(<< a, b, c, d >>) = Said(a) \cup Said(b) \cup Said(c) \cup Said(d)
  <2> HIDE DEF Said
  <2>1. ASSUME NEW a \in L
        PROVE  R(<< a >>) = Said(a)
    <3>1. R(<< a >>) = UNION {Said(l) : l \in Range(<< a >>)}
      BY <1>5, <1>6
    <3>2. UNION {Said(l) : l \in Range(<< a >>)} = UNION {Said(l) : l \in {a}}
      BY <1>6
    <3>3. QED
      BY <3>1, <3>2
  <2>2. ASSUME NEW a \in L, NEW b \in L
        PROVE  R(<< a, b >>) = Said(a) \cup Said(b)
    <3>1. R(<< a, b >>) = UNION {Said(l) : l \in Range(<< a, b >>)}
      BY <1>5, <1>7
    <3>2. UNION {Said(l) : l \in Range(<< a, b >>)} = UNION {Said(l) : l \in {a, b}}
      BY <1>7
    <3>3. QED
      BY <3>1, <3>2
  <2>3. ASSUME NEW a \in L, NEW b \in L, NEW c \in L
        PROVE  R(<< a, b, c >>) = Said(a) \cup Said(b) \cup Said(c)
    <3>1. R(<< a, b, c >>) = UNION {Said(l) : l \in Range(<< a, b, c >>)}
      BY <1>5, <1>8
    <3>2. UNION {Said(l) : l \in Range(<< a, b, c >>)} = UNION {Said(l) : l \in {a, b, c}}
      BY <1>8
    <3>3. QED
      BY <3>1, <3>2
  <2>4. ASSUME NEW a \in L, NEW b \in L, NEW c \in L, NEW d \in L
        PROVE  R(<< a, b, c, d >>) = Said(a) \cup Said(b) \cup Said(c) \cup Said(d)
    <3>1. R(<< a, b, c, d >>) = UNION {Said(l) : l \in Range(<< a, b, c, d >>)}
      BY <1>5, <1>9
    <3>2. UNION {Said(l) : l \in Range(<< a, b, c, d >>)} = UNION {Said(l) : l \in {a, b, c, d}}
      BY <1>9
    <3>3. QED
      BY <3>1, <3>2
  <2>5. QED
    BY <2>1, <2>2, <2>3, <2>4
<1>11. Started(s) \in Quiet /\ Block("text") \in Quiet /\ Block("tool_use") \in Quiet
       /\ Retries({"capacity"}) \in Quiet
  BY <1>3, ClaudeLines
<1>12. (\A e \in Said(Done) : ~Terminal(e)) /\ \E e \in Said(Done) : Ends(e)
  BY ClaudeLines
<1>13. ASSUME NEW c \in Classes, NEW says \in SUBSET Signs, NEW v \in {"busy", "error", "poisoned"},
              v = "busy" <=> "capacity" \in says,
              v = "poisoned" <=> r # NoId /\ IsPoisonedResume(c, says)
       PROVE  /\ \A e \in Said(Failed(c, says)) : Terminal(e) => Tells(v, e)
              /\ \E e \in Said(Failed(c, says)) : Terminal(e)
              /\ \E e \in Said(Failed(c, says)) : Ends(e)
  <2>1. /\ \A e \in Said(Failed(c, says)) :
               Terminal(e) => /\ e.transient = TRUE <=> "capacity" \in says
                              /\ e.poisoned = TRUE <=> r # NoId /\ IsPoisonedResume(c, says)
        /\ \E e \in Said(Failed(c, says)) : Terminal(e)
        /\ \E e \in Said(Failed(c, says)) : Ends(e)
    BY ClaudeLines
  <2>2. QED
    BY <1>13, <2>1 DEF Tells
<1> HIDE DEF Said
<1> DEFINE ok(x) ==
      \/ /\ x.cameTo = "answer" /\ \A e \in R(x.out) : ~Terminal(e)
         /\ \E e \in R(x.out) : Ends(e)
      \/ x.cameTo = "hung" /\ x.exit = "never"
      \/ /\ x.cameTo \in {"busy", "error", "poisoned"}
         /\ \A e \in R(x.out) : Terminal(e) => Tells(x.cameTo, e)
         /\ (\E e \in R(x.out) : Terminal(e)) /\ \E e \in R(x.out) : Ends(e)
      \/ /\ x.cameTo = "error" /\ \A e \in R(x.out) : Terminal(e) => Tells(x.cameTo, e)
         /\ \E e \in R(x.out) : Terminal(e)
      \/ /\ x.cameTo = "error" /\ x.exit = "bad"
         /\ \A e \in R(x.out) : ~Terminal(e) /\ ~Ends(e)
<1>14. \A v, t, o, es, x : LET run0 == Run(v, t, o, es, x)
                           IN  run0.cameTo = v /\ run0.out = o /\ run0.exit = x
  BY DEF Run
<1>15. ASSUME NEW t, NEW q \in Quiet, NEW es, NEW x
       PROVE  /\ ok(Run("answer", t, <<Started(s), q, Block("text"), Done>>, es, x))
  <2>1. R(<<Started(s), q, Block("text"), Done>>)
          = Said(Started(s)) \cup Said(q) \cup Said(Block("text")) \cup Said(Done)
    BY <1>3, <1>10
  <2>2. QED
    BY <1>11, <1>12, <1>14, <2>1
<1>16. ASSUME NEW t, NEW es, NEW x
       PROVE  ok(Run("busy", t, <<Started(s), Failed("error_during_execution", {"capacity"})>>, es, x))
  <2> DEFINE f == Failed("error_during_execution", {"capacity"})
  <2>1. /\ \A e \in Said(f) : Terminal(e) => Tells("busy", e)
        /\ \E e \in Said(f) : Terminal(e)
        /\ \E e \in Said(f) : Ends(e)
    BY <1>4, <1>13 DEF IsPoisonedResume, IsTransientUpstream
  <2>2. f \in L
    BY <1>3, <1>4
  <2> HIDE DEF f
  <2>3. R(<<Started(s), f>>) = Said(Started(s)) \cup Said(f)
    BY <1>3, <1>10, <2>2
  <2>4. ok(Run("busy", t, <<Started(s), f>>, es, x))
    BY <1>11, <1>14, <2>1, <2>3
  <2>5. QED
    BY <2>4 DEF f
<1>17. ASSUME NEW t, NEW es, NEW x, NEW c \in Classes, NEW says \in SUBSET Signs,
              NEW v \in {"busy", "error", "poisoned"},
              v = "busy" <=> "capacity" \in says,
              v = "poisoned" <=> r # NoId /\ IsPoisonedResume(c, says)
       PROVE  ok(Run(v, t, <<Started(s), Block("tool_use"), Failed(c, says)>>, es, x))
  <2> DEFINE f == Failed(c, says)
  <2>1. /\ \A e \in Said(f) : Terminal(e) => Tells(v, e)
        /\ \E e \in Said(f) : Terminal(e)
        /\ \E e \in Said(f) : Ends(e)
    BY <1>13, <1>17
  <2>2. f \in L
    BY <1>3
  <2> HIDE DEF f
  <2>3. R(<<Started(s), Block("tool_use"), f>>) = Said(Started(s)) \cup Said(Block("tool_use")) \cup Said(f)
    BY <1>3, <1>10, <2>2
  <2>4. ok(Run(v, t, <<Started(s), Block("tool_use"), f>>, es, x))
    BY <1>11, <1>14, <2>1, <2>3
  <2>5. QED
    BY <2>4 DEF f
<1>18. ASSUME NEW t, NEW es
       PROVE  /\ ok(Run("error", t, <<Started(s), Block("tool_use")>>, es, "bad"))
              /\ ok(Run("hung", t, <<Started(s)>>, es, "never"))
  <2>1. R(<<Started(s), Block("tool_use")>>) = Said(Started(s)) \cup Said(Block("tool_use"))
    BY <1>3, <1>10
  <2>2. QED
    BY <1>11, <1>14, <2>1
(* Nothing is read after a line that is too long.                          *)
<1>23. ASSUME NEW t, NEW es, NEW x
       PROVE  ok(Run("error", t, <<Started(s), Block("tool_use"), TooLong, Done>>, es, x))
  <2> DEFINE S == OutOf(r, s, Kinds)
             ls == <<Started(s), Block("tool_use"), TooLong, Done>>
             P(l) == ParseOut(driver, l, r)
             Read(i) == \A j \in 1..(i - 1) : ls[j].type # "tooLong"
             ss == [i \in DOMAIN ls |-> IF Read(i) THEN P(ls[i]) ELSE <<>>]
  <2>1. /\ DOMAIN ls = 1..4 /\ ls[1] = Started(s) /\ ls[2] = Block("tool_use") /\ ls[3] = TooLong
    OBVIOUS
  <2>2. Started(s).type # "tooLong" /\ Block("tool_use").type # "tooLong" /\ TooLong.type = "tooLong"
    BY PlainLines DEF TooLong
  <2>3. P(Started(s)) \in Seq(S) /\ P(Block("tool_use")) \in Seq(S) /\ P(TooLong) \in Seq(S) /\ << >> \in Seq(S)
    BY <1>1, ParsedLines DEF Kinds
  <2> HIDE DEF ls, P, S
  <2>4. Read(1) /\ Read(2) /\ Read(3) /\ ~Read(4)
    <3>1. 1..(1 - 1) = {} /\ 1..(2 - 1) = {1} /\ 1..(3 - 1) = {1, 2} /\ 3 \in 1..(4 - 1)
      OBVIOUS
    <3>2. QED
      BY <2>1, <2>2, <3>1
  <2> HIDE DEF Read
  <2>5. /\ DOMAIN ss = 1..4 /\ ss[1] = P(Started(s)) /\ ss[2] = P(Block("tool_use"))
        /\ ss[3] = P(TooLong) /\ ss[4] = << >>
    BY <2>1, <2>4
  <2>6. 1..4 = {1, 2, 3, 4}
    OBVIOUS
  <2>7. ss \in Seq(Seq(S))
    <3>1. \A i \in 1..4 : ss[i] \in Seq(S)
      BY <2>3, <2>5, <2>6
    <3>2. ss = [i \in 1..4 |-> IF Read(i) THEN P(ls[i]) ELSE <<>>]
      BY <2>1
    <3> HIDE DEF ss
    <3>3. ss = [i \in 1..4 |-> ss[i]]
      BY <3>2
    <3>4. QED
      BY <3>1, <3>3
  <2> HIDE DEF ss
  <2>8. Range(FlattenSeq(ss)) = UNION {Range(ss[i]) : i \in DOMAIN ss}
    BY <2>7, FlattenRange
  <2>9. Range(<< >>) = {}
    BY DEF Range
  <2>10. R(ls) = Range(FlattenSeq(ss))
    BY DEF R, StdoutEvents, ss, Read, P
  <2>11. R(ls) = Said(Started(s)) \cup Said(Block("tool_use")) \cup Said(TooLong)
    BY <2>5, <2>6, <2>8, <2>9, <2>10 DEF Said, P
  <2>12. /\ \A e \in Said(TooLong) : ~Ends(e) /\ Tells("error", e)
         /\ \E e \in Said(TooLong) : Terminal(e)
    BY ClaudeLines DEF Said
  <2>13. ok(Run("error", t, ls, es, x))
    BY <1>11, <1>14, <2>11, <2>12
  <2>14. QED
    BY <2>13 DEF ls
<1> HIDE DEF ok
<1>19. ASSUME run \in HealthyRuns(s) PROVE ok(run)
  <2>1. ok(Run("error", TRUE, <<Started(s), Block("tool_use"), Failed("error_during_execution", {})>>, <<>>, "bad"))
    BY <1>4, <1>17 DEF IsPoisonedResume
  <2>2. QED
    BY <1>11, <1>15, <1>16, <1>18, <1>19, <1>23, <2>1 DEF HealthyRuns
<1>20. ASSUME run \in DeadEndRuns(r, s) PROVE ok(run)
  <2> DEFINE v == IF r = NoId THEN "error" ELSE "poisoned"
  <2>1. run = Run(v, TRUE, dead, << >>, "bad")
    BY <1>20 DEF DeadEndRuns
  <2>2. /\ v \in {"busy", "error", "poisoned"} /\ v # "busy"
        /\ v = "poisoned" <=> r # NoId /\ IsPoisonedResume("error_max_turns", {"deadEnd"})
        /\ "capacity" \notin {"deadEnd"}
    BY DEF IsPoisonedResume, IsTransientUpstream
  <2> HIDE DEF v
  <2>3. ok(Run(v, TRUE, dead, << >>, "bad"))
    BY <1>4, <1>17, <2>2
  <2>4. QED
    BY <2>1, <2>3
<1>21. ok(run)
  BY <1>19, <1>20
<1>22. QED
  BY <1>21 DEF ok, R

(* What the turn has heard and what it has yet to hear of a run of         *)
(* claude's make up the run's verdict, in whatever order it is heard.      *)
Over == sawDone = TRUE \/ \E e \in Range(out) : Ends(e)
Lost == res.failed = TRUE \/ \E e \in Range(out) : Terminal(e)

Answers ==
  /\ res.failed = FALSE /\ res.poisoned = FALSE /\ \A e \in Range(out) : ~Terminal(e)
  /\ exit = "bad" => Over

Fails ==
  /\ \A e \in Range(out) : Terminal(e) => Tells(cameTo, e)
  /\ res.failed = TRUE => Tells(cameTo, res)
  /\ cameTo # "error" => Lost /\ Over
  /\ cameTo = "error" => Lost \/ (exit = "bad" /\ ~Over)

Hopeless == sid # NoId /\ (res.resumeBad = TRUE \/ \E e \in Range(errs) : e.stale = TRUE)

Coming ==
  /\ \A e \in Range(errs) : e.kind = "error" /\ e.recoverable = TRUE
  /\ cameTo # "stale" => res.resumeBad = FALSE /\ \A e \in Range(errs) : e.stale = FALSE
  /\ \/ cameTo = "stale" /\ Hopeless
     \/ cameTo = "hung" /\ exit = "never"
     \/ cameTo = "answer" /\ Answers
     \/ cameTo \in {"busy", "error", "poisoned"} /\ Fails

Came ==
  \/ cameTo = "answer" /\ res.failed = FALSE /\ res.poisoned = FALSE
  \/ cameTo \in {"busy", "error", "poisoned"} /\ res.failed = TRUE /\ Tells(cameTo, res)

VerdictInv ==
  driver = "claude" /\ ctx = "live" =>
    /\ pc = "stream" => Coming
    /\ pc = "deliver" /\ res.short = FALSE => Came

(* A sequence that is not empty is its head and the rest.                  *)
LEMMA RangeSplit ==
  ASSUME NEW S, NEW q \in Seq(S)
  PROVE  /\ \A e \in Range(q) : e \in S
         /\ q = <<>> => Range(q) = {}
         /\ q # <<>> => Head(q) \in S /\ Range(q) = {Head(q)} \cup Range(Tail(q))
<1>1. DOMAIN q = 1..Len(q) /\ Len(q) \in Nat /\ \A i \in DOMAIN q : q[i] \in S
  OBVIOUS
<1>2. (\A e \in Range(q) : e \in S) /\ (q = <<>> => Range(q) = {})
  BY <1>1 DEF Range
<1>3. ASSUME q # <<>> PROVE Head(q) \in S /\ Range(q) = {Head(q)} \cup Range(Tail(q))
  <2>1. /\ Len(q) >= 1 /\ Head(q) = q[1] /\ Len(Tail(q)) = Len(q) - 1
        /\ DOMAIN Tail(q) = 1..(Len(q) - 1) /\ \A i \in 1..(Len(q) - 1) : Tail(q)[i] = q[i + 1]
    BY <1>3
  <2>2. 1 \in DOMAIN q
    BY <1>1, <2>1
  <2>3. ASSUME NEW i \in DOMAIN q PROVE q[i] \in {Head(q)} \cup Range(Tail(q))
    <3>1. CASE i = 1
      BY <2>1, <3>1
    <3>2. CASE i # 1
      <4>1. i - 1 \in DOMAIN Tail(q) /\ (i - 1) + 1 = i
        BY <1>1, <2>1, <3>2
      <4>2. Tail(q)[i - 1] = q[i]
        BY <2>1, <4>1
      <4>3. QED
        BY <4>1, <4>2 DEF Range
    <3>3. QED
      BY <3>1, <3>2
  <2>4. ASSUME NEW i \in DOMAIN Tail(q) PROVE Tail(q)[i] \in Range(q)
    <3>1. i + 1 \in DOMAIN q /\ Tail(q)[i] = q[i + 1]
      BY <1>1, <2>1
    <3>2. QED
      BY <3>1 DEF Range
  <2>5. Head(q) \in S /\ Head(q) \in Range(q)
    BY <1>1, <2>1, <2>2 DEF Range
  <2>6. QED
    BY <2>3, <2>4, <2>5 DEF Range
<1>4. QED
  BY <1>2, <1>3

(* What an event that is consumed does to the result.                      *)
LEMMA Consumed ==
  ASSUME res \in Results, NEW ev \in Heard, ConsumeEvent(ev)
  PROVE  /\ res'.short = res.short
         /\ res.resumeBad = TRUE \/ ev.stale = TRUE => res'.resumeBad = TRUE
         /\ res.resumeBad = FALSE /\ ev.stale = FALSE =>
              /\ res'.resumeBad = FALSE
              /\ Terminal(ev) => /\ res'.failed = TRUE /\ res'.transient = ev.transient
                                 /\ res'.poisoned = ev.poisoned
              /\ ~Terminal(ev) => /\ res'.failed = res.failed /\ res'.transient = res.transient
                                  /\ res'.poisoned = res.poisoned
<1>1. /\ ev.stale \in BOOLEAN /\ ev.recoverable \in BOOLEAN
      /\ res.resumeBad \in BOOLEAN
  BY DEF Heard, EventsAs, Results
<1>2. CASE ev.stale = TRUE
  BY <1>2 DEF ConsumeEvent, Results
<1>3. CASE ev.stale = FALSE /\ res.resumeBad = TRUE
  BY <1>3 DEF ConsumeEvent
<1>4. CASE ev.stale = FALSE /\ res.resumeBad = FALSE
  <2>1. res' = FoldEvent(ev)
    BY <1>4 DEF ConsumeEvent
  <2>2. CASE Terminal(ev)
    <3>1. ev.kind # "sessionStarted" /\ ev.kind = "error" /\ ~ev.recoverable
      BY <2>2 DEF Terminal
    <3>2. res' = [res EXCEPT !.failed = TRUE, !.transient = ev.transient, !.poisoned = ev.poisoned]
      BY <2>1, <3>1 DEF FoldEvent
    <3>3. QED
      BY <1>4, <2>2, <3>2 DEF Results
  <2>3. CASE ~Terminal(ev)
    <3>1. ~(ev.kind = "error" /\ ~ev.recoverable)
      BY <1>1, <2>3 DEF Terminal
    <3>2. res' = res \/ res' = [res EXCEPT !.newResume = ev.sid]
      BY <2>1, <3>1 DEF FoldEvent
    <3>3. QED
      BY <1>4, <2>3, <3>2 DEF Results
  <2>4. QED
    BY <2>2, <2>3
<1>5. QED
  BY <1>1, <1>2, <1>3, <1>4

LEMMA SpawnPromises ==
  ASSUME TurnInv, Spawn, driver = "claude"
  PROVE  Coming'
<1> DEFINE s == SessionOf(sid)
<1>1. driver \in Drivers
  BY DEF Drivers
<1>2. /\ sid' = sid /\ sawDone' = FALSE /\ res' = NoResult
  BY DEF Spawn
<1>3. PICK run \in CliRuns(sid, s) :
         /\ out' = StdoutEvents(driver, run.out, sid)
         /\ errs' = StderrEvents(driver, run.errs, sid)
         /\ exit' = run.exit /\ cameTo' = run.cameTo
  BY DEF Spawn
<1> HIDE DEF s
<1>4. /\ NoResult.failed = FALSE /\ NoResult.poisoned = FALSE /\ NoResult.resumeBad = FALSE
  BY DEF NoResult
<1>5. ASSUME NEW says
      PROVE  ParseErr(driver, says, sid).kind = "error" /\ ParseErr(driver, says, sid).recoverable = TRUE
  BY DEF ParseErr, ClaudeStderrEvent, ErrorEvent, Event
<1>6. ASSUME NEW Q, run.errs \in Seq(Q)
      PROVE  /\ \A e \in Range(errs') : e.kind = "error" /\ e.recoverable = TRUE
             /\ run.errs # <<>> => ParseErr(driver, run.errs[1], sid) \in Range(errs')
  <2> DEFINE S == {ParseErr(driver, q, sid) : q \in Q}
             es == run.errs
             E == StderrEvents(driver, es, sid)
  <2>1. es \in Seq(Q) /\ \A q \in Q : ParseErr(driver, q, sid) \in S
    BY <1>6
  <2>2. errs' = E
    BY <1>3
  <2> HIDE DEF S, es
  <2>3. ASSUME NEW X, NEW lines \in Seq(Q), NEW r, \A q \in Q : ParseErr(driver, q, r) \in X
        PROVE  /\ StderrEvents(driver, lines, r) \in Seq(X)
               /\ lines # <<>> => ParseErr(driver, lines[1], r) \in Range(StderrEvents(driver, lines, r))
    BY <2>3, StderrTold
  <2>4. E \in Seq(S) /\ (es # <<>> => ParseErr(driver, es[1], sid) \in Range(E))
    BY <2>1, <2>3
  <2> HIDE DEF E
  <2>5. \A e \in Range(E) : e \in S
    BY <2>4, RangeSplit
  <2>6. \A e \in S : e.kind = "error" /\ e.recoverable = TRUE
    BY <1>5 DEF S
  <2>7. QED
    BY <2>2, <2>4, <2>5, <2>6 DEF es
<1>7. CASE run \in UnknownRuns /\ sid # NoId
  <2>1. run.cameTo = "stale" /\ run.errs = << {"unknown"} >>
    BY <1>7 DEF UnknownRuns, Run
  <2>2. run.errs \in Seq({{"unknown"}}) /\ run.errs # <<>> /\ run.errs[1] = {"unknown"}
    BY <2>1
  <2>3. ParseErr(driver, {"unknown"}, sid).stale = TRUE
    BY <1>7 DEF ParseErr, ClaudeStderrEvent, ErrorEvent, Event
  <2>4. /\ \E e \in Range(errs') : e.stale = TRUE
        /\ \A e \in Range(errs') : e.kind = "error" /\ e.recoverable = TRUE
    BY <1>6, <2>1, <2>2, <2>3
  <2>5. QED
    BY <1>2, <1>3, <1>7, <2>1, <2>4 DEF Coming, Hopeless
<1>8. CASE run \in HealthyRuns(s) \cup DeadEndRuns(sid, s)
  <2>0. \A e \in Range(errs') : e.kind = "error" /\ e.recoverable = TRUE
    <3>1. \E Q : run.errs \in Seq(Q)
      BY <1>1, <1>8, SpokenRun
    <3>2. QED
      BY <1>6, <3>1
  <2>1. errs' \in Seq(ErrOf({FALSE}))
    BY <1>1, <1>3, <1>8, SpokenRun
  <2>2. \A e \in Range(errs') : e.stale = FALSE
    <3>1. \A e \in Range(errs') : e \in ErrOf({FALSE})
      BY <2>1, RangeSplit
    <3>2. QED
      BY <3>1 DEF ErrOf, EventsAs
  <2>3. \/ /\ run.cameTo = "answer" /\ \A e \in Range(out') : ~Terminal(e)
           /\ \E e \in Range(out') : Ends(e)
        \/ run.cameTo = "hung" /\ run.exit = "never"
        \/ /\ run.cameTo \in {"busy", "error", "poisoned"}
           /\ \A e \in Range(out') : Terminal(e) => Tells(run.cameTo, e)
           /\ (\E e \in Range(out') : Terminal(e)) /\ \E e \in Range(out') : Ends(e)
        \/ /\ run.cameTo = "error" /\ \A e \in Range(out') : Terminal(e) => Tells(run.cameTo, e)
           /\ \E e \in Range(out') : Terminal(e)
        \/ /\ run.cameTo = "error" /\ run.exit = "bad"
           /\ \A e \in Range(out') : ~Terminal(e) /\ ~Ends(e)
    BY <1>3, <1>8, ClaudeRuns
  <2>4. CASE /\ run.cameTo = "answer" /\ \A e \in Range(out') : ~Terminal(e)
             /\ \E e \in Range(out') : Ends(e)
    <3>1. Answers'
      BY <1>2, <1>4, <2>4 DEF Answers, Over
    <3>2. QED
      BY <1>2, <1>3, <1>4, <2>0, <2>2, <2>4, <3>1 DEF Coming
  <2>5. CASE run.cameTo = "hung" /\ run.exit = "never"
    BY <1>2, <1>3, <1>4, <2>0, <2>2, <2>5 DEF Coming
  <2>6. CASE /\ run.cameTo \in {"busy", "error", "poisoned"}
             /\ \A e \in Range(out') : Terminal(e) => Tells(run.cameTo, e)
             /\ (\E e \in Range(out') : Terminal(e)) /\ \E e \in Range(out') : Ends(e)
    <3>1. Fails'
      BY <1>2, <1>3, <1>4, <2>6 DEF Fails, Over, Lost
    <3>2. QED
      BY <1>2, <1>3, <1>4, <2>0, <2>2, <2>6, <3>1 DEF Coming
  <2>7. CASE /\ run.cameTo = "error" /\ run.exit = "bad"
             /\ \A e \in Range(out') : ~Terminal(e) /\ ~Ends(e)
    <3>1. Fails'
      BY <1>2, <1>3, <1>4, <2>7 DEF Fails, Over, Lost
    <3>2. QED
      BY <1>2, <1>3, <1>4, <2>0, <2>2, <2>7, <3>1 DEF Coming
  <2>9. CASE /\ run.cameTo = "error" /\ \A e \in Range(out') : Terminal(e) => Tells(run.cameTo, e)
             /\ \E e \in Range(out') : Terminal(e)
    <3>1. Fails'
      BY <1>2, <1>3, <1>4, <2>9 DEF Fails, Over, Lost
    <3>2. QED
      BY <1>2, <1>3, <1>4, <2>0, <2>2, <2>9, <3>1 DEF Coming
  <2>8. QED
    BY <2>3, <2>4, <2>5, <2>6, <2>7, <2>9
<1>9. run \in HealthyRuns(s) \cup DeadEndRuns(sid, s) \/ (run \in UnknownRuns /\ sid # NoId)
  BY <1>3 DEF CliRuns
<1>10. QED
  BY <1>7, <1>8, <1>9

(* A line of stdout is heard.                                              *)
LEMMA HearsOut ==
  ASSUME TurnInv, Coming, ctx = "live", StdoutEvent
  PROVE  Coming'
<1> DEFINE ev == Head(out)
<1>1. /\ pc = "stream" /\ out # <<>> /\ out' = Tail(out)
      /\ sawDone' = (sawDone \/ Ends(ev)) /\ errs' = errs /\ exit' = exit
      /\ cameTo' = cameTo /\ sid' = sid /\ ConsumeEvent(ev)
  BY DEF StdoutEvent, streamRest, Emit, Ends
<1>2. res \in Results /\ out \in Seq(Fresh) /\ sawDone \in BOOLEAN
  BY <1>1 DEF TurnInv, TurnShape
<1>3. ev \in Fresh /\ Range(out) = {ev} \cup Range(out')
  BY <1>1, <1>2, RangeSplit
<1>4. ev \in Heard /\ ev.stale = FALSE
  BY <1>3 DEF Fresh
<1> HIDE DEF ev
<1>5. /\ res.resumeBad = TRUE => res'.resumeBad = TRUE
      /\ res.resumeBad = FALSE =>
              /\ res'.resumeBad = FALSE
              /\ Terminal(ev) => /\ res'.failed = TRUE /\ res'.transient = ev.transient
                                 /\ res'.poisoned = ev.poisoned
              /\ ~Terminal(ev) => /\ res'.failed = res.failed /\ res'.transient = res.transient
                                  /\ res'.poisoned = res.poisoned
  BY <1>1, <1>2, <1>4, Consumed
<1>6. CASE cameTo = "stale"
  BY <1>1, <1>5, <1>6 DEF Coming, Hopeless
<1>7. CASE cameTo # "stale"
  <2>1. res.resumeBad = FALSE
    BY <1>7 DEF Coming
  <2>2. (Over' <=> Over) /\ (Lost => Lost')
    BY <1>1, <1>2, <1>3, <1>5, <2>1 DEF Over, Lost
  <2>3. Answers => Answers'
    BY <1>1, <1>3, <1>5, <2>1, <2>2 DEF Answers
  <2>4. Fails => Fails'
    <3>1. ASSUME Fails PROVE res'.failed = TRUE => Tells(cameTo, res')
      BY <1>3, <1>5, <2>1, <3>1 DEF Fails, Tells
    <3>2. QED
      BY <1>1, <1>3, <2>2, <3>1 DEF Fails
  <2>5. QED
    BY <1>1, <1>5, <1>7, <2>1, <2>3, <2>4 DEF Coming
<1>8. QED
  BY <1>6, <1>7

(* A line of stderr is heard.                                              *)
LEMMA HearsErr ==
  ASSUME TurnInv, Coming, ctx = "live", StderrEvent
  PROVE  Coming'
<1> DEFINE ev == Head(errs)
<1>1. /\ pc = "stream" /\ errs # <<>> /\ errs' = Tail(errs)
      /\ out' = out /\ sawDone' = sawDone /\ exit' = exit
      /\ cameTo' = cameTo /\ sid' = sid /\ ConsumeEvent(ev)
  BY DEF StderrEvent, streamRest, Emit
<1>2. res \in Results /\ errs \in Seq(Muttered)
  BY <1>1 DEF TurnInv, TurnShape
<1>3. ev \in Muttered /\ Range(errs) = {ev} \cup Range(errs')
  BY <1>1, <1>2, RangeSplit
<1>4. ev \in Heard /\ ev.stale \in BOOLEAN
  BY <1>3 DEF Muttered, Heard, EventsAs
<1> HIDE DEF ev
<1>5. ~Terminal(ev) /\ \A e \in Range(errs') : e.kind = "error" /\ e.recoverable = TRUE
  BY <1>3 DEF Coming, Terminal
<1>6. /\ res.resumeBad = TRUE \/ ev.stale = TRUE => res'.resumeBad = TRUE
      /\ res.resumeBad = FALSE /\ ev.stale = FALSE =>
              /\ res'.resumeBad = FALSE /\ res'.failed = res.failed
              /\ res'.transient = res.transient /\ res'.poisoned = res.poisoned
  BY <1>1, <1>2, <1>4, <1>5, Consumed
<1>7. CASE cameTo = "stale"
  BY <1>1, <1>3, <1>5, <1>6, <1>7 DEF Coming, Hopeless
<1>8. CASE cameTo # "stale"
  <2>1. /\ res.resumeBad = FALSE /\ ev.stale = FALSE /\ \A e \in Range(errs') : e.stale = FALSE
    BY <1>3, <1>8 DEF Coming
  <2>2. (Over' <=> Over) /\ (Lost <=> Lost')
    BY <1>1, <1>6, <2>1 DEF Over, Lost
  <2>3. Answers => Answers'
    BY <1>1, <1>6, <2>1, <2>2 DEF Answers
  <2>4. Fails => Fails'
    BY <1>1, <1>6, <2>1, <2>2 DEF Fails, Tells
  <2>5. QED
    BY <1>1, <1>5, <1>6, <1>8, <2>1, <2>3, <2>4 DEF Coming
<1>9. QED
  BY <1>7, <1>8

(* The exit status is heard: no more than what the run has said.           *)
LEMMA HearsExit ==
  ASSUME TurnInv, Coming, ctx = "live", ExitError
  PROVE  Coming'
<1> DEFINE ev == ExitEvent(sawDone)
<1>1. /\ pc = "stream" /\ errs = <<>> /\ out = <<>> /\ exit = "bad" /\ exit' = "ended"
      /\ out' = out /\ errs' = errs /\ sawDone' = sawDone
      /\ cameTo' = cameTo /\ sid' = sid /\ ConsumeEvent(ev)
  BY DEF ExitError, streamRest, Emit
<1>2. res \in Results /\ sawDone \in BOOLEAN
  BY <1>1 DEF TurnInv, TurnShape
<1>3. /\ ev.kind = "error" /\ ev.stale = FALSE /\ ev.recoverable = sawDone
      /\ ev.transient = FALSE /\ ev.poisoned = FALSE
  <2>1. IsTransientUpstream({}) = FALSE
    BY DEF IsTransientUpstream
  <2>2. QED
    BY <2>1 DEF ExitEvent, ErrorEvent, Event
<1>4. ev \in Heard
  <2>1. "error" \in Kinds /\ NoId \in Ids \cup {NoId} /\ {} \in SUBSET Signs
    BY DEF Kinds
  <2>2. ev \in EventsAs(Kinds, Ids \cup {NoId}, BOOLEAN, BOOLEAN)
    BY <1>2, <2>1, Records DEF ExitEvent
  <2>3. ev.sid = NoId
    BY DEF ExitEvent, ErrorEvent, Event
  <2> HIDE DEF ev
  <2>4. QED
    BY <1>3, <2>2, <2>3 DEF Heard, Own, Live
<1> HIDE DEF ev
<1>5. Range(out') = {} /\ Range(out) = {} /\ Range(errs') = {} /\ Range(errs) = {}
  BY <1>1 DEF Range
<1>6. Terminal(ev) <=> sawDone = FALSE
  BY <1>2, <1>3 DEF Terminal
<1>7. /\ res.resumeBad = TRUE => res'.resumeBad = TRUE
      /\ res.resumeBad = FALSE =>
              /\ res'.resumeBad = FALSE
              /\ Terminal(ev) => res'.failed = TRUE /\ res'.transient = FALSE /\ res'.poisoned = FALSE
              /\ ~Terminal(ev) => /\ res'.failed = res.failed /\ res'.transient = res.transient
                                  /\ res'.poisoned = res.poisoned
  BY <1>1, <1>2, <1>3, <1>4, Consumed
<1>8. CASE cameTo = "stale"
  BY <1>1, <1>5, <1>7, <1>8 DEF Coming, Hopeless
<1>9. CASE cameTo # "stale"
  <2>1. res.resumeBad = FALSE
    BY <1>9 DEF Coming
  <2>2. (Over <=> sawDone = TRUE) /\ (Over' <=> sawDone = TRUE)
        /\ (Lost <=> res.failed = TRUE) /\ (Lost' <=> res'.failed = TRUE)
    BY <1>1, <1>5 DEF Over, Lost
  <2>3. Answers => Answers'
    BY <1>1, <1>5, <1>6, <1>7, <2>1, <2>2 DEF Answers
  <2>4. ASSUME cameTo \in {"busy", "error", "poisoned"}, Fails PROVE Fails'
    <3>1. CASE Terminal(ev)
      <4>1. cameTo = "error" /\ res'.failed = TRUE /\ res'.transient = FALSE /\ res'.poisoned = FALSE
        BY <1>6, <1>7, <2>1, <2>2, <2>4, <3>1 DEF Fails
      <4>2. QED
        BY <1>1, <1>5, <2>2, <4>1 DEF Fails, Tells
    <3>2. CASE ~Terminal(ev)
      <4>1. res.failed = TRUE /\ res'.failed = TRUE /\ sawDone = TRUE
        BY <1>2, <1>6, <1>7, <2>1, <2>2, <2>4, <3>2 DEF Fails
      <4>2. QED
        BY <1>1, <1>5, <1>7, <2>1, <2>2, <2>4, <3>2, <4>1 DEF Fails, Tells
    <3>3. QED
      BY <3>1, <3>2
  <2>5. QED
    BY <1>1, <1>5, <1>7, <1>9, <2>1, <2>3, <2>4 DEF Coming
<1>10. QED
  BY <1>8, <1>9

(* When both pipes and the exit status have been heard, the verdict is in. *)
LEMMA StreamTells ==
  ASSUME TurnInv, Coming, StreamEnds, pc' = "deliver"
  PROVE  Came'
<1>1. /\ pc = "stream" /\ out = <<>> /\ errs = <<>> /\ exit \in {"good", "ended"}
      /\ res' = res /\ cameTo' = cameTo /\ ~ShouldRetryFreshResume
  BY DEF StreamEnds
<1>2. Range(out) = {} /\ Range(errs) = {}
  BY <1>1 DEF Range
<1>3. attempt \in {0, 1} /\ (attempt = 1 => sid = NoId)
  BY DEF TurnInv, TurnShape, RunInv
<1>4. ~Hopeless
  BY <1>1, <1>2, <1>3 DEF Hopeless, ShouldRetryFreshResume
<1>5. CASE cameTo = "answer" /\ Answers
  BY <1>1, <1>5 DEF Came, Answers
<1>6. CASE cameTo \in {"busy", "error", "poisoned"} /\ Fails
  <2>1. Lost
    BY <1>1, <1>6 DEF Fails
  <2>2. res.failed = TRUE /\ Tells(cameTo, res)
    BY <1>2, <1>6, <2>1 DEF Fails, Lost
  <2>3. QED
    BY <1>1, <1>6, <2>2 DEF Came, Tells
<1>7. QED
  BY <1>1, <1>4, <1>5, <1>6 DEF Coming

LEMMA StepVerdict ==
  ASSUME TurnInv, VerdictInv, [TurnNext]_turnVars
  PROVE  VerdictInv'
<1> SUFFICES ASSUME (driver = "claude" /\ ctx = "live")'
             PROVE  /\ pc' = "stream" => Coming'
                    /\ pc' = "deliver" /\ res'.short = FALSE => Came'
  BY DEF VerdictInv
<1>1. CASE Concludes
  BY <1>1 DEF Concludes
<1>2. CASE FailTurn \/ SlashCommand \/ QueryFails \/ Delivers \/ Panics \/ Finishes
  BY <1>1, <1>2 DEF FailTurn, SlashCommand, QueryFails, Panics, Finishes, Delivers, DeliverTimeout,
                    DeliverPoisoned, DeliverError, DeliverSuccess
<1>3. CASE AdmitTurn \/ Compose \/ BeginTurn
  BY <1>3 DEF AdmitTurn, Compose, BeginTurn
<1>4. CASE AskBreaker
  BY <1>4 DEF AskBreaker, NoResult
<1>5. CASE Spawn
  BY <1>5, SpawnPromises DEF Spawn
<1>6. CASE StdoutEvent \/ StderrEvent \/ ExitError
  <2>1. pc = "stream" /\ UNCHANGED <<pc, ctx, driver>>
    BY <1>6 DEF StdoutEvent, StderrEvent, ExitError, streamRest, lifeVars
  <2>2. Coming /\ ctx = "live"
    BY <2>1 DEF VerdictInv
  <2>3. QED
    BY <1>6, <2>1, <2>2, HearsOut, HearsErr, HearsExit
<1>7. CASE StreamEnds
  <2>1. pc = "stream" /\ UNCHANGED <<ctx, driver>>
    BY <1>7 DEF StreamEnds, lifeVars
  <2>2. Coming
    BY <2>1 DEF VerdictInv
  <2>3. pc' # "stream"
    BY <1>7 DEF StreamEnds
  <2>4. QED
    BY <1>7, <2>2, <2>3, StreamTells
<1>8. CASE Killed \/ IdleExpires \/ CallerCancels
  BY <1>8 DEF Killed, IdleExpires, CallerCancels, streamRest
<1>9. CASE Decay
  <2>1. pc' = "idle"
    BY <1>9 DEF Decay
  <2>2. QED
    BY <2>1
<1>10. CASE SessionReset \/ UNCHANGED turnVars
  <2>1. UNCHANGED <<driver, ctx, pc, res, cameTo, errs, out, exit, sawDone, sid>>
    BY <1>10 DEF SessionReset, turnVars, lifeVars, localVars, cliVars, attemptVars
  <2>2. (Coming' <=> Coming) /\ (Came' <=> Came)
    BY <2>1 DEF Coming, Came, Hopeless, Answers, Fails, Over, Lost
  <2>3. QED
    BY <2>1, <2>2 DEF VerdictInv
<1>11. QED
  BY <1>2, <1>3, <1>4, <1>5, <1>6, <1>7, <1>8, <1>9, <1>10 DEF TurnNext, TurnRuns

(* However stdout, stderr and the exit status are interleaved, a user of   *)
(* claude is told what its run came to, for any number of turns and ids.   *)
THEOREM ClaudeIsHeard == TurnSpec => ClaudeVerdictTold
<1>1. TurnInit => VerdictInv
  BY DEF TurnInit, VerdictInv
<1>2. TurnInv /\ VerdictInv /\ [TurnNext]_turnVars => VerdictInv'
  BY StepVerdict
<1>3. TurnInv /\ VerdictInv => (Delivers /\ driver = "claude" => ToldAsRun)
  <2>1. SUFFICES ASSUME TurnInv, VerdictInv, Delivers, driver = "claude", ~res.short, ctx = "live"
                 PROVE  told' = << cameTo >>
    BY DEF ToldAsRun
  <2>2. pc = "deliver" /\ ~Expired /\ told = <<>> /\ res \in Results
    BY <2>1 DEF Delivers, DeliverTimeout, DeliverPoisoned, DeliverError, DeliverSuccess, Expired,
                TurnInv, EndInv, TurnShape
  <2>3. Came
    <3>1. res.short = FALSE
      BY <2>1, <2>2 DEF Results
    <3>2. QED
      BY <2>1, <2>2, <3>1 DEF VerdictInv
  <2>4. /\ res.poisoned \in BOOLEAN /\ res.failed \in BOOLEAN /\ res.transient \in BOOLEAN
    BY <2>2 DEF Results
  <2>5. \A reply : OnReply(reply) => told' = << reply >>
    BY <2>2 DEF OnReply
  <2>6. CASE DeliverPoisoned
    <3>1. told' = << "poisoned" >> /\ res.poisoned
      BY <2>5, <2>6 DEF DeliverPoisoned
    <3>2. cameTo = "poisoned"
      BY <2>3, <2>4, <3>1 DEF Came, Tells
    <3>3. QED
      BY <3>1, <3>2
  <2>7. CASE DeliverError
    <3>1. told' = << IF res.transient THEN "busy" ELSE "error" >> /\ ~res.poisoned /\ res.failed
      BY <2>5, <2>7 DEF DeliverError
    <3>2. cameTo = IF res.transient THEN "busy" ELSE "error"
      BY <2>3, <2>4, <3>1 DEF Came, Tells
    <3>3. QED
      BY <3>1, <3>2
  <2>8. CASE DeliverSuccess
    <3>1. told' = << "answer" >> /\ ~res.failed
      BY <2>5, <2>8 DEF DeliverSuccess
    <3>2. cameTo = "answer"
      BY <2>3, <2>4, <3>1 DEF Came
    <3>3. QED
      BY <3>1, <3>2
  <2>9. QED
    BY <2>1, <2>2, <2>6, <2>7, <2>8 DEF Delivers, DeliverTimeout
<1>4. QED
  BY <1>1, <1>2, <1>3, TurnHolds, PTL DEF TurnSpec, ClaudeVerdictTold
=============================================================================
