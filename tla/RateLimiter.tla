----------------------------- MODULE RateLimiter -----------------------------
(***************************************************************************)
(* core/router's rate limiter: Router.allow (rate.go), its token buckets   *)
(* (bucket.go) and the bucket half of Router.Reap (locks.go).              *)
(*                                                                         *)
(* Tokens are counted in Window-ths, so that one tick refills a bucket of  *)
(* capacity c by exactly c units and a message costs Window of them (the   *)
(* code keeps float64 tokens).  allow is one rlMu section and one action   *)
(* per outcome; Reap reads the clock before it takes rlMu.                 *)
(***************************************************************************)
EXTENDS Naturals

CONSTANTS Users,        (* sender uids                                     *)
          Sessions,     (* session keys                                    *)
          Global,       (* the name of the global bucket                   *)
          Absent,       (* no bucket under this name                       *)
          MaxPer,       (* Config.MaxPerMinute                             *)
          Multiplier,   (* globalRateMultiplier                            *)
          Window,       (* rateLimitWindow, in ticks                       *)
          ReapIdle,     (* the idle duration Reap is called with           *)
          MaxTime       (* bound: the clock stops here                     *)

ASSUME RateAssumption ==
  /\ Users \cap Sessions = {} /\ Global \notin Users \cup Sessions
  /\ Absent \notin [tokens : Nat, lastRefill : Nat, notified : BOOLEAN]
  /\ MaxPer \in Nat \ {0} /\ Multiplier \in Nat \ {0} /\ Window \in Nat \ {0}
  /\ ReapIdle \in Nat /\ MaxTime \in Nat \ {0}

VARIABLES now,       (* r.now(); 0 is the zero time.Time                   *)
          reapNow,   (* the instant a Reap in progress read, 0 if none is  *)
          buckets,   (* Router.global, perUser and perSess, as one map     *)
          verdict    (* what allow answered last                           *)

vars == <<now, reapNow, buckets, verdict>>

Buckets == {Global} \cup Users \cup Sessions

(* newBucket's capacity, and a full bucket, in units.                      *)
Cap(b) == IF b = Global THEN MaxPer * Multiplier ELSE MaxPer
Full(b) == Cap(b) * Window

AtMost(m, n) == IF n < m THEN n ELSE m

NewBucket(b) == [tokens |-> Full(b), lastRefill |-> 0, notified |-> FALSE]

(* The bucket allow works on: the one in the map, or a new one.            *)
Lookup(b) == IF buckets[b] = Absent THEN NewBucket(b) ELSE buckets[b]

(* refill: what a bucket holds now.                                        *)
Tokens(b) ==
  LET k == Lookup(b)
  IN  IF k.lastRefill = 0 THEN k.tokens
      ELSE AtMost(Full(b), k.tokens + Cap(b) * (now - k.lastRefill))

(* peek: refilled and stamped, which keeps the bucket from going idle.     *)
Peeked(b) == [tokens |-> Tokens(b), lastRefill |-> now, notified |-> Lookup(b).notified]

(* peek on the bucket that blocks, with markNotified.                      *)
Blocked(b) == [tokens |-> Tokens(b), lastRefill |-> now, notified |-> TRUE]

(* take after a successful peek, with the debounce flag cleared.           *)
Taken(b) == [tokens |-> Tokens(b) - Window, lastRefill |-> now, notified |-> FALSE]

HasToken(b) == Tokens(b) >= Window

Init ==
  /\ now = 1
  /\ reapNow = 0
  /\ buckets = [b \in Buckets |-> Absent]
  /\ verdict = "none"

-----------------------------------------------------------------------------
(* allow, all three buckets pass: take from each.                          *)
Admit(u, s) ==
  /\ \A b \in {Global, u, s} : HasToken(b)
  /\ buckets' = [b \in Buckets |-> IF b \in {Global, u, s} THEN Taken(b) ELSE buckets[b]]
  /\ verdict' = "admitted"
  /\ UNCHANGED <<now, reapNow>>

(* allow, b is the first to block: those asked before it were peeked,      *)
(* those after it only created; the sender is told unless b already did.   *)
Reject(b, passed, unasked) ==
  /\ \A a \in passed : HasToken(a)
  /\ ~HasToken(b)
  /\ buckets' = [a \in Buckets |->
                   IF a = b THEN Blocked(a)
                   ELSE IF a \in passed THEN Peeked(a)
                   ELSE IF a \in unasked THEN Lookup(a)
                   ELSE buckets[a]]
  /\ verdict' = IF Lookup(b).notified THEN "silent" ELSE "notify"
  /\ UNCHANGED <<now, reapNow>>

Allow(u, s) == \/ Admit(u, s)
               \/ Reject(Global, {}, {u, s})
               \/ Reject(u, {Global}, {s})
               \/ Reject(s, {Global, u}, {})

(* Deviation: Reap trusts the caller's idle duration.                      *)
UnclampedIdle == ReapIdle

(* Reap's clamp: an idle bucket must have had time to refill.              *)
EffectiveIdle == IF ReapIdle <= Window THEN Window + 1 ELSE ReapIdle

ReapBegin ==
  /\ reapNow = 0
  /\ reapNow' = now
  /\ UNCHANGED <<now, buckets, verdict>>

(* idleSince, for the two maps; the global bucket is never reaped.         *)
IdleBucket(b) ==
  /\ b # Global
  /\ buckets[b] # Absent
  /\ buckets[b].lastRefill # 0
  /\ reapNow > buckets[b].lastRefill + EffectiveIdle

(* Reap, rlMu section.                                                     *)
ReapBuckets ==
  /\ reapNow # 0
  /\ buckets' = [b \in Buckets |-> IF IdleBucket(b) THEN Absent ELSE buckets[b]]
  /\ reapNow' = 0
  /\ UNCHANGED <<now, verdict>>

Tick ==
  /\ now < MaxTime
  /\ now' = now + 1
  /\ UNCHANGED <<reapNow, buckets, verdict>>

Next == \/ \E u \in Users, s \in Sessions : Allow(u, s)
        \/ ReapBegin
        \/ ReapBuckets
        \/ Tick

Spec == Init /\ [][Next]_vars

-----------------------------------------------------------------------------
BucketOf(b) == [tokens : 0..Full(b), lastRefill : 0..MaxTime, notified : BOOLEAN]

(* Every variable keeps its type, counters within their named bounds.      *)
TypeOK ==
  /\ now \in 1..MaxTime
  /\ reapNow \in 0..MaxTime
  /\ buckets = [b \in Buckets |-> buckets[b]]
  /\ \A b \in Buckets : buckets[b] # Absent => buckets[b] \in BucketOf(b)
  /\ verdict \in {"none", "admitted", "notify", "silent"}

(* A bucket never holds more than its capacity, is stamped in the past,    *)
(* and one that was never asked (zero lastRefill) is full and silent: the  *)
(* facts that make an evicted bucket equal to the one that replaces it.    *)
BucketsSane ==
  /\ reapNow <= now
  /\ \A b \in Buckets :
       buckets[b] # Absent =>
         /\ buckets[b].lastRefill <= now
         /\ buckets[b].lastRefill = 0 => buckets[b] = NewBucket(b)

RL == INSTANCE RateLimitSpec WITH
        level <- [b \in Buckets |-> Tokens(b)],
        told  <- [b \in Buckets |-> Lookup(b).notified /\ ~HasToken(b)]

(* Lazily created buckets, refilled on demand and evicted when idle,       *)
(* answer every message as permanent ones would (Reap's comment: "eviction *)
(* never changes behavior").                                               *)
ImplementsRateLimit == RL!Spec
=============================================================================
