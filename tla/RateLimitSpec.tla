---------------------------- MODULE RateLimitSpec ----------------------------
(***************************************************************************)
(* What core/router's rate limiter promises: every user, every session and *)
(* the daemon as a whole owns an allowance that refills with time; a       *)
(* message is admitted when all three allow it and then costs one from     *)
(* each; the first of them that refuses decides, and the sender is told    *)
(* once per dry spell of that allowance.  No bucket is ever created,       *)
(* touched or evicted here: RateLimiter does all that, invisibly.          *)
(***************************************************************************)
EXTENDS Naturals

CONSTANTS Users, Sessions, Global,
          MaxPer,       (* Config.MaxPerMinute                             *)
          Multiplier,   (* globalRateMultiplier                            *)
          Window,       (* rateLimitWindow, in ticks                       *)
          MaxTime       (* bound: the clock stops here                     *)

VARIABLES now,
          level,    (* allowance left, in Window-ths of a token            *)
          told,     (* the allowance is spent and somebody was told so     *)
          verdict   (* the answer to the last message                      *)

vars == <<now, level, told, verdict>>

Buckets == {Global} \cup Users \cup Sessions
Cap(b) == IF b = Global THEN MaxPer * Multiplier ELSE MaxPer
Full(b) == Cap(b) * Window
AtMost(m, n) == IF n < m THEN n ELSE m

Init == /\ now = 1
        /\ level = [b \in Buckets |-> Full(b)]
        /\ told = [b \in Buckets |-> FALSE]
        /\ verdict = "none"

Admit(u, s) ==
  /\ \A b \in {Global, u, s} : level[b] >= Window
  /\ level' = [b \in Buckets |-> IF b \in {Global, u, s} THEN level[b] - Window ELSE level[b]]
  /\ told' = [b \in Buckets |-> told[b] /\ b \notin {Global, u, s}]
  /\ verdict' = "admitted"
  /\ UNCHANGED now

(* Allowance b refuses; those asked before it, in the set passed, agreed.  *)
Refuse(b, passed) ==
  /\ level[b] < Window
  /\ \A a \in passed : level[a] >= Window
  /\ told' = [told EXCEPT ![b] = TRUE]
  /\ verdict' = IF told[b] THEN "silent" ELSE "notify"
  /\ UNCHANGED <<now, level>>

Message(u, s) == \/ Admit(u, s)
                 \/ Refuse(Global, {})
                 \/ Refuse(u, {Global})
                 \/ Refuse(s, {Global, u})

Tick == /\ now < MaxTime
        /\ now' = now + 1
        /\ level' = [b \in Buckets |-> AtMost(Full(b), level[b] + Cap(b))]
        /\ told' = [b \in Buckets |-> told[b] /\ level'[b] < Window]
        /\ UNCHANGED verdict

Next == (\E u \in Users, s \in Sessions : Message(u, s)) \/ Tick

Spec == Init /\ [][Next]_vars
=============================================================================
