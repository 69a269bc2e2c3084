------------------------------- MODULE Breaker -------------------------------
(***************************************************************************)
(* gateway's circuit breaker (breaker.go) among concurrent turns.          *)
(*                                                                         *)
(* The router serialises the turns of one session only, so turns of        *)
(* different sessions ask allow and feed onResult in any order.  A turn is *)
(* the part of runTurn the breaker sees: it composes, asks allow, spawns   *)
(* the driver or is short-circuited, reports, replies.  A panic at any of  *)
(* these points is recovered by recoverTurn, which reports as well.        *)
(* openedAt is kept as the time the cooldown still has to run.             *)
(***************************************************************************)
EXTENDS Naturals

CONSTANTS Turns,      (* the goroutines that run turns                     *)
          Threshold,  (* WithCircuitBreaker's threshold                    *)
          Cooldown    (* WithCircuitBreaker's cooldown, in ticks           *)

ASSUME BreakerAssumption ==
  /\ Threshold \in Nat \ {0} /\ Cooldown \in Nat \ {0}

VARIABLES state,        (* breaker.state                                   *)
          consecFails,  (* breaker.consecFails                             *)
          coolingFor,   (* openedAt + cooldown - now(), 0 when elapsed     *)
          turn          (* turn[t]: where t is in runTurn                  *)

breakerVars == <<state, consecFails, coolingFor, turn>>

Phases == {"none", "composing", "running", "probing", "shorted", "replying"}

BreakerInit ==
  /\ state = "closed"
  /\ consecFails = 0
  /\ coolingFor = 0
  /\ turn = [t \in Turns |-> "none"]

-----------------------------------------------------------------------------
(* onResult, success or non-transient: any such outcome resets.            *)
Reset ==
  /\ state' = "closed"
  /\ consecFails' = 0
  /\ UNCHANGED coolingFor

(* onResult, transient failure: from half-open re-open; otherwise count,   *)
(* and open (or, already open, re-stamp openedAt) at the threshold.        *)
Trip ==
  IF state = "halfOpen"
    THEN /\ state' = "open" /\ coolingFor' = Cooldown
         /\ UNCHANGED consecFails
    ELSE /\ consecFails' = consecFails + 1
         /\ IF consecFails' >= Threshold
              THEN state' = "open" /\ coolingFor' = Cooldown
              ELSE UNCHANGED <<state, coolingFor>>

MoveTo(t, phase) == turn' = [turn EXCEPT ![t] = phase]

(* runTurn starts: admitTurn and composeTurn.                              *)
Begin(t) ==
  /\ turn[t] = "none"
  /\ MoveTo(t, "composing")
  /\ UNCHANGED <<state, consecFails, coolingFor>>

(* A slash command, or a failure while composing: allow is never asked.    *)
Conclude(t) ==
  /\ turn[t] = "composing"
  /\ MoveTo(t, "none")
  /\ UNCHANGED <<state, consecFails, coolingFor>>

(* allow, one critical section: closed admits, open admits one probe once  *)
(* the cooldown elapsed, otherwise the turn is short-circuited.            *)
AllowTurn(t) ==
  /\ turn[t] = "composing"
  /\ \/ state = "closed" /\ MoveTo(t, "running") /\ UNCHANGED state
     \/ state = "open" /\ coolingFor = 0 /\ MoveTo(t, "probing") /\ state' = "halfOpen"
     \/ state = "open" /\ coolingFor > 0 /\ MoveTo(t, "shorted") /\ UNCHANGED state
     \/ state = "halfOpen" /\ MoveTo(t, "shorted") /\ UNCHANGED state
  /\ UNCHANGED <<consecFails, coolingFor>>

Spawned(t) == turn[t] \in {"running", "probing"}

(* The driver failed to start, ended without an error, or with one that    *)
(* says nothing about the upstream.                                        *)
ReportHealthy(t) ==
  /\ Spawned(t)
  /\ Reset
  /\ MoveTo(t, "replying")

(* A transient terminal error, or the idle timeout.                        *)
ReportTransient(t) ==
  /\ Spawned(t)
  /\ Trip
  /\ MoveTo(t, "replying")

(* Deviation: the breaker's own short circuit is stamped as a failure.     *)
ReplyShortedStamping(t) ==
  /\ turn[t] = "shorted"
  /\ state' = "open" /\ coolingFor' = Cooldown
  /\ MoveTo(t, "replying")
  /\ UNCHANGED consecFails

(* deliverTurn skips onResult for a short-circuited turn.                  *)
ReplyShorted(t) ==
  /\ turn[t] = "shorted"
  /\ MoveTo(t, "replying")
  /\ UNCHANGED <<state, consecFails, coolingFor>>

Finish(t) ==
  /\ turn[t] = "replying"
  /\ MoveTo(t, "none")
  /\ UNCHANGED <<state, consecFails, coolingFor>>

(* Deviation: recoverTurn leaves the breaker alone.                        *)
PanicSilent(t) ==
  /\ turn[t] # "none"
  /\ MoveTo(t, "none")
  /\ UNCHANGED <<state, consecFails, coolingFor>>

(* recoverTurn: whatever the turn had reached, the breaker is reset.       *)
Panic(t) ==
  /\ turn[t] # "none"
  /\ Reset
  /\ MoveTo(t, "none")

CooldownTick ==
  /\ coolingFor > 0
  /\ coolingFor' = coolingFor - 1
  /\ UNCHANGED <<state, consecFails, turn>>

TurnStep(t) == \/ Conclude(t) \/ AllowTurn(t) \/ ReportHealthy(t) \/ ReportTransient(t)
           \/ ReplyShorted(t) \/ Finish(t) \/ Panic(t)

BreakerNext == (\E t \in Turns : Begin(t) \/ TurnStep(t)) \/ CooldownTick

BreakerSpec == BreakerInit /\ [][BreakerNext]_breakerVars

(* Time passes, and a turn that started ends: the idle guard kills a       *)
(* silent driver.  Nobody promises that another turn starts.               *)
BreakerFairness == WF_breakerVars(CooldownTick) /\ \A t \in Turns : WF_breakerVars(TurnStep(t))

BreakerFairSpec == BreakerSpec /\ BreakerFairness

-----------------------------------------------------------------------------
(* Every variable keeps its type, counters within their named bounds.      *)
BreakerTypeOK ==
  /\ state \in {"closed", "open", "halfOpen"}
  /\ consecFails \in Nat
  /\ coolingFor \in 0..Cooldown
  /\ turn \in [Turns -> Phases]

(* recoverTurn's comment: no "half-open probe that never reported a        *)
(* result".  While the breaker is half-open its probe is still in flight,  *)
(* so its report, or its panic, is still to come: the breaker cannot be    *)
(* stuck answering busy.                                                   *)
HalfOpenHasProbe == state = "halfOpen" => \E t \in Turns : turn[t] = "probing"

(* Only an uninterrupted run of upstream failures mutes the bot: whenever  *)
(* the breaker is not closed the counter is at the threshold, also after   *)
(* failed probes and late reports.                                         *)
OpenMeansThreshold == state # "closed" <=> consecFails >= Threshold

(* An open breaker's cooldown runs out, however many turns it refuses      *)
(* meanwhile: what a refused turn ends with is not another failure.        *)
CooldownEnds == (state = "open") ~> (state # "open" \/ coolingFor = 0)

(* The breaker is never stuck answering busy, nor muted by anything but    *)
(* failures of the upstream.                                               *)
BreakerSane == HalfOpenHasProbe /\ OpenMeansThreshold
=============================================================================
