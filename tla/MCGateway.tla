------------------------------ MODULE MCGateway ------------------------------
(***********************************************************************)
(* The three parts a message passes on its way to an answer, in one run:   *)
(* the rate limiter, the circuit breaker among concurrent turns, and one    *)
(* session's turns.  Each is its own state machine and calls the next       *)
(* without sharing state with it, so part says which of them a behaviour is *)
(* about and the others stay as they began.                                *)
(***********************************************************************)
EXTENDS RateLimiter, Breaker, Turn

VARIABLE part

restOfRate == <<breakerVars, turnVars>>
restOfBreaker == <<vars, turnVars>>
restOfTurn == <<vars, breakerVars>>
gatewayVars == <<part, vars, breakerVars, turnVars>>

MCInit ==
  /\ Init /\ BreakerInit /\ TurnInit
  /\ \/ part = "turn"
     \/ /\ part \in {"rate", "breaker"}
        /\ guarded /\ driver = "claude" /\ resumes = [d \in Drivers |-> NoId]

OfBreaker(A) == part = "breaker" /\ A /\ UNCHANGED <<part, restOfBreaker>>
OfTurn(A) == part = "turn" /\ A /\ UNCHANGED <<part, restOfTurn>>

MCNext ==
  \/ part = "rate" /\ Next /\ UNCHANGED <<part, restOfRate>>
  \/ OfBreaker(BreakerNext)
  \/ OfTurn(TurnNext)

(* BreakerFairness and TurnFairness, each for its part.                    *)
MCFairness ==
  /\ WF_gatewayVars(OfBreaker(CooldownTick))
  /\ \A t \in Turns : WF_gatewayVars(OfBreaker(TurnStep(t)))
  /\ WF_gatewayVars(OfTurn(TurnRuns)) /\ WF_gatewayVars(OfTurn(IdleExpires))
  /\ WF_gatewayVars(OfTurn(StdoutEvent \/ StderrEvent \/ ExitError \/ Killed))

MCSpec == MCInit /\ [][MCNext]_gatewayVars /\ MCFairness
=============================================================================
