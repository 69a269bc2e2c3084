----------------------------- MODULE SessionLock -----------------------------
(***************************************************************************)
(* What core/router promises about sessions, with no lock table in sight:  *)
(* a turn arrives for a session, waits, runs while no other turn of that   *)
(* session runs, and leaves.  Turns of different sessions are independent. *)
(* RouterLocks (refcounted mutexes that a reaper evicts) implements this.  *)
(***************************************************************************)
CONSTANTS Keys,    (* session keys                                         *)
          Turns,   (* goroutines that call RouteAndHandle                  *)
          None     (* "no session"                                         *)

VARIABLES phase,   (* what each goroutine is doing                         *)
          session  (* the session its turn belongs to                      *)

vars == <<phase, session>>

Init == /\ phase = [t \in Turns |-> "idle"]
        /\ session = [t \in Turns |-> None]

(* A message for session k reaches the router.                             *)
Arrive(t, k) ==
  /\ phase[t] = "idle"
  /\ phase' = [phase EXCEPT ![t] = "waiting"]
  /\ session' = [session EXCEPT ![t] = k]

(* The turn starts: nobody else may be running in the same session.        *)
Enter(t) ==
  /\ phase[t] = "waiting"
  /\ \A u \in Turns : phase[u] = "running" => session[u] # session[t]
  /\ phase' = [phase EXCEPT ![t] = "running"]
  /\ UNCHANGED session

(* The handler returned (or panicked) and the session is free again.       *)
Leave(t) ==
  /\ phase[t] = "running"
  /\ phase' = [phase EXCEPT ![t] = "idle"]
  /\ session' = [session EXCEPT ![t] = None]

Next == \E t \in Turns :
          \/ \E k \in Keys : Arrive(t, k)
          \/ Enter(t)
          \/ Leave(t)

Spec == Init /\ [][Next]_vars
=============================================================================
