----------------------------- MODULE SerialTurns -----------------------------
(***************************************************************************)
(* What the connector's turn queue promises: the turns of one session are  *)
(* served one at a time, in the order they were queued, and none is served *)
(* once the queue was shut.  A turn at the head may be dropped instead     *)
(* (duplicate, refused by the router).  A crash forgets what was queued.   *)
(***************************************************************************)
EXTENDS Sequences, Naturals

CONSTANTS Keys,    (* session keys                                         *)
          Turns,   (* turns that can be queued                             *)
          None     (* no turn                                              *)

VARIABLES waiting,   (* waiting[k]: turns queued and not yet taken up      *)
          serving,   (* serving[k]: the turn being served, or None         *)
          shut       (* no turn will be served any more                    *)

vars == <<waiting, serving, shut>>

Init == /\ waiting = [k \in Keys |-> <<>>]
        /\ serving = [k \in Keys |-> None]
        /\ shut = FALSE

Queue(k, x) ==
  /\ ~shut
  /\ waiting' = [waiting EXCEPT ![k] = Append(@, x)]
  /\ UNCHANGED <<serving, shut>>

Serve(k) ==
  /\ ~shut /\ serving[k] = None /\ waiting[k] # <<>>
  /\ serving' = [serving EXCEPT ![k] = Head(waiting[k])]
  /\ waiting' = [waiting EXCEPT ![k] = Tail(@)]
  /\ UNCHANGED shut

Drop(k) ==
  /\ ~shut /\ serving[k] = None /\ waiting[k] # <<>>
  /\ waiting' = [waiting EXCEPT ![k] = Tail(@)]
  /\ UNCHANGED <<serving, shut>>

Done(k) ==
  /\ serving[k] # None
  /\ serving' = [serving EXCEPT ![k] = None]
  /\ UNCHANGED <<waiting, shut>>

(* Shutting waits for the turns being served.                              *)
Shut ==
  /\ ~shut
  /\ \A k \in Keys : serving[k] = None
  /\ shut' = TRUE
  /\ UNCHANGED <<waiting, serving>>

Crash ==
  /\ waiting' = [k \in Keys |-> <<>>]
  /\ serving' = [k \in Keys |-> None]
  /\ shut' = FALSE

Next == \/ \E k \in Keys : Serve(k) \/ Drop(k) \/ Done(k) \/ \E x \in Turns : Queue(k, x)
        \/ Shut
        \/ Crash

Spec == Init /\ [][Next]_vars
=============================================================================
