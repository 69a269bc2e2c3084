----------------------------- MODULE MCTurnQueue -----------------------------
(* Instances of TurnQueue for TLC.                                         *)
EXTENDS TurnQueue, TLC

CONSTANTS k1, k2, m1, m2, f1, c1

(* Everything in one session.                                              *)
OneKey == [x \in Turns \cup Consoles |-> k1]

Symm == Permutations(Workers)
=============================================================================
