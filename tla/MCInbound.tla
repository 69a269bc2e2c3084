------------------------------ MODULE MCInbound ------------------------------
(***********************************************************************)
(* The connector's way in, in one run: what becomes of a frame, the turn  *)
(* queue behind it, and the frames about GROUP.md.  What they share is    *)
(* that a frame is one of them; part says which one a behaviour is about, *)
(* and the others stay where they began.                                  *)
(***********************************************************************)
EXTENDS MCTurnQueue, Inbound, GroupDoc

VARIABLE part

allVars == <<part, vars, inboundVars, docVars>>

MCInit ==
  /\ part \in {"frame", "queue", "doc"}
  /\ Init /\ InboundInit /\ DocInit
  /\ part # "frame" => setup = CHOOSE s \in Setups : TRUE

OfFrame(A) == part = "frame" /\ A /\ UNCHANGED <<part, vars, docVars>>
OfQueue(A) == part = "queue" /\ A /\ UNCHANGED <<part, inboundVars, docVars>>
OfDoc(A) == part = "doc" /\ A /\ UNCHANGED <<part, vars, inboundVars>>

MCNext == OfFrame(InboundNext) \/ OfQueue(Next) \/ OfDoc(DocNext)

MCSpec == MCInit /\ [][MCNext]_allVars

(* A frame ends where it must, and GROUP.md as the frames about it say.     *)
InboundSafe == FateFits /\ DocTypeOK /\ StaleHasCause
=============================================================================
