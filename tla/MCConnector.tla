----------------------------- MODULE MCConnector -----------------------------
(***************************************************************************)
(* Three parts of the Octo connector in one run: its connection, its cache *)
(* of names and the sending of a reply.  They share no state that any of    *)
(* them changes, so part says which one a behaviour is about, and the       *)
(* others stay where they began.                                            *)
(***************************************************************************)
EXTENDS Connection, NameCache, ReplySend

VARIABLE part

allVars == <<part, vars, namesVars, replyVars>>

AnyGroup == [t \in Threads |-> CHOOSE g \in Groups : TRUE]

MCInit ==
  /\ part \in {"connection", "names", "reply"}
  /\ Init /\ NamesInit /\ ReplyInit
  /\ part # "names" => sessions = {}
  /\ part # "reply" => text = <<>>

OfConnection(A) == part = "connection" /\ A /\ UNCHANGED <<part, namesVars, replyVars>>
OfNames(A) == part = "names" /\ A /\ UNCHANGED <<part, vars, replyVars>>
OfReply(A) == part = "reply" /\ A /\ UNCHANGED <<part, vars, namesVars>>

MCNext == OfConnection(Next) \/ OfNames(NamesNext) \/ OfReply(ReplyNext)

MCSpec ==
  /\ MCInit /\ [][MCNext]_allVars
  /\ WF_allVars(OfConnection(Looping))
  /\ WF_allVars(OfConnection(Watch))
=============================================================================
