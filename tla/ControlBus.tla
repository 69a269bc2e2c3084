----------------------------- MODULE ControlBus -----------------------------
(***********************************************************************)
(* The server side of the control bus: core/control/server.go,          *)
(* client.go and sink.go, the accept loop of listen.go and the arming of *)
(* the capability gate in controlauth.go.                                *)
(*                                                                       *)
(* A connection is a value of Clients.  It has two goroutines, handleConn *)
(* (stage, handling) and writeLoop (writing), which meet the broadcasting *)
(* turn at the send queue, and Server.mu guards clients and closed.  The  *)
(* program at the other end connects, sends lines, reads or does not      *)
(* read, and disconnects.                                                 *)
(*                                                                        *)
(* Definitions carry the prefix Bus where other components of a run have  *)
(* a definition for the same purpose.                                     *)
(***********************************************************************)
EXTENDS Naturals, Sequences, FiniteSets, SequencesExt

CONSTANTS
  Clients,      \* connections, each used once
  SendQueue,    \* capacity of sendCh (client.go has 256)
  MaxLines      \* bound: lines that the peers send

ASSUME BusAssumption == SendQueue \in Nat \ {0} /\ MaxLines \in Nat

VARIABLES
  gate,       \* "token" or "empty": authToken after configureBusAuth
  peer,       \* [Clients -> {"up", "gone"}]: the program that dials
  stage,      \* [Clients -> stages of a connection]
  clients,    \* Server.clients
  authed,     \* [Clients -> BOOLEAN]
  done,       \* [Clients -> BOOLEAN]: close() has run: done and conn closed
  queue,      \* [Clients -> Seq(messages)]: sendCh
  writing,    \* [Clients -> BOOLEAN]: writeLoop has not returned
  handling,   \* [Clients -> the command in dispatch, or "none"]
  lines,      \* 0..MaxLines: lines read, for the bound
  listener,   \* "open" or "closed"
  server,     \* "serving", "closing" (flag set, clients to close), "closed"
  toClose,    \* the clients that Close has still to close
  step,       \* position of the turn in its Script
  audience,   \* the clients that the current Broadcast has still to reach
  sending,    \* a Broadcast is between its snapshot and its last client
  first,      \* [Clients -> the first event the stream owes a client] (ghost)
  got,        \* [Clients -> the events written to its socket] (ghost)
  shed        \* [Clients -> the events that found its queue full] (ghost)

peerVars == <<gate, peer>>
connVars == <<stage, clients, authed, done, handling, lines>>
sendVars == <<queue, writing>>
serverVars == <<listener, server, toClose>>
castVars == <<step, audience, sending>>
streamVars == <<first, got, shed>>
busVars == <<peerVars, connVars, sendVars, serverVars, castVars, streamVars>>

-----------------------------------------------------------------------------
(* What a turn broadcasts: the projection of agent events on the bus.       *)

OnEvent(kind, usage) ==
  CASE kind \in {"sessionStarted", "thinking", "toolResult"} -> <<"session.activity">>
    [] kind = "textDelta" -> <<"session.text">>
    [] kind = "toolUse"   -> <<"session.tool">>
    [] kind = "turnDone"  -> (IF usage THEN <<"session.usage">> ELSE << >>) \o <<"session.activity">>
    [] kind = "error"     -> <<"error">>
    [] OTHER              -> << >>

OnUserMessage == <<"session.user_message">>
OnReply == <<"session.reply">>

(* A slice of a turn: enough broadcasts for one to follow another.          *)
Script == OnUserMessage \o OnEvent("textDelta", FALSE)

Commands == {"open", "privileged"}
Answer == 0                       \* a response or an error
Message == {Answer} \cup 1..Len(Script)   \* or an event: the position in the Script
NotYet == Len(Script) + 1

BusTypeOK ==
  /\ gate \in {"token", "empty"}
  /\ peer \in [Clients -> {"up", "gone"}]
  /\ stage \in [Clients -> {"backlog", "accepted", "reading", "ended"}]
  /\ clients \subseteq Clients /\ toClose \subseteq Clients /\ audience \subseteq Clients
  /\ authed \in [Clients -> BOOLEAN] /\ done \in [Clients -> BOOLEAN]
  /\ writing \in [Clients -> BOOLEAN] /\ sending \in BOOLEAN
  /\ \A c \in Clients : queue[c] \in Seq(Message) /\ Len(queue[c]) <= SendQueue
  /\ handling \in [Clients -> Commands \cup {"none"}]
  /\ lines \in 0..MaxLines
  /\ listener \in {"open", "closed"} /\ server \in {"serving", "closing", "closed"}
  /\ step \in 0..Len(Script) /\ first \in [Clients -> 1..NotYet]

(* configureBusAuth runs before Serve: without -control-auth-stdin the      *)
(* token is empty; a launcher that asked for a token and sent none ends the *)
(* daemon before it listens.                                                *)
ConfigureBusAuth == gate \in {"token", "empty"}

BusInit ==
  /\ ConfigureBusAuth
  /\ peer = [c \in Clients |-> "up"]
  /\ stage = [c \in Clients |-> "backlog"]
  /\ clients = {} /\ toClose = {} /\ audience = {}
  /\ authed = [c \in Clients |-> FALSE] /\ done = [c \in Clients |-> FALSE]
  /\ queue = [c \in Clients |-> << >>] /\ writing = [c \in Clients |-> FALSE]
  /\ handling = [c \in Clients |-> "none"] /\ lines = 0
  /\ listener = "open" /\ server = "serving"
  /\ step = 0 /\ sending = FALSE
  /\ first = [c \in Clients |-> NotYet]
  /\ got = [c \in Clients |-> {}] /\ shed = [c \in Clients |-> {}]

-----------------------------------------------------------------------------
(* The send queue.                                                          *)

(* enqueue never blocks: with room the line is queued, unless the client is *)
(* closing and select takes that case; when full it is dropped.  What is    *)
(* queued when writeLoop has returned is never sent, and left out.          *)
Enqueued(c, m) ==
  IF ~writing[c] THEN {queue[c]} ELSE
  (IF Len(queue[c]) < SendQueue THEN {Append(queue[c], m)} ELSE {})
    \cup (IF done[c] \/ Len(queue[c]) = SendQueue THEN {queue[c]} ELSE {})

WriteTo(c, m) == \E q \in Enqueued(c, m) : queue' = [queue EXCEPT ![c] = q]

(* writeLoop writes one line; the peer has to read for that.                *)
WriteLine(c) ==
  /\ writing[c] /\ queue[c] # << >> /\ ~done[c] /\ peer[c] = "up"
  /\ queue' = [queue EXCEPT ![c] = Tail(@)]
  /\ got' = [got EXCEPT ![c] = @ \cup ({Head(queue[c])} \ {Answer})]
  /\ UNCHANGED <<peerVars, connVars, serverVars, castVars, writing, first, shed>>

(* writeLoop returns when done is closed, or when a write fails.  A failed  *)
(* write does not close the connection: that is left to the reader.  The     *)
(* stream is over, and what became of its events is forgotten.              *)
WriterStops(c) ==
  /\ writing[c] /\ (done[c] \/ (peer[c] = "gone" /\ queue[c] # << >>))
  /\ writing' = [writing EXCEPT ![c] = FALSE]
  /\ queue' = [queue EXCEPT ![c] = << >>]
  /\ got' = [got EXCEPT ![c] = {}] /\ shed' = [shed EXCEPT ![c] = {}]
  /\ UNCHANGED <<peerVars, connVars, serverVars, castVars, first>>

-----------------------------------------------------------------------------
(* The peer and the accept loop.  A peer that has not dialled yet and one   *)
(* that waits in the backlog of the socket are the same to the server.      *)

Disconnect(c) ==
  /\ peer[c] = "up"
  /\ peer' = [peer EXCEPT ![c] = "gone"]
  /\ UNCHANGED <<gate, connVars, sendVars, serverVars, castVars, streamVars>>

Accepting == \E c \in Clients : stage[c] = "accepted"

(* The backlog is served in order, and connections are named in that order.  *)
Foremost(c) == c = CHOOSE d \in Clients : stage[d] = "backlog"

(* peerCredListener.Accept drops a connection of another uid and goes on.   *)
Accept(c) ==
  /\ listener = "open" /\ stage[c] = "backlog" /\ ~Accepting /\ Foremost(c)
  /\ \/ /\ stage' = [stage EXCEPT ![c] = "accepted"]
        /\ writing' = [writing EXCEPT ![c] = TRUE]
        /\ UNCHANGED done
     \/ /\ stage' = [stage EXCEPT ![c] = "ended"]
        /\ done' = [done EXCEPT ![c] = TRUE]
        /\ UNCHANGED writing
  /\ UNCHANGED <<peerVars, clients, authed, handling, lines, queue, serverVars, castVars, streamVars>>

Gated == gate # "empty"

(* Serve puts the client in the map, whatever closed says by now, and       *)
(* starts handleConn.  With no token the stream is open to it from here on.  *)
Register(c) ==
  /\ stage[c] = "accepted"
  /\ clients' = clients \cup {c}
  /\ stage' = [stage EXCEPT ![c] = "reading"]
  /\ first' = [first EXCEPT ![c] = IF Gated THEN @ ELSE step + 1]
  /\ UNCHANGED <<peerVars, authed, done, handling, lines, sendVars, serverVars, castVars, got, shed>>

-----------------------------------------------------------------------------
(* handleConn and dispatch.                                                 *)

Reads(c) ==
  /\ stage[c] = "reading" /\ handling[c] = "none" /\ ~done[c]
  /\ peer[c] = "up" /\ lines < MaxLines
  /\ lines' = lines + 1

(* A line that does not decode is answered, one that is no command ignored. *)
ReadGarbage(c) ==
  /\ Reads(c)
  /\ WriteTo(c, Answer) \/ UNCHANGED queue
  /\ UNCHANGED <<peerVars, stage, clients, authed, done, handling, writing, serverVars, castVars, streamVars>>

(* authenticate: the right token, if one is set at all.  A Broadcast that is  *)
(* still to reach the client finds it authenticated.                        *)
Authenticate(c) ==
  /\ \/ /\ gate = "token" /\ authed' = [authed EXCEPT ![c] = TRUE]
        /\ first' = [first EXCEPT ![c] =
             IF authed[c] THEN @ ELSE IF sending /\ c \in audience THEN step ELSE step + 1]
     \/ UNCHANGED <<authed, first>>
  /\ WriteTo(c, Answer)
  /\ UNCHANGED handling

(* A privileged command on an unauthenticated connection is refused.        *)
Refuse(c) ==
  /\ ~authed[c]
  /\ WriteTo(c, Answer)
  /\ UNCHANGED <<authed, handling, first>>

Handle(c, cmd) ==
  /\ cmd = "privileged" => authed[c]
  /\ handling' = [handling EXCEPT ![c] = cmd]
  /\ UNCHANGED <<authed, queue, first>>

(* dispatch: auth is the server's own, the rest goes to the handler.        *)
Dispatch(c) ==
  /\ Reads(c)
  /\ \/ Authenticate(c)
     \/ Refuse(c)
     \/ \E cmd \in Commands : Handle(c, cmd)
  /\ UNCHANGED <<peerVars, stage, clients, done, writing, serverVars, castVars, got, shed>>

(* The handler returned: its result, or its error.                          *)
Handled(c) ==
  /\ handling[c] \in Commands
  /\ handling' = [handling EXCEPT ![c] = "none"]
  /\ WriteTo(c, Answer)
  /\ UNCHANGED <<peerVars, stage, clients, authed, done, lines, writing, serverVars, castVars, streamVars>>

ScanEnds(c) ==
  /\ stage[c] = "reading" /\ handling[c] = "none"
  /\ \/ (peer[c] = "gone" \/ done[c]) /\ UNCHANGED <<queue, lines>>
     \/ Reads(c) /\ WriteTo(c, Answer)

(* Deviation: the deferred part without its close().                        *)
LeavesOpen(c) ==
  /\ ScanEnds(c)
  /\ stage' = [stage EXCEPT ![c] = "ended"]
  /\ clients' = clients \ {c}
  /\ UNCHANGED <<peerVars, authed, done, handling, writing, serverVars, castVars, streamVars>>

(* Scan returned false: end of file, a closed connection, or a frame over   *)
(* MaxFrameBytes, which is answered.  The deferred part drops the client    *)
(* from the map and closes it.                                              *)
Leaves(c) ==
  /\ ScanEnds(c)
  /\ stage' = [stage EXCEPT ![c] = "ended"]
  /\ clients' = clients \ {c}
  /\ done' = [done EXCEPT ![c] = TRUE]
  /\ UNCHANGED <<peerVars, authed, handling, writing, serverVars, castVars, streamVars>>

-----------------------------------------------------------------------------
(* Broadcast, on the goroutine of the turn.                                 *)

BroadcastBegins ==
  /\ step < Len(Script) /\ ~sending
  /\ step' = step + 1
  /\ audience' = clients
  /\ sending' = (clients # {})
  /\ UNCHANGED <<peerVars, connVars, sendVars, serverVars, streamVars>>

SendEvent(c) ==
  /\ WriteTo(c, step)
  /\ shed' = [shed EXCEPT ![c] = IF Len(queue[c]) = SendQueue THEN @ \cup {step} ELSE @]

(* The token was looked at with the clients, authed is looked at now.        *)
(* Deviation: it is not looked at at all.                                   *)
BroadcastUngated(c) ==
  /\ sending /\ c \in audience /\ SendEvent(c)
  /\ audience' = audience \ {c} /\ sending' = (audience # {c})
  /\ UNCHANGED <<peerVars, connVars, serverVars, step, writing, first, got>>

BroadcastTo(c) ==
  /\ sending /\ c \in audience
  /\ IF Gated /\ ~authed[c] THEN UNCHANGED <<queue, shed>> ELSE SendEvent(c)
  /\ audience' = audience \ {c}
  /\ sending' = (audience # {c})
  /\ UNCHANGED <<peerVars, connVars, serverVars, step, writing, first, got>>

-----------------------------------------------------------------------------
(* The cleanup of serveControlBus: Server.Close, then the listener.         *)

CloseFlag ==
  /\ server = "serving"
  /\ server' = "closing"
  /\ toClose' = clients
  /\ clients' = {}
  /\ UNCHANGED <<peerVars, stage, authed, done, handling, lines, sendVars, listener, castVars, streamVars>>

CloseClients ==
  /\ toClose # {}
  /\ toClose' = {}
  /\ done' = [c \in Clients |-> done[c] \/ c \in toClose]
  /\ UNCHANGED <<peerVars, stage, clients, authed, handling, lines, sendVars, listener, server, castVars, streamVars>>

(* Whoever waits in the backlog of the socket is refused.                   *)
CloseListener ==
  /\ server = "closing" /\ toClose = {}
  /\ server' = "closed"
  /\ listener' = "closed"
  /\ stage' = [c \in Clients |-> IF stage[c] = "backlog" THEN "ended" ELSE stage[c]]
  /\ UNCHANGED <<peerVars, clients, authed, done, handling, lines, sendVars, toClose, castVars, streamVars>>

-----------------------------------------------------------------------------
(* What the server's goroutines do by themselves on behalf of c.            *)
Serves(c) ==
  \/ Accept(c) \/ Register(c) \/ Handled(c)
  \/ (peer[c] = "gone" \/ done[c]) /\ Leaves(c)

BusNext ==
  \/ BroadcastBegins \/ CloseFlag \/ CloseClients \/ CloseListener
  \/ \E c \in Clients :
       \/ Disconnect(c) \/ Accept(c) \/ Register(c)
       \/ ReadGarbage(c) \/ Dispatch(c) \/ Handled(c)
       \/ Leaves(c) \/ WriteLine(c) \/ WriterStops(c)
       \/ BroadcastTo(c)

(* A live server: while one of its goroutines can run, one does.  Lines and  *)
(* broadcasts are bounded and each of these steps uses one up, or happens   *)
(* once, so that this much fairness makes each of them happen.  Nothing is  *)
(* assumed of the peers: they need not read, nor write, nor leave.          *)
BusRuns ==
  \/ CloseClients \/ CloseListener
  \/ \E c \in Clients : Serves(c) \/ WriterStops(c) \/ BroadcastTo(c)

BusSpec == BusInit /\ [][BusNext]_busVars /\ WF_busVars(BusRuns)

-----------------------------------------------------------------------------
(* The event stream of a connection (server.go:144-243, client.go:33-71).     *)
(* It begins where the connection has shown the token, or, if none is set,    *)
(* where it is in the map: nothing broadcast before that reaches it.  From     *)
(* there on, for as long as it is connected and its peer reads, an event is   *)
(* missing only because the queue was full, none comes twice, and they come   *)
(* in the order in which the turn broadcast them.                           *)
Queued(c) == Range(queue[c]) \ {Answer}

StreamHolds ==
  \A c \in Clients :
    /\ \A n \in got[c] \cup Queued(c) : first[c] <= n
    /\ \A n \in got[c], m \in Queued(c) : n < m
    /\ \A i, j \in DOMAIN queue[c] :
         i < j /\ queue[c][i] # Answer /\ queue[c][j] # Answer => queue[c][i] < queue[c][j]
    /\ c \in clients /\ writing[c] /\ ~done[c] =>
         \A n \in first[c]..step :
           n \in got[c] \cup Queued(c) \cup shed[c] \/ (n = step /\ sending /\ c \in audience)

(* What BusRuns waits for, each step by its guard: one that queues a line   *)
(* can be taken only if enqueue comes back.                                 *)
Queues(c, m) == Enqueued(c, m) # {}

BusCanRun ==
  \/ toClose # {} \/ server = "closing"
  \/ \E c \in Clients :
       \/ listener = "open" /\ stage[c] = "backlog" /\ ~Accepting
       \/ stage[c] = "accepted"
       \/ handling[c] \in Commands /\ Queues(c, Answer)
       \/ (peer[c] = "gone" \/ done[c]) /\ stage[c] = "reading" /\ handling[c] = "none"
       \/ writing[c] /\ (done[c] \/ (peer[c] = "gone" /\ queue[c] # << >>))
       \/ sending /\ c \in audience /\ ((Gated /\ ~authed[c]) \/ Queues(c, step))

(* When no goroutine of the server can run, which the finite number of      *)
(* their steps makes every behaviour come to, then no broadcast waits ("one  *)
(* slow client cannot stall the broadcaster (and thus the agent turn)",     *)
(* client.go:34-36) although no peer ever reads, and a connection that its   *)
(* peer or the server has ended is forgotten: its two goroutines have       *)
(* returned and the map does not keep it (server.go:113-119).               *)
BusSettles ==
  /\ BusTypeOK
  /\ ~BusCanRun =>
       /\ ~sending
       /\ \A c \in Clients : (peer[c] = "gone" \/ done[c]) =>
            stage[c] = "ended" /\ ~writing[c] /\ c \notin clients
=============================================================================
