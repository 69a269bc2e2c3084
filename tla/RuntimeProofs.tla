--------------------------- MODULE RuntimeProofs ---------------------------
(***************************************************************************)
(* The daemon's runtime, for any roster, any number of connections, sends, *)
(* fires and lines: what reaches a connection of the bus, what a drain waits *)
(* for, and which bots the registry lists.                                 *)
(***************************************************************************)
EXTENDS ControlBus, Daemon, TLAPS

-----------------------------------------------------------------------------
(* The control bus, for any number of connections and lines and a queue of *)
(* any capacity.                                                           *)
(*                                                                         *)
(* Coming to rest.  What is carried along: a broadcast under way has       *)
(* somebody left to reach; a connection that ended is out of the map, and  *)
(* closed unless it never had a writer; nobody who waits to be accepted is *)
(* in the map or has one; and a closed listener has nobody waiting.        *)
QueuesInv == /\ queue \in [Clients -> Seq(Message)]
             /\ \A c \in Clients : Len(queue[c]) <= SendQueue

PlainTypes ==
  /\ gate \in {"token", "empty"}
  /\ peer \in [Clients -> {"up", "gone"}]
  /\ stage \in [Clients -> {"backlog", "accepted", "reading", "ended"}]
  /\ clients \subseteq Clients /\ toClose \subseteq Clients /\ audience \subseteq Clients
  /\ handling \in [Clients -> Commands \cup {"none"}]
  /\ listener \in {"open", "closed"} /\ server \in {"serving", "closing", "closed"}

FlagTypes ==
  /\ authed \in [Clients -> BOOLEAN] /\ done \in [Clients -> BOOLEAN]
  /\ writing \in [Clients -> BOOLEAN] /\ sending \in BOOLEAN

CountTypes == lines \in 0..MaxLines /\ step \in 0..Len(Script)

FirstTypes ==
  /\ first \in [Clients -> 1..NotYet]
  /\ sending = TRUE => 1 <= step

EndsInv ==
  /\ sending = TRUE => audience # {}
  /\ \A c \in Clients :
       /\ stage[c] = "ended" => c \notin clients /\ (done[c] = TRUE \/ writing[c] = FALSE)
       /\ stage[c] = "backlog" => writing[c] = FALSE
       /\ stage[c] \in {"backlog", "accepted"} => c \notin clients
       /\ listener = "closed" => stage[c] # "backlog"

RestInv == PlainTypes /\ FlagTypes /\ CountTypes /\ FirstTypes /\ QueuesInv /\ EndsInv

LEMMA ScriptLength == Len(Script) \in Nat
<1> DEFINE S == {"session.user_message", "session.text"}
<1>1. OnUserMessage = <<"session.user_message">> /\ OnEvent("textDelta", FALSE) = <<"session.text">>
  BY DEF OnUserMessage, OnEvent
<1>2. <<"session.user_message">> \in Seq(S) /\ <<"session.text">> \in Seq(S)
  OBVIOUS
<1> HIDE DEF S
<1>3. \A q, r \in Seq(S) : q \o r \in Seq(S)
  OBVIOUS
<1>4. OnUserMessage \o OnEvent("textDelta", FALSE) \in Seq(S)
  BY <1>1, <1>2, <1>3
<1>5. Script \in Seq(S)
  BY <1>4 DEF Script
<1> QED
  BY <1>5

LEMMA Written ==
  ASSUME QueuesInv, NEW c \in Clients, NEW m \in Message, WriteTo(c, m)
  PROVE  QueuesInv'
<1>1. PICK q \in Enqueued(c, m) : queue' = [queue EXCEPT ![c] = q]
  BY DEF WriteTo
<1>2. q = queue[c] \/ (q = Append(queue[c], m) /\ Len(queue[c]) < SendQueue)
  BY <1>1 DEF Enqueued
<1>3. /\ queue[c] \in Seq(Message) /\ Len(queue[c]) \in Nat /\ Len(queue[c]) <= SendQueue
      /\ Append(queue[c], m) \in Seq(Message) /\ Len(Append(queue[c], m)) = Len(queue[c]) + 1
  BY DEF QueuesInv
<1>4. q \in Seq(Message) /\ Len(q) <= SendQueue
  BY <1>2, <1>3, BusAssumption
<1> QED
  BY <1>1, <1>4 DEF QueuesInv

LEMMA StepRests ==
  ASSUME RestInv, [BusNext]_busVars
  PROVE  RestInv'
<1> USE DEF RestInv
<1>a. ASSUME NEW c \in Clients, Leaves(c) PROVE RestInv'
  <2>1. QueuesInv' /\ CountTypes'
    <3>1. CASE UNCHANGED <<queue, lines>>
      <4>1. step' = step
        BY <1>a DEF Leaves, castVars
      <4> QED
        BY <3>1, <4>1 DEF QueuesInv, CountTypes
    <3>2. CASE Reads(c) /\ WriteTo(c, Answer)
      <4>1. step' = step
        BY <1>a DEF Leaves, castVars
      <4> QED
        BY <3>2, <4>1, Written, BusAssumption DEF Reads, CountTypes, Message
    <3> QED
      BY <1>a, <3>1, <3>2 DEF Leaves, ScanEnds
  <2>2. /\ stage' = [stage EXCEPT ![c] = "ended"] /\ clients' = clients \ {c}
        /\ done' = [done EXCEPT ![c] = TRUE]
        /\ UNCHANGED <<gate, peer, authed, handling, writing, listener, server, toClose, audience, sending>>
    BY <1>a DEF Leaves, peerVars, serverVars, castVars
  <2>3. PlainTypes'
    BY <2>2 DEF PlainTypes
  <2>4. FlagTypes'
    BY <2>2 DEF FlagTypes
  <2>5. EndsInv'
    BY <2>2 DEF EndsInv, PlainTypes, FlagTypes
  <2>6. FirstTypes'
    BY <1>a DEF Leaves, castVars, streamVars, FirstTypes
  <2> QED
    BY <2>1, <2>3, <2>4, <2>5, <2>6
<1>b. ASSUME NEW c \in Clients, ReadGarbage(c) \/ Dispatch(c) \/ Handled(c) PROVE RestInv'
  <2>1. QueuesInv'
    <3>1. UNCHANGED queue \/ WriteTo(c, Answer)
      BY <1>b DEF ReadGarbage, Dispatch, Handled, Authenticate, Refuse, Handle
    <3> QED
      BY <3>1, Written DEF QueuesInv, Message
  <2>2. CountTypes'
    <3>1. step' = step /\ (lines' = lines \/ (lines < MaxLines /\ lines' = lines + 1))
      BY <1>b DEF ReadGarbage, Dispatch, Handled, Reads, castVars
    <3> QED
      BY <3>1, BusAssumption DEF CountTypes
  <2>3. UNCHANGED <<gate, peer, stage, clients, done, writing, listener, server, toClose, audience, sending>>
    BY <1>b DEF ReadGarbage, Dispatch, Handled, peerVars, serverVars, castVars
  <2>4. handling' \in [Clients -> Commands \cup {"none"}]
    BY <1>b DEF ReadGarbage, Dispatch, Handled, Authenticate, Refuse, Handle, PlainTypes
  <2>5. authed' \in [Clients -> BOOLEAN]
    <3>1. authed' = authed \/ authed' = [authed EXCEPT ![c] = TRUE]
      BY <1>b DEF ReadGarbage, Dispatch, Handled, Authenticate, Refuse, Handle
    <3> QED
      BY <3>1 DEF FlagTypes
  <2>6. PlainTypes' /\ FlagTypes'
    BY <2>3, <2>4, <2>5 DEF PlainTypes, FlagTypes
  <2>7. EndsInv'
    BY <2>3 DEF EndsInv
  <2>8. FirstTypes'
    <3>1. UNCHANGED <<step, sending>>
      BY <1>b DEF ReadGarbage, Dispatch, Handled, castVars
    <3>2. CASE UNCHANGED first
      BY <3>1, <3>2 DEF FirstTypes
    <3>3. CASE first' = [first EXCEPT ![c] = IF authed[c] THEN @ ELSE
                 IF sending /\ c \in audience THEN step ELSE step + 1]
      <4>1. PICK n : first' = [first EXCEPT ![c] = n] /\ (n = first[c] \/ (sending = TRUE /\ n = step) \/ n = step + 1)
        BY <3>3
      <4>2. n \in 1..NotYet
        BY <4>1, ScriptLength DEF FirstTypes, CountTypes, NotYet
      <4> QED
        BY <3>1, <4>1, <4>2 DEF FirstTypes
    <3> QED
      BY <1>b, <3>2, <3>3 DEF ReadGarbage, Dispatch, Handled, Authenticate, Refuse, Handle, streamVars
  <2> QED
    BY <2>1, <2>2, <2>6, <2>7, <2>8
<1>c. ASSUME NEW c \in Clients, Disconnect(c) \/ Accept(c) \/ Register(c) PROVE RestInv'
  <2>1. UNCHANGED <<gate, authed, handling, lines, queue, step, audience, sending, listener, server, toClose>>
    BY <1>c DEF Disconnect, Accept, Register, peerVars, connVars, sendVars, serverVars, castVars
  <2>2. QueuesInv' /\ CountTypes'
    BY <2>1 DEF QueuesInv, CountTypes
  <2>3. PlainTypes'
    BY <1>c, <2>1 DEF PlainTypes, Disconnect, Accept, Register, peerVars, connVars
  <2>4. FlagTypes'
    BY <1>c, <2>1 DEF FlagTypes, Disconnect, Accept, Register, connVars, sendVars
  <2>5. EndsInv'
    <3>1. CASE Disconnect(c)
      BY <2>1, <3>1 DEF EndsInv, Disconnect, connVars, sendVars
    <3>2. CASE Accept(c)
      BY <2>1, <3>2 DEF EndsInv, Accept, PlainTypes, FlagTypes
    <3>3. CASE Register(c)
      BY <2>1, <3>3 DEF EndsInv, Register, PlainTypes, FlagTypes, sendVars
    <3> QED
      BY <1>c, <3>1, <3>2, <3>3
  <2>6. FirstTypes'
    <3>1. PICK n : /\ UNCHANGED first \/ first' = [first EXCEPT ![c] = n]
                   /\ n = first[c] \/ n = step + 1
      BY <1>c DEF Disconnect, Accept, Register, streamVars
    <3>2. n \in 1..NotYet
      BY <3>1, ScriptLength DEF FirstTypes, CountTypes, NotYet
    <3> QED
      BY <2>1, <3>1, <3>2 DEF FirstTypes
  <2> QED
    BY <2>2, <2>3, <2>4, <2>5, <2>6
<1>d. ASSUME NEW c \in Clients, WriteLine(c) \/ WriterStops(c) PROVE RestInv'
  <2>1. /\ UNCHANGED <<gate, peer, stage, clients, authed, done, handling, lines, listener, server,
                       toClose, step, audience, sending>>
        /\ writing' = writing \/ writing' = [writing EXCEPT ![c] = FALSE]
    BY <1>d DEF WriteLine, WriterStops, peerVars, connVars, serverVars, castVars
  <2>2. PlainTypes' /\ CountTypes'
    BY <2>1 DEF PlainTypes, CountTypes
  <2>3. FlagTypes'
    BY <2>1 DEF FlagTypes
  <2>4. EndsInv'
    BY <2>1 DEF EndsInv, FlagTypes
  <2>5. QueuesInv'
    <3>1. PICK q : /\ queue' = [queue EXCEPT ![c] = q]
                   /\ q = << >> \/ (q = Tail(queue[c]) /\ queue[c] # << >>)
      BY <1>d DEF WriteLine, WriterStops
    <3>2. queue[c] \in Seq(Message) /\ Len(queue[c]) \in Nat /\ Len(queue[c]) <= SendQueue
      BY DEF QueuesInv
    <3>3. << >> \in Seq(Message) /\ Len(<< >>) = 0
      OBVIOUS
    <3>4. queue[c] # << >> => Tail(queue[c]) \in Seq(Message) /\ Len(Tail(queue[c])) = Len(queue[c]) - 1
      BY <3>2
    <3>5. q \in Seq(Message) /\ Len(q) <= SendQueue
      <4>1. CASE q = << >>
        <5>1. q \in Seq(Message) /\ Len(q) = 0
          BY <3>3, <4>1
        <5> QED
          BY <5>1, BusAssumption
      <4>2. CASE q = Tail(queue[c]) /\ queue[c] # << >>
        <5>1. q \in Seq(Message) /\ Len(q) = Len(queue[c]) - 1
          BY <3>4, <4>2
        <5> QED
          BY <3>2, <5>1, BusAssumption
      <4> QED
        BY <3>1, <4>1, <4>2
    <3> QED
      BY <3>1, <3>5 DEF QueuesInv
  <2>6. FirstTypes'
    BY <1>d DEF WriteLine, WriterStops, castVars, FirstTypes
  <2> QED
    BY <2>2, <2>3, <2>4, <2>5, <2>6
<1>e. ASSUME NEW c \in Clients, BroadcastTo(c) PROVE RestInv'
  <2>1. /\ UNCHANGED <<gate, peer, stage, clients, authed, done, handling, lines, listener, server, toClose,
                       step, writing>>
        /\ c \in audience /\ audience' = audience \ {c} /\ sending' = (audience # {c})
    BY <1>e DEF BroadcastTo, peerVars, connVars, serverVars
  <2>2. QueuesInv'
    <3>1. UNCHANGED queue \/ WriteTo(c, step)
      BY <1>e DEF BroadcastTo, SendEvent
    <3>2. sending = TRUE
      BY <1>e DEF BroadcastTo, FlagTypes
    <3>3. step \in Message
      BY <3>2, ScriptLength DEF CountTypes, FirstTypes, Message
    <3> QED
      BY <3>1, <3>3, Written DEF QueuesInv
  <2>3. PlainTypes' /\ CountTypes'
    BY <2>1 DEF PlainTypes, CountTypes
  <2>4. FlagTypes'
    BY <2>1 DEF FlagTypes
  <2>5. EndsInv'
    BY <2>1 DEF EndsInv
  <2>6. FirstTypes'
    <3>1. sending = TRUE /\ UNCHANGED <<first, step>>
      BY <1>e DEF BroadcastTo, FlagTypes
    <3> QED
      BY <3>1 DEF FirstTypes
  <2> QED
    BY <2>2, <2>3, <2>4, <2>5, <2>6
<1>f. CASE BroadcastBegins
  <2>1. /\ UNCHANGED <<gate, peer, stage, clients, authed, done, handling, lines, listener, server, toClose,
                       queue, writing>>
        /\ step < Len(Script) /\ step' = step + 1 /\ audience' = clients /\ sending' = (clients # {})
    BY <1>f DEF BroadcastBegins, peerVars, connVars, sendVars, serverVars
  <2>2. PlainTypes' /\ QueuesInv'
    BY <2>1 DEF PlainTypes, QueuesInv
  <2>3. CountTypes'
    BY <2>1, ScriptLength DEF CountTypes
  <2>4. FlagTypes'
    BY <2>1 DEF FlagTypes
  <2>5. EndsInv'
    BY <2>1 DEF EndsInv
  <2>6. FirstTypes'
    <3>1. UNCHANGED first
      BY <1>f DEF BroadcastBegins, streamVars
    <3> QED
      BY <2>1, <3>1 DEF FirstTypes, CountTypes
  <2> QED
    BY <2>2, <2>3, <2>4, <2>5, <2>6
<1>g. CASE CloseFlag \/ CloseClients \/ CloseListener
  <2>1. UNCHANGED <<gate, peer, authed, handling, lines, queue, writing, step, audience, sending>>
    BY <1>g DEF CloseFlag, CloseClients, CloseListener, peerVars, sendVars, castVars
  <2>2. QueuesInv' /\ CountTypes'
    BY <2>1 DEF QueuesInv, CountTypes
  <2>3. PlainTypes'
    BY <1>g, <2>1 DEF CloseFlag, CloseClients, CloseListener, PlainTypes
  <2>4. FlagTypes'
    BY <1>g, <2>1 DEF CloseFlag, CloseClients, CloseListener, FlagTypes
  <2>5. EndsInv'
    <3>1. CASE CloseFlag
      BY <2>1, <3>1 DEF CloseFlag, EndsInv
    <3>2. CASE CloseClients
      <4>1. \A c \in Clients : done[c] = TRUE => done'[c] = TRUE
        BY <3>2 DEF CloseClients
      <4> QED
        BY <2>1, <3>2, <4>1 DEF CloseClients, EndsInv
    <3>3. CASE CloseListener
      BY <2>1, <3>3 DEF CloseListener, EndsInv, PlainTypes
    <3> QED
      BY <1>g, <3>1, <3>2, <3>3
  <2>6. FirstTypes'
    <3>1. UNCHANGED first
      BY <1>g DEF CloseFlag, CloseClients, CloseListener, streamVars
    <3> QED
      BY <2>1, <3>1 DEF FirstTypes
  <2> QED
    BY <2>2, <2>3, <2>4, <2>5, <2>6
<1>h. CASE UNCHANGED busVars
  BY <1>h DEF busVars, peerVars, connVars, sendVars, serverVars, castVars, streamVars, FirstTypes,
       PlainTypes, FlagTypes, CountTypes, QueuesInv, EndsInv
<1> QED
  BY <1>a, <1>b, <1>c, <1>d, <1>e, <1>f, <1>g, <1>h DEF BusNext

(* With nobody left to run, nobody waits.                                  *)
LEMMA AtRest == RestInv => BusSettles
<1> SUFFICES ASSUME RestInv PROVE BusSettles
  OBVIOUS
<1> USE DEF RestInv
<1>1. BusTypeOK
  BY DEF BusTypeOK, PlainTypes, FlagTypes, CountTypes, FirstTypes, QueuesInv
<1>2. ASSUME NEW c \in Clients, NEW m PROVE Queues(c, m)
  <2>1. Len(queue[c]) < SendQueue \/ Len(queue[c]) = SendQueue
    BY BusAssumption DEF QueuesInv
  <2> QED
    BY <2>1 DEF Queues, Enqueued
<1>3. ASSUME ~BusCanRun PROVE ~sending
  <2>1. ASSUME sending PROVE FALSE
    <3>1. PICK c \in Clients : c \in audience
      BY <2>1 DEF EndsInv, PlainTypes, FlagTypes
    <3> QED
      BY <1>2, <1>3, <2>1, <3>1 DEF BusCanRun
  <2> QED
    BY <2>1
<1>4. ASSUME ~BusCanRun, NEW c \in Clients, peer[c] = "gone" \/ done[c]
      PROVE  stage[c] = "ended" /\ ~writing[c] /\ c \notin clients
  <2>1. handling[c] = "none"
    BY <1>2, <1>4 DEF BusCanRun, PlainTypes
  <2>2. stage[c] # "accepted" /\ stage[c] # "reading"
    BY <1>4, <2>1 DEF BusCanRun
  <2>3. \A d \in Clients : stage[d] # "accepted"
    BY <1>4 DEF BusCanRun
  <2>4. stage[c] # "backlog"
    BY <1>4, <2>3 DEF BusCanRun, Accepting, EndsInv, PlainTypes
  <2>5. stage[c] = "ended"
    BY <2>2, <2>4 DEF PlainTypes
  <2>6. ~writing[c]
    <3>1. done[c] => ~writing[c]
      BY <1>4 DEF BusCanRun
    <3>2. writing[c] = FALSE \/ done[c] = TRUE
      BY <2>5 DEF EndsInv
    <3> QED
      BY <3>1, <3>2
  <2> QED
    BY <2>5, <2>6 DEF EndsInv
<1> QED
  BY <1>1, <1>3, <1>4 DEF BusSettles

LEMMA RestsFirst == BusInit => RestInv
<1>1. << >> \in Seq(Message) /\ Len(<< >>) = 0 /\ 0 <= SendQueue /\ 0 \in 0..MaxLines /\ 0 \in 0..Len(Script)
  BY BusAssumption, ScriptLength
<1>2. BusInit => QueuesInv /\ CountTypes
  BY <1>1 DEF BusInit, QueuesInv, CountTypes
<1>3. BusInit => PlainTypes
  BY DEF BusInit, ConfigureBusAuth, PlainTypes
<1>4. BusInit => FlagTypes
  <2>1. BusInit => /\ authed = [c \in Clients |-> FALSE] /\ done = [c \in Clients |-> FALSE]
                   /\ writing = [c \in Clients |-> FALSE] /\ sending = FALSE
    BY DEF BusInit
  <2> QED
    BY <2>1 DEF FlagTypes
<1>5. BusInit => EndsInv
  BY DEF BusInit, EndsInv
<1>6. BusInit => FirstTypes
  <2>1. NotYet \in 1..NotYet
    BY ScriptLength DEF NotYet
  <2>2. BusInit => sending = FALSE /\ first = [c \in Clients |-> NotYet]
    BY DEF BusInit
  <2> QED
    BY <2>1, <2>2 DEF FirstTypes
<1> QED
  BY <1>2, <1>3, <1>4, <1>5, <1>6 DEF RestInv

(* With any number of connections, a queue of any length and peers that    *)
(* never read: a state in which no goroutine of the server can run has no  *)
(* broadcast waiting, and no connection that its peer or the server ended  *)
(* is remembered (client.go:34-36, server.go:113-119).                     *)
THEOREM BusComesToRest == BusSpec => []BusSettles
<1>1. BusInit => RestInv
  BY RestsFirst
<1>2. RestInv /\ [BusNext]_busVars => RestInv'
  BY StepRests
<1>3. RestInv => BusSettles
  BY AtRest
<1> QED
  BY <1>1, <1>2, <1>3, PTL DEF BusSpec

-----------------------------------------------------------------------------
(* The event stream of a connection.  Carried along with RestInv: where the *)
(* stream of a connection begins (nowhere, until it is open to it; at the   *)
(* latest with the event in its turn to be sent), that what was sent lies   *)
(* from there to the last event broadcast, in order, and that nothing is    *)
(* missing from it.                                                        *)

Events == 1..Len(Script)
Due(c) == sending = TRUE /\ c \in audience
Shown(c) == gate = "empty" \/ authed[c] = TRUE
Live(c) == c \in clients /\ writing[c] = TRUE /\ done[c] = FALSE

Rising(q) ==
  \A i, j \in DOMAIN q : i < j /\ q[i] # Answer /\ q[j] # Answer => q[i] < q[j]

StreamTypes ==
  /\ got \in [Clients -> SUBSET Events]
  /\ shed \in [Clients -> SUBSET Events]

Opens(c) ==
  /\ ~Shown(c) => first[c] = NotYet
  /\ stage[c] \in {"backlog", "accepted"} =>
       first[c] = NotYet /\ ~(authed[c] = TRUE) /\ c \notin clients /\ c \notin audience
  /\ Shown(c) /\ c \in clients => first[c] <= step + 1
  /\ Shown(c) /\ Due(c) => first[c] <= step

Carries(c) ==
  /\ \A n \in got[c] \cup Queued(c) : first[c] <= n /\ n <= step /\ (Due(c) => n < step)
  /\ \A n \in got[c], m \in Queued(c) : n < m
  /\ Rising(queue[c])

Whole(c) ==
  Live(c) => \A n \in first[c]..step :
               n \in got[c] \cup Queued(c) \cup shed[c] \/ (n = step /\ Due(c))

StreamInv ==
  /\ RestInv
  /\ StreamTypes
  /\ \A c \in Clients : Opens(c) /\ Carries(c) /\ Whole(c)

LEMMA Appended ==
  ASSUME NEW q \in Seq(Message), NEW m \in Message, Rising(q),
         m = Answer \/ \A x \in Range(q) \ {Answer} : x < m
  PROVE  Rising(Append(q, m)) /\ Range(Append(q, m)) = Range(q) \cup {m}
<1> DEFINE r == Append(q, m)
<1>1. DOMAIN r = 1..Len(q) + 1 /\ DOMAIN q = 1..Len(q) /\ Len(q) \in Nat
  OBVIOUS
<1>2. \A i \in 1..Len(q) : r[i] = q[i]
  OBVIOUS
<1>3. r[Len(q) + 1] = m
  OBVIOUS
<1> HIDE DEF r
<1>4. \A i \in DOMAIN r : i \in 1..Len(q) \/ i = Len(q) + 1
  BY <1>1
<1>5. ASSUME NEW i \in DOMAIN r, NEW j \in DOMAIN r, i < j, r[i] # Answer, r[j] # Answer
      PROVE  r[i] < r[j]
  <2>1. i \in 1..Len(q) /\ r[i] = q[i]
    BY <1>1, <1>2, <1>5
  <2>2. CASE j \in 1..Len(q)
    <3>1. r[j] = q[j]
      BY <1>2, <2>2
    <3> QED
      BY <1>1, <1>5, <2>1, <2>2, <3>1 DEF Rising
  <2>3. CASE j = Len(q) + 1
    <3>1. q[i] \in Range(q) \ {Answer}
      BY <1>1, <1>5, <2>1 DEF Range
    <3> QED
      BY <1>3, <1>5, <2>1, <2>3, <3>1
  <2> QED
    BY <1>4, <2>2, <2>3
<1>6. Range(r) = Range(q) \cup {m}
  <2>1. \A x \in Range(r) : x \in Range(q) \cup {m}
    BY <1>1, <1>2, <1>3, <1>4 DEF Range
  <2>2. \A x \in Range(q) : x \in Range(r)
    BY <1>1, <1>2 DEF Range
  <2>3. m \in Range(r)
    <3>1. Len(q) + 1 \in DOMAIN r
      BY <1>1
    <3> QED
      BY <1>3, <3>1 DEF Range
  <2> QED
    BY <2>1, <2>2, <2>3
<1> QED
  BY <1>5, <1>6 DEF Rising, r

LEMMA Taken ==
  ASSUME NEW q \in Seq(Message), q # << >>, Rising(q)
  PROVE  /\ Rising(Tail(q))
         /\ Head(q) \in Message
         /\ Range(q) = Range(Tail(q)) \cup {Head(q)}
         /\ Head(q) # Answer => \A x \in Range(Tail(q)) \ {Answer} : Head(q) < x
<1> DEFINE r == Tail(q)
<1>1. /\ DOMAIN q = 1..Len(q) /\ Len(q) \in Nat /\ Len(q) # 0
      /\ DOMAIN r = 1..Len(q) - 1 /\ Head(q) = q[1] /\ Head(q) \in Message
  OBVIOUS
<1>2. \A i \in 1..Len(q) - 1 : r[i] = q[i + 1]
  OBVIOUS
<1> HIDE DEF r
<1>3. \A i \in DOMAIN r : i + 1 \in DOMAIN q /\ r[i] = q[i + 1] /\ 1 < i + 1 /\ i \in Int
  BY <1>1, <1>2
<1>4. \A i \in DOMAIN q : i = 1 \/ (i - 1 \in DOMAIN r /\ i = (i - 1) + 1)
  BY <1>1
<1>5. 1 \in DOMAIN q
  BY <1>1
<1>6. ASSUME NEW i \in DOMAIN r, NEW j \in DOMAIN r, i < j, r[i] # Answer, r[j] # Answer
      PROVE  r[i] < r[j]
  <2>1. i + 1 < j + 1
    BY <1>3, <1>6
  <2> QED
    BY <1>3, <1>6, <2>1 DEF Rising
<1>7. Range(q) = Range(r) \cup {Head(q)}
  <2>1. \A x \in Range(r) : x \in Range(q)
    BY <1>3 DEF Range
  <2>2. Head(q) \in Range(q)
    BY <1>1, <1>5 DEF Range
  <2>3. ASSUME NEW i \in DOMAIN q PROVE q[i] \in Range(r) \cup {Head(q)}
    <3>1. CASE i = 1
      BY <1>1, <3>1
    <3>2. CASE i - 1 \in DOMAIN r /\ i = (i - 1) + 1
      BY <1>3, <3>2 DEF Range
    <3> QED
      BY <1>4, <3>1, <3>2
  <2> QED
    BY <2>1, <2>2, <2>3 DEF Range
<1>8. ASSUME Head(q) # Answer, NEW i \in DOMAIN r, r[i] # Answer PROVE Head(q) < r[i]
  <2>1. i + 1 \in DOMAIN q /\ r[i] = q[i + 1] /\ 1 < i + 1
    BY <1>3
  <2> QED
    BY <1>1, <1>5, <1>8, <2>1 DEF Rising
<1> QED
  BY <1>1, <1>6, <1>7, <1>8 DEF Rising, Range, r

(* A step after which c's stream is what it was, however many answers went  *)
(* in between, and nobody else owes it anything more.                      *)
LEMMA StreamKept ==
  ASSUME NEW c \in Clients, Opens(c), Carries(c), Whole(c),
         gate' = gate, step' = step,
         first'[c] = first[c], got'[c] = got[c], shed'[c] = shed[c], authed'[c] = authed[c],
         Range(queue'[c]) \ {Answer} = Range(queue[c]) \ {Answer},
         Rising(queue'[c]),
         Due(c)' <=> Due(c),
         c \in audience' => c \in audience,
         stage'[c] \in {"backlog", "accepted"} => stage[c] \in {"backlog", "accepted"},
         c \in clients' => c \in clients,
         Live(c)' => Live(c)
  PROVE  Opens(c)' /\ Carries(c)' /\ Whole(c)'
<1>1. Queued(c)' = Queued(c)
  BY DEF Queued
<1>2. Shown(c)' <=> Shown(c)
  BY DEF Shown
<1>3. Opens(c)'
  BY <1>2 DEF Opens
<1>4. Carries(c)'
  BY <1>1 DEF Carries
<1>5. Whole(c)'
  BY <1>1 DEF Whole
<1> QED
  BY <1>3, <1>4, <1>5

LEMMA AnswerQueued ==
  ASSUME StreamInv, NEW d \in Clients, WriteTo(d, Answer), NEW c \in Clients
  PROVE  /\ Range(queue'[c]) \ {Answer} = Range(queue[c]) \ {Answer}
         /\ Rising(queue'[c])
<1>1. PICK q \in Enqueued(d, Answer) : queue' = [queue EXCEPT ![d] = q]
  BY DEF WriteTo
<1>2. q = queue[d] \/ q = Append(queue[d], Answer)
  BY <1>1 DEF Enqueued
<1>3. /\ queue \in [Clients -> Seq(Message)] /\ Rising(queue[c]) /\ Rising(queue[d])
      /\ queue[d] \in Seq(Message) /\ Answer \in Message
  BY DEF StreamInv, RestInv, QueuesInv, Carries, Message
<1>4. Rising(Append(queue[d], Answer)) /\ Range(Append(queue[d], Answer)) = Range(queue[d]) \cup {Answer}
  BY <1>3, Appended
<1>5. Rising(q) /\ Range(q) \ {Answer} = Range(queue[d]) \ {Answer}
  BY <1>2, <1>3, <1>4
<1>6. queue'[c] = IF c = d THEN q ELSE queue[c]
  BY <1>1, <1>3
<1> QED
  BY <1>3, <1>5, <1>6

(* The connection is in the map.  Nothing was sent to it, since its stream  *)
(* had not begun; with no token it begins with the next event.             *)
LEMMA RegisterStreams ==
  ASSUME StreamInv, RestInv', NEW d \in Clients, Register(d), NEW c \in Clients
  PROVE  Opens(c)' /\ Carries(c)' /\ Whole(c)'
<1>1. /\ UNCHANGED <<gate, step, sending, audience, authed, done, writing, queue, got, shed>>
      /\ stage[d] = "accepted" /\ clients' = clients \cup {d}
      /\ stage' = [stage EXCEPT ![d] = "reading"]
      /\ first' = [first EXCEPT ![d] = IF gate # "empty" THEN first[d] ELSE step + 1]
  BY DEF Register, Gated, peerVars, sendVars, serverVars, castVars
<1>2. Opens(c) /\ Carries(c) /\ Whole(c) /\ Opens(d) /\ Carries(d)
  BY DEF StreamInv
<1>3. /\ first \in [Clients -> 1..NotYet] /\ stage \in [Clients -> {"backlog", "accepted", "reading", "ended"}]
      /\ step \in 0..Len(Script) /\ Len(Script) \in Nat /\ NotYet = Len(Script) + 1
  BY ScriptLength DEF StreamInv, RestInv, FirstTypes, PlainTypes, CountTypes, NotYet
<1>4. Due(c)' <=> Due(c)
  BY <1>1 DEF Due
<1>5. CASE c # d
  <2>1. first'[c] = first[c] /\ stage'[c] = stage[c] /\ (c \in clients' => c \in clients)
    BY <1>1, <1>3, <1>5
  <2>2. Live(c)' => Live(c)
    BY <1>1, <2>1 DEF Live
  <2>3. Rising(queue'[c]) /\ Range(queue'[c]) \ {Answer} = Range(queue[c]) \ {Answer}
    BY <1>1, <1>2 DEF Carries
  <2> QED
    BY <1>1, <1>2, <1>4, <2>1, <2>2, <2>3, StreamKept
<1>6. CASE c = d
  <2>1. first[d] = NotYet /\ ~(authed[d] = TRUE) /\ d \notin audience
    BY <1>1, <1>2 DEF Opens
  <2>2. \A n \in got[d] \cup Queued(d) : FALSE
    <3>1. \A n \in got[d] \cup Queued(d) : NotYet <= n /\ n <= step
      BY <1>2, <2>1 DEF Carries
    <3>2. \A n \in got[d] \cup Queued(d) : n \in Int
      <4>1. queue[d] \in Seq(Message) /\ got[d] \in SUBSET Events
        BY DEF StreamInv, RestInv, QueuesInv, StreamTypes
      <4>2. \A x \in Range(queue[d]) : x \in Message
        BY <4>1 DEF Range
      <4> QED
        BY <1>3, <4>1, <4>2 DEF Queued, Message, Answer, Events
    <3> QED
      BY <1>3, <3>1, <3>2
  <2>3. /\ Queued(d)' = Queued(d) /\ got'[d] = got[d] /\ Rising(queue'[d])
    BY <1>1, <1>2 DEF Queued, Carries
  <2>4. Shown(d)' <=> gate = "empty"
    BY <1>1, <2>1 DEF Shown
  <2>5. Opens(d)'
    <3>1. gate = "empty" => first'[d] = step + 1
      BY <1>1, <1>3
    <3>2. gate # "empty" => first'[d] = NotYet
      BY <1>1, <1>3, <2>1
    <3>3. stage'[d] = "reading"
      BY <1>1, <1>3
    <3>4. ~Due(d)'
      BY <1>1, <2>1 DEF Due
    <3>5. (step + 1)' = step + 1
      BY <1>1
    <3> QED
      BY <1>3, <2>4, <3>1, <3>2, <3>3, <3>4, <3>5 DEF Opens
  <2>6. Carries(d)'
    BY <2>2, <2>3 DEF Carries
  <2>7. Whole(d)'
    <3>1. first'[d] = step + 1 \/ first'[d] = Len(Script) + 1
      BY <1>1, <1>3, <2>1
    <3>2. \A n \in first'[d]..step : FALSE
      BY <1>3, <3>1
    <3> QED
      BY <1>1, <3>2 DEF Whole
  <2> QED
    BY <1>6, <2>5, <2>6, <2>7
<1> QED
  BY <1>5, <1>6

(* A line was answered, or left without an answer, and nothing else of the  *)
(* streams changed.                                                        *)
LEMMA AnswerStreams ==
  ASSUME StreamInv, NEW d \in Clients, UNCHANGED queue \/ WriteTo(d, Answer),
         UNCHANGED <<gate, step, sending, audience, writing, first, got, shed>>,
         authed' = authed,
         \A c \in Clients :
           /\ stage'[c] \in {"backlog", "accepted"} => stage[c] \in {"backlog", "accepted"}
           /\ c \in clients' => c \in clients
           /\ done[c] = TRUE => done'[c] = TRUE,
         done \in [Clients -> BOOLEAN], NEW c \in Clients
  PROVE  Opens(c)' /\ Carries(c)' /\ Whole(c)'
<1>1. Opens(c) /\ Carries(c) /\ Whole(c)
  BY DEF StreamInv
<1>2. Range(queue'[c]) \ {Answer} = Range(queue[c]) \ {Answer} /\ Rising(queue'[c])
  <2>1. CASE UNCHANGED queue
    BY <1>1, <2>1 DEF Carries
  <2>2. CASE WriteTo(d, Answer)
    BY <2>2, AnswerQueued
  <2> QED
    BY <2>1, <2>2
<1>3. Due(c)' <=> Due(c)
  BY DEF Due
<1>4. Live(c)' => Live(c)
  BY DEF Live
<1> QED
  BY <1>1, <1>2, <1>3, <1>4, StreamKept

(* The token was shown: the stream begins here, with the event on its way   *)
(* if the broadcast has yet to come to this connection.                    *)
LEMMA DispatchStreams ==
  ASSUME StreamInv, RestInv', NEW d \in Clients, Dispatch(d), NEW c \in Clients
  PROVE  Opens(c)' /\ Carries(c)' /\ Whole(c)'
<1>1. /\ UNCHANGED <<gate, step, sending, audience, stage, clients, done, writing, got, shed>>
      /\ stage[d] = "reading"
  BY DEF Dispatch, Reads, peerVars, serverVars, castVars
<1>2. Opens(c) /\ Carries(c) /\ Whole(c) /\ Opens(d) /\ Carries(d)
  BY DEF StreamInv
<1>3. /\ first \in [Clients -> 1..NotYet] /\ authed \in [Clients -> BOOLEAN]
      /\ done \in [Clients -> BOOLEAN]
      /\ step \in 0..Len(Script) /\ Len(Script) \in Nat /\ NotYet = Len(Script) + 1
  BY ScriptLength DEF StreamInv, RestInv, FirstTypes, FlagTypes, CountTypes, NotYet
<1>4. UNCHANGED queue \/ WriteTo(d, Answer)
  BY DEF Dispatch, Authenticate, Refuse, Handle
<1>5. CASE UNCHANGED <<authed, first>>
  BY <1>1, <1>3, <1>4, <1>5, AnswerStreams
<1>6. CASE /\ gate = "token" /\ authed' = [authed EXCEPT ![d] = TRUE]
           /\ first' = [first EXCEPT ![d] =
                IF authed[d] THEN @ ELSE IF sending /\ d \in audience THEN step ELSE step + 1]
  <2>1. Due(c)' <=> Due(c)
    BY <1>1 DEF Due
  <2>2. Range(queue'[c]) \ {Answer} = Range(queue[c]) \ {Answer} /\ Rising(queue'[c])
    <3>1. CASE UNCHANGED queue
      BY <1>2, <3>1 DEF Carries
    <3>2. CASE WriteTo(d, Answer)
      BY <3>2, AnswerQueued
    <3> QED
      BY <1>4, <3>1, <3>2
  <2>3. CASE c # d \/ authed[d] = TRUE
    <3>1. first'[c] = first[c] /\ authed'[c] = authed[c]
      BY <1>3, <1>6, <2>3
    <3>2. Live(c)' => Live(c)
      BY <1>1 DEF Live
    <3> QED
      BY <1>1, <1>2, <2>1, <2>2, <3>1, <3>2, StreamKept
  <2>4. CASE c = d /\ authed[d] = FALSE
    <3>1. ~Shown(d) /\ first[d] = NotYet
      BY <1>2, <1>6, <2>4 DEF Shown, Opens
    <3>2. \A n \in got[d] \cup Queued(d) : FALSE
      <4>1. \A n \in got[d] \cup Queued(d) : NotYet <= n /\ n <= step
        BY <1>2, <3>1 DEF Carries
      <4>2. \A n \in got[d] \cup Queued(d) : n \in Int
        <5>1. queue[d] \in Seq(Message) /\ got[d] \in SUBSET Events
          BY DEF StreamInv, RestInv, QueuesInv, StreamTypes
        <5>2. \A x \in Range(queue[d]) : x \in Message
          BY <5>1 DEF Range
        <5> QED
          BY <1>3, <5>1, <5>2 DEF Queued, Message, Answer, Events
      <4> QED
        BY <1>3, <4>1, <4>2
    <3>3. /\ Due(d) => first'[d] = step
          /\ ~Due(d) => first'[d] = step + 1
      <4>1. sending = TRUE \/ sending = FALSE
        BY DEF StreamInv, RestInv, FlagTypes
      <4> QED
        BY <1>3, <1>6, <2>4, <4>1 DEF Due
    <3>4. Opens(d)'
      <4>1. Shown(d)'
        BY <1>3, <1>6 DEF Shown
      <4>2. stage'[d] \notin {"backlog", "accepted"}
        BY <1>1
      <4>3. (step + 1)' = step + 1 /\ step' = step /\ (Due(d)' <=> Due(d))
        BY <1>1, <2>1, <2>4
      <4> QED
        BY <1>3, <3>3, <4>1, <4>2, <4>3 DEF Opens
    <3>5. Carries(d)'
      <4>1. Queued(d)' = Queued(d) /\ got'[d] = got[d]
        BY <1>1, <2>2, <2>4 DEF Queued
      <4> QED
        BY <2>2, <2>4, <3>2, <4>1 DEF Carries
    <3>6. Whole(d)'
      <4>1. \A n \in first'[d]..step : n = step /\ Due(d)
        BY <1>3, <3>3
      <4> QED
        BY <1>1, <2>1, <2>4, <4>1 DEF Whole
    <3> QED
      BY <2>4, <3>4, <3>5, <3>6
  <2> QED
    BY <1>3, <2>3, <2>4
<1> QED
  BY <1>5, <1>6 DEF Dispatch, Authenticate, Refuse, Handle

(* A broadcast begins: its event is due to everybody in the map.            *)
LEMMA BeginStreams ==
  ASSUME StreamInv, RestInv', BroadcastBegins, NEW c \in Clients
  PROVE  Opens(c)' /\ Carries(c)' /\ Whole(c)'
<1>1. /\ UNCHANGED <<gate, stage, clients, authed, done, writing, queue, first, got, shed>>
      /\ sending = FALSE /\ step' = step + 1
      /\ audience' = clients /\ sending' = (clients # {})
  BY DEF BroadcastBegins, peerVars, connVars, sendVars, streamVars, StreamInv, RestInv, FlagTypes
<1>2. Opens(c) /\ Carries(c) /\ Whole(c)
  BY DEF StreamInv
<1>3. /\ first[c] \in Int /\ step \in Int /\ \A n \in got[c] \cup Queued(c) : n \in Int
  <2>1. first \in [Clients -> 1..NotYet] /\ step \in 0..Len(Script) /\ NotYet \in Int /\ Len(Script) \in Int
    BY ScriptLength DEF StreamInv, RestInv, FirstTypes, CountTypes, NotYet
  <2>2. queue[c] \in Seq(Message) /\ got[c] \in SUBSET Events
    BY DEF StreamInv, RestInv, QueuesInv, StreamTypes
  <2>3. \A x \in Range(queue[c]) : x \in Message
    BY <2>2 DEF Range
  <2> QED
    BY <2>1, <2>2, <2>3 DEF Queued, Message, Answer, Events
<1>4. Queued(c)' = Queued(c) /\ (Shown(c)' <=> Shown(c)) /\ (Live(c)' <=> Live(c))
  BY <1>1 DEF Queued, Shown, Live
<1>5. (Due(c)' <=> c \in clients) /\ ~Due(c)
  BY <1>1 DEF Due
<1>6. Opens(c)'
  BY <1>1, <1>2, <1>3, <1>4, <1>5 DEF Opens
<1>7. Carries(c)'
  BY <1>1, <1>2, <1>3, <1>4 DEF Carries
<1>8. Whole(c)'
  <2>1. ASSUME Live(c), NEW n \in first[c]..step + 1
        PROVE  n \in got[c] \cup Queued(c) \cup shed[c] \/ (n = step + 1 /\ c \in clients)
    <3>1. n \in first[c]..step \/ n = step + 1
      BY <1>3
    <3> QED
      BY <1>2, <1>5, <2>1, <3>1 DEF Whole, Live
  <2> QED
    BY <1>1, <1>4, <1>5, <2>1 DEF Whole
<1> QED
  BY <1>6, <1>7, <1>8

(* The broadcast comes to d: the event is queued, or found no room, or the  *)
(* stream of d has not begun, or has ended.                                *)
LEMMA BroadcastStreams ==
  ASSUME StreamInv, RestInv', NEW d \in Clients, BroadcastTo(d), NEW c \in Clients
  PROVE  Opens(c)' /\ Carries(c)' /\ Whole(c)'
<1>1. /\ UNCHANGED <<gate, stage, clients, authed, done, writing, step, first, got>>
      /\ sending = TRUE /\ d \in audience
      /\ audience' = audience \ {d} /\ sending' = (audience # {d})
  BY DEF BroadcastTo, peerVars, connVars, serverVars, StreamInv, RestInv, FlagTypes
<1>2. Opens(c) /\ Carries(c) /\ Whole(c) /\ Opens(d) /\ Carries(d) /\ Whole(d)
  BY DEF StreamInv
<1>3. /\ queue \in [Clients -> Seq(Message)] /\ authed \in [Clients -> BOOLEAN]
      /\ shed \in [Clients -> SUBSET Events]
      /\ writing \in [Clients -> BOOLEAN] /\ done \in [Clients -> BOOLEAN]
  BY DEF StreamInv, RestInv, QueuesInv, FlagTypes, StreamTypes
<1>4. /\ step \in Int /\ step # Answer /\ step \in Message
  BY <1>1, ScriptLength DEF StreamInv, RestInv, CountTypes, FirstTypes, Message, Answer
<1>5. (c # d => (Due(c)' <=> Due(c))) /\ ~Due(d)' /\ Due(d)
  BY <1>1 DEF Due
<1>6. CASE Gated /\ ~authed[d] /\ UNCHANGED <<queue, shed>>
  <2>1. ~Shown(d) /\ first[d] = Len(Script) + 1
    BY <1>2, <1>3, <1>6 DEF Gated, Shown, Opens, NotYet
  <2>2. CASE c # d
    <3>1. (Live(c)' <=> Live(c)) /\ Rising(queue'[c])
      BY <1>1, <1>2, <1>6 DEF Live, Carries
    <3> QED
      BY <1>1, <1>2, <1>5, <1>6, <2>2, <3>1, StreamKept
  <2>3. CASE c = d
    <3>1. Queued(d)' = Queued(d) /\ ~Shown(d)'
      BY <1>1, <1>6, <2>1 DEF Queued, Shown
    <3>2. \A n \in first[d]..step : FALSE
      BY <2>1, ScriptLength DEF StreamInv, RestInv, CountTypes
    <3>3. Opens(d)'
      BY <1>1, <1>2, <2>1, <3>1 DEF Opens, NotYet
    <3>4. Carries(d)'
      BY <1>1, <1>2, <1>5, <1>6, <3>1 DEF Carries
    <3>5. Whole(d)'
      BY <1>1, <3>2 DEF Whole
    <3> QED
      BY <2>3, <3>3, <3>4, <3>5
  <2> QED
    BY <2>2, <2>3
<1>7. CASE Shown(d) /\ SendEvent(d)
  <2>1. PICK q \in Enqueued(d, step) : queue' = [queue EXCEPT ![d] = q]
    BY <1>7 DEF SendEvent, WriteTo
  <2>2. q = queue[d] \/ q = Append(queue[d], step)
    BY <2>1 DEF Enqueued
  <2>3. /\ shed' = [shed EXCEPT ![d] = IF Len(queue[d]) = SendQueue THEN shed[d] \cup {step} ELSE shed[d]]
    BY <1>7 DEF SendEvent
  <2>4. CASE c # d
    <3>1. queue'[c] = queue[c] /\ shed'[c] = shed[c]
      BY <1>3, <2>1, <2>3, <2>4
    <3>2. (Live(c)' <=> Live(c)) /\ Rising(queue'[c])
      BY <1>1, <1>2, <3>1 DEF Live, Carries
    <3> QED
      BY <1>1, <1>2, <1>5, <2>4, <3>1, <3>2, StreamKept
  <2>5. CASE c = d
    <3>1. /\ first[d] <= step /\ first[d] \in Int
          /\ \A n \in got[d] \cup Queued(d) : first[d] <= n /\ n < step /\ n <= step
      <4>1. first[d] <= step
        BY <1>2, <1>5, <1>7 DEF Opens
      <4>2. \A n \in got[d] \cup Queued(d) : first[d] <= n /\ n < step /\ n <= step
        BY <1>2, <1>5 DEF Carries
      <4>3. first[d] \in Int
        BY ScriptLength DEF StreamInv, RestInv, FirstTypes, NotYet
      <4> QED
        BY <4>1, <4>2, <4>3
    <3>2. Rising(Append(queue[d], step)) /\ Range(Append(queue[d], step)) = Range(queue[d]) \cup {step}
      <4>1. \A x \in Range(queue[d]) \ {Answer} : x < step
        BY <3>1 DEF Queued
      <4>2. queue[d] \in Seq(Message) /\ Rising(queue[d])
        BY <1>2, <1>3 DEF Carries
      <4> QED
        BY <1>4, <4>1, <4>2, Appended
    <3>3. queue'[d] = q
      BY <1>3, <2>1
    <3>4. /\ Rising(queue'[d])
          /\ Queued(d)' = Queued(d) \/ Queued(d)' = Queued(d) \cup {step}
          /\ q = Append(queue[d], step) => Queued(d)' = Queued(d) \cup {step}
      BY <1>2, <1>4, <2>2, <3>2, <3>3 DEF Queued, Carries
    <3>5. Opens(d)'
      <4>1. Shown(d)' <=> Shown(d)
        BY <1>1 DEF Shown
      <4> QED
        BY <1>1, <1>2, <1>5, <4>1 DEF Opens
    <3>6. Carries(d)'
      <4>1. \A n \in got'[d] \cup Queued(d)' : first'[d] <= n /\ n <= step'
        BY <1>1, <1>4, <3>1, <3>4
      <4>2. \A n \in got'[d], m \in Queued(d)' : n < m
        <5>1. \A n \in got[d], m \in Queued(d) : n < m
          BY <1>2 DEF Carries
        <5> QED
          BY <1>1, <3>1, <3>4, <5>1
      <4> QED
        BY <1>5, <3>4, <4>1, <4>2 DEF Carries
    <3>7. Whole(d)'
      <4>1. ASSUME Live(d)', NEW n \in first[d]..step
            PROVE  n \in got[d] \cup Queued(d)' \cup shed'[d]
        <5>1. Live(d)
          BY <1>1, <4>1 DEF Live
        <5>2. CASE n # step
          <6>1. n \in got[d] \cup Queued(d) \cup shed[d]
            BY <1>2, <4>1, <5>1, <5>2 DEF Whole
          <6>2. shed[d] \subseteq shed'[d]
            BY <1>3, <2>3
          <6> QED
            BY <3>4, <6>1, <6>2
        <5>3. CASE n = step
          <6>1. writing[d] /\ ~done[d]
            BY <5>1 DEF Live
          <6>2. q = Append(queue[d], step) \/ Len(queue[d]) = SendQueue
            BY <2>1, <6>1 DEF Enqueued
          <6>3. Len(queue[d]) = SendQueue => step \in shed'[d]
            BY <1>3, <2>3
          <6> QED
            BY <3>4, <5>3, <6>2, <6>3
        <5> QED
          BY <5>2, <5>3
      <4> QED
        BY <1>1, <4>1 DEF Whole
    <3> QED
      BY <2>5, <3>5, <3>6, <3>7
  <2> QED
    BY <2>4, <2>5
<1> QED
  <2>1. Gated <=> gate # "empty"
    BY DEF Gated
  <2>2. ~(Gated /\ ~authed[d]) => Shown(d)
    BY <1>3, <2>1 DEF Shown
  <2> QED
    BY <1>6, <1>7, <2>2 DEF BroadcastTo

(* The head of the queue is written; an event is got.                       *)
LEMMA WriteStreams ==
  ASSUME StreamInv, RestInv', NEW d \in Clients, WriteLine(d), NEW c \in Clients
  PROVE  Opens(c)' /\ Carries(c)' /\ Whole(c)'
<1>1. /\ UNCHANGED <<gate, stage, clients, authed, done, writing, step, audience, sending, first, shed>>
      /\ queue[d] # << >>
      /\ queue' = [queue EXCEPT ![d] = Tail(queue[d])]
      /\ got' = [got EXCEPT ![d] = got[d] \cup ({Head(queue[d])} \ {Answer})]
  BY DEF WriteLine, peerVars, connVars, serverVars, castVars
<1>2. Opens(c) /\ Carries(c) /\ Whole(c) /\ Carries(d)
  BY DEF StreamInv
<1>3. queue \in [Clients -> Seq(Message)] /\ got \in [Clients -> SUBSET Events]
  BY DEF StreamInv, RestInv, QueuesInv, StreamTypes
<1>4. (Due(c)' <=> Due(c)) /\ (Live(c)' <=> Live(c)) /\ (Shown(c)' <=> Shown(c))
  BY <1>1 DEF Due, Live, Shown
<1>5. CASE c # d
  <2>1. queue'[c] = queue[c] /\ got'[c] = got[c]
    BY <1>1, <1>3, <1>5
  <2>2. Rising(queue'[c])
    BY <1>2, <2>1 DEF Carries
  <2> QED
    BY <1>1, <1>2, <1>4, <1>5, <2>1, <2>2, StreamKept
<1>6. CASE c = d
  <2>1. /\ Rising(Tail(queue[d]))
        /\ Range(queue[d]) = Range(Tail(queue[d])) \cup {Head(queue[d])}
        /\ Head(queue[d]) # Answer => \A x \in Range(Tail(queue[d])) \ {Answer} : Head(queue[d]) < x
    BY <1>1, <1>2, <1>3, Taken DEF Carries
  <2>2. queue'[d] = Tail(queue[d]) /\ got'[d] = got[d] \cup ({Head(queue[d])} \ {Answer})
    BY <1>1, <1>3
  <2>3. got'[d] \cup Queued(d)' = got[d] \cup Queued(d)
    BY <2>1, <2>2 DEF Queued
  <2>4. Opens(d)'
    BY <1>1, <1>2, <1>4, <1>6 DEF Opens
  <2>5. Carries(d)'
    <3>1. \A n \in got'[d] \cup Queued(d)' : first'[d] <= n /\ n <= step' /\ (Due(d)' => n < step')
      BY <1>1, <1>2, <1>4, <1>6, <2>3 DEF Carries
    <3>2. \A n \in got'[d], m \in Queued(d)' : n < m
      <4>1. \A n \in got[d], m \in Range(queue[d]) \ {Answer} : n < m
        BY <1>2 DEF Carries, Queued
      <4>2. Queued(d)' = Range(Tail(queue[d])) \ {Answer}
        BY <2>2 DEF Queued
      <4> QED
        BY <2>1, <2>2, <4>1, <4>2
    <3>3. Rising(queue'[d])
      BY <2>1, <2>2
    <3> QED
      BY <3>1, <3>2, <3>3 DEF Carries
  <2>6. Whole(d)'
    BY <1>1, <1>2, <1>4, <1>6, <2>3 DEF Whole
  <2> QED
    BY <1>6, <2>4, <2>5, <2>6
<1> QED
  BY <1>5, <1>6

(* The stream of d is over.                                                 *)
LEMMA StopStreams ==
  ASSUME StreamInv, RestInv', NEW d \in Clients, WriterStops(d), NEW c \in Clients
  PROVE  Opens(c)' /\ Carries(c)' /\ Whole(c)'
<1>1. /\ UNCHANGED <<gate, stage, clients, authed, done, step, audience, sending, first>>
      /\ writing' = [writing EXCEPT ![d] = FALSE] /\ queue' = [queue EXCEPT ![d] = << >>]
      /\ got' = [got EXCEPT ![d] = {}] /\ shed' = [shed EXCEPT ![d] = {}]
  BY DEF WriterStops, peerVars, connVars, serverVars, castVars
<1>2. Opens(c) /\ Carries(c) /\ Whole(c)
  BY DEF StreamInv
<1>3. /\ queue \in [Clients -> Seq(Message)] /\ got \in [Clients -> SUBSET Events]
      /\ shed \in [Clients -> SUBSET Events] /\ writing \in [Clients -> BOOLEAN]
  BY DEF StreamInv, RestInv, QueuesInv, StreamTypes, FlagTypes
<1>4. (Due(c)' <=> Due(c)) /\ (Shown(c)' <=> Shown(c))
  BY <1>1 DEF Due, Shown
<1>5. CASE c # d
  <2>1. queue'[c] = queue[c] /\ got'[c] = got[c] /\ shed'[c] = shed[c] /\ writing'[c] = writing[c]
    BY <1>1, <1>3, <1>5
  <2>2. Rising(queue'[c]) /\ (Live(c)' <=> Live(c))
    BY <1>1, <1>2, <2>1 DEF Carries, Live
  <2> QED
    BY <1>1, <1>2, <1>4, <1>5, <2>1, <2>2, StreamKept
<1>6. CASE c = d
  <2>1. queue'[d] = << >> /\ got'[d] = {} /\ writing'[d] = FALSE
    BY <1>1, <1>3
  <2>2. Rising(<< >>) /\ Range(<< >>) = {}
    BY DEF Rising, Range
  <2>3. Queued(d)' = {}
    BY <2>1, <2>2 DEF Queued
  <2>4. Opens(d)'
    BY <1>1, <1>2, <1>4, <1>6 DEF Opens
  <2>5. Carries(d)'
    BY <2>1, <2>2, <2>3 DEF Carries
  <2>6. Whole(d)'
    BY <2>1 DEF Whole, Live
  <2> QED
    BY <1>6, <2>4, <2>5, <2>6
<1> QED
  BY <1>5, <1>6

LEMMA StreamTypesKept ==
  ASSUME StreamInv, [BusNext]_busVars
  PROVE  StreamTypes'
<1>1. CASE UNCHANGED <<got, shed>>
  BY <1>1 DEF StreamInv, StreamTypes
<1>2. ASSUME NEW c \in Clients, WriteLine(c) PROVE StreamTypes'
  <2>1. queue[c] \in Seq(Message) /\ queue[c] # << >>
    BY <1>2 DEF WriteLine, StreamInv, RestInv, QueuesInv
  <2>2. Head(queue[c]) \in Message
    BY <2>1
  <2>3. {Head(queue[c])} \ {Answer} \subseteq Events
    BY <2>2 DEF Message, Events
  <2> QED
    BY <1>2, <2>3 DEF WriteLine, StreamInv, StreamTypes
<1>3. ASSUME NEW c \in Clients, WriterStops(c) PROVE StreamTypes'
  BY <1>3 DEF WriterStops, StreamInv, StreamTypes
<1>4. ASSUME NEW c \in Clients, BroadcastTo(c) PROVE StreamTypes'
  <2>1. sending = TRUE
    BY <1>4 DEF BroadcastTo, StreamInv, RestInv, FlagTypes
  <2>2. step \in Events
    BY <2>1, ScriptLength DEF StreamInv, RestInv, CountTypes, FirstTypes, Events
  <2> QED
    BY <1>4, <2>2 DEF BroadcastTo, SendEvent, StreamInv, StreamTypes
<1> QED
  BY <1>1, <1>2, <1>3, <1>4 DEF BusNext, busVars, streamVars, BroadcastBegins, CloseFlag,
     CloseClients, CloseListener, Disconnect, Accept, Register, ReadGarbage, Dispatch, Handled, Leaves

LEMMA StepStreams ==
  ASSUME StreamInv, [BusNext]_busVars
  PROVE  StreamInv'
<1>0. RestInv' /\ StreamTypes'
  BY StepRests, StreamTypesKept DEF StreamInv
<1>1. done \in [Clients -> BOOLEAN]
  BY DEF StreamInv, RestInv, FlagTypes
<1> SUFFICES ASSUME NEW c \in Clients PROVE Opens(c)' /\ Carries(c)' /\ Whole(c)'
  BY <1>0 DEF StreamInv
<1>2. CASE BroadcastBegins
  BY <1>0, <1>2, BeginStreams
<1>3. ASSUME NEW d \in Clients, Register(d) PROVE Opens(c)' /\ Carries(c)' /\ Whole(c)'
  BY <1>0, <1>3, RegisterStreams
<1>4. ASSUME NEW d \in Clients, Dispatch(d) PROVE Opens(c)' /\ Carries(c)' /\ Whole(c)'
  BY <1>0, <1>4, DispatchStreams
<1>5. ASSUME NEW d \in Clients, BroadcastTo(d) PROVE Opens(c)' /\ Carries(c)' /\ Whole(c)'
  BY <1>0, <1>5, BroadcastStreams
<1>6. ASSUME NEW d \in Clients, WriteLine(d) PROVE Opens(c)' /\ Carries(c)' /\ Whole(c)'
  BY <1>0, <1>6, WriteStreams
<1>7. ASSUME NEW d \in Clients, WriterStops(d) PROVE Opens(c)' /\ Carries(c)' /\ Whole(c)'
  BY <1>0, <1>7, StopStreams
<1>8. ASSUME NEW d \in Clients, ReadGarbage(d) \/ Handled(d) \/ Leaves(d) \/ Disconnect(d)
      PROVE  Opens(c)' /\ Carries(c)' /\ Whole(c)'
  <2>1. UNCHANGED queue \/ WriteTo(d, Answer)
    BY <1>8 DEF ReadGarbage, Handled, Leaves, ScanEnds, Disconnect, sendVars
  <2>2. UNCHANGED <<gate, step, sending, audience, writing, first, got, shed, authed>>
    BY <1>8 DEF ReadGarbage, Handled, Leaves, Disconnect, peerVars, connVars, sendVars, castVars, streamVars
  <2>3. \A e \in Clients :
           /\ stage'[e] \in {"backlog", "accepted"} => stage[e] \in {"backlog", "accepted"}
           /\ e \in clients' => e \in clients
           /\ done[e] = TRUE => done'[e] = TRUE
    BY <1>1, <1>8 DEF ReadGarbage, Handled, Leaves, Disconnect, connVars, StreamInv, RestInv, PlainTypes
  <2> QED
    BY <1>1, <2>1, <2>2, <2>3, AnswerStreams
<1>9. ASSUME NEW d \in Clients, Accept(d) PROVE Opens(c)' /\ Carries(c)' /\ Whole(c)'
  <2>1. UNCHANGED <<gate, step, sending, audience, first, got, shed, authed, queue, clients>>
    BY <1>9 DEF Accept, peerVars, castVars, streamVars
  <2>2. stage[d] = "backlog" /\ d \notin clients
    BY <1>9 DEF Accept, StreamInv, Opens
  <2>3. stage'[c] \in {"backlog", "accepted"} => stage[c] \in {"backlog", "accepted"}
    BY <1>9, <2>2 DEF Accept, StreamInv, RestInv, PlainTypes
  <2>4. c # d => writing'[c] = writing[c] /\ done'[c] = done[c]
    BY <1>9 DEF Accept, StreamInv, RestInv, FlagTypes
  <2>5. Live(c)' => Live(c)
    BY <2>1, <2>2, <2>4 DEF Live
  <2>6. Opens(c) /\ Carries(c) /\ Whole(c) /\ Rising(queue[c]) /\ (Due(c)' <=> Due(c))
    BY <2>1 DEF StreamInv, Carries, Due
  <2> QED
    BY <2>1, <2>3, <2>5, <2>6, StreamKept
<1>10. CASE CloseFlag \/ CloseClients \/ CloseListener \/ UNCHANGED busVars
  <2>1. UNCHANGED <<gate, step, sending, audience, first, got, shed, authed, queue, writing>>
    BY <1>10 DEF CloseFlag, CloseClients, CloseListener, busVars, peerVars, connVars, sendVars, castVars, streamVars
  <2>2. /\ stage'[c] \in {"backlog", "accepted"} => stage[c] \in {"backlog", "accepted"}
        /\ c \in clients' => c \in clients
        /\ done[c] = TRUE => done'[c] = TRUE
    BY <1>10 DEF CloseFlag, CloseClients, CloseListener, busVars, connVars
  <2>3. Live(c)' => Live(c)
    BY <1>1, <2>1, <2>2 DEF Live
  <2>4. Opens(c) /\ Carries(c) /\ Whole(c) /\ Rising(queue[c]) /\ (Due(c)' <=> Due(c))
    BY <2>1 DEF StreamInv, Carries, Due
  <2> QED
    BY <2>1, <2>2, <2>3, <2>4, StreamKept
<1> QED
  BY <1>2, <1>3, <1>4, <1>5, <1>6, <1>7, <1>8, <1>9, <1>10 DEF BusNext

(* With any number of connections and lines, a queue of any length and      *)
(* peers that need not read: the stream of a connection begins where it is   *)
(* open to it, and from there on has every event once and in order but      *)
(* those that found its queue full (server.go:144-243, client.go:33-71).     *)
THEOREM StreamForEveryClient == BusSpec => []StreamHolds
<1>1. BusInit => StreamInv
  <2>1. BusInit => RestInv
    BY RestsFirst
  <2>2. ASSUME BusInit, NEW c \in Clients PROVE Opens(c) /\ Carries(c) /\ Whole(c)
    <3>1. /\ queue[c] = << >> /\ got[c] = {} /\ first[c] = NotYet /\ authed[c] = FALSE
          /\ clients = {} /\ audience = {}
      BY <2>2 DEF BusInit
    <3>2. Rising(<< >>) /\ Range(<< >>) = {}
      BY DEF Rising, Range
    <3>3. Queued(c) = {}
      BY <3>1, <3>2 DEF Queued
    <3> QED
      BY <3>1, <3>2, <3>3 DEF Opens, Carries, Whole, Live, Due
  <2>3. BusInit => StreamTypes
    BY DEF BusInit, StreamTypes
  <2> QED
    BY <2>1, <2>2, <2>3 DEF StreamInv
<1>2. StreamInv /\ [BusNext]_busVars => StreamInv'
  BY StepStreams
<1>3. StreamInv => StreamHolds
  <2> SUFFICES ASSUME StreamInv, NEW c \in Clients
               PROVE  /\ \A n \in got[c] \cup Queued(c) : first[c] <= n
                      /\ \A n \in got[c], m \in Queued(c) : n < m
                      /\ Rising(queue[c])
                      /\ c \in clients /\ writing[c] /\ ~done[c] =>
                           \A n \in first[c]..step :
                             n \in got[c] \cup Queued(c) \cup shed[c] \/ (n = step /\ sending /\ c \in audience)
    BY DEF StreamHolds, Rising
  <2>1. Carries(c) /\ Whole(c)
    BY DEF StreamInv
  <2>2. (writing[c] /\ ~done[c] <=> writing[c] = TRUE /\ done[c] = FALSE) /\ (sending <=> sending = TRUE)
    BY DEF StreamInv, RestInv, FlagTypes
  <2> QED
    BY <2>1, <2>2 DEF Carries, Whole, Live, Due
<1> QED
  BY <1>1, <1>2, <1>3, PTL DEF BusSpec

-----------------------------------------------------------------------------
(* The bots' runtimes.                                                     *)
(*                                                                         *)
(* What the drain and the registry promise, for any roster, any number of  *)
(* session.sends and any number of console fires.                          *)
(*                                                                         *)
(* Each kind of turn has a part of runBot that it cannot outlive: a turn   *)
(* of the queue WaitTurns, a fire on its way cm.Wait, a counted turn       *)
(* turnsWG.Wait.  A session.send reaches only a registered bot, which has  *)
(* left behind the steps that end without a drain.                         *)

Early == {"dirs", "store", "build", "register"}
Undrained == {"storeClose", "report", "ended"}

BotOK(b) ==
  /\ im[b] = "running" => pc[b] \in {"run", "cronStop", "cronWait", "queueWait"}
  /\ cronLoop[b] = "armed" => mode = "config" /\ pc[b] \in {"run", "cronStop"}
  /\ store[b] = "closed" => pc[b] \in {"report", "ended"}
  /\ registry[b] = "runtime" => pc[b] \notin Early
  /\ pc[b] \in {"cron", "run"} => registry[b] = "runtime"
  /\ pc[b] \in Early \cup {"cron"} => mode = "config"
  /\ ctx = "live" /\ pc[b] \in Drain \cup {"report"} => ending[b] \in {"error", "panic"}
  /\ ctx = "live" /\ pc[b] = "ended" => failed[b] = TRUE /\ registry[b] # "absent"

FireOK(f) ==
  /\ fire[f] \in {"starting", "running"} => target[f] \in Bots
  /\ fire[f] = "starting" =>
       mode = "config" /\ pc[target[f]] \in {"run", "cronStop", "cronWait"}
  /\ fire[f] = "running" =>
       pc[target[f]] \in {"run", "cronStop", "cronWait", "queueWait", "busClose", "sendWait"}

SendOK(s) ==
  /\ send[s] \in {"resolved", "running"} =>
       target[s] \in Bots /\ registry[target[s]] = "runtime"
  /\ send[s] = "running" /\ late[s] = FALSE => pc[target[s]] \notin Undrained

DaemonInv ==
  /\ DaemonTypeOK
  /\ \A b \in Bots : BotOK(b)
  /\ \A f \in Fires : FireOK(f)
  /\ \A s \in Sends : SendOK(s)

-----------------------------------------------------------------------------
(* One lemma per step of runBot.                                           *)

LEMMA StepMakeDirs ==
  ASSUME DaemonInv, NEW b \in Bots, MakeDirs(b)
  PROVE  DaemonInv'
<1> USE DEF MakeDirs, Goes, procVars, botVars, turnVars
<1>1. DaemonTypeOK'
  BY DEF DaemonInv, DaemonTypeOK, Drain
<1>2. \A d \in Bots : BotOK(d)'
  BY DEF DaemonInv, DaemonTypeOK, BotOK, Drain, Early
<1>3. \A f \in Fires : FireOK(f)'
  BY DEF DaemonInv, DaemonTypeOK, BotOK, FireOK, Fired, Drain, Early
<1>4. \A s \in Sends : SendOK(s)'
  BY DEF DaemonInv, DaemonTypeOK, BotOK, SendOK, Counted, Drain, Early, Undrained
<1>5. QED
  BY <1>1, <1>2, <1>3, <1>4 DEF DaemonInv

LEMMA StepOpenStore ==
  ASSUME DaemonInv, NEW b \in Bots, OpenStore(b)
  PROVE  DaemonInv'
<1> USE DEF OpenStore, Goes, procVars, botVars, turnVars
<1>1. DaemonTypeOK'
  BY DEF DaemonInv, DaemonTypeOK, Drain
<1>2. \A d \in Bots : BotOK(d)'
  BY DEF DaemonInv, DaemonTypeOK, BotOK, Drain, Early
<1>3. \A f \in Fires : FireOK(f)'
  BY DEF DaemonInv, DaemonTypeOK, BotOK, FireOK, Fired, Drain, Early
<1>4. \A s \in Sends : SendOK(s)'
  BY DEF DaemonInv, DaemonTypeOK, BotOK, SendOK, Counted, Drain, Early, Undrained
<1>5. QED
  BY <1>1, <1>2, <1>3, <1>4 DEF DaemonInv

LEMMA StepAssembleBotRuntime ==
  ASSUME DaemonInv, NEW b \in Bots, AssembleBotRuntime(b)
  PROVE  DaemonInv'
<1> USE DEF AssembleBotRuntime, Goes, procVars, botVars, turnVars
<1>1. DaemonTypeOK'
  BY DEF DaemonInv, DaemonTypeOK, Drain
<1>2. \A d \in Bots : BotOK(d)'
  BY DEF DaemonInv, DaemonTypeOK, BotOK, Drain, Early
<1>3. \A f \in Fires : FireOK(f)'
  BY DEF DaemonInv, DaemonTypeOK, BotOK, FireOK, Fired, Drain, Early
<1>4. \A s \in Sends : SendOK(s)'
  BY DEF DaemonInv, DaemonTypeOK, BotOK, SendOK, Counted, Drain, Early, Undrained
<1>5. QED
  BY <1>1, <1>2, <1>3, <1>4 DEF DaemonInv

LEMMA StepRegisterBotRuntime ==
  ASSUME DaemonInv, NEW b \in Bots, RegisterBotRuntime(b)
  PROVE  DaemonInv'
<1> USE DEF RegisterBotRuntime, Goes, procVars, botVars, turnVars
<1>1. DaemonTypeOK'
  BY DEF DaemonInv, DaemonTypeOK, Drain
<1>2. \A d \in Bots : BotOK(d)'
  BY DEF DaemonInv, DaemonTypeOK, BotOK, Drain, Early
<1>3. \A f \in Fires : FireOK(f)'
  BY DEF DaemonInv, DaemonTypeOK, BotOK, FireOK, Fired, Drain, Early
<1>4. \A s \in Sends : SendOK(s)'
  BY DEF DaemonInv, DaemonTypeOK, BotOK, SendOK, Counted, Drain, Early, Undrained
<1>5. QED
  BY <1>1, <1>2, <1>3, <1>4 DEF DaemonInv

LEMMA StepStartBotCron ==
  ASSUME DaemonInv, NEW b \in Bots, StartBotCron(b)
  PROVE  DaemonInv'
<1> USE DEF procVars, botVars, turnVars
<1>1. /\ pc[b] = "cron" /\ pc' = [pc EXCEPT ![b] = "run"]
      /\ UNCHANGED <<procVars, ending, registry, failed, store, turnVars>>
      /\ cronLoop' = cronLoop \/ cronLoop' = [cronLoop EXCEPT ![b] = "armed"]
  BY DEF StartBotCron, Goes
<1>2. /\ cronLoop' \in [Bots -> {"off", "armed", "stopped"}]
      /\ \A d \in Bots : d # b => cronLoop'[d] = cronLoop[d]
  BY <1>1 DEF DaemonInv, DaemonTypeOK
<1>3. /\ pc' \in [Bots -> Drain \cup {"dirs", "store", "build", "register", "cron", "run", "report", "ended"}]
      /\ pc'[b] = "run"
      /\ \A d \in Bots : d # b => pc'[d] = pc[d]
  BY <1>1 DEF DaemonInv, DaemonTypeOK
<1>4. DaemonTypeOK'
  BY <1>1, <1>2, <1>3 DEF DaemonInv, DaemonTypeOK
<1>5. BotOK(b)'
  <2>1. mode = "config"
    BY <1>1 DEF DaemonInv, BotOK
  <2>2. QED
    BY <1>1, <1>3, <2>1 DEF DaemonInv, BotOK, Drain, Early
<1>6. \A d \in Bots \ {b} : BotOK(d)'
  BY <1>1, <1>2, <1>3 DEF DaemonInv, BotOK
<1>7. \A f \in Fires : FireOK(f)'
  BY <1>1, <1>3 DEF DaemonInv, FireOK
<1>8. \A s \in Sends : SendOK(s)'
  BY <1>1, <1>3 DEF DaemonInv, SendOK, Undrained
<1>9. QED
  BY <1>4, <1>5, <1>6, <1>7, <1>8 DEF DaemonInv

LEMMA StepRunReturns ==
  ASSUME DaemonInv, NEW b \in Bots, RunReturns(b)
  PROVE  DaemonInv'
<1> USE DEF RunReturns, procVars, botVars, turnVars
<1>1. DaemonTypeOK'
  BY DEF DaemonInv, DaemonTypeOK, Drain
<1>2. \A d \in Bots : BotOK(d)'
  BY DEF DaemonInv, DaemonTypeOK, BotOK, Drain, Early
<1>3. \A f \in Fires : FireOK(f)'
  BY DEF DaemonInv, DaemonTypeOK, BotOK, FireOK, Fired, Drain, Early
<1>4. \A s \in Sends : SendOK(s)'
  BY DEF DaemonInv, DaemonTypeOK, BotOK, SendOK, Counted, Drain, Early, Undrained
<1>5. QED
  BY <1>1, <1>2, <1>3, <1>4 DEF DaemonInv

LEMMA StepCronStop ==
  ASSUME DaemonInv, NEW b \in Bots, CronStop(b)
  PROVE  DaemonInv'
<1> USE DEF CronStop, Goes, procVars, botVars, turnVars
<1>1. DaemonTypeOK'
  BY DEF DaemonInv, DaemonTypeOK, Drain
<1>2. \A d \in Bots : BotOK(d)'
  BY DEF DaemonInv, DaemonTypeOK, BotOK, Drain, Early
<1>3. \A f \in Fires : FireOK(f)'
  BY DEF DaemonInv, DaemonTypeOK, BotOK, FireOK, Fired, Drain, Early
<1>4. \A s \in Sends : SendOK(s)'
  BY DEF DaemonInv, DaemonTypeOK, BotOK, SendOK, Counted, Drain, Early, Undrained
<1>5. QED
  BY <1>1, <1>2, <1>3, <1>4 DEF DaemonInv

LEMMA StepCronWait ==
  ASSUME DaemonInv, NEW b \in Bots, CronWait(b)
  PROVE  DaemonInv'
<1> USE DEF CronWait, Goes, procVars, botVars, turnVars
<1>1. DaemonTypeOK'
  BY DEF DaemonInv, DaemonTypeOK, Drain
<1>2. \A d \in Bots : BotOK(d)'
  BY DEF DaemonInv, DaemonTypeOK, BotOK, Drain, Early
<1>3. \A f \in Fires : FireOK(f)'
  BY DEF DaemonInv, DaemonTypeOK, BotOK, FireOK, Fired, Drain, Early
<1>4. \A s \in Sends : SendOK(s)'
  BY DEF DaemonInv, DaemonTypeOK, BotOK, SendOK, Counted, Drain, Early, Undrained
<1>5. QED
  BY <1>1, <1>2, <1>3, <1>4 DEF DaemonInv

LEMMA StepQueueWait ==
  ASSUME DaemonInv, NEW b \in Bots, QueueWait(b)
  PROVE  DaemonInv'
<1> USE DEF QueueWait, Goes, procVars, botVars, turnVars
<1>1. DaemonTypeOK'
  BY DEF DaemonInv, DaemonTypeOK, Drain
<1>2. \A d \in Bots : BotOK(d)'
  BY DEF DaemonInv, DaemonTypeOK, BotOK, Drain, Early
<1>3. \A f \in Fires : FireOK(f)'
  BY DEF DaemonInv, DaemonTypeOK, BotOK, FireOK, Fired, Drain, Early
<1>4. \A s \in Sends : SendOK(s)'
  BY DEF DaemonInv, DaemonTypeOK, BotOK, SendOK, Counted, Drain, Early, Undrained
<1>5. QED
  BY <1>1, <1>2, <1>3, <1>4 DEF DaemonInv

LEMMA StepSoloBusClose ==
  ASSUME DaemonInv, NEW b \in Bots, SoloBusClose(b)
  PROVE  DaemonInv'
<1> USE DEF SoloBusClose, Goes, procVars, botVars, turnVars
<1>1. DaemonTypeOK'
  BY DEF DaemonInv, DaemonTypeOK, Drain
<1>2. \A d \in Bots : BotOK(d)'
  BY DEF DaemonInv, DaemonTypeOK, BotOK, Drain, Early
<1>3. \A f \in Fires : FireOK(f)'
  BY DEF DaemonInv, DaemonTypeOK, BotOK, FireOK, Fired, Drain, Early
<1>4. \A s \in Sends : SendOK(s)'
  BY DEF DaemonInv, DaemonTypeOK, BotOK, SendOK, Counted, Drain, Early, Undrained
<1>5. QED
  BY <1>1, <1>2, <1>3, <1>4 DEF DaemonInv

LEMMA StepSendWait ==
  ASSUME DaemonInv, NEW b \in Bots, SendWait(b)
  PROVE  DaemonInv'
<1> USE DEF SendWait, Goes, procVars, botVars, turnVars
<1>1. DaemonTypeOK'
  BY DEF DaemonInv, DaemonTypeOK, Drain
<1>2. \A d \in Bots : BotOK(d)'
  BY DEF DaemonInv, DaemonTypeOK, BotOK, Drain, Early
<1>3. \A f \in Fires : FireOK(f)'
  BY DEF DaemonInv, DaemonTypeOK, BotOK, FireOK, Fired, Drain, Early
<1>4. \A s \in Sends : SendOK(s)'
  BY DEF DaemonInv, DaemonTypeOK, BotOK, SendOK, Counted, Drain, Early, Undrained
<1>5. QED
  BY <1>1, <1>2, <1>3, <1>4 DEF DaemonInv

LEMMA StepCloseStore ==
  ASSUME DaemonInv, NEW b \in Bots, CloseStore(b)
  PROVE  DaemonInv'
<1> USE DEF CloseStore, Goes, procVars, botVars, turnVars
<1>1. DaemonTypeOK'
  BY DEF DaemonInv, DaemonTypeOK, Drain
<1>2. \A d \in Bots : BotOK(d)'
  BY DEF DaemonInv, DaemonTypeOK, BotOK, Drain, Early
<1>3. \A f \in Fires : FireOK(f)'
  BY DEF DaemonInv, DaemonTypeOK, BotOK, FireOK, Fired, Drain, Early
<1>4. \A s \in Sends : SendOK(s)'
  BY DEF DaemonInv, DaemonTypeOK, BotOK, SendOK, Counted, Drain, Early, Undrained
<1>5. QED
  BY <1>1, <1>2, <1>3, <1>4 DEF DaemonInv

LEMMA StepReport ==
  ASSUME DaemonInv, NEW b \in Bots, Report(b)
  PROVE  DaemonInv'
<1> USE DEF procVars, turnVars
<1>1. /\ pc[b] = "report" /\ pc' = [pc EXCEPT ![b] = "ended"]
      /\ UNCHANGED <<procVars, ending, store, cronLoop, turnVars>>
  BY DEF Report, Goes
<1>2. /\ pc' \in [Bots -> Drain \cup {"dirs", "store", "build", "register", "cron", "run", "report", "ended"}]
      /\ pc'[b] = "ended"
      /\ \A d \in Bots : d # b => pc'[d] = pc[d]
  BY <1>1 DEF DaemonInv, DaemonTypeOK
<1>3. CASE RegisterFailedBot(b)
  <2>1. /\ failed' \in [Bots -> BOOLEAN] /\ failed'[b] = TRUE
        /\ \A d \in Bots : d # b => failed'[d] = failed[d]
    BY <1>3 DEF RegisterFailedBot, DaemonInv, DaemonTypeOK
  <2>2. registry' = [registry EXCEPT ![b] = IF registry[b] = "absent" THEN "stub" ELSE registry[b]]
    BY <1>3 DEF RegisterFailedBot
  <2>3. /\ registry' \in [Bots -> {"absent", "runtime", "stub"}]
        /\ registry'[b] # "absent"
        /\ \A d \in Bots : registry[d] = "runtime" <=> registry'[d] = "runtime"
        /\ \A d \in Bots : d # b => registry'[d] = registry[d]
    BY <2>2 DEF DaemonInv, DaemonTypeOK
  <2>4. DaemonTypeOK'
    BY <1>1, <1>2, <2>1, <2>3 DEF DaemonInv, DaemonTypeOK
  <2>5. BotOK(b)'
    BY <1>1, <1>2, <2>1, <2>3 DEF DaemonInv, BotOK, Drain, Early
  <2>6. \A d \in Bots \ {b} : BotOK(d)'
    BY <1>1, <1>2, <2>1, <2>3 DEF DaemonInv, BotOK
  <2>7. \A f \in Fires : FireOK(f)'
    BY <1>1, <1>2 DEF DaemonInv, FireOK
  <2>8. \A s \in Sends : SendOK(s)'
    BY <1>1, <1>2, <2>3 DEF DaemonInv, SendOK, Undrained
  <2>9. QED
    BY <2>4, <2>5, <2>6, <2>7, <2>8 DEF DaemonInv
<1>4. CASE /\ UNCHANGED <<registry, failed>>
           /\ ~(ending[b] = "panic" \/ (ending[b] = "error" /\ ctx = "live"))
  <2>1. DaemonTypeOK'
    BY <1>1, <1>2, <1>4 DEF DaemonInv, DaemonTypeOK
  <2>2. BotOK(b)'
    BY <1>1, <1>2, <1>4 DEF DaemonInv, BotOK, Drain, Early
  <2>3. \A d \in Bots \ {b} : BotOK(d)'
    BY <1>1, <1>2, <1>4 DEF DaemonInv, BotOK
  <2>4. \A f \in Fires : FireOK(f)'
    BY <1>1, <1>2 DEF DaemonInv, FireOK
  <2>5. \A s \in Sends : SendOK(s)'
    BY <1>1, <1>2, <1>4 DEF DaemonInv, SendOK, Undrained
  <2>6. QED
    BY <2>1, <2>2, <2>3, <2>4, <2>5 DEF DaemonInv
<1>5. QED
  BY <1>3, <1>4 DEF Report

LEMMA StepFails ==
  ASSUME DaemonInv, NEW b \in Bots, Fails(b)
  PROVE  DaemonInv'
<1> USE DEF Fails, Unwind, procVars, botVars, turnVars
<1>1. DaemonTypeOK'
  BY DEF DaemonInv, DaemonTypeOK, Drain
<1>2. \A d \in Bots : BotOK(d)'
  BY DEF DaemonInv, DaemonTypeOK, BotOK, Drain, Early
<1>3. \A f \in Fires : FireOK(f)'
  BY DEF DaemonInv, DaemonTypeOK, BotOK, FireOK, Fired, Drain, Early
<1>4. \A s \in Sends : SendOK(s)'
  BY DEF DaemonInv, DaemonTypeOK, BotOK, SendOK, Counted, Drain, Early, Undrained
<1>5. QED
  BY <1>1, <1>2, <1>3, <1>4 DEF DaemonInv

LEMMA StepPanics ==
  ASSUME DaemonInv, NEW b \in Bots, Panics(b)
  PROVE  DaemonInv'
<1> USE DEF Panics, Unwind, procVars, botVars, turnVars
<1>1. DaemonTypeOK'
  BY DEF DaemonInv, DaemonTypeOK, Drain
<1>2. \A d \in Bots : BotOK(d)'
  BY DEF DaemonInv, DaemonTypeOK, BotOK, Drain, Early
<1>3. \A f \in Fires : FireOK(f)'
  BY DEF DaemonInv, DaemonTypeOK, BotOK, FireOK, Fired, Drain, Early
<1>4. \A s \in Sends : SendOK(s)'
  BY DEF DaemonInv, DaemonTypeOK, BotOK, SendOK, Counted, Drain, Early, Undrained
<1>5. QED
  BY <1>1, <1>2, <1>3, <1>4 DEF DaemonInv

-----------------------------------------------------------------------------
(* One lemma per kind of turn.                                             *)

LEMMA StepImTurn ==
  ASSUME DaemonInv, NEW b \in Bots, ImTurn(b)
  PROVE  DaemonInv'
<1> USE DEF ImTurn, procVars, botVars, turnVars
<1>1. DaemonTypeOK'
  BY DEF DaemonInv, DaemonTypeOK
<1>2. \A d \in Bots : BotOK(d)'
  BY DEF DaemonInv, DaemonTypeOK, BotOK
<1>3. \A g \in Fires : FireOK(g)'
  BY DaemonAssumption DEF DaemonInv, DaemonTypeOK, BotOK, FireOK
<1>4. \A t \in Sends : SendOK(t)'
  BY DaemonAssumption DEF DaemonInv, DaemonTypeOK, SendOK, Undrained
<1>5. QED
  BY <1>1, <1>2, <1>3, <1>4 DEF DaemonInv

LEMMA StepSendResolved ==
  ASSUME DaemonInv, NEW s \in Sends, SendResolved(s)
  PROVE  DaemonInv'
<1>1. /\ UNCHANGED <<procVars, botVars, im, fire, late>>
      /\ send[s] = "idle"
      /\ \/ send' = [send EXCEPT ![s] = "done"] /\ UNCHANGED target
         \/ /\ send' = [send EXCEPT ![s] = "resolved"]
            /\ \E b \in Bots : registry[b] = "runtime" /\ target' = [target EXCEPT ![s] = b]
  <2>1. \A id \in Bots \cup {""} : Resolve(id) \subseteq {b \in Bots : registry[b] = "runtime"}
    BY DEF Resolve, Get
  <2>2. QED
    BY <2>1 DEF SendResolved
<1> USE DEF procVars, botVars
<1>2. DaemonTypeOK'
  BY <1>1 DEF DaemonInv, DaemonTypeOK
<1>3. \A d \in Bots : BotOK(d)'
  BY <1>1 DEF DaemonInv, BotOK
<1>4. \A g \in Fires : FireOK(g)'
  BY <1>1, DaemonAssumption DEF DaemonInv, DaemonTypeOK, FireOK
<1>5. \A t \in Sends : SendOK(t)'
  BY <1>1, DaemonAssumption DEF DaemonInv, DaemonTypeOK, SendOK
<1>6. QED
  BY <1>2, <1>3, <1>4, <1>5 DEF DaemonInv

LEMMA StepSendCounted ==
  ASSUME DaemonInv, NEW s \in Sends, SendCounted(s)
  PROVE  DaemonInv'
<1> USE DEF SendCounted, procVars, botVars, turnVars
<1>1. DaemonTypeOK'
  BY DEF DaemonInv, DaemonTypeOK
<1>2. \A d \in Bots : BotOK(d)'
  BY DEF DaemonInv, DaemonTypeOK, BotOK
<1>3. \A g \in Fires : FireOK(g)'
  BY DaemonAssumption DEF DaemonInv, DaemonTypeOK, BotOK, FireOK
<1>4. \A t \in Sends : SendOK(t)'
  <2>1. SendOK(s)'
    <3>1. pc[target[s]] \in Undrained => late'[s] = TRUE
      BY DEF DaemonInv, DaemonTypeOK, Undrained
    <3>2. QED
      BY <3>1 DEF DaemonInv, DaemonTypeOK, SendOK
  <2>2. \A t \in Sends \ {s} : SendOK(t)'
    BY DEF DaemonInv, DaemonTypeOK, SendOK
  <2>3. QED
    BY <2>1, <2>2
<1>5. QED
  BY <1>1, <1>2, <1>3, <1>4 DEF DaemonInv

LEMMA StepSendEnds ==
  ASSUME DaemonInv, NEW s \in Sends, SendEnds(s)
  PROVE  DaemonInv'
<1> USE DEF SendEnds, procVars, botVars, turnVars
<1>1. DaemonTypeOK'
  BY DEF DaemonInv, DaemonTypeOK
<1>2. \A d \in Bots : BotOK(d)'
  BY DEF DaemonInv, DaemonTypeOK, BotOK
<1>3. \A g \in Fires : FireOK(g)'
  BY DaemonAssumption DEF DaemonInv, DaemonTypeOK, BotOK, FireOK
<1>4. \A t \in Sends : SendOK(t)'
  BY DaemonAssumption DEF DaemonInv, DaemonTypeOK, SendOK, Undrained
<1>5. QED
  BY <1>1, <1>2, <1>3, <1>4 DEF DaemonInv

LEMMA StepFireStarts ==
  ASSUME DaemonInv, NEW f \in Fires, FireStarts(f)
  PROVE  DaemonInv'
<1> USE DEF FireStarts, procVars, botVars, turnVars
<1>1. DaemonTypeOK'
  BY DEF DaemonInv, DaemonTypeOK
<1>2. \A d \in Bots : BotOK(d)'
  BY DEF DaemonInv, DaemonTypeOK, BotOK
<1>3. \A g \in Fires : FireOK(g)'
  BY DaemonAssumption DEF DaemonInv, DaemonTypeOK, BotOK, FireOK
<1>4. \A t \in Sends : SendOK(t)'
  BY DaemonAssumption DEF DaemonInv, DaemonTypeOK, SendOK, Undrained
<1>5. QED
  BY <1>1, <1>2, <1>3, <1>4 DEF DaemonInv

LEMMA StepFireCounted ==
  ASSUME DaemonInv, NEW f \in Fires, FireCounted(f)
  PROVE  DaemonInv'
<1> USE DEF FireCounted, procVars, botVars, turnVars
<1>1. DaemonTypeOK'
  BY DEF DaemonInv, DaemonTypeOK
<1>2. \A d \in Bots : BotOK(d)'
  BY DEF DaemonInv, DaemonTypeOK, BotOK
<1>3. \A g \in Fires : FireOK(g)'
  BY DaemonAssumption DEF DaemonInv, DaemonTypeOK, BotOK, FireOK
<1>4. \A t \in Sends : SendOK(t)'
  BY DaemonAssumption DEF DaemonInv, DaemonTypeOK, SendOK, Undrained
<1>5. QED
  BY <1>1, <1>2, <1>3, <1>4 DEF DaemonInv

LEMMA StepFireEnds ==
  ASSUME DaemonInv, NEW f \in Fires, FireEnds(f)
  PROVE  DaemonInv'
<1> USE DEF FireEnds, procVars, botVars, turnVars
<1>1. DaemonTypeOK'
  BY DEF DaemonInv, DaemonTypeOK
<1>2. \A d \in Bots : BotOK(d)'
  BY DEF DaemonInv, DaemonTypeOK, BotOK
<1>3. \A g \in Fires : FireOK(g)'
  BY DaemonAssumption DEF DaemonInv, DaemonTypeOK, BotOK, FireOK
<1>4. \A t \in Sends : SendOK(t)'
  BY DaemonAssumption DEF DaemonInv, DaemonTypeOK, SendOK, Undrained
<1>5. QED
  BY <1>1, <1>2, <1>3, <1>4 DEF DaemonInv

LEMMA StepProcess ==
  ASSUME DaemonInv, Cancel \/ BusCloses \/ Exit \/ UNCHANGED daemonVars
  PROVE  DaemonInv'
<1>1. /\ UNCHANGED <<mode, botVars, turnVars>>
      /\ ctx' = ctx \/ ctx' = "cancelled"
      /\ bus' \in {bus, "closed"} /\ main' \in {main, "exited"}
  BY DEF Cancel, BusCloses, Exit, daemonVars, procVars
<1>2. DaemonTypeOK'
  BY <1>1 DEF DaemonInv, DaemonTypeOK, botVars, turnVars
<1>3. \A d \in Bots : BotOK(d)'
  BY <1>1 DEF DaemonInv, BotOK, botVars, turnVars
<1>4. (\A f \in Fires : FireOK(f)') /\ \A s \in Sends : SendOK(s)'
  BY <1>1 DEF DaemonInv, FireOK, SendOK, botVars, turnVars
<1>5. QED
  BY <1>2, <1>3, <1>4 DEF DaemonInv

LEMMA InitDaemon ==
  ASSUME DaemonInit
  PROVE  DaemonInv
<1>1. DaemonTypeOK
  BY DEF DaemonInit, DaemonTypeOK
<1>2. \A b \in Bots : BotOK(b)
  BY DEF DaemonInit, BotOK, Drain, Early
<1>3. (\A f \in Fires : FireOK(f)) /\ \A s \in Sends : SendOK(s)
  BY DEF DaemonInit, FireOK, SendOK
<1>4. QED
  BY <1>1, <1>2, <1>3 DEF DaemonInv

LEMMA StepDaemon ==
  ASSUME DaemonInv, [DaemonNext]_daemonVars
  PROVE  DaemonInv'
<1>1. ASSUME NEW b \in Bots, BotNext(b) PROVE DaemonInv'
  BY <1>1, StepMakeDirs, StepOpenStore, StepAssembleBotRuntime,
     StepRegisterBotRuntime, StepStartBotCron, StepRunReturns, StepCronStop,
     StepCronWait, StepQueueWait, StepSoloBusClose, StepSendWait,
     StepCloseStore, StepReport DEF BotNext
<1>2. ASSUME NEW b \in Bots, Fails(b) \/ Panics(b) \/ ImTurn(b)
      PROVE  DaemonInv'
  BY <1>2, StepFails, StepPanics, StepImTurn
<1>3. ASSUME NEW s \in Sends, SendResolved(s) \/ SendCounted(s) \/ SendEnds(s)
      PROVE  DaemonInv'
  BY <1>3, StepSendResolved, StepSendCounted, StepSendEnds
<1>4. ASSUME NEW f \in Fires, FireStarts(f) \/ FireCounted(f) \/ FireEnds(f)
      PROVE  DaemonInv'
  BY <1>4, StepFireStarts, StepFireCounted, StepFireEnds
<1>5. QED
  BY <1>1, <1>2, <1>3, <1>4, StepProcess DEF DaemonNext

LEMMA DaemonInvariant == DaemonSpec => []DaemonInv
<1>1. DaemonInit => DaemonInv
  BY InitDaemon
<1>2. DaemonInv /\ [DaemonNext]_daemonVars => DaemonInv'
  BY StepDaemon
<1>3. QED
  BY <1>1, <1>2, PTL DEF DaemonSpec

-----------------------------------------------------------------------------
(* However many bots, sends and fires: when a bot's store closes, no turn  *)
(* that the drain knows of runs (bot.go:547-554, control.go:41-46).        *)
THEOREM NoTurnMeetsAClosedStore == DaemonSpec => []StoreOutlivesTurns
<1>1. DaemonInv => StoreOutlivesTurns
  <2> SUFFICES ASSUME DaemonInv, NEW b \in Bots, store[b] = "closed"
               PROVE  /\ im[b] = "idle"
                      /\ Fired(b, "starting") = {} /\ Fired(b, "running") = {}
                      /\ \A s \in Counted(b) : late[s]
    BY DEF StoreOutlivesTurns
  <2>1. pc[b] \in {"report", "ended"}
    BY DEF DaemonInv, BotOK
  <2>2. im[b] = "idle"
    BY <2>1 DEF DaemonInv, DaemonTypeOK, BotOK
  <2>3. Fired(b, "starting") = {} /\ Fired(b, "running") = {}
    BY <2>1 DEF DaemonInv, FireOK, Fired
  <2>4. \A s \in Counted(b) : late[s]
    <3>1. ASSUME NEW s \in Counted(b) PROVE late[s] # FALSE
      BY <2>1, <3>1 DEF DaemonInv, SendOK, Counted, Undrained
    <3>2. \A s \in Counted(b) : late[s] \in BOOLEAN
      BY DEF DaemonInv, DaemonTypeOK, Counted
    <3>3. QED
      BY <3>1, <3>2
  <2>5. QED
    BY <2>2, <2>3, <2>4
<1>2. QED
  BY <1>1, DaemonInvariant, PTL

(* A bot of any roster that failed stands in the registry with its error   *)
(* (bot_runtime.go:181-183).                                               *)
THEOREM FailedBotsAreListed == DaemonSpec => []EveryBotListed
<1>1. DaemonInv => EveryBotListed
  BY DEF DaemonInv, BotOK, EveryBotListed
<1>2. QED
  BY <1>1, DaemonInvariant, PTL
=============================================================================
