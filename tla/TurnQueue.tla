------------------------------ MODULE TurnQueue ------------------------------
(***************************************************************************)
(* The Octo connector's path from a received message to its reply: the     *)
(* read loop (socket_recv.go, connector_inbound.go), the two dedup tiers   *)
(* (seenset.go, store/dedup.go), the per-session queue and its worker      *)
(* (connector_queue.go), the session lock and the reply (gateway.Handle,   *)
(* connector_sink.go), cron fires and Console turns, graceful shutdown     *)
(* and crashes.                                                            *)
(*                                                                         *)
(* A worker is a drainTurns goroutine, a console a session.send goroutine. *)
(* Only a worker goes through the queue; both take the session lock, and   *)
(* both reply through the connector's sink.  A turn is identified with the *)
(* reply target it carries.                                                *)
(***************************************************************************)
EXTENDS Naturals, FiniteSets, Sequences

CONSTANTS Keys,          (* session keys                                   *)
          Messages,      (* octo messages that warrant a turn              *)
          Fires,         (* cron fires aimed at IM sessions                *)
          Consoles,      (* session.send commands for an IM peer's uid     *)
          KeyOf,         (* the session of each of these                   *)
          Workers,       (* goroutines for drainTurns                      *)
          None,          (* no turn, no target, no owner                   *)
          RingSize,      (* maxSeenKeys                                    *)
          MayPanic,      (* whether code around runTurn can panic          *)
          StoreMayFail,  (* whether MarkSeenMessage can fail               *)
          MaxDeliveries, (* bound: how often the server sends a message    *)
          MaxCrashes     (* bound: crashes of the daemon                   *)

Turns == Messages \cup Fires
Actors == Workers \cup Consoles

ASSUME QueueAssumption ==
  /\ KeyOf \in [Turns \cup Consoles -> Keys]
  /\ None \notin Keys \cup Turns \cup Consoles \cup Actors
  /\ Messages \cap Fires = {} /\ (Turns \cup Workers) \cap Consoles = {}
  /\ RingSize \in Nat \ {0} /\ MaxDeliveries \in Nat /\ MaxCrashes \in Nat
  /\ MayPanic \in BOOLEAN /\ StoreMayFail \in BOOLEAN

VARIABLES unacked,   (* server: messages not acknowledged                  *)
          sends,     (* server: how often each message was sent            *)
          fired,     (* cron fires and Console commands that happened      *)
          ring,      (* seenSet.ring, oldest first                         *)
          seen,      (* the seen_messages table                            *)
          queue,     (* turnQueue.pending                                  *)
          running,   (* turnQueue.running                                  *)
          targets,   (* Connector.targets                                  *)
          stage,     (* "up", "closing" (c.closed), "stopped"              *)
          wg,        (* the count of turnsWG                               *)
          lock,      (* the holder of each session's router lock           *)
          at,        (* where each goroutine is                            *)
          home,      (* the key a goroutine works for                      *)
          job,       (* the turn a goroutine works on                      *)
          out,       (* the target its OnReply read                        *)
          crashes,   (* crashes so far                                     *)
          ran,       (* history: how often a turn ran                      *)
          sent       (* history: <<turn, target of its reply>>             *)

inbox == <<unacked, sends, ring>>
worker == <<at, home, job, out>>
history == <<crashes, ran, sent>>
vars == <<unacked, sends, fired, ring, seen, queue, running, targets, stage,
          wg, lock, at, home, job, out, crashes, ran, sent>>

Places == {"idle", "looping", "dedup", "routing", "locking", "running", "replying"}

(* The volatile part, as NewConnector makes it.                            *)
Fresh ==
  /\ ring' = <<>>
  /\ queue' = [k \in Keys |-> <<>>]
  /\ running' = [k \in Keys |-> FALSE]
  /\ targets' = [k \in Keys |-> None]
  /\ stage' = "up"
  /\ wg' = 0
  /\ lock' = [k \in Keys |-> None]
  /\ at' = [a \in Actors |-> "idle"]
  /\ home' = [a \in Actors |-> None]
  /\ job' = [a \in Actors |-> None]
  /\ out' = [a \in Actors |-> None]

Init ==
  /\ unacked = Messages /\ sends = [m \in Messages |-> 0] /\ fired = {}
  /\ ring = <<>> /\ seen = {}
  /\ queue = [k \in Keys |-> <<>>]
  /\ running = [k \in Keys |-> FALSE]
  /\ targets = [k \in Keys |-> None]
  /\ stage = "up" /\ wg = 0
  /\ lock = [k \in Keys |-> None]
  /\ at = [a \in Actors |-> "idle"]
  /\ home = [a \in Actors |-> None]
  /\ job = [a \in Actors |-> None]
  /\ out = [a \in Actors |-> None]
  /\ crashes = 0 /\ ran = [x \in Turns |-> 0] /\ sent = {}

-----------------------------------------------------------------------------
(* Deviation: every turn gets a worker of its own.                         *)
StartsAlways(k) == TRUE

(* start := !q.running                                                     *)
Starts(k) == ~running[k]

(* go drainTurns(key)                                                      *)
Spawn(k) ==
  \E w \in Workers :
    /\ at[w] = "idle"
    /\ at' = [at EXCEPT ![w] = "looping"]
    /\ home' = [home EXCEPT ![w] = k]
    /\ wg' = wg + 1
    /\ UNCHANGED <<job, out>>

Accept(x) ==
  /\ queue' = [queue EXCEPT ![KeyOf[x]] = Append(@, x)]
  /\ running' = [running EXCEPT ![KeyOf[x]] = TRUE]
  /\ IF Starts(KeyOf[x]) THEN Spawn(KeyOf[x]) ELSE UNCHANGED <<wg, worker>>

(* Deviation: the reply target is published when the turn is queued.       *)
EnqueuePublishing(x) ==
  /\ stage = "up"
  /\ Accept(x)
  /\ targets' = [targets EXCEPT ![KeyOf[x]] = x]

(* enqueueTurn: one critical section of c.mu.                              *)
Enqueue(x) ==
  /\ IF stage = "up" THEN Accept(x) ELSE UNCHANGED <<queue, running, wg, worker>>
  /\ UNCHANGED targets

Remember(m) ==
  IF Len(ring) < RingSize THEN Append(ring, m) ELSE Append(Tail(ring), m)

InRing(m) == \E i \in 1..Len(ring) : ring[i] = m

(* onRecv acknowledges the frame before it hands it on; the ack may be     *)
(* lost, and the server then sends the message again.                      *)
Ack(m) ==
  /\ m \in unacked /\ sends[m] < MaxDeliveries
  /\ sends' = [sends EXCEPT ![m] = @ + 1]
  /\ unacked' \in {unacked, unacked \ {m}}

(* onInbound on the read loop: tier-1 dedup, then the queue.               *)
Receive(m) ==
  /\ stage # "stopped"
  /\ Ack(m)
  /\ IF InRing(m)
       THEN UNCHANGED <<ring, queue, running, targets, wg, worker>>
       ELSE ring' = Remember(m) /\ Enqueue(m)
  /\ UNCHANGED <<fired, seen, stage, lock, history>>

(* A cron fire for an IM session: EnqueueCron.                             *)
Fire(x) ==
  /\ x \in Fires \ fired
  /\ fired' = fired \cup {x}
  /\ Enqueue(x)
  /\ UNCHANGED <<inbox, seen, stage, lock, history>>

-----------------------------------------------------------------------------
GoTo(a, place) == at' = [at EXCEPT ![a] = place]

(* drainTurns finds its queue empty, deletes it and returns.               *)
Retire(w) ==
  /\ at[w] = "looping" /\ queue[home[w]] = <<>>
  /\ running' = [running EXCEPT ![home[w]] = FALSE]
  /\ wg' = wg - 1
  /\ at' = [at EXCEPT ![w] = "idle"] /\ home' = [home EXCEPT ![w] = None]
  /\ UNCHANGED <<inbox, fired, seen, queue, targets, stage, lock, job, out, history>>

(* drainTurns pops the next turn and publishes its target.                 *)
Pop(w) ==
  /\ at[w] = "looping" /\ queue[home[w]] # <<>>
  /\ LET x == Head(queue[home[w]])
     IN  /\ job' = [job EXCEPT ![w] = x]
         /\ targets' = [targets EXCEPT ![home[w]] = x]
  /\ queue' = [queue EXCEPT ![home[w]] = Tail(@)]
  /\ GoTo(w, "dedup")
  /\ UNCHANGED <<inbox, fired, seen, running, stage, wg, lock, home, out, history>>

(* Deviation: tier 2 looks the message up and does not record it.          *)
DedupForgetful(w) ==
  /\ at[w] = "dedup"
  /\ \/ job[w] \notin seen /\ GoTo(w, "routing") /\ UNCHANGED job
     \/ job[w] \in seen /\ GoTo(w, "looping") /\ job' = [job EXCEPT ![w] = None]
  /\ UNCHANGED <<inbox, fired, seen, queue, running, targets, stage, wg, lock, home, out, history>>

(* turnFirstSeen: recorded before the turn runs; a fire has no id, and a   *)
(* store that fails lets the turn pass.                                    *)
Dedup(w) ==
  /\ at[w] = "dedup"
  /\ \/ job[w] \in Fires /\ GoTo(w, "routing") /\ UNCHANGED <<seen, job>>
     \/ /\ job[w] \in Messages \ seen
        /\ seen' = seen \cup {job[w]}
        /\ GoTo(w, "routing") /\ UNCHANGED job
     \/ /\ job[w] \in seen
        /\ GoTo(w, "looping") /\ job' = [job EXCEPT ![w] = None] /\ UNCHANGED seen
     \/ /\ StoreMayFail /\ job[w] \in Messages
        /\ GoTo(w, "routing") /\ UNCHANGED <<seen, job>>
  /\ UNCHANGED <<inbox, fired, queue, running, targets, stage, wg, lock, home, out, history>>

(* session.send: go runControlTurn.                                        *)
Command(c) ==
  /\ c \in Consoles \ fired /\ stage # "stopped"
  /\ fired' = fired \cup {c}
  /\ GoTo(c, "routing")
  /\ home' = [home EXCEPT ![c] = KeyOf[c]] /\ job' = [job EXCEPT ![c] = c]
  /\ UNCHANGED <<inbox, seen, queue, running, targets, stage, wg, lock, out, history>>

(* Where a goroutine goes when Handle returns: the worker loops.           *)
Rest(a) == IF a \in Workers THEN "looping" ELSE "idle"

(* RouteAndHandle's gates: dropped without a word, refused with a reply    *)
(* sent outside the lock, or on to the lock.                               *)
Refuse(a) ==
  /\ at[a] = "routing"
  /\ GoTo(a, Rest(a)) /\ job' = [job EXCEPT ![a] = None]
  /\ UNCHANGED <<inbox, fired, seen, queue, running, targets, stage, wg, lock, home, out, history>>

Admit(a) ==
  /\ at[a] = "routing"
  /\ GoTo(a, "locking")
  /\ UNCHANGED <<inbox, fired, seen, queue, running, targets, stage, wg, lock, home, job, out, history>>

Acquire(a) ==
  /\ at[a] = "locking" /\ lock[home[a]] = None
  /\ lock' = [lock EXCEPT ![home[a]] = a]
  /\ GoTo(a, "running")
  /\ ran' = IF job[a] \in Turns THEN [ran EXCEPT ![job[a]] = @ + 1] ELSE ran
  /\ UNCHANGED <<inbox, fired, seen, queue, running, targets, stage, wg, home, job, out,
                 crashes, sent>>

(* OnReply reads the target: of a turn that ran, or of one refused with a  *)
(* notice (too long, rate limited).                                        *)
BeginReply(a) ==
  /\ at[a] \in {"routing", "running"}
  /\ out' = [out EXCEPT ![a] = targets[home[a]]]
  /\ GoTo(a, "replying")
  /\ UNCHANGED <<inbox, fired, seen, queue, running, targets, stage, wg, lock, home, job, history>>

(* Deviation: release is not reached.                                      *)
UnlockForgotten(a) == UNCHANGED lock

(* RouteAndHandle's deferred release.                                      *)
Unlock(a) == lock' = [lock EXCEPT ![home[a]] = IF @ = a THEN None ELSE @]

(* OnReply has sent, deletes the target; Handle returns.                   *)
EndReply(a) ==
  /\ at[a] = "replying"
  /\ sent' = sent \cup {<<job[a], out[a]>>}
  /\ targets' = [targets EXCEPT ![home[a]] = None]
  /\ Unlock(a)
  /\ GoTo(a, Rest(a))
  /\ job' = [job EXCEPT ![a] = None] /\ out' = [out EXCEPT ![a] = None]
  /\ UNCHANGED <<inbox, fired, seen, queue, running, stage, wg, home, crashes, ran>>

(* A panic outside runTurn's own recovery: deferred calls release the lock *)
(* and drainTurns' recover ends the worker; q.running stays set.           *)
Panic(w) ==
  /\ MayPanic /\ w \in Workers /\ at[w] \in {"routing", "replying"}
  /\ targets' = IF at[w] = "replying" THEN [targets EXCEPT ![home[w]] = None] ELSE targets
  /\ Unlock(w)
  /\ wg' = wg - 1
  /\ GoTo(w, "idle")
  /\ home' = [home EXCEPT ![w] = None]
  /\ job' = [job EXCEPT ![w] = None] /\ out' = [out EXCEPT ![w] = None]
  /\ UNCHANGED <<inbox, fired, seen, queue, running, stage, history>>

-----------------------------------------------------------------------------
(* WaitTurns: close the door, then wait for the workers.                   *)
Close ==
  /\ stage = "up"
  /\ stage' = "closing"
  /\ UNCHANGED <<inbox, fired, seen, queue, running, targets, wg, lock, worker, history>>

WaitReturns ==
  /\ stage = "closing" /\ wg = 0
  /\ stage' = "stopped"
  /\ UNCHANGED <<inbox, fired, seen, queue, running, targets, wg, lock, worker, history>>

(* The process dies and starts again; the server and the store remember.   *)
Crash ==
  /\ crashes < MaxCrashes
  /\ crashes' = crashes + 1
  /\ Fresh
  /\ UNCHANGED <<unacked, sends, fired, seen, ran, sent>>

Step(a) == \/ a \in Workers /\ (Retire(a) \/ Pop(a) \/ Dedup(a) \/ Panic(a))
           \/ Refuse(a) \/ Admit(a) \/ Acquire(a) \/ BeginReply(a) \/ EndReply(a)

Next == \/ \E m \in Messages : Receive(m)
        \/ \E x \in Fires : Fire(x)
        \/ \E c \in Consoles : Command(c)
        \/ \E a \in Actors : Step(a)
        \/ Close \/ WaitReturns \/ Crash

Spec == Init /\ [][Next]_vars

(* The goroutines run, and a turn ends (the idle guard kills a silent      *)
(* driver).  The server, cron and the operator owe nothing.                *)
FairSpec == Spec /\ WF_vars(WaitReturns) /\ \A a \in Actors : WF_vars(Step(a))

-----------------------------------------------------------------------------
(* Every variable keeps its type, counters within their named bounds.      *)
TypeOK ==
  /\ unacked \subseteq Messages /\ sends \in [Messages -> 0..MaxDeliveries]
  /\ fired \subseteq Fires \cup Consoles /\ seen \subseteq Messages
  /\ ring \in Seq(Messages) /\ Len(ring) <= RingSize
  /\ queue \in [Keys -> Seq(Turns)] /\ running \in [Keys -> BOOLEAN]
  /\ targets \in [Keys -> Turns \cup {None}]
  /\ stage \in {"up", "closing", "stopped"} /\ wg \in Nat
  /\ lock \in [Keys -> Actors \cup {None}]
  /\ at \in [Actors -> Places] /\ home \in [Actors -> Keys \cup {None}]
  /\ job \in [Actors -> Turns \cup Consoles \cup {None}]
  /\ out \in [Actors -> Turns \cup {None}]
  /\ crashes \in 0..MaxCrashes /\ ran \in [Turns -> Nat]
  /\ sent \subseteq (Turns \cup Consoles) \X (Turns \cup {None})

(* WaitTurns' promise to the store: once it returned no worker runs, and   *)
(* no fire or late message starts one.                                     *)
StoppedMeansQuiet == stage = "stopped" => \A w \in Workers : at[w] = "idle"

(* A session has at most one worker, the running flag says whether it has  *)
(* one, nothing is pending without one, and turnsWG counts them all: when  *)
(* WaitTurns has returned none is left to use the store.                   *)
WorkersMatchQueues ==
  /\ TypeOK
  /\ \A k \in Keys : LET mine == {w \in Workers : home[w] = k}
                     IN  /\ Cardinality(mine) = IF running[k] THEN 1 ELSE 0
                         /\ queue[k] # <<>> => running[k]
  /\ wg = Cardinality({w \in Workers : at[w] # "idle"})
  /\ StoppedMeansQuiet

(* connector_queue.go, turnQueue: each entry carries its own target so     *)
(* that turns "can't stomp each other's destination".  Whatever a turn     *)
(* answers reaches the conversation it came from, and is not lost.         *)
(* connector_sink.go, OnReply: "the router serializes turns per session so *)
(* nothing races this delete".                                             *)
RepliesToOwnTarget == \A x \in Turns, y \in Turns \cup {None} : <<x, y>> \in sent => x = y

(* turnFirstSeen: "a turn whose messageID a prior process already ran must *)
(* not spawn again", through lost acks, evictions and crashes.             *)
AtMostOnce == \A m \in Messages : ran[m] <= 1

(* A queue whose worker panicked: marked as running, and nobody serves it. *)
Wedged(k) == running[k] /\ \A w \in Workers : home[w] # k

(* What the code does promise: short of such a panic, a queued turn is     *)
(* taken up although other goroutines hold the session's lock, the store   *)
(* fails, and workers retire while turns arrive.                           *)
QueueServed == \A k \in Keys : (queue[k] # <<>>) ~> (queue[k] = <<>> \/ Wedged(k))

(* The worker that has the popped turn of k in hand, not yet begun.        *)
InHand(k) == {w \in Workers : home[w] = k /\ at[w] \in {"dedup", "routing", "locking"}}

ST == INSTANCE SerialTurns WITH
        waiting <- [k \in Keys |->
                      IF InHand(k) = {} THEN queue[k]
                      ELSE <<job[CHOOSE w \in InHand(k) : TRUE]>> \o queue[k]],
        serving <- [k \in Keys |-> IF lock[k] \in Workers THEN job[lock[k]] ELSE None],
        shut <- stage = "stopped"

(* The queue, its workers and the session lock serve a session's turns one *)
(* at a time in the order they were queued ("Same-key turns run FIFO").    *)
ImplementsSerialTurns == ST!Spec
=============================================================================
