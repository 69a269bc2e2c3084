---------------------------- MODULE TurnQueueProofs ----------------------------
(***************************************************************************)
(* The turn queue, for any number of sessions, messages, fires, consoles   *)
(* and workers, any ring and any number of deliveries and crashes.         *)
(*                                                                         *)
(* Homes: a session has at most one worker, and one that has a worker, or  *)
(* turns pending, is marked as running.  Jobs: a goroutine works on a turn *)
(* of its own session.  Locks: a session's lock is held by a goroutine of  *)
(* that session that runs or replies.  These three carry everything else.  *)
(***************************************************************************)
EXTENDS TurnQueue, FiniteSetTheorems, SequenceTheorems, TLAPS

Busy == {w \in Workers : at[w] # "idle"}
HasTurn == {"dedup", "routing", "locking", "running", "replying"}

Homes ==
  /\ \A w \in Workers : at[w] = "idle" <=> home[w] = None
  /\ \A v, w \in Workers : home[v] = home[w] /\ home[v] # None => v = w
  /\ \A w \in Workers : home[w] # None => running[home[w]] = TRUE
  /\ \A k \in Keys : queue[k] # <<>> => running[k] = TRUE

Counted == IsFiniteSet(Busy) /\ wg = Cardinality(Busy)

Jobs ==
  /\ \A w \in Workers : at[w] \in HasTurn => job[w] \in Turns /\ KeyOf[job[w]] = home[w]
  /\ \A c \in Consoles : at[c] # "idle" =>
       /\ c \in fired /\ at[c] \in {"routing", "locking", "running", "replying"}
       /\ job[c] = c /\ home[c] = KeyOf[c]
  /\ \A k \in Keys : \A i \in 1..Len(queue[k]) : KeyOf[queue[k][i]] = k

Locks ==
  /\ \A k \in Keys : lock[k] # None =>
       home[lock[k]] = k /\ at[lock[k]] \in {"running", "replying"}
  /\ \A a \in Actors : at[a] = "running" => lock[home[a]] = a

QInv == TypeOK /\ Homes /\ Counted /\ StoppedMeansQuiet /\ Jobs /\ Locks

-----------------------------------------------------------------------------
(* A turn that is queued: it joins its session's queue, and a session not  *)
(* marked as running gets an idle worker.                                  *)
LEMMA TypeAccept ==
  ASSUME TypeOK, NEW x \in Turns, Accept(x)
  PROVE  /\ queue' \in [Keys -> Seq(Turns)] /\ running' \in [Keys -> BOOLEAN]
         /\ wg' \in Nat /\ at' \in [Actors -> Places]
         /\ home' \in [Actors -> Keys \cup {None}]
         /\ UNCHANGED <<job, out>>
  <1>1. KeyOf[x] \in Keys /\ queue[KeyOf[x]] \in Seq(Turns)
    BY QueueAssumption DEF TypeOK, Turns
  <1>2. Append(queue[KeyOf[x]], x) \in Seq(Turns)
    BY <1>1
  <1>3. queue' \in [Keys -> Seq(Turns)] /\ running' \in [Keys -> BOOLEAN]
    BY <1>1, <1>2 DEF Accept, TypeOK
  <1>4. CASE running[KeyOf[x]]
    BY <1>3, <1>4 DEF Accept, Starts, TypeOK, worker
  <1>5. CASE ~running[KeyOf[x]]
    <2>1. Spawn(KeyOf[x])
      BY <1>5 DEF Accept, Starts
    <2>2. PICK w \in Workers : /\ at' = [at EXCEPT ![w] = "looping"]
                               /\ home' = [home EXCEPT ![w] = KeyOf[x]]
      BY <2>1 DEF Spawn
    <2>3. /\ wg' \in Nat /\ UNCHANGED <<job, out>>
      BY <2>1 DEF Spawn, TypeOK
    <2>4. w \in Actors /\ "looping" \in Places
      BY DEF Actors, Places
    <2> QED
      BY <1>1, <1>3, <2>2, <2>3, <2>4 DEF TypeOK
  <1> QED
    BY <1>4, <1>5

LEMMA TypeEnqueue ==
  ASSUME TypeOK, NEW x \in Turns, Enqueue(x)
  PROVE  /\ queue' \in [Keys -> Seq(Turns)] /\ running' \in [Keys -> BOOLEAN]
         /\ wg' \in Nat /\ at' \in [Actors -> Places]
         /\ home' \in [Actors -> Keys \cup {None}]
         /\ UNCHANGED <<job, out, targets>>
  BY TypeAccept DEF Enqueue, TypeOK, worker

LEMMA TypeRemember ==
  ASSUME TypeOK, NEW m \in Messages
  PROVE  Remember(m) \in Seq(Messages) /\ Len(Remember(m)) <= RingSize
  <1>1. CASE Len(ring) < RingSize
    BY <1>1, QueueAssumption DEF TypeOK, Remember
  <1>2. CASE ~(Len(ring) < RingSize)
    <2>1. ring \in Seq(Messages) /\ ring # <<>>
      BY <1>2, QueueAssumption DEF TypeOK
    <2>2. Tail(ring) \in Seq(Messages) /\ Len(Tail(ring)) = Len(ring) - 1
      BY <2>1
    <2> QED
      BY <1>2, <2>1, <2>2, QueueAssumption DEF TypeOK, Remember
  <1> QED
    BY <1>1, <1>2

(* A goroutine that is about its work has a session, and the turn in its   *)
(* hands is a turn of that session.                                        *)
LEMMA Placed ==
  ASSUME QInv, NEW a \in Actors, at[a] # "idle"
  PROVE  /\ home[a] \in Keys
         /\ at[a] \in HasTurn => job[a] \in Turns \cup Consoles /\ KeyOf[job[a]] = home[a]
         /\ a \in Workers => wg - 1 \in Nat
  <1>1. CASE a \in Workers
    <2>1. home[a] \in Keys
      BY <1>1 DEF QInv, TypeOK, Homes
    <2>2. at[a] \in HasTurn => job[a] \in Turns \cup Consoles /\ KeyOf[job[a]] = home[a]
      BY <1>1 DEF QInv, Jobs
    <2>3. a \in Busy /\ IsFiniteSet(Busy) /\ wg = Cardinality(Busy)
      BY <1>1 DEF Busy, QInv, Counted
    <2>4. Cardinality(Busy) # 0 /\ Cardinality(Busy) \in Nat
      BY <2>3, FS_EmptySet, FS_CardinalityType
    <2>5. wg - 1 \in Nat
      BY <2>3, <2>4
    <2> QED
      BY <2>1, <2>2, <2>5
  <1>2. CASE a \in Consoles
    BY <1>2, QueueAssumption DEF QInv, Jobs, Actors, HasTurn
  <1> QED
    BY <1>1, <1>2 DEF Actors

(* Every step keeps the types.                                             *)
LEMMA TypeStep == QInv /\ [Next]_vars => TypeOK'
  <1> SUFFICES ASSUME QInv, [Next]_vars PROVE TypeOK'
    OBVIOUS
  <1>0. TypeOK
    BY DEF QInv
  <1> USE QueueAssumption
  <1>1. ASSUME NEW m \in Messages, Receive(m) PROVE TypeOK'
    <2>1. /\ unacked' \subseteq Messages /\ sends' \in [Messages -> 0..MaxDeliveries]
      BY <1>0, <1>1 DEF Receive, Ack, TypeOK
    <2>2. CASE InRing(m)
      BY <1>0, <1>1, <2>1, <2>2 DEF Receive, TypeOK, worker, history
    <2>3. CASE ~InRing(m)
      <3>1. Enqueue(m) /\ ring' = Remember(m)
        BY <1>1, <2>3 DEF Receive
      <3>2. m \in Turns
        BY DEF Turns
      <3> QED
        BY <1>0, <1>1, <2>1, <3>1, <3>2, TypeEnqueue, TypeRemember DEF Receive, TypeOK, history
    <2> QED
      BY <2>2, <2>3
  <1>2. ASSUME NEW x \in Fires, Fire(x) PROVE TypeOK'
    <2>1. x \in Turns
      BY DEF Turns
    <2> QED
      BY <1>0, <1>2, <2>1, TypeEnqueue DEF Fire, TypeOK, inbox, history
  <1>3. ASSUME NEW c \in Consoles, Command(c) PROVE TypeOK'
    <2>1. c \in Actors /\ KeyOf[c] \in Keys /\ "routing" \in Places
      BY DEF Actors, Places
    <2> QED
      BY <1>0, <1>3, <2>1 DEF Command, TypeOK, GoTo, inbox, history
  <1>4. ASSUME NEW a \in Actors, Step(a) PROVE TypeOK'
    <2>1. CASE a \in Workers /\ Retire(a)
      <3>1. wg - 1 \in Nat
        BY <2>1, Placed DEF Retire
      <3> QED
        BY <1>0, <2>1, <3>1 DEF Retire, TypeOK, inbox, history, Places
    <2>2. CASE a \in Workers /\ Pop(a)
      <3> DEFINE q == queue[home[a]]
      <3>1. home[a] \in Keys /\ q \in Seq(Turns) /\ q # <<>>
        BY <1>0, <2>2, Placed DEF Pop, TypeOK
      <3>2. Head(q) \in Turns /\ Tail(q) \in Seq(Turns)
        BY <3>1
      <3>3. /\ job' = [job EXCEPT ![a] = Head(q)]
            /\ targets' = [targets EXCEPT ![home[a]] = Head(q)]
            /\ queue' = [queue EXCEPT ![home[a]] = Tail(q)]
            /\ at' = [at EXCEPT ![a] = "dedup"]
        BY <2>2 DEF Pop, GoTo
      <3>4. UNCHANGED <<inbox, fired, seen, running, stage, wg, lock, home, out, history>>
        BY <2>2 DEF Pop
      <3>5. "dedup" \in Places
        BY DEF Places
      <3> HIDE DEF q
      <3> QED
        BY <1>0, <3>1, <3>2, <3>3, <3>4, <3>5 DEF TypeOK, inbox, history
    <2>3. CASE a \in Workers /\ Dedup(a)
      BY <1>0, <2>3 DEF Dedup, GoTo, TypeOK, inbox, history, Places
    <2>4. CASE a \in Workers /\ Panic(a)
      <3>1. wg - 1 \in Nat
        BY <2>4, Placed DEF Panic
      <3> QED
        BY <1>0, <2>4, <3>1 DEF Panic, Unlock, GoTo, TypeOK, inbox, history, Places
    <2>5. CASE Refuse(a)
      BY <1>0, <2>5 DEF Refuse, GoTo, Rest, TypeOK, inbox, history, Places
    <2>6. CASE Admit(a)
      BY <1>0, <2>6 DEF Admit, GoTo, TypeOK, inbox, history, Places
    <2>7. CASE Acquire(a)
      <3>1. home[a] \in Keys
        BY <2>7, Placed DEF Acquire
      <3>2. ran' \in [Turns -> Nat]
        BY <1>0, <2>7 DEF Acquire, TypeOK
      <3> QED
        BY <1>0, <2>7, <3>1, <3>2 DEF Acquire, GoTo, TypeOK, inbox, Places
    <2>8. CASE BeginReply(a)
      <3>1. home[a] \in Keys
        BY <2>8, Placed DEF BeginReply
      <3> QED
        BY <1>0, <2>8, <3>1 DEF BeginReply, GoTo, TypeOK, inbox, history, Places
    <2>9. CASE EndReply(a)
      <3>1. home[a] \in Keys /\ job[a] \in Turns \cup Consoles /\ out[a] \in Turns \cup {None}
        BY <1>0, <2>9, Placed DEF EndReply, HasTurn, TypeOK
      <3>2. sent' \subseteq (Turns \cup Consoles) \X (Turns \cup {None})
        BY <1>0, <2>9, <3>1 DEF EndReply, TypeOK
      <3> QED
        BY <1>0, <2>9, <3>1, <3>2 DEF EndReply, Unlock, GoTo, Rest, TypeOK, inbox, Places
    <2> QED
      BY <1>4, <2>1, <2>2, <2>3, <2>4, <2>5, <2>6, <2>7, <2>8, <2>9 DEF Step
  <1>5. CASE Close
    BY <1>0, <1>5 DEF Close, TypeOK, inbox, worker, history
  <1>6. CASE WaitReturns
    BY <1>0, <1>6 DEF WaitReturns, TypeOK, inbox, worker, history
  <1>7. CASE Crash
    <2>1. crashes' \in 0..MaxCrashes
      BY <1>0, <1>7 DEF Crash, TypeOK
    <2>2. /\ ring' = <<>> /\ queue' = [k \in Keys |-> <<>>]
          /\ running' = [k \in Keys |-> FALSE] /\ targets' = [k \in Keys |-> None]
          /\ stage' = "up" /\ wg' = 0 /\ lock' = [k \in Keys |-> None]
          /\ at' = [b \in Actors |-> "idle"] /\ home' = [b \in Actors |-> None]
          /\ job' = [b \in Actors |-> None] /\ out' = [b \in Actors |-> None]
      BY <1>7 DEF Crash, Fresh
    <2>3. UNCHANGED <<unacked, sends, fired, seen, ran, sent>>
      BY <1>7 DEF Crash
    <2>4. ring' \in Seq(Messages) /\ Len(ring') <= RingSize
      BY <2>2
    <2>5. queue' \in [Keys -> Seq(Turns)]
      BY <2>2
    <2> QED
      BY <1>0, <2>1, <2>2, <2>3, <2>4, <2>5 DEF TypeOK, Places
  <1>8. CASE UNCHANGED vars
    BY <1>0, <1>8 DEF TypeOK, vars
  <1> QED
    BY <1>1, <1>2, <1>3, <1>4, <1>5, <1>6, <1>7, <1>8 DEF Next

-----------------------------------------------------------------------------
(* What queueing a turn changes, for the proofs below: an idle worker is   *)
(* taken for a session not marked as running, or none is.                  *)
LEMMA EnqueueEffect ==
  ASSUME TypeOK, NEW x \in Turns, Enqueue(x)
  PROVE  \/ UNCHANGED <<queue, running, wg, at, home, job, out, targets>>
         \/ /\ stage = "up" /\ KeyOf[x] \in Keys
            /\ queue' = [queue EXCEPT ![KeyOf[x]] = Append(queue[KeyOf[x]], x)]
            /\ running' = [running EXCEPT ![KeyOf[x]] = TRUE]
            /\ UNCHANGED <<job, out, targets>>
            /\ \/ running[KeyOf[x]] = TRUE /\ UNCHANGED <<wg, at, home>>
               \/ /\ running[KeyOf[x]] = FALSE
                  /\ \E w \in Workers : /\ at[w] = "idle"
                                        /\ at' = [at EXCEPT ![w] = "looping"]
                                        /\ home' = [home EXCEPT ![w] = KeyOf[x]]
                                        /\ wg' = wg + 1
  <1>1. CASE stage # "up"
    BY <1>1 DEF Enqueue, worker
  <1>2. CASE stage = "up"
    <2>1. Accept(x) /\ UNCHANGED targets
      BY <1>2 DEF Enqueue
    <2>2. KeyOf[x] \in Keys /\ running[KeyOf[x]] \in BOOLEAN
      BY QueueAssumption DEF TypeOK, Turns
    <2>3. /\ queue' = [queue EXCEPT ![KeyOf[x]] = Append(queue[KeyOf[x]], x)]
          /\ running' = [running EXCEPT ![KeyOf[x]] = TRUE]
      BY <2>1 DEF Accept
    <2>4. CASE running[KeyOf[x]]
      BY <1>2, <2>1, <2>2, <2>3, <2>4 DEF Accept, Starts, worker
    <2>5. CASE ~running[KeyOf[x]]
      <3>1. Spawn(KeyOf[x])
        BY <2>1, <2>5 DEF Accept, Starts
      <3>2. UNCHANGED <<job, out>>
        BY <3>1 DEF Spawn
      <3> QED
        BY <1>2, <2>1, <2>2, <2>3, <2>5, <3>1, <3>2 DEF Spawn
    <2> QED
      BY <2>4, <2>5
  <1> QED
    BY <1>1, <1>2

(* The steps that take a turn off the wire or off the timetable.           *)
Arrive == (\E m \in Messages : Receive(m)) \/ (\E x \in Fires : Fire(x))

LEMMA ArriveEffect ==
  ASSUME TypeOK, Arrive
  PROVE  /\ \/ UNCHANGED <<queue, running, wg, at, home, job, out, targets>>
            \/ \E x \in Turns : Enqueue(x)
         /\ UNCHANGED <<seen, stage, lock, history>> /\ fired \subseteq fired'
         /\ fired' \subseteq fired \cup Fires
  BY DEF Arrive, Receive, Fire, worker, Turns

-----------------------------------------------------------------------------
LEMMA HomesStep == QInv /\ [Next]_vars => Homes'
  <1> SUFFICES ASSUME QInv, [Next]_vars PROVE Homes'
    OBVIOUS
  <1>0. TypeOK /\ TypeOK' /\ Homes
    BY TypeStep DEF QInv
  <1>n. None \notin Keys
    BY QueueAssumption
  <1>1. CASE Arrive
    <2>1. CASE UNCHANGED <<queue, running, wg, at, home, job, out, targets>>
      BY <1>0, <2>1 DEF Homes
    <2>2. ASSUME NEW x \in Turns, Enqueue(x) PROVE Homes'
      <3> DEFINE k == KeyOf[x]
      <3>1. CASE UNCHANGED <<queue, running, wg, at, home>>
        BY <1>0, <3>1 DEF Homes
      <3>2. CASE /\ k \in Keys
                 /\ queue' = [queue EXCEPT ![k] = Append(queue[k], x)]
                 /\ running' = [running EXCEPT ![k] = TRUE]
                 /\ UNCHANGED <<at, home>>
        <4> HIDE DEF k
        <4>1. /\ running'[k] = TRUE
              /\ \A j \in Keys : j # k => queue'[j] = queue[j] /\ running'[j] = running[j]
          BY <1>0, <3>2 DEF TypeOK
        <4> QED
          BY <1>0, <3>2, <4>1 DEF Homes, TypeOK, Actors
      <3>3. ASSUME k \in Keys,
                   queue' = [queue EXCEPT ![k] = Append(queue[k], x)],
                   running' = [running EXCEPT ![k] = TRUE],
                   running[k] = FALSE,
                   NEW w \in Workers, at[w] = "idle",
                   at' = [at EXCEPT ![w] = "looping"],
                   home' = [home EXCEPT ![w] = k]
            PROVE  Homes'
        <4> HIDE DEF k
        <4>1. w \in Actors
          BY DEF Actors
        <4>2. \A v \in Workers : home[v] # k
          BY <1>0, <1>n, <3>3 DEF Homes
        <4>3. /\ \A v \in Workers : v # w => at'[v] = at[v] /\ home'[v] = home[v]
              /\ at'[w] = "looping" /\ home'[w] = k
          BY <1>0, <3>3, <4>1 DEF TypeOK, Actors
        <4>4. \A j \in Keys : running[j] = TRUE => running'[j] = TRUE
          BY <1>0, <3>3 DEF TypeOK
        <4>5. running'[k] = TRUE /\ \A j \in Keys : j # k => queue'[j] = queue[j]
          BY <1>0, <3>3 DEF TypeOK
        <4> QED
          BY <1>0, <1>n, <3>3, <4>2, <4>3, <4>4, <4>5 DEF Homes, TypeOK, Actors
      <3> QED
        BY <1>0, <2>2, <3>1, <3>2, <3>3, EnqueueEffect
    <2> QED
      BY <1>0, <1>1, <2>1, <2>2, ArriveEffect
  <1>2. ASSUME NEW c \in Consoles, Command(c) PROVE Homes'
    BY <1>0, <1>2, QueueAssumption DEF Command, GoTo, Homes, TypeOK, Actors
  <1>4. ASSUME NEW a \in Actors, Step(a) PROVE Homes'
    <2>1. CASE a \in Workers /\ Retire(a)
      <3>1. home[a] \in Keys
        BY <2>1, Placed DEF Retire
      <3>2. /\ \A v \in Workers : v # a => at'[v] = at[v] /\ home'[v] = home[v]
            /\ at'[a] = "idle" /\ home'[a] = None
        BY <1>0, <2>1 DEF Retire, TypeOK, Actors
      <3>3. /\ \A j \in Keys : j # home[a] => running'[j] = running[j]
            /\ queue' = queue /\ queue[home[a]] = <<>>
        BY <1>0, <2>1, <3>1 DEF Retire, TypeOK
      <3>4. \A v \in Workers : v # a /\ home[v] # None => home[v] # home[a]
        BY <1>0, <2>1 DEF Homes
      <3>5. \A v \in Workers : home'[v] # None => running'[home'[v]] = TRUE
        <4> TAKE v \in Workers
        <4> HAVE home'[v] # None
        <4>1. v # a /\ home'[v] = home[v] /\ home[v] # home[a]
          BY <3>2, <3>4
        <4>2. home[v] \in Keys /\ running[home[v]] = TRUE
          BY <1>0, <4>1 DEF Homes, TypeOK, Actors
        <4> QED
          BY <3>3, <4>1, <4>2
      <3>6. \A k \in Keys : queue'[k] # <<>> => running'[k] = TRUE
        BY <1>0, <3>3 DEF Homes
      <3>7. /\ \A v \in Workers : at'[v] = "idle" <=> home'[v] = None
            /\ \A v, w \in Workers : home'[v] = home'[w] /\ home'[v] # None => v = w
        BY <1>0, <3>2 DEF Homes
      <3> QED
        BY <3>5, <3>6, <3>7 DEF Homes
    <2>2. CASE a \in Workers /\ Pop(a)
      <3>1. home[a] \in Keys
        BY <2>2, Placed DEF Pop
      <3>2. /\ \A v \in Workers : v # a => at'[v] = at[v]
            /\ at'[a] = "dedup" /\ at[a] = "looping" /\ home' = home /\ running' = running
        BY <1>0, <2>2 DEF Pop, GoTo, TypeOK, Actors
      <3>3. \A j \in Keys : j # home[a] => queue'[j] = queue[j]
        BY <1>0, <2>2, <3>1 DEF Pop, TypeOK
      <3> QED
        BY <1>0, <2>2, <3>1, <3>2, <3>3 DEF Homes, TypeOK, Actors
    <2>3. CASE a \in Workers /\ Panic(a)
      <3>1. home[a] \in Keys
        BY <2>3, Placed DEF Panic
      <3>2. /\ \A v \in Workers : v # a => at'[v] = at[v] /\ home'[v] = home[v]
            /\ at'[a] = "idle" /\ home'[a] = None
            /\ queue' = queue /\ running' = running
        BY <1>0, <2>3 DEF Panic, GoTo, TypeOK, Actors
      <3> QED
        BY <1>0, <3>2 DEF Homes
    <2>4. CASE \/ a \in Workers /\ Dedup(a)
               \/ Refuse(a) \/ Admit(a) \/ Acquire(a) \/ BeginReply(a) \/ EndReply(a)
      <3>1. /\ home' = home /\ running' = running /\ queue' = queue
            /\ \A v \in Workers : v # a => at'[v] = at[v]
        BY <1>0, <2>4 DEF Dedup, Refuse, Admit, Acquire, BeginReply, EndReply, GoTo,
                          TypeOK, Actors
      <3>2. a \in Workers => at[a] # "idle" /\ at'[a] # "idle"
        BY <1>0, <2>4 DEF Dedup, Refuse, Admit, Acquire, BeginReply, EndReply, GoTo, Rest,
                          TypeOK, Actors
      <3> QED
        BY <1>0, <3>1, <3>2 DEF Homes
    <2> QED
      BY <1>4, <2>1, <2>2, <2>3, <2>4 DEF Step
  <1>5. CASE Close \/ WaitReturns \/ UNCHANGED vars
    BY <1>0, <1>5 DEF Close, WaitReturns, vars, worker, Homes
  <1>6. CASE Crash
    BY <1>6, <1>n DEF Crash, Fresh, Homes, Actors
  <1> QED
    BY <1>1, <1>2, <1>4, <1>5, <1>6 DEF Next, Arrive

-----------------------------------------------------------------------------
LEMMA CountedStep == QInv /\ [Next]_vars => Counted'
  <1> SUFFICES ASSUME QInv, [Next]_vars PROVE Counted'
    OBVIOUS
  <1>0. TypeOK /\ TypeOK' /\ Counted /\ Homes
    BY TypeStep DEF QInv
  <1>a. ASSUME \A w \in Workers : at'[w] = "idle" <=> at[w] = "idle", wg' = wg
        PROVE  Counted'
    <2>1. Busy' = Busy
      BY <1>a DEF Busy
    <2> QED
      BY <1>0, <1>a, <2>1 DEF Counted
  <1>b. ASSUME NEW w \in Workers, at[w] = "idle", at'[w] # "idle", wg' = wg + 1,
               \A v \in Workers : v # w => at'[v] = at[v]
        PROVE  Counted'
    <2>1. Busy' = Busy \cup {w} /\ w \notin Busy
      BY <1>b DEF Busy
    <2> QED
      BY <1>0, <1>b, <2>1, FS_AddElement DEF Counted
  <1>c. ASSUME NEW w \in Workers, at[w] # "idle", at'[w] = "idle", wg' = wg - 1,
               \A v \in Workers : v # w => at'[v] = at[v]
        PROVE  Counted'
    <2>1. Busy' = Busy \ {w} /\ w \in Busy
      BY <1>c DEF Busy
    <2> QED
      BY <1>0, <1>c, <2>1, FS_RemoveElement DEF Counted
  <1>1. CASE Arrive
    <2>1. CASE UNCHANGED <<queue, running, wg, at, home, job, out, targets>>
      BY <2>1, <1>a
    <2>2. ASSUME NEW x \in Turns, Enqueue(x) PROVE Counted'
      <3>1. CASE UNCHANGED <<wg, at, home>>
        BY <3>1, <1>a
      <3>2. ASSUME NEW w \in Workers, at[w] = "idle", at' = [at EXCEPT ![w] = "looping"],
                   wg' = wg + 1
            PROVE  Counted'
        <4>1. at'[w] = "looping" /\ \A v \in Workers : v # w => at'[v] = at[v]
          BY <1>0, <3>2 DEF TypeOK, Actors
        <4> QED
          BY <1>b, <3>2, <4>1
      <3> QED
        BY <1>0, <2>2, <3>1, <3>2, EnqueueEffect
    <2> QED
      BY <1>0, <1>1, <2>1, <2>2, ArriveEffect
  <1>2. ASSUME NEW c \in Consoles, Command(c) PROVE Counted'
    <2>1. \A w \in Workers : at'[w] = at[w]
      BY <1>0, <1>2, QueueAssumption DEF Command, GoTo, TypeOK, Actors
    <2> QED
      BY <1>2, <2>1, <1>a DEF Command
  <1>3. ASSUME NEW a \in Actors, Step(a) PROVE Counted'
    <2>1. CASE a \in Workers /\ (Retire(a) \/ Panic(a))
      <3>1. /\ at[a] # "idle" /\ at'[a] = "idle" /\ wg' = wg - 1
            /\ \A v \in Workers : v # a => at'[v] = at[v]
        BY <1>0, <2>1 DEF Retire, Panic, GoTo, TypeOK, Actors
      <3> QED
        BY <1>c, <2>1, <3>1
    <2>2. CASE \/ a \in Workers /\ (Pop(a) \/ Dedup(a))
               \/ Refuse(a) \/ Admit(a) \/ Acquire(a) \/ BeginReply(a) \/ EndReply(a)
      <3>1. wg' = wg /\ \A v \in Workers : v # a => at'[v] = at[v]
        BY <1>0, <2>2 DEF Pop, Dedup, Refuse, Admit, Acquire, BeginReply, EndReply, GoTo,
                          TypeOK, Actors
      <3>2. a \in Workers => at[a] # "idle" /\ at'[a] # "idle"
        BY <1>0, <2>2 DEF Pop, Dedup, Refuse, Admit, Acquire, BeginReply, EndReply, GoTo,
                          Rest, TypeOK, Actors
      <3> QED
        BY <1>a, <3>1, <3>2
    <2> QED
      BY <1>3, <2>1, <2>2 DEF Step
  <1>4. CASE Close \/ WaitReturns \/ UNCHANGED vars
    BY <1>4, <1>a DEF Close, WaitReturns, vars, worker
  <1>5. CASE Crash
    <2>1. Busy' = {} /\ wg' = 0
      BY <1>5 DEF Crash, Fresh, Busy, Actors
    <2> QED
      BY <2>1, FS_EmptySet DEF Counted
  <1> QED
    BY <1>1, <1>2, <1>3, <1>4, <1>5 DEF Next, Arrive

(* WaitTurns returns when the count is down to zero, and a stopped queue   *)
(* starts no worker.                                                       *)
LEMMA QuietStep == QInv /\ [Next]_vars => StoppedMeansQuiet'
  <1> SUFFICES ASSUME QInv, [Next]_vars, stage' = "stopped", NEW w \in Workers
               PROVE  at'[w] = "idle"
    BY DEF StoppedMeansQuiet
  <1>0. TypeOK /\ Counted /\ (stage = "stopped" => \A v \in Workers : at[v] = "idle")
    BY DEF QInv, StoppedMeansQuiet
  <1>1. CASE WaitReturns
    <2>1. Busy = {} /\ at' = at
      BY <1>0, <1>1, FS_EmptySet DEF WaitReturns, Counted, worker
    <2> QED
      BY <2>1 DEF Busy
  <1>2. CASE Arrive
    <2>1. stage = "stopped"
      BY <1>0, <1>2, ArriveEffect
    <2>2. at' = at
      BY <1>0, <1>2, <2>1, ArriveEffect, EnqueueEffect
    <2> QED
      BY <1>0, <2>1, <2>2
  <1>3. ASSUME NEW c \in Consoles, Command(c) PROVE at'[w] = "idle"
    BY <1>0, <1>3, QueueAssumption DEF Command, GoTo, TypeOK, Actors
  <1>4. ASSUME NEW a \in Actors, Step(a) PROVE at'[w] = "idle"
    <2>1. stage = "stopped"
      BY <1>4 DEF Step, Retire, Pop, Dedup, Panic, Refuse, Admit, Acquire, BeginReply, EndReply
    <2>2. at[a] # "idle"
      BY <1>4 DEF Step, Retire, Pop, Dedup, Panic, Refuse, Admit, Acquire, BeginReply, EndReply
    <2>3. a # w
      BY <1>0, <2>1, <2>2
    <2>4. at'[w] = at[w]
      BY <1>0, <1>4, <2>3 DEF Step, Retire, Pop, Dedup, Panic, Refuse, Admit, Acquire,
                              BeginReply, EndReply, GoTo, TypeOK, Actors
    <2> QED
      BY <1>0, <2>1, <2>4
  <1>5. CASE Close \/ Crash \/ UNCHANGED vars
    BY <1>0, <1>5 DEF Close, Crash, Fresh, vars
  <1> QED
    BY <1>1, <1>2, <1>3, <1>4, <1>5 DEF Next, Arrive

-----------------------------------------------------------------------------
(* The turns queued for a session are that session's own.                  *)
LEMMA QueuedStep ==
  QInv /\ [Next]_vars => \A k \in Keys : \A i \in 1..Len(queue'[k]) : KeyOf[queue'[k][i]] = k
  <1> SUFFICES ASSUME QInv, [Next]_vars, NEW k \in Keys
               PROVE  \A i \in 1..Len(queue'[k]) : KeyOf[queue'[k][i]] = k
    OBVIOUS
  <1>0. TypeOK /\ queue[k] \in Seq(Turns) /\ \A i \in 1..Len(queue[k]) : KeyOf[queue[k][i]] = k
    BY DEF QInv, Jobs, TypeOK
  <1>1. CASE queue'[k] = queue[k]
    BY <1>0, <1>1
  <1>2. ASSUME NEW x \in Turns, KeyOf[x] = k, queue'[k] = Append(queue[k], x)
        PROVE  \A i \in 1..Len(queue'[k]) : KeyOf[queue'[k][i]] = k
    <2>1. \A i \in 1..Len(queue'[k]) :
             queue'[k][i] = IF i = Len(queue[k]) + 1 THEN x ELSE queue[k][i]
      BY <1>0, <1>2
    <2>2. Len(queue'[k]) = Len(queue[k]) + 1 /\ Len(queue[k]) \in Nat
      BY <1>0, <1>2
    <2> QED
      BY <1>0, <1>2, <2>1, <2>2
  <1>3. ASSUME queue[k] # <<>>, queue'[k] = Tail(queue[k])
        PROVE  \A i \in 1..Len(queue'[k]) : KeyOf[queue'[k][i]] = k
    <2>1. /\ Len(queue'[k]) = Len(queue[k]) - 1 /\ Len(queue[k]) \in Nat
          /\ \A i \in 1..Len(queue'[k]) : queue'[k][i] = queue[k][i + 1]
      BY <1>0, <1>3
    <2> QED
      BY <1>0, <2>1
  <1>4. CASE Arrive
    <2>1. CASE queue' = queue
      BY <2>1, <1>1
    <2>2. ASSUME NEW x \in Turns, KeyOf[x] \in Keys,
                 queue' = [queue EXCEPT ![KeyOf[x]] = Append(queue[KeyOf[x]], x)]
          PROVE  \A i \in 1..Len(queue'[k]) : KeyOf[queue'[k][i]] = k
      <3>1. \/ queue'[k] = queue[k]
            \/ KeyOf[x] = k /\ queue'[k] = Append(queue[k], x)
        BY <1>0, <2>2 DEF TypeOK
      <3> QED
        BY <3>1, <1>1, <1>2
    <2> QED
      BY <1>0, <1>4, <2>1, <2>2, ArriveEffect, EnqueueEffect
  <1>5. ASSUME NEW a \in Actors, Step(a)
        PROVE  \A i \in 1..Len(queue'[k]) : KeyOf[queue'[k][i]] = k
    <2>1. \/ queue'[k] = queue[k]
          \/ queue[k] # <<>> /\ queue'[k] = Tail(queue[k])
      BY <1>0, <1>5 DEF Step, Retire, Pop, Dedup, Panic, Refuse, Admit, Acquire, BeginReply,
                        EndReply, TypeOK
    <2> QED
      BY <2>1, <1>1, <1>3
  <1>6. CASE (\E c \in Consoles : Command(c)) \/ Close \/ WaitReturns \/ UNCHANGED vars
    BY <1>1, <1>6 DEF Command, Close, WaitReturns, vars
  <1>7. CASE Crash
    <2>1. queue'[k] = <<>>
      BY <1>7 DEF Crash, Fresh
    <2> QED
      BY <2>1
  <1> QED
    BY <1>4, <1>5, <1>6, <1>7 DEF Next, Arrive

(* A goroutine's turn is one of the session it works for.                  *)
LEMMA JobsStep == QInv /\ [Next]_vars => Jobs'
  <1> SUFFICES ASSUME QInv, [Next]_vars PROVE Jobs'
    OBVIOUS
  <1>0. TypeOK /\ TypeOK' /\ Jobs /\ Homes
    BY TypeStep DEF QInv
  <1>q. \A k \in Keys : \A i \in 1..Len(queue'[k]) : KeyOf[queue'[k][i]] = k
    BY QueuedStep
  <1>d. Workers \cap Consoles = {}
    BY QueueAssumption
  <1>a. ASSUME UNCHANGED <<at, home, job>>, fired \subseteq fired' PROVE Jobs'
    BY <1>0, <1>a, <1>q DEF Jobs
  <1>b. ASSUME NEW a \in Actors, fired \subseteq fired',
               \A b \in Actors : b # a => at'[b] = at[b] /\ home'[b] = home[b] /\ job'[b] = job[b],
               a \in Workers /\ at'[a] \in HasTurn => job'[a] \in Turns /\ KeyOf[job'[a]] = home'[a],
               a \in Consoles /\ at'[a] # "idle" =>
                  /\ a \in fired' /\ at'[a] \in {"routing", "locking", "running", "replying"}
                  /\ job'[a] = a /\ home'[a] = KeyOf[a]
        PROVE  Jobs'
    <2>1. ASSUME NEW w \in Workers, at'[w] \in HasTurn
          PROVE  job'[w] \in Turns /\ KeyOf[job'[w]] = home'[w]
      BY <1>0, <1>b, <2>1 DEF Jobs, Actors
    <2>2. ASSUME NEW c \in Consoles, at'[c] # "idle"
          PROVE  /\ c \in fired' /\ at'[c] \in {"routing", "locking", "running", "replying"}
                 /\ job'[c] = c /\ home'[c] = KeyOf[c]
      BY <1>0, <1>b, <2>2 DEF Jobs, Actors
    <2> QED
      BY <1>q, <2>1, <2>2 DEF Jobs
  <1>1. CASE Arrive
    <2>1. CASE UNCHANGED <<at, home, job>>
      BY <1>0, <1>1, <2>1, <1>a, ArriveEffect
    <2>2. ASSUME NEW w \in Workers, at' = [at EXCEPT ![w] = "looping"], job' = job,
                 NEW k \in Keys, home' = [home EXCEPT ![w] = k], fired \subseteq fired'
          PROVE  Jobs'
      <3>1. /\ w \in Actors /\ at'[w] = "looping"
            /\ \A b \in Actors : b # w => at'[b] = at[b] /\ home'[b] = home[b] /\ job'[b] = job[b]
        BY <1>0, <2>2 DEF TypeOK, Actors
      <3> QED
        BY <1>b, <1>d, <2>2, <3>1 DEF HasTurn
    <2> QED
      BY <1>0, <1>1, <2>1, <2>2, ArriveEffect, EnqueueEffect
  <1>2. ASSUME NEW c \in Consoles, Command(c) PROVE Jobs'
    <2>1. /\ c \in Actors /\ at'[c] = "routing" /\ home'[c] = KeyOf[c] /\ job'[c] = c
          /\ \A b \in Actors : b # c => at'[b] = at[b] /\ home'[b] = home[b] /\ job'[b] = job[b]
          /\ fired \subseteq fired' /\ c \in fired' /\ c \notin Workers
      BY <1>0, <1>2, <1>d DEF Command, GoTo, TypeOK, Actors
    <2> QED
      BY <1>b, <2>1
  <1>3. ASSUME NEW a \in Actors, Step(a) PROVE Jobs'
    <2>0. fired' = fired
      BY <1>3 DEF Step, Retire, Pop, Dedup, Panic, Refuse, Admit, Acquire, BeginReply, EndReply
    <2>1. CASE a \in Workers /\ Pop(a)
      <3> DEFINE q == queue[home[a]]
      <3>1. home[a] \in Keys /\ q \in Seq(Turns) /\ q # <<>>
        BY <1>0, <2>1, Placed DEF Pop, TypeOK
      <3>2. Head(q) = q[1] /\ 1 \in 1..Len(q) /\ Head(q) \in Turns
        BY <3>1
      <3>3. KeyOf[Head(q)] = home[a]
        BY <1>0, <3>1, <3>2 DEF Jobs
      <3>4. /\ job'[a] = Head(q) /\ home' = home /\ at'[a] = "dedup"
            /\ \A b \in Actors : b # a => at'[b] = at[b] /\ job'[b] = job[b]
        BY <1>0, <2>1 DEF Pop, GoTo, TypeOK
      <3> QED
        BY <1>b, <1>d, <2>0, <2>1, <3>2, <3>3, <3>4
    <2>2. CASE a \in Workers /\ (Retire(a) \/ Panic(a))
      <3>1. /\ at'[a] = "idle"
            /\ \A b \in Actors : b # a => at'[b] = at[b] /\ home'[b] = home[b] /\ job'[b] = job[b]
        BY <1>0, <2>2 DEF Retire, Panic, GoTo, TypeOK
      <3> QED
        BY <1>b, <1>d, <2>0, <2>2, <3>1 DEF HasTurn
    <2>3. CASE a \in Workers /\ Dedup(a)
      <3>1. /\ at[a] = "dedup" /\ home' = home
            /\ \A b \in Actors : b # a => at'[b] = at[b] /\ job'[b] = job[b]
            /\ at'[a] = "looping" \/ job'[a] = job[a]
        BY <1>0, <2>3 DEF Dedup, GoTo, TypeOK
      <3>2. job[a] \in Turns /\ KeyOf[job[a]] = home[a]
        BY <1>0, <2>3, <3>1 DEF Jobs, HasTurn
      <3> QED
        BY <1>b, <1>d, <2>0, <2>3, <3>1, <3>2 DEF HasTurn
    <2>4. CASE Refuse(a) \/ EndReply(a)
      <3>1. /\ at'[a] = Rest(a) /\ home' = home
            /\ \A b \in Actors : b # a => at'[b] = at[b] /\ job'[b] = job[b]
        BY <1>0, <2>4 DEF Refuse, EndReply, GoTo, TypeOK
      <3> QED
        BY <1>b, <1>d, <2>0, <3>1 DEF HasTurn, Rest
    <2>5. CASE Admit(a) \/ Acquire(a) \/ BeginReply(a)
      <3>1. /\ at[a] \in HasTurn /\ at'[a] \in {"locking", "running", "replying"} /\ home' = home
            /\ job' = job /\ \A b \in Actors : b # a => at'[b] = at[b]
        BY <1>0, <2>5 DEF Admit, Acquire, BeginReply, GoTo, TypeOK, HasTurn
      <3>2. a \in Workers => job[a] \in Turns /\ KeyOf[job[a]] = home[a]
        BY <1>0, <3>1 DEF Jobs
      <3>3. a \in Consoles => a \in fired /\ job[a] = a /\ home[a] = KeyOf[a]
        BY <1>0, <3>1 DEF Jobs, HasTurn
      <3> QED
        BY <1>b, <2>0, <3>1, <3>2, <3>3
    <2> QED
      BY <1>3, <2>1, <2>2, <2>3, <2>4, <2>5 DEF Step
  <1>4. CASE Close \/ WaitReturns \/ UNCHANGED vars
    BY <1>4, <1>a DEF Close, WaitReturns, vars, worker
  <1>5. CASE Crash
    BY <1>5, <1>q DEF Crash, Fresh, Jobs, Actors, HasTurn
  <1> QED
    BY <1>1, <1>2, <1>3, <1>4, <1>5 DEF Next, Arrive

(* The session lock is held by a goroutine of the session that runs its    *)
(* turn or replies.                                                        *)
LEMMA LocksStep == QInv /\ [Next]_vars => Locks'
  <1> SUFFICES ASSUME QInv, [Next]_vars PROVE Locks'
    OBVIOUS
  <1>0. TypeOK /\ TypeOK' /\ Locks /\ None \notin Actors
    BY TypeStep, QueueAssumption DEF QInv
  <1>k. \A k \in Keys, b \in Actors :
            lock[k] = b => home[b] = k /\ at[b] \in {"running", "replying"}
    BY <1>0 DEF Locks
  <1>g. ASSUME \A k \in Keys, b \in Actors :
                  lock'[k] = b => home'[b] = k /\ at'[b] \in {"running", "replying"},
               \A b \in Actors : at'[b] = "running" => lock'[home'[b]] = b
        PROVE  Locks'
    BY <1>0, <1>g DEF Locks, TypeOK
  <1>a. ASSUME UNCHANGED <<at, home, lock>> PROVE Locks'
    BY <1>0, <1>a DEF Locks
  <1>b. ASSUME NEW a \in Actors, at[a] \notin {"running", "replying"}, at'[a] # "running",
               \A b \in Actors : b # a => at'[b] = at[b] /\ home'[b] = home[b], lock' = lock
        PROVE  Locks'
    <2>1. \A k \in Keys : lock[k] # a
      BY <1>k, <1>b
    <2>2. \A k \in Keys, b \in Actors :
             lock'[k] = b => home'[b] = k /\ at'[b] \in {"running", "replying"}
      BY <1>k, <1>b, <2>1
    <2>3. \A b \in Actors : at'[b] = "running" => lock'[home'[b]] = b
      BY <1>0, <1>b DEF Locks
    <2> QED
      BY <1>g, <2>2, <2>3
  <1>c. ASSUME NEW a \in Actors, home[a] \in Keys, at'[a] # "running", Unlock(a),
               \A b \in Actors : b # a => at'[b] = at[b] /\ home'[b] = home[b]
        PROVE  Locks'
    <2>1. /\ \A k \in Keys : k # home[a] => lock'[k] = lock[k]
          /\ lock'[home[a]] = IF lock[home[a]] = a THEN None ELSE lock[home[a]]
      BY <1>0, <1>c DEF Unlock, TypeOK
    <2>2. \A k \in Keys, b \in Actors :
             lock'[k] = b => home'[b] = k /\ at'[b] \in {"running", "replying"}
      <3> TAKE k \in Keys, b \in Actors
      <3> HAVE lock'[k] = b
      <3>1. lock[k] = b
        BY <1>0, <1>c, <2>1
      <3>2. b # a
        BY <1>0, <1>k, <1>c, <2>1, <3>1
      <3> QED
        BY <1>k, <1>c, <3>1, <3>2
    <2>3. \A b \in Actors : at'[b] = "running" => lock'[home'[b]] = b
      <3> TAKE b \in Actors
      <3> HAVE at'[b] = "running"
      <3>1. b # a /\ at[b] = "running" /\ home'[b] = home[b]
        BY <1>c
      <3>2. home[b] \in Keys /\ lock[home[b]] = b
        BY <1>0, <3>1, Placed DEF Locks
      <3> QED
        BY <1>c, <2>1, <3>1, <3>2
    <2> QED
      BY <1>g, <2>2, <2>3
  <1>1. CASE Arrive
    <2>1. CASE UNCHANGED <<at, home>>
      BY <1>0, <1>1, <2>1, <1>a, ArriveEffect
    <2>2. ASSUME NEW w \in Workers, at' = [at EXCEPT ![w] = "looping"], lock' = lock,
                 at[w] = "idle", NEW k \in Keys, home' = [home EXCEPT ![w] = k]
          PROVE  Locks'
      <3>1. /\ w \in Actors /\ at'[w] = "looping"
            /\ \A b \in Actors : b # w => at'[b] = at[b] /\ home'[b] = home[b]
        BY <1>0, <2>2 DEF TypeOK, Actors
      <3> QED
        BY <1>b, <2>2, <3>1
    <2> QED
      BY <1>0, <1>1, <2>1, <2>2, ArriveEffect, EnqueueEffect
  <1>2. ASSUME NEW c \in Consoles, Command(c) PROVE Locks'
    <2>1. /\ c \in Actors /\ at'[c] = "routing" /\ lock' = lock
          /\ \A b \in Actors : b # c => at'[b] = at[b] /\ home'[b] = home[b]
      BY <1>0, <1>2 DEF Command, GoTo, TypeOK, Actors
    <2>2. at[c] = "idle"
      BY <1>2 DEF Command, QInv, Jobs
    <2> QED
      BY <1>b, <2>1, <2>2
  <1>3. ASSUME NEW a \in Actors, Step(a) PROVE Locks'
    <2>1. CASE (a \in Workers /\ (Retire(a) \/ Pop(a) \/ Dedup(a))) \/ Refuse(a) \/ Admit(a)
      <3>1. /\ at[a] \notin {"running", "replying"} /\ at'[a] # "running" /\ lock' = lock
            /\ \A b \in Actors : b # a => at'[b] = at[b] /\ home'[b] = home[b]
        BY <1>0, <2>1 DEF Retire, Pop, Dedup, Refuse, Admit, GoTo, Rest, TypeOK
      <3> QED
        BY <1>b, <3>1
    <2>2. CASE (a \in Workers /\ Panic(a)) \/ EndReply(a)
      <3>1. /\ at[a] # "idle" /\ at'[a] # "running" /\ Unlock(a)
            /\ \A b \in Actors : b # a => at'[b] = at[b] /\ home'[b] = home[b]
        BY <1>0, <2>2 DEF Panic, EndReply, GoTo, Rest, TypeOK
      <3>2. home[a] \in Keys
        BY <3>1, Placed
      <3> QED
        BY <1>c, <3>1, <3>2
    <2>3. CASE Acquire(a)
      <3>1. home[a] \in Keys /\ lock[home[a]] = None
        BY <2>3, Placed DEF Acquire
      <3>2. /\ at'[a] = "running" /\ home' = home /\ lock'[home[a]] = a
            /\ \A k \in Keys : k # home[a] => lock'[k] = lock[k]
            /\ \A b \in Actors : b # a => at'[b] = at[b]
        BY <1>0, <2>3, <3>1 DEF Acquire, GoTo, TypeOK
      <3>3. \A k \in Keys : lock[k] # a
        BY <1>0, <2>3 DEF Acquire, Locks
      <3>4. \A b \in Actors : b # a /\ at[b] = "running" => home[b] # home[a]
        BY <1>0, <3>1 DEF Locks
      <3>5. \A b \in Actors : at'[b] = "running" => lock'[home'[b]] = b
        <4> TAKE b \in Actors
        <4> HAVE at'[b] = "running"
        <4>1. CASE b = a
          BY <3>2, <4>1
        <4>2. CASE b # a
          <5>1. at[b] = "running" /\ home[b] # home[a]
            BY <3>2, <3>4, <4>2
          <5>2. home[b] \in Keys
            BY <5>1, Placed
          <5> QED
            BY <1>0, <3>2, <5>1, <5>2 DEF Locks
        <4> QED
          BY <4>1, <4>2
      <3>6. \A k \in Keys, b \in Actors :
                lock'[k] = b => home'[b] = k /\ at'[b] \in {"running", "replying"}
        BY <1>k, <3>1, <3>2, <3>3
      <3> QED
        BY <1>g, <3>5, <3>6
    <2>4. CASE BeginReply(a)
      <3>1. /\ at'[a] = "replying" /\ home' = home /\ lock' = lock
            /\ \A b \in Actors : b # a => at'[b] = at[b]
        BY <1>0, <2>4 DEF BeginReply, GoTo, TypeOK
      <3>2. \A k \in Keys, b \in Actors :
                lock'[k] = b => home'[b] = k /\ at'[b] \in {"running", "replying"}
        BY <1>k, <3>1
      <3>3. \A b \in Actors : at'[b] = "running" => lock'[home'[b]] = b
        BY <1>0, <3>1 DEF Locks
      <3> QED
        BY <1>g, <3>2, <3>3
    <2> QED
      BY <1>3, <2>1, <2>2, <2>3, <2>4 DEF Step
  <1>4. CASE Close \/ WaitReturns \/ UNCHANGED vars
    BY <1>4, <1>a DEF Close, WaitReturns, vars, worker
  <1>5. CASE Crash
    BY <1>5 DEF Crash, Fresh, Locks
  <1> QED
    BY <1>1, <1>2, <1>3, <1>4, <1>5 DEF Next, Arrive

-----------------------------------------------------------------------------
LEMMA QInit == Init => QInv
  <1> SUFFICES ASSUME Init PROVE QInv
    OBVIOUS
  <1> USE QueueAssumption
  <1>1. TypeOK
    <2>1. sends \in [Messages -> 0..MaxDeliveries] /\ crashes \in 0..MaxCrashes
      BY DEF Init
    <2>2. ring \in Seq(Messages) /\ Len(ring) <= RingSize /\ queue \in [Keys -> Seq(Turns)]
      BY DEF Init
    <2> QED
      BY <2>1, <2>2 DEF Init, TypeOK, Places
  <1>2. Counted
    <2>1. Busy = {}
      BY DEF Init, Busy, Actors
    <2> QED
      BY <2>1, FS_EmptySet DEF Init, Counted
  <1>3. Homes /\ StoppedMeansQuiet /\ Locks
    BY DEF Init, Homes, StoppedMeansQuiet, Locks, Actors
  <1>4. Jobs
    <2>1. \A k \in Keys : Len(queue[k]) = 0
      BY DEF Init
    <2> QED
      BY <2>1 DEF Init, Jobs, Actors, HasTurn
  <1> QED
    BY <1>1, <1>2, <1>3, <1>4 DEF QInv

LEMMA QStep == QInv /\ [Next]_vars => QInv'
  BY TypeStep, HomesStep, CountedStep, QuietStep, JobsStep, LocksStep DEF QInv

LEMMA QueueInvariant == Spec => []QInv
  BY QInit, QStep, PTL DEF Spec

-----------------------------------------------------------------------------
(* Without a panic a session marked as running has a worker.               *)
Served == \A k \in Keys : running[k] = TRUE => \E w \in Workers : home[w] = k

LEMMA ServedStep ==
  ASSUME MayPanic = FALSE, QInv, Served, [Next]_vars PROVE Served'
  <1>0. TypeOK /\ None \notin Keys
    BY QueueAssumption DEF QInv
  <1>a. ASSUME running' = running, \A w \in Workers : home'[w] = home[w] PROVE Served'
    BY <1>a DEF Served
  <1>1. CASE Arrive
    <2>1. CASE UNCHANGED <<running, home>>
      BY <2>1, <1>a
    <2>2. ASSUME NEW k \in Keys, running' = [running EXCEPT ![k] = TRUE],
                 running[k] = TRUE, home' = home
          PROVE  Served'
      BY <1>0, <2>2 DEF Served, TypeOK
    <2>3. ASSUME NEW k \in Keys, running' = [running EXCEPT ![k] = TRUE],
                 NEW w \in Workers, at[w] = "idle", home' = [home EXCEPT ![w] = k]
          PROVE  Served'
      <3>1. home'[w] = k /\ \A v \in Workers : v # w => home'[v] = home[v]
        BY <1>0, <2>3 DEF TypeOK, Actors
      <3>2. home[w] \notin Keys
        BY <1>0, <2>3 DEF QInv, Homes
      <3>3. \A j \in Keys : j # k => running'[j] = running[j]
        BY <1>0, <2>3 DEF TypeOK
      <3> QED
        BY <3>1, <3>2, <3>3 DEF Served
    <2> QED
      BY <1>0, <1>1, <2>1, <2>2, <2>3, ArriveEffect, EnqueueEffect
  <1>2. ASSUME NEW c \in Consoles, Command(c) PROVE Served'
    BY <1>0, <1>2, <1>a, QueueAssumption DEF Command, TypeOK, Actors
  <1>3. ASSUME NEW a \in Actors, Step(a) PROVE Served'
    <2>1. CASE a \in Workers /\ Retire(a)
      <3>1. home[a] \in Keys
        BY <2>1, Placed DEF Retire
      <3>2. /\ running'[home[a]] = FALSE
            /\ \A j \in Keys : j # home[a] => running'[j] = running[j]
            /\ \A v \in Workers : v # a => home'[v] = home[v]
        BY <1>0, <2>1, <3>1 DEF Retire, TypeOK, Actors
      <3> QED
        BY <3>2 DEF Served
    <2>2. CASE \/ a \in Workers /\ (Pop(a) \/ Dedup(a))
               \/ Refuse(a) \/ Admit(a) \/ Acquire(a) \/ BeginReply(a) \/ EndReply(a)
      BY <2>2, <1>a DEF Pop, Dedup, Refuse, Admit, Acquire, BeginReply, EndReply
    <2>3. ~Panic(a)
      BY DEF Panic
    <2> QED
      BY <1>3, <2>1, <2>2, <2>3 DEF Step
  <1>4. CASE Close \/ WaitReturns \/ UNCHANGED vars
    BY <1>4, <1>a DEF Close, WaitReturns, vars, worker
  <1>5. CASE Crash
    BY <1>5 DEF Crash, Fresh, Served
  <1> QED
    BY <1>1, <1>2, <1>3, <1>4, <1>5 DEF Next, Arrive

(* Whatever panics: a session never has two workers, one that has a worker *)
(* or pending turns is marked as running, the wait group counts every      *)
(* worker, and once WaitTurns has returned there is none.                  *)
OneWorkerEach ==
  /\ \A k \in Keys : Cardinality({w \in Workers : home[w] = k}) <= (IF running[k] THEN 1 ELSE 0)
  /\ \A k \in Keys : queue[k] # <<>> => running[k]
  /\ wg = Cardinality({w \in Workers : at[w] # "idle"})
  /\ StoppedMeansQuiet

LEMMA MineAtMostOne ==
  ASSUME QInv, NEW k \in Keys
  PROVE  LET mine == {w \in Workers : home[w] = k}
         IN  /\ mine = {} => Cardinality(mine) = 0
             /\ mine # {} => Cardinality(mine) = 1 /\ running[k] = TRUE
  <1> DEFINE mine == {w \in Workers : home[w] = k}
  <1>1. ASSUME mine # {} PROVE Cardinality(mine) = 1 /\ running[k] = TRUE
    <2>1. PICK w \in mine : TRUE
      BY <1>1
    <2>2. mine = {w} /\ running[k] = TRUE
      BY <2>1, QueueAssumption DEF QInv, Homes
    <2> QED
      BY <2>2, FS_Singleton
  <1>2. ASSUME mine = {} PROVE Cardinality(mine) = 0
    BY <1>2, FS_EmptySet
  <1> QED
    BY <1>1, <1>2

(* Every variable keeps its type, and a session has at most one drain       *)
(* goroutine, whatever is delivered, fired or typed and however often the  *)
(* daemon crashes (connector_queue.go, drainTurns).                        *)
THEOREM OneWorkerPerSession == Spec => [](TypeOK /\ OneWorkerEach)
  <1>1. ASSUME QInv PROVE TypeOK /\ OneWorkerEach
    <2>1. TypeOK /\ StoppedMeansQuiet
      BY <1>1 DEF QInv
    <2>2. \A k \in Keys : Cardinality({w \in Workers : home[w] = k}) <= (IF running[k] THEN 1 ELSE 0)
      <3> TAKE k \in Keys
      <3> DEFINE mine == {w \in Workers : home[w] = k}
      <3>1. mine = {} \/ mine # {}
        OBVIOUS
      <3>2. Cardinality(mine) = 0 \/ (Cardinality(mine) = 1 /\ running[k] = TRUE)
        BY <1>1, <3>1, MineAtMostOne
      <3> HIDE DEF mine
      <3>3. Cardinality(mine) <= (IF running[k] THEN 1 ELSE 0)
        BY <3>2
      <3> QED
        BY <3>3 DEF mine
    <2>3. \A k \in Keys : queue[k] # <<>> => running[k]
      BY <1>1 DEF QInv, Homes
    <2>4. wg = Cardinality({w \in Workers : at[w] # "idle"})
      BY <1>1 DEF QInv, Counted, Busy
    <2> QED
      BY <2>1, <2>2, <2>3, <2>4 DEF OneWorkerEach
  <1> QED
    BY <1>1, QueueInvariant, PTL

(* Where the code around a turn does not panic, the running flag says      *)
(* exactly whether the session has its worker.                             *)
THEOREM QueuesHaveTheirWorker ==
  ASSUME MayPanic = FALSE
  PROVE  Spec => []WorkersMatchQueues
  <1>1. Init => Served
    BY DEF Init, Served
  <1>2. QInv /\ Served /\ [Next]_vars => Served'
    BY ServedStep
  <1>3. ASSUME QInv, Served PROVE WorkersMatchQueues
    <2>1. TypeOK /\ StoppedMeansQuiet /\ wg = Cardinality({w \in Workers : at[w] # "idle"})
      BY <1>3 DEF QInv, Counted, Busy
    <2>2. ASSUME NEW k \in Keys
          PROVE  /\ Cardinality({w \in Workers : home[w] = k}) = IF running[k] THEN 1 ELSE 0
                 /\ queue[k] # <<>> => running[k]
      <3>1. running[k] = TRUE \/ running[k] = FALSE
        BY <2>1 DEF TypeOK
      <3>2. CASE running[k] = TRUE
        BY <1>3, <3>2, MineAtMostOne DEF Served
      <3>3. CASE running[k] = FALSE
        BY <1>3, <3>3, MineAtMostOne DEF QInv, Homes
      <3> QED
        BY <3>1, <3>2, <3>3
    <2> QED
      BY <2>1, <2>2 DEF WorkersMatchQueues
  <1> QED
    BY <1>1, <1>2, <1>3, QueueInvariant, PTL DEF Spec

-----------------------------------------------------------------------------
(* A message that ran, or that a worker took past the second dedup tier,   *)
(* is in the seen table; one not yet begun has not run.                    *)
PastDedup == {"routing", "locking", "running", "replying"}
Begun == /\ \A m \in Messages : ran[m] = 0 \/ (ran[m] = 1 /\ m \in seen)
         /\ \A w \in Workers : at[w] \in PastDedup /\ job[w] \in Messages => job[w] \in seen
         /\ \A w \in Workers : at[w] \in {"routing", "locking"} /\ job[w] \in Messages
                                 => ran[job[w]] = 0

LEMMA BegunStep ==
  ASSUME StoreMayFail = FALSE, QInv, Begun, [Next]_vars PROVE Begun'
  <1>0. TypeOK /\ Workers \cap Consoles = {} /\ Messages \cap Consoles = {}
    BY QueueAssumption DEF QInv, Turns
  <1>a. ASSUME UNCHANGED <<seen, ran>>,
               \A w \in Workers : \/ at'[w] \notin PastDedup
                                  \/ at'[w] = at[w] /\ job'[w] = job[w]
        PROVE  Begun'
    BY <1>a DEF Begun, PastDedup
  <1>1. CASE Arrive
    <2>1. seen' = seen /\ ran' = ran
      BY <1>0, <1>1, ArriveEffect DEF history
    <2>2. CASE UNCHANGED <<at, job>>
      BY <2>1, <2>2, <1>a
    <2>3. ASSUME NEW w \in Workers, at' = [at EXCEPT ![w] = "looping"], job' = job
          PROVE  Begun'
      <3>1. at'[w] = "looping" /\ \A v \in Workers : v # w => at'[v] = at[v]
        BY <1>0, <2>3 DEF TypeOK, Actors
      <3> QED
        BY <2>1, <2>3, <3>1, <1>a DEF PastDedup
    <2> QED
      BY <1>0, <1>1, <2>2, <2>3, ArriveEffect, EnqueueEffect
  <1>2. ASSUME NEW c \in Consoles, Command(c) PROVE Begun'
    <2>1. /\ seen' = seen /\ ran' = ran
          /\ \A w \in Workers : at'[w] = at[w] /\ job'[w] = job[w]
      BY <1>0, <1>2 DEF Command, GoTo, TypeOK, Actors, history
    <2> QED
      BY <2>1, <1>a
  <1>3. ASSUME NEW a \in Actors, Step(a) PROVE Begun'
    <2>1. CASE (a \in Workers /\ (Retire(a) \/ Pop(a) \/ Panic(a))) \/ Refuse(a) \/ EndReply(a)
      <3>1. /\ UNCHANGED <<seen, ran>> /\ (at'[a] \notin PastDedup \/ a \notin Workers)
            /\ \A b \in Actors : b # a => at'[b] = at[b] /\ job'[b] = job[b]
        BY <1>0, <2>1 DEF Retire, Pop, Panic, Refuse, EndReply, GoTo, Rest, TypeOK, PastDedup,
                          history
      <3>2. UNCHANGED <<seen, ran>>
        BY <2>1 DEF Retire, Pop, Panic, Refuse, EndReply, history
      <3> QED
        BY <3>1, <3>2, <1>a DEF Actors
    <2>2. CASE a \in Workers /\ Dedup(a)
      <3>1. /\ ran' = ran /\ seen \subseteq seen' /\ seen' \subseteq seen \cup {job[a]}
            /\ \A b \in Actors : b # a => at'[b] = at[b] /\ job'[b] = job[b]
            /\ \/ at'[a] = "looping"
               \/ /\ at'[a] = "routing" /\ job'[a] = job[a]
                  /\ \/ job[a] \notin Messages
                     \/ job[a] \in Messages \ seen /\ job[a] \in seen'
        BY <1>0, <2>2, StoreMayFail = FALSE, QueueAssumption DEF Dedup, GoTo, TypeOK, history
      <3>2. \A m \in Messages : ran'[m] = 0 \/ (ran'[m] = 1 /\ m \in seen')
        BY <3>1 DEF Begun
      <3>3. ASSUME NEW w \in Workers, at'[w] \in PastDedup, job'[w] \in Messages
            PROVE  /\ job'[w] \in seen'
                   /\ at'[w] \in {"routing", "locking"} => ran'[job'[w]] = 0
        <4>1. CASE w = a
          BY <2>2, <3>1, <3>3, <4>1 DEF Begun, PastDedup
        <4>2. CASE w # a
          BY <2>2, <3>1, <3>3, <4>2 DEF Begun, Actors
        <4> QED
          BY <4>1, <4>2
      <3> QED
        BY <3>2, <3>3 DEF Begun, PastDedup
    <2>3. CASE Admit(a) \/ BeginReply(a)
      <3>1. /\ UNCHANGED <<seen, ran, job>> /\ at[a] \in PastDedup
            /\ at'[a] \in {"locking", "replying"}
            /\ at'[a] = "locking" => at[a] = "routing"
            /\ \A b \in Actors : b # a => at'[b] = at[b]
        BY <1>0, <2>3 DEF Admit, BeginReply, GoTo, TypeOK, PastDedup, history
      <3> QED
        BY <3>1 DEF Begun, PastDedup, Actors
    <2>4. CASE Acquire(a)
      <3>1. /\ UNCHANGED <<seen, job>> /\ at[a] = "locking" /\ at'[a] = "running"
            /\ \A b \in Actors : b # a => at'[b] = at[b]
            /\ \/ job[a] \notin Turns /\ ran' = ran
               \/ /\ job[a] \in Turns /\ ran'[job[a]] = ran[job[a]] + 1
                  /\ \A x \in Turns : x # job[a] => ran'[x] = ran[x]
        BY <1>0, <2>4 DEF Acquire, GoTo, TypeOK
      <3>2. CASE a \in Consoles
        <4>1. job[a] \notin Messages /\ a \notin Workers
          BY <1>0, <3>1, <3>2 DEF QInv, Jobs
        <4> QED
          BY <3>1, <4>1, <1>0 DEF Begun, PastDedup, Actors, Turns
      <3>3. CASE a \in Workers /\ job[a] \notin Messages
        BY <3>1, <3>3 DEF Begun, PastDedup, Actors, Turns
      <3>4. CASE a \in Workers /\ job[a] \in Messages
        <4>1. job[a] \in seen /\ ran[job[a]] = 0 /\ job[a] \in Turns
          BY <3>1, <3>4 DEF Begun, PastDedup, Turns
        <4>2. /\ ran'[job[a]] = 1
              /\ \A m \in Messages : m # job[a] => ran'[m] = ran[m]
          BY <3>1, <4>1 DEF Turns
        <4>3. ASSUME NEW w \in Workers, w # a, at[w] \in {"routing", "locking"}
              PROVE  job[w] # job[a]
          <5>1. home[w] = KeyOf[job[w]] /\ home[a] = KeyOf[job[a]] /\ home[a] # None
            BY <3>1, <3>4, <4>3 DEF QInv, Jobs, Homes, HasTurn
          <5> QED
            BY <3>4, <4>3, <5>1 DEF QInv, Homes
        <4>4. \A m \in Messages : ran'[m] = 0 \/ (ran'[m] = 1 /\ m \in seen')
          BY <3>1, <4>1, <4>2 DEF Begun
        <4>5. \A w \in Workers : at'[w] \in PastDedup /\ job'[w] \in Messages => job'[w] \in seen'
          BY <3>1, <4>1 DEF Begun, Actors
        <4>6. \A w \in Workers : at'[w] \in {"routing", "locking"} /\ job'[w] \in Messages
                                    => ran'[job'[w]] = 0
          BY <3>1, <4>2, <4>3 DEF Begun, Actors
        <4> QED
          BY <4>4, <4>5, <4>6 DEF Begun
      <3> QED
        BY <3>2, <3>3, <3>4 DEF Actors
    <2> QED
      BY <1>3, <2>1, <2>2, <2>3, <2>4 DEF Step
  <1>4. CASE Close \/ WaitReturns \/ UNCHANGED vars
    BY <1>4, <1>a DEF Close, WaitReturns, vars, worker, history
  <1>5. CASE Crash
    <2>1. UNCHANGED <<seen, ran>> /\ \A w \in Workers : at'[w] = "idle"
      BY <1>5 DEF Crash, Fresh, Actors
    <2> QED
      BY <2>1, <1>a DEF PastDedup
  <1> QED
    BY <1>1, <1>2, <1>3, <1>4, <1>5 DEF Next, Arrive

(* While the store records what it is told, no message runs twice, however *)
(* often it is delivered, the ring evicts it or the daemon crashes.        *)
THEOREM NoMessageRunsTwice ==
  ASSUME StoreMayFail = FALSE
  PROVE  Spec => []AtMostOnce
  <1>1. Init => Begun
    BY DEF Init, Begun, Turns, Actors, PastDedup
  <1>2. QInv /\ Begun /\ [Next]_vars => Begun'
    BY BegunStep
  <1>3. Begun => AtMostOnce
    BY DEF Begun, AtMostOnce
  <1> QED
    BY <1>1, <1>2, <1>3, QueueInvariant, PTL DEF Spec

-----------------------------------------------------------------------------
(* The published target of a session is that of the turn its worker has in *)
(* hand, and so is the one its reply read.                                 *)
OwnTargets ==
  /\ \A w \in Workers : at[w] \in {"dedup", "routing", "locking", "running"}
                          => targets[home[w]] = job[w]
  /\ \A w \in Workers : at[w] = "replying" => out[w] = job[w]
  /\ RepliesToOwnTarget

(* No Console speaks in a session that turns are queued for, as from the   *)
(* desktop, whose peer has a session of its own.                           *)
ConsolesApart == \A c \in Consoles, x \in Turns : KeyOf[c] # KeyOf[x]

LEMMA OwnTargetsStep ==
  ASSUME ConsolesApart, QInv, OwnTargets, [Next]_vars PROVE OwnTargets'
  <1>0. /\ TypeOK /\ Workers \cap Consoles = {} /\ Turns \cap Consoles = {}
        /\ None \notin Keys
    BY QueueAssumption DEF QInv
  <1>h. ASSUME NEW a \in Actors, NEW w \in Workers, w # a, at[a] # "idle", at[w] \in HasTurn
        PROVE  home[w] # home[a]
    <2>1. home[w] \in Keys /\ job[w] \in Turns /\ home[w] = KeyOf[job[w]]
      BY <1>h, Placed DEF QInv, Jobs, Actors, HasTurn
    <2>2. CASE a \in Workers
      BY <1>0, <1>h, <2>1, <2>2 DEF QInv, Homes
    <2>3. CASE a \in Consoles
      BY <1>h, <2>1, <2>3 DEF QInv, Jobs, ConsolesApart
    <2> QED
      BY <2>2, <2>3 DEF Actors
  <1>a. ASSUME sent' = sent,
               \A w \in Workers : \/ at'[w] \notin HasTurn
                                  \/ /\ at'[w] = at[w] /\ job'[w] = job[w] /\ out'[w] = out[w]
                                     /\ targets'[home'[w]] = targets[home[w]]
        PROVE  OwnTargets'
    BY <1>a DEF OwnTargets, HasTurn, RepliesToOwnTarget
  <1>1. CASE Arrive
    <2>1. sent' = sent
      BY <1>0, <1>1, ArriveEffect DEF history
    <2>2. CASE UNCHANGED <<at, home, job, out, targets>>
      BY <2>1, <2>2, <1>a
    <2>3. ASSUME NEW w \in Workers, at' = [at EXCEPT ![w] = "looping"], NEW k \in Keys,
                 home' = [home EXCEPT ![w] = k], UNCHANGED <<job, out, targets>>
          PROVE  OwnTargets'
      <3>1. at'[w] = "looping" /\ \A v \in Workers : v # w => at'[v] = at[v] /\ home'[v] = home[v]
        BY <1>0, <2>3 DEF TypeOK, Actors
      <3> QED
        BY <2>1, <2>3, <3>1, <1>a DEF HasTurn
    <2> QED
      BY <1>0, <1>1, <2>2, <2>3, ArriveEffect, EnqueueEffect
  <1>2. ASSUME NEW c \in Consoles, Command(c) PROVE OwnTargets'
    <2>1. /\ UNCHANGED <<sent, out, targets>>
          /\ \A w \in Workers : at'[w] = at[w] /\ job'[w] = job[w] /\ home'[w] = home[w]
      BY <1>0, <1>2 DEF Command, GoTo, TypeOK, Actors, history
    <2> QED
      BY <2>1, <1>a
  <1>3. ASSUME NEW a \in Actors, Step(a) PROVE OwnTargets'
    <2>0. at[a] # "idle"
      BY <1>3 DEF Step, Retire, Pop, Dedup, Panic, Refuse, Admit, Acquire, BeginReply, EndReply
    <2>1. home[a] \in Keys
      BY <2>0, Placed
    <2>2. /\ \A w \in Workers : w # a => at'[w] = at[w] /\ job'[w] = job[w] /\ out'[w] = out[w]
                                         /\ home'[w] = home[w]
          /\ \A k \in Keys : k # home[a] => targets'[k] = targets[k]
      BY <1>0, <1>3, <2>1 DEF Step, Retire, Pop, Dedup, Panic, Refuse, Admit, Acquire,
                        BeginReply, EndReply, GoTo, TypeOK, Actors
    <2>3. \A w \in Workers : w # a /\ at'[w] \in HasTurn
                               => targets'[home'[w]] = targets[home[w]]
      <3> TAKE w \in Workers
      <3> HAVE w # a /\ at'[w] \in HasTurn
      <3>1. at[w] \in HasTurn /\ home'[w] = home[w]
        BY <2>2
      <3>2. home[w] \in Keys /\ home[w] # home[a]
        BY <1>h, <2>0, <3>1, Placed DEF Actors, HasTurn
      <3> QED
        BY <2>2, <3>1, <3>2
    <2>o. ASSUME sent' = sent,
                 a \in Workers =>
                   /\ at'[a] \in {"dedup", "routing", "locking", "running"}
                        => targets'[home'[a]] = job'[a]
                   /\ at'[a] = "replying" => out'[a] = job'[a]
          PROVE  OwnTargets'
      <3>1. RepliesToOwnTarget'
        BY <2>o DEF OwnTargets, RepliesToOwnTarget
      <3>2. ASSUME NEW w \in Workers
            PROVE  /\ at'[w] \in {"dedup", "routing", "locking", "running"}
                        => targets'[home'[w]] = job'[w]
                   /\ at'[w] = "replying" => out'[w] = job'[w]
        <4>1. CASE w = a
          BY <2>o, <4>1
        <4>2. CASE w # a
          BY <2>2, <2>3, <4>2 DEF OwnTargets, HasTurn
        <4> QED
          BY <4>1, <4>2
      <3> QED
        BY <3>1, <3>2 DEF OwnTargets
    <2>4. CASE a \in Workers /\ Pop(a)
      <3>1. /\ sent' = sent /\ at'[a] = "dedup" /\ home' = home
            /\ job'[a] = Head(queue[home[a]]) /\ targets'[home[a]] = Head(queue[home[a]])
        BY <1>0, <2>1, <2>4 DEF Pop, GoTo, TypeOK, history
      <3> QED
        BY <2>o, <3>1
    <2>5. CASE a \in Workers /\ (Retire(a) \/ Panic(a))
      <3>1. sent' = sent /\ at'[a] = "idle"
        BY <1>0, <2>5 DEF Retire, Panic, GoTo, TypeOK, history
      <3> QED
        BY <2>o, <3>1
    <2>6. CASE a \in Workers /\ Dedup(a)
      <3>1. /\ sent' = sent /\ home' = home /\ targets' = targets /\ at[a] = "dedup"
            /\ at'[a] = "looping" \/ (at'[a] = "routing" /\ job'[a] = job[a])
        BY <1>0, <2>6 DEF Dedup, GoTo, TypeOK, history
      <3> QED
        BY <2>o, <2>6, <3>1 DEF OwnTargets
    <2>7. CASE Refuse(a)
      <3>1. sent' = sent /\ at'[a] = Rest(a)
        BY <1>0, <2>7 DEF Refuse, GoTo, TypeOK, history
      <3> QED
        BY <2>o, <3>1 DEF Rest
    <2>8. CASE Admit(a) \/ Acquire(a)
      <3>1. /\ sent' = sent /\ UNCHANGED <<home, targets, job>>
            /\ at[a] \in {"routing", "locking"} /\ at'[a] \in {"locking", "running"}
        BY <1>0, <2>8 DEF Admit, Acquire, GoTo, TypeOK, history
      <3> QED
        BY <2>o, <3>1 DEF OwnTargets
    <2>9. CASE BeginReply(a)
      <3>1. /\ sent' = sent /\ job' = job /\ at[a] \in {"routing", "running"}
            /\ at'[a] = "replying" /\ out'[a] = targets[home[a]]
        BY <1>0, <2>9 DEF BeginReply, GoTo, TypeOK, history
      <3> QED
        BY <2>o, <3>1 DEF OwnTargets
    <2>10. CASE EndReply(a)
      <3>1. /\ sent' = sent \cup {<<job[a], out[a]>>} /\ at'[a] = Rest(a) /\ at[a] = "replying"
        BY <1>0, <2>10 DEF EndReply, GoTo, TypeOK
      <3>2. job[a] \in Turns => job[a] = out[a]
        <4>1. CASE a \in Workers
          BY <3>1, <4>1 DEF OwnTargets
        <4>2. CASE a \in Consoles
          BY <1>0, <2>0, <4>2 DEF QInv, Jobs
        <4> QED
          BY <4>1, <4>2 DEF Actors
      <3>3. RepliesToOwnTarget'
        BY <3>1, <3>2 DEF OwnTargets, RepliesToOwnTarget
      <3>4. ASSUME NEW w \in Workers
            PROVE  /\ at'[w] \in {"dedup", "routing", "locking", "running"}
                        => targets'[home'[w]] = job'[w]
                   /\ at'[w] = "replying" => out'[w] = job'[w]
        <4>1. CASE w = a
          BY <3>1, <4>1 DEF Rest
        <4>2. CASE w # a
          BY <2>2, <2>3, <4>2 DEF OwnTargets, HasTurn
        <4> QED
          BY <4>1, <4>2
      <3> QED
        BY <3>3, <3>4 DEF OwnTargets
    <2> QED
      BY <1>3, <2>4, <2>5, <2>6, <2>7, <2>8, <2>9, <2>10 DEF Step
  <1>4. CASE Close \/ WaitReturns \/ UNCHANGED vars
    BY <1>4, <1>a DEF Close, WaitReturns, vars, worker, history
  <1>5. CASE Crash
    <2>1. sent' = sent /\ \A w \in Workers : at'[w] = "idle"
      BY <1>5 DEF Crash, Fresh, Actors
    <2> QED
      BY <2>1, <1>a DEF HasTurn
  <1> QED
    BY <1>1, <1>2, <1>3, <1>4, <1>5 DEF Next, Arrive

(* Where no Console speaks in a session with queued turns, whatever a turn *)
(* answers goes to the conversation it came from: turns "can't stomp each  *)
(* other's destination" (connector_queue.go).  The run queue_console shows *)
(* what a Console turn in the same session does.                           *)
THEOREM RepliesGoHome ==
  ASSUME ConsolesApart
  PROVE  Spec => []RepliesToOwnTarget
  <1>1. Init => OwnTargets
    BY DEF Init, OwnTargets, RepliesToOwnTarget, Actors
  <1>2. QInv /\ OwnTargets /\ [Next]_vars => OwnTargets'
    BY OwnTargetsStep
  <1>3. OwnTargets => RepliesToOwnTarget
    BY DEF OwnTargets
  <1> QED
    BY <1>1, <1>2, <1>3, QueueInvariant, PTL DEF Spec

-----------------------------------------------------------------------------
(* The serial queue that the refinement mapping shows.                     *)
Taken == {"dedup", "routing", "locking"}
Waiting == [k \in Keys |->
              IF InHand(k) = {} THEN queue[k]
              ELSE <<job[CHOOSE w \in InHand(k) : TRUE]>> \o queue[k]]
Serving == [k \in Keys |-> IF lock[k] \in Workers THEN job[lock[k]] ELSE None]

LEMMA Cons ==
  ASSUME NEW x \in Turns, NEW y \in Turns, NEW s \in Seq(Turns)
  PROVE  /\ <<x>> \o s # <<>> /\ Head(<<x>> \o s) = x /\ Tail(<<x>> \o s) = s
         /\ <<x>> \o Append(s, y) = Append(<<x>> \o s, y)
         /\ s # <<>> => <<Head(s)>> \o Tail(s) = s
  OBVIOUS

(* A session whose worker has a turn in hand waits with that turn first.   *)
LEMMA WaitingNow ==
  ASSUME QInv, NEW k \in Keys
  PROVE  /\ (\A w \in Workers : home[w] = k => at[w] \notin Taken) => Waiting[k] = queue[k]
         /\ \A w \in Workers : home[w] = k /\ at[w] \in Taken
                                 => Waiting[k] = <<job[w]>> \o queue[k]
  <1>1. ASSUME \A w \in Workers : home[w] = k => at[w] \notin Taken
        PROVE  Waiting[k] = queue[k]
    <2>1. InHand(k) = {}
      BY <1>1 DEF InHand, Taken
    <2> QED
      BY <2>1 DEF Waiting
  <1>2. ASSUME NEW w \in Workers, home[w] = k, at[w] \in Taken
        PROVE  Waiting[k] = <<job[w]>> \o queue[k]
    <2>1. InHand(k) = {w}
      BY <1>2, QueueAssumption DEF InHand, Taken, QInv, Homes
    <2>2. (CHOOSE v \in InHand(k) : TRUE) = w
      BY <2>1
    <2> QED
      BY <2>1, <2>2 DEF Waiting
  <1> QED
    BY <1>1, <1>2

LEMMA WaitingNext ==
  ASSUME QInv', NEW k \in Keys
  PROVE  /\ (\A w \in Workers : home'[w] = k => at'[w] \notin Taken) => Waiting'[k] = queue'[k]
         /\ \A w \in Workers : home'[w] = k /\ at'[w] \in Taken
                                 => Waiting'[k] = <<job'[w]>> \o queue'[k]
  <1>1. ASSUME \A w \in Workers : home'[w] = k => at'[w] \notin Taken
        PROVE  Waiting'[k] = queue'[k]
    <2>1. InHand(k)' = {}
      BY <1>1 DEF InHand, Taken
    <2> QED
      BY <2>1 DEF Waiting
  <1>2. ASSUME NEW w \in Workers, home'[w] = k, at'[w] \in Taken
        PROVE  Waiting'[k] = <<job'[w]>> \o queue'[k]
    <2>1. InHand(k)' = {w}
      BY <1>2, QueueAssumption DEF InHand, Taken, QInv, Homes
    <2>2. (CHOOSE v \in InHand(k)' : TRUE) = w
      BY <2>1
    <2> QED
      BY <2>1, <2>2 DEF Waiting
  <1> QED
    BY <1>1, <1>2

(* What waits for a session does not change while its queue does not and   *)
(* no worker takes a turn of it up or lays one down.                       *)
LEMMA WaitingStays ==
  ASSUME QInv, QInv', NEW k \in Keys, queue'[k] = queue[k],
         \A w \in Workers :
            \/ /\ home'[w] = home[w] /\ job'[w] = job[w]
               /\ at'[w] \in Taken <=> at[w] \in Taken
            \/ /\ home[w] = k => at[w] \notin Taken
               /\ home'[w] = k => at'[w] \notin Taken
  PROVE  Waiting'[k] = Waiting[k]
  <1>1. CASE \A w \in Workers : home[w] = k => at[w] \notin Taken
    <2>1. \A w \in Workers : home'[w] = k => at'[w] \notin Taken
      BY <1>1
    <2> QED
      BY <1>1, <2>1, WaitingNow, WaitingNext
  <1>2. ASSUME NEW w \in Workers, home[w] = k, at[w] \in Taken
        PROVE  Waiting'[k] = Waiting[k]
    <2>1. home'[w] = k /\ at'[w] \in Taken /\ job'[w] = job[w]
      BY <1>2
    <2>2. Waiting[k] = <<job[w]>> \o queue[k]
      BY <1>2, WaitingNow
    <2>3. Waiting'[k] = <<job'[w]>> \o queue'[k]
      BY <2>1, WaitingNext
    <2> QED
      BY <2>1, <2>2, <2>3
  <1> QED
    BY <1>1, <1>2

(* Only the holder of a session's lock is served.                          *)
LEMMA ServingNow ==
  ASSUME QInv, NEW k \in Keys
  PROVE  /\ lock[k] \notin Workers => Serving[k] = None
         /\ \A w \in Workers : lock[k] = w => Serving[k] = job[w] /\ job[w] \in Turns
         /\ \A w \in Workers : home[w] = k /\ lock[k] # w => Serving[k] = None
  <1>1. lock[k] \notin Workers => Serving[k] = None
    BY DEF Serving
  <1>2. ASSUME NEW w \in Workers, lock[k] = w
        PROVE  Serving[k] = job[w] /\ job[w] \in Turns /\ home[w] = k
    <2>1. w # None
      BY QueueAssumption DEF Actors
    <2>2. home[w] = k /\ at[w] \in {"running", "replying"}
      BY <1>2, <2>1 DEF QInv, Locks
    <2>3. job[w] \in Turns
      BY <2>2 DEF QInv, Jobs, HasTurn
    <2> QED
      BY <1>2, <2>2, <2>3 DEF Serving
  <1>3. ASSUME NEW w \in Workers, home[w] = k, lock[k] # w PROVE Serving[k] = None
    <2>1. lock[k] \notin Workers
      BY <1>2, <1>3, QueueAssumption DEF QInv, Homes
    <2> QED
      BY <1>1, <2>1
  <1> QED
    BY <1>1, <1>2, <1>3

-----------------------------------------------------------------------------
(* The steps of the serial queue, point by point.                          *)
LEMMA Shapes ==
  /\ Waiting = [k \in Keys |-> Waiting[k]] /\ Serving = [k \in Keys |-> Serving[k]]
  /\ Waiting' = [k \in Keys |-> Waiting'[k]] /\ Serving' = [k \in Keys |-> Serving'[k]]
  BY DEF Waiting, Serving

LEMMA SerialStutter ==
  ASSUME \A k \in Keys : Waiting'[k] = Waiting[k], \A k \in Keys : Serving'[k] = Serving[k],
         stage' = "stopped" <=> stage = "stopped"
  PROVE  UNCHANGED ST!vars
  <1>1. Waiting' = Waiting /\ Serving' = Serving
    BY Shapes
  <1>2. (stage = "stopped")' = (stage = "stopped")
    OBVIOUS
  <1> QED
    BY <1>1, <1>2 DEF ST!vars, Waiting, Serving

LEMMA SerialQueue ==
  ASSUME NEW k \in Keys, NEW x \in Turns, stage # "stopped", stage' = stage,
         Waiting'[k] = Append(Waiting[k], x), \A j \in Keys : j # k => Waiting'[j] = Waiting[j],
         \A j \in Keys : Serving'[j] = Serving[j]
  PROVE  ST!Next
  <1>1. Waiting' = [Waiting EXCEPT ![k] = Append(Waiting[k], x)] /\ Serving' = Serving
    BY Shapes
  <1>2. ST!Queue(k, x)
    BY <1>1 DEF ST!Queue, Waiting, Serving
  <1> QED
    BY <1>2 DEF ST!Next

LEMMA SerialDrop ==
  ASSUME NEW k \in Keys, stage # "stopped", stage' = stage,
         Serving[k] = None, Waiting[k] # <<>>, Waiting'[k] = Tail(Waiting[k]),
         \A j \in Keys : j # k => Waiting'[j] = Waiting[j],
         \A j \in Keys : Serving'[j] = Serving[j]
  PROVE  ST!Next
  <1>1. Waiting' = [Waiting EXCEPT ![k] = Tail(Waiting[k])] /\ Serving' = Serving
    BY Shapes
  <1>2. ST!Drop(k)
    BY <1>1 DEF ST!Drop, Waiting, Serving
  <1> QED
    BY <1>2 DEF ST!Next

LEMMA SerialServe ==
  ASSUME NEW k \in Keys, stage # "stopped", stage' = stage,
         Serving[k] = None, Waiting[k] # <<>>,
         Serving'[k] = Head(Waiting[k]), Waiting'[k] = Tail(Waiting[k]),
         \A j \in Keys : j # k => Waiting'[j] = Waiting[j],
         \A j \in Keys : j # k => Serving'[j] = Serving[j]
  PROVE  ST!Next
  <1>1. /\ Waiting' = [Waiting EXCEPT ![k] = Tail(Waiting[k])]
        /\ Serving' = [Serving EXCEPT ![k] = Head(Waiting[k])]
    BY Shapes
  <1>2. ST!Serve(k)
    BY <1>1 DEF ST!Serve, Waiting, Serving
  <1> QED
    BY <1>2 DEF ST!Next

LEMMA SerialDone ==
  ASSUME NEW k \in Keys, stage' = stage, Serving[k] # None, Serving'[k] = None,
         \A j \in Keys : Waiting'[j] = Waiting[j],
         \A j \in Keys : j # k => Serving'[j] = Serving[j]
  PROVE  ST!Next
  <1>1. Waiting' = Waiting /\ Serving' = [Serving EXCEPT ![k] = None]
    BY Shapes
  <1>2. ST!Done(k)
    BY <1>1 DEF ST!Done, Waiting, Serving
  <1> QED
    BY <1>2 DEF ST!Next

-----------------------------------------------------------------------------
(* A worker drops the turn it has in hand.                                 *)
LEMMA WorkerDrops ==
  ASSUME QInv, QInv', NEW a \in Workers, at[a] \in Taken, at'[a] \notin Taken,
         stage' = stage, lock' = lock, queue' = queue,
         \A v \in Workers : v # a => at'[v] = at[v] /\ home'[v] = home[v] /\ job'[v] = job[v],
         home'[a] = home[a] \/ home'[a] = None
  PROVE  ST!Next
  <1> DEFINE k == home[a]
  <1>0. TypeOK /\ a \in Actors /\ None \notin Keys \cup Actors /\ Workers \cap Consoles = {}
    BY QueueAssumption DEF QInv, Actors
  <1>1. k \in Keys /\ job[a] \in Turns /\ queue[k] \in Seq(Turns)
    BY <1>0, Placed DEF Taken, HasTurn, QInv, Jobs, TypeOK
  <1>2. \A v \in Workers : home[v] = k => v = a
    BY <1>0, <1>1 DEF QInv, Homes
  <1>3. Waiting[k] = <<job[a]>> \o queue[k]
    BY <1>1, WaitingNow
  <1>4. Waiting'[k] = queue[k]
    BY <1>1, <1>2, WaitingNext
  <1>5. Waiting[k] # <<>> /\ Waiting'[k] = Tail(Waiting[k])
    BY <1>1, <1>3, <1>4, Cons
  <1>6. \A j \in Keys : j # k => Waiting'[j] = Waiting[j]
    BY <1>0, WaitingStays
  <1>7. \A j \in Keys : lock[j] # a
    BY <1>0 DEF QInv, Locks, Taken
  <1>8. Serving[k] = None
    BY <1>1, <1>7, ServingNow
  <1>9. \A j \in Keys : Serving'[j] = Serving[j]
    BY <1>7 DEF Serving
  <1>10. stage # "stopped"
    BY <1>0 DEF QInv, StoppedMeansQuiet, Taken
  <1> HIDE DEF k
  <1> QED
    BY <1>1, <1>5, <1>6, <1>8, <1>9, <1>10, SerialDrop

(* A goroutine leaves its session's lock, if it has it.                    *)
LEMMA LockReleased ==
  ASSUME QInv, QInv', NEW a \in Actors, at[a] = "replying",
         a \in Workers => at'[a] \notin Taken,
         stage' = stage, Unlock(a), queue' = queue,
         \A v \in Workers : v # a => at'[v] = at[v] /\ home'[v] = home[v] /\ job'[v] = job[v]
  PROVE  ST!Next \/ UNCHANGED ST!vars
  <1>0. TypeOK /\ None \notin Keys \cup Turns \cup Actors /\ Workers \cap Consoles = {}
    BY QueueAssumption DEF QInv
  <1>1. home[a] \in Keys
    BY Placed
  <1>2. \A j \in Keys : Waiting'[j] = Waiting[j]
    BY WaitingStays DEF Taken
  <1>3. /\ \A j \in Keys : j # home[a] => lock'[j] = lock[j]
        /\ lock'[home[a]] = IF lock[home[a]] = a THEN None ELSE lock[home[a]]
    BY <1>0, <1>1 DEF Unlock, TypeOK
  <1>4. \A j \in Keys : j # home[a] => lock[j] # a
    BY <1>0 DEF QInv, Locks
  <1>5. \A j \in Keys : j # home[a] => Serving'[j] = Serving[j]
    BY <1>3, <1>4 DEF Serving
  <1>6. CASE a \in Workers /\ lock[home[a]] = a
    <2>1. Serving[home[a]] # None
      BY <1>0, <1>1, <1>6, ServingNow
    <2>2. Serving'[home[a]] = None
      BY <1>0, <1>1, <1>3, <1>6 DEF Serving, Actors
    <2> QED
      BY <1>1, <1>2, <1>5, <2>1, <2>2, SerialDone
  <1>7. CASE ~(a \in Workers /\ lock[home[a]] = a)
    <2>1. Serving'[home[a]] = Serving[home[a]]
      BY <1>0, <1>1, <1>3, <1>7 DEF Serving, Actors
    <2> QED
      BY <1>2, <1>5, <2>1, SerialStutter
  <1> QED
    BY <1>6, <1>7

(* Every step of the turn queue is a step of the serial queue, or none.    *)
LEMMA SerialStep ==
  ASSUME QInv, [Next]_vars PROVE ST!Next \/ UNCHANGED ST!vars
  <1>i. QInv'
    BY QStep
  <1>0. /\ TypeOK /\ None \notin Keys \cup Turns \cup Actors /\ Workers \cap Consoles = {}
        /\ Turns \cap Consoles = {}
    BY QueueAssumption DEF QInv
  <1>s. ASSUME lock' = lock, \A w \in Workers : job'[w] = job[w] \/ \A j \in Keys : lock[j] # w
        PROVE  \A j \in Keys : Serving'[j] = Serving[j]
    BY <1>s DEF Serving
  <1>1. CASE Arrive
    <2>0. stage' = stage /\ lock' = lock
      BY <1>0, <1>1, ArriveEffect
    <2>1. CASE UNCHANGED <<queue, running, wg, at, home, job, out, targets>>
      BY <1>i, <2>0, <2>1, <1>s, WaitingStays, SerialStutter
    <2>2. ASSUME NEW x \in Turns, stage = "up", KeyOf[x] \in Keys,
                 queue' = [queue EXCEPT ![KeyOf[x]] = Append(queue[KeyOf[x]], x)], job' = job,
                 \A w \in Workers : \/ at'[w] = at[w] /\ home'[w] = home[w]
                                    \/ at[w] = "idle" /\ at'[w] = "looping"
          PROVE  ST!Next
      <3> DEFINE k == KeyOf[x]
      <3>1. \A j \in Keys : Serving'[j] = Serving[j]
        BY <1>s, <2>0, <2>2
      <3>2. \A j \in Keys : j # k => queue'[j] = queue[j]
        BY <1>0, <2>2 DEF TypeOK
      <3>3. \A j \in Keys : j # k => Waiting'[j] = Waiting[j]
        BY <1>i, <2>2, <3>2, WaitingStays DEF Taken
      <3>4. queue'[k] = Append(queue[k], x) /\ queue[k] \in Seq(Turns)
        BY <1>0, <2>2 DEF TypeOK
      <3>5. k \in Keys
        BY <2>2
      <3>6. Waiting'[k] = Append(Waiting[k], x)
        <4>1. CASE \A w \in Workers : home[w] = k => at[w] \notin Taken
          <5>1. \A w \in Workers : home'[w] = k => at'[w] \notin Taken
            BY <2>2, <4>1 DEF Taken
          <5> QED
            BY <1>i, <2>2, <3>4, <4>1, <5>1, WaitingNow, WaitingNext
        <4>2. ASSUME NEW w \in Workers, home[w] = k, at[w] \in Taken
              PROVE  Waiting'[k] = Append(Waiting[k], x)
          <5>1. home'[w] = k /\ at'[w] \in Taken /\ job'[w] = job[w]
            BY <2>2, <4>2 DEF Taken
          <5>2. job[w] \in Turns
            BY <4>2 DEF Taken, HasTurn, QInv, Jobs
          <5> HIDE DEF k
          <5>3. Waiting[k] = <<job[w]>> \o queue[k]
            BY <3>5, <4>2, WaitingNow
          <5>4. Waiting'[k] = <<job[w]>> \o queue'[k]
            BY <1>i, <3>5, <5>1, WaitingNext
          <5>5. <<job[w]>> \o Append(queue[k], x) = Append(<<job[w]>> \o queue[k], x)
            BY <3>4, <5>2, Cons
          <5> QED
            BY <3>4, <5>3, <5>4, <5>5
        <4> QED
          BY <4>1, <4>2
      <3> HIDE DEF k
      <3> QED
        BY <2>0, <2>2, <3>1, <3>3, <3>5, <3>6, SerialQueue
    <2>3. ASSUME NEW x \in Turns, Enqueue(x) PROVE ST!Next \/ UNCHANGED ST!vars
      <3>1. CASE UNCHANGED <<queue, running, wg, at, home, job, out, targets>>
        BY <2>1, <3>1
      <3>2. CASE /\ stage = "up" /\ KeyOf[x] \in Keys
                 /\ queue' = [queue EXCEPT ![KeyOf[x]] = Append(queue[KeyOf[x]], x)]
                 /\ job' = job /\ UNCHANGED <<at, home>>
        BY <2>2, <3>2
      <3>3. ASSUME stage = "up", KeyOf[x] \in Keys,
                   queue' = [queue EXCEPT ![KeyOf[x]] = Append(queue[KeyOf[x]], x)],
                   job' = job, NEW w \in Workers, at[w] = "idle",
                   at' = [at EXCEPT ![w] = "looping"],
                   home' = [home EXCEPT ![w] = KeyOf[x]]
            PROVE  ST!Next
        <4>1. \A v \in Workers : \/ at'[v] = at[v] /\ home'[v] = home[v]
                                 \/ at[v] = "idle" /\ at'[v] = "looping"
          BY <1>0, <3>3 DEF TypeOK, Actors
        <4> QED
          BY <2>2, <3>3, <4>1
      <3> QED
        BY <1>0, <2>3, <3>1, <3>2, <3>3, EnqueueEffect
    <2> QED
      BY <1>0, <1>1, <2>1, <2>3, ArriveEffect
  <1>2. ASSUME NEW c \in Consoles, Command(c) PROVE UNCHANGED ST!vars
    <2>1. /\ stage' = stage /\ lock' = lock /\ queue' = queue
          /\ \A w \in Workers : at'[w] = at[w] /\ home'[w] = home[w] /\ job'[w] = job[w]
      BY <1>0, <1>2 DEF Command, GoTo, TypeOK, Actors
    <2> QED
      BY <1>i, <1>s, <2>1, WaitingStays, SerialStutter
  <1>3. ASSUME NEW a \in Actors, Step(a) PROVE ST!Next \/ UNCHANGED ST!vars
    <2>0. /\ at[a] # "idle" /\ stage' = stage
          /\ \A v \in Workers : v # a => at'[v] = at[v] /\ home'[v] = home[v] /\ job'[v] = job[v]
      BY <1>0, <1>3 DEF Step, Retire, Pop, Dedup, Panic, Refuse, Admit, Acquire, BeginReply,
                        EndReply, GoTo, TypeOK, Actors
    <2>h. home[a] \in Keys
      BY <2>0, Placed
    <2>u. ASSUME lock' = lock, queue' = queue, a \in Workers => job'[a] = job[a] \/ at[a] = "dedup",
                 a \in Workers => \/ at[a] \notin Taken /\ at'[a] \notin Taken
                                  \/ /\ at[a] \in Taken /\ at'[a] \in Taken
                                     /\ home'[a] = home[a] /\ job'[a] = job[a]
          PROVE  UNCHANGED ST!vars
      <3>1. \A j \in Keys : Waiting'[j] = Waiting[j]
        BY <1>i, <2>0, <2>u, WaitingStays
      <3>2. \A j \in Keys : at[a] = "dedup" => lock[j] # a
        BY <1>0 DEF QInv, Locks
      <3>3. \A j \in Keys : Serving'[j] = Serving[j]
        BY <1>s, <2>0, <2>u, <3>2
      <3> QED
        BY <2>0, <3>1, <3>3, SerialStutter
    <2>1. CASE a \in Workers /\ Retire(a)
      <3>1. /\ lock' = lock /\ queue' = queue /\ job' = job
            /\ at[a] = "looping" /\ at'[a] = "idle"
        BY <1>0, <2>1 DEF Retire, TypeOK
      <3> QED
        BY <2>u, <3>1 DEF Taken
    <2>2. CASE a \in Workers /\ Pop(a)
      <3> DEFINE k == home[a]  q == queue[home[a]]
      <3>1. q \in Seq(Turns) /\ q # <<>> /\ Head(q) \in Turns /\ Tail(q) \in Seq(Turns)
        BY <1>0, <2>h, <2>2 DEF Pop, TypeOK
      <3>2. /\ at[a] = "looping" /\ at'[a] = "dedup" /\ home' = home /\ lock' = lock
            /\ job'[a] = Head(q) /\ queue'[k] = Tail(q)
            /\ \A j \in Keys : j # k => queue'[j] = queue[j]
        BY <1>0, <2>h, <2>2 DEF Pop, GoTo, TypeOK
      <3>3. Waiting[k] = q
        BY <1>0, <2>h, <2>2, <3>2, WaitingNow DEF QInv, Homes, Taken
      <3>4. Waiting'[k] = <<Head(q)>> \o Tail(q)
        BY <1>i, <2>h, <2>2, <3>2, WaitingNext DEF Taken
      <3>5. Waiting'[k] = Waiting[k]
        BY <3>1, <3>3, <3>4, Cons
      <3>6. \A j \in Keys : j # k => Waiting'[j] = Waiting[j]
        BY <1>i, <2>0, <3>2, WaitingStays DEF Taken
      <3>7. \A j \in Keys : lock[j] # a
        BY <1>0, <3>2 DEF QInv, Locks
      <3>8. \A j \in Keys : Serving'[j] = Serving[j]
        BY <1>s, <2>0, <3>2, <3>7
      <3> QED
        BY <2>0, <3>5, <3>6, <3>8, SerialStutter
    <2>3. CASE a \in Workers /\ Dedup(a)
      <3>1. /\ lock' = lock /\ queue' = queue /\ home' = home /\ at[a] = "dedup"
            /\ at'[a] = "looping" \/ (at'[a] = "routing" /\ job'[a] = job[a])
        BY <1>0, <2>3 DEF Dedup, GoTo, TypeOK
      <3>2. CASE at'[a] = "looping"
        BY <1>i, <2>0, <2>3, <3>1, <3>2, WorkerDrops DEF Taken
      <3>3. CASE at'[a] = "routing" /\ job'[a] = job[a]
        BY <2>u, <3>1, <3>3 DEF Taken
      <3> QED
        BY <3>1, <3>2, <3>3
    <2>4. CASE a \in Workers /\ Panic(a)
      <3>1. /\ at[a] \in {"routing", "replying"} /\ at'[a] = "idle" /\ Unlock(a)
            /\ queue' = queue /\ home'[a] = None
        BY <1>0, <2>4 DEF Panic, GoTo, TypeOK
      <3>2. CASE at[a] = "routing"
        <4>1. \A j \in Keys : lock[j] # a
          BY <1>0, <3>2 DEF QInv, Locks
        <4>2. lock' = lock
          BY <1>0, <2>h, <3>1, <4>1 DEF Unlock, TypeOK
        <4> QED
          BY <1>i, <2>0, <2>4, <3>1, <3>2, <4>2, WorkerDrops DEF Taken
      <3>3. CASE at[a] = "replying"
        BY <1>i, <2>0, <3>1, <3>3, LockReleased DEF Taken
      <3> QED
        BY <3>1, <3>2, <3>3
    <2>5. CASE Refuse(a)
      <3>1. /\ at[a] = "routing" /\ at'[a] = Rest(a) /\ lock' = lock /\ queue' = queue
            /\ home' = home
        BY <1>0, <2>5 DEF Refuse, GoTo, TypeOK
      <3>2. CASE a \in Workers
        BY <1>i, <2>0, <3>1, <3>2, WorkerDrops DEF Rest, Taken
      <3>3. CASE a \notin Workers
        BY <2>u, <3>1, <3>3
      <3> QED
        BY <3>2, <3>3
    <2>6. CASE Admit(a)
      <3>1. /\ at[a] = "routing" /\ at'[a] = "locking" /\ lock' = lock /\ queue' = queue
            /\ home' = home /\ job' = job
        BY <1>0, <2>6 DEF Admit, GoTo, TypeOK
      <3> QED
        BY <2>u, <3>1 DEF Taken
    <2>7. CASE Acquire(a)
      <3> DEFINE k == home[a]
      <3>1. /\ at[a] = "locking" /\ at'[a] = "running" /\ lock[k] = None /\ lock'[k] = a
            /\ queue' = queue /\ home' = home /\ job' = job
            /\ \A j \in Keys : j # k => lock'[j] = lock[j]
        BY <1>0, <2>h, <2>7 DEF Acquire, GoTo, TypeOK
      <3>2. \A j \in Keys : j # k => Serving'[j] = Serving[j]
        BY <3>1 DEF Serving
      <3>3. None \notin Workers
        BY <1>0 DEF Actors
      <3>4. Serving[k] = None
        BY <2>h, <3>1, <3>3, ServingNow
      <3>5. CASE a \in Workers
        <4>1. job[a] \in Turns /\ queue[k] \in Seq(Turns)
          BY <1>0, <2>h, <3>1, <3>5 DEF QInv, Jobs, HasTurn, TypeOK
        <4>2. Waiting[k] = <<job[a]>> \o queue[k]
          BY <2>h, <3>1, <3>5, WaitingNow DEF Taken
        <4>3. Waiting'[k] = queue[k]
          <5>1. \A w \in Workers : home[w] = k => w = a
            BY <1>0, <2>h, <3>5 DEF QInv, Homes
          <5>2. \A w \in Workers : home'[w] = k => at'[w] \notin Taken
            BY <3>1, <5>1 DEF Taken
          <5> QED
            BY <1>i, <2>h, <3>1, <5>2, WaitingNext
        <4>4. /\ Waiting[k] # <<>> /\ Waiting'[k] = Tail(Waiting[k])
              /\ job[a] = Head(Waiting[k])
          BY <4>1, <4>2, <4>3, Cons
        <4>5. Serving'[k] = job[a]
          BY <2>h, <3>1, <3>5 DEF Serving
        <4>6. \A j \in Keys : j # k => Waiting'[j] = Waiting[j]
          BY <1>i, <2>0, <3>1, WaitingStays
        <4>7. stage # "stopped"
          BY <2>0, <3>5 DEF QInv, StoppedMeansQuiet
        <4> HIDE DEF k
        <4>8. k \in Keys
          BY <2>h DEF k
        <4> QED
          BY <2>0, <3>2, <3>4, <4>4, <4>5, <4>6, <4>7, <4>8, SerialServe
      <3>6. CASE a \notin Workers
        <4>1. Serving'[k] = None
          BY <2>h, <3>1, <3>6 DEF Serving
        <4>2. \A j \in Keys : Waiting'[j] = Waiting[j]
          BY <1>i, <2>0, <3>1, <3>6, WaitingStays
        <4> QED
          BY <2>0, <3>2, <3>4, <4>1, <4>2, SerialStutter
      <3> QED
        BY <3>5, <3>6
    <2>8. CASE BeginReply(a)
      <3>1. /\ at[a] \in {"routing", "running"} /\ at'[a] = "replying" /\ lock' = lock
            /\ queue' = queue /\ home' = home /\ job' = job
        BY <1>0, <2>8 DEF BeginReply, GoTo, TypeOK
      <3>2. CASE a \in Workers /\ at[a] = "routing"
        BY <1>i, <2>0, <3>1, <3>2, WorkerDrops DEF Taken
      <3>3. CASE ~(a \in Workers /\ at[a] = "routing")
        BY <2>u, <3>1, <3>3 DEF Taken
      <3> QED
        BY <3>2, <3>3
    <2>9. CASE EndReply(a)
      <3>1. /\ at[a] = "replying" /\ at'[a] = Rest(a) /\ Unlock(a) /\ queue' = queue
        BY <1>0, <2>9 DEF EndReply, GoTo, TypeOK
      <3> QED
        BY <1>i, <2>0, <3>1, LockReleased DEF Rest, Taken
    <2> QED
      BY <1>3, <2>1, <2>2, <2>3, <2>4, <2>5, <2>6, <2>7, <2>8, <2>9 DEF Step
  <1>4. CASE Close \/ UNCHANGED vars
    <2>1. /\ UNCHANGED <<queue, lock, at, home, job>>
          /\ stage' = "stopped" <=> stage = "stopped"
      BY <1>4 DEF Close, vars, worker
    <2> QED
      BY <1>i, <1>s, <2>1, WaitingStays, SerialStutter
  <1>5. CASE WaitReturns
    <2>1. UNCHANGED <<queue, lock, at, home, job>> /\ stage = "closing" /\ stage' = "stopped"
      BY <1>5 DEF WaitReturns, worker
    <2>2. \A w \in Workers : at[w] = "idle"
      BY <1>i, <2>1 DEF QInv, StoppedMeansQuiet
    <2>3. \A k \in Keys : lock[k] \notin Workers
      BY <1>0, <2>2 DEF QInv, Locks, Actors
    <2>4. \A k \in Keys : Serving[k] = None
      BY <2>3 DEF Serving
    <2>5. Waiting' = Waiting /\ Serving' = Serving
      BY <1>i, <1>s, <2>1, WaitingStays, Shapes
    <2>6. ST!Shut
      BY <2>1, <2>4, <2>5 DEF ST!Shut, Waiting, Serving
    <2> QED
      BY <2>6 DEF ST!Next
  <1>6. CASE Crash
    <2>1. /\ queue' = [k \in Keys |-> <<>>] /\ lock' = [k \in Keys |-> None] /\ stage' = "up"
          /\ \A w \in Workers : at'[w] = "idle"
      BY <1>6 DEF Crash, Fresh, Actors
    <2>2. \A k \in Keys : Waiting'[k] = <<>>
      BY <1>i, <2>1, WaitingNext DEF Taken
    <2>3. \A k \in Keys : Serving'[k] = None
      BY <1>0, <2>1 DEF Serving, Actors
    <2>4. Waiting' = [k \in Keys |-> <<>>] /\ Serving' = [k \in Keys |-> None]
      BY <2>2, <2>3, Shapes
    <2>5. ST!Crash
      BY <2>1, <2>4 DEF ST!Crash, Waiting, Serving
    <2> QED
      BY <2>5 DEF ST!Next
  <1> QED
    BY <1>1, <1>2, <1>3, <1>4, <1>5, <1>6 DEF Next, Arrive

(* The turn queue serves the turns of a session one at a time, in the      *)
(* order in which they were queued, and none once WaitTurns has returned,  *)
(* with Consoles in the same sessions, a store that fails, panics and      *)
(* crashes.                                                                *)
THEOREM TurnsAreServedInOrder == Spec => ImplementsSerialTurns
  <1>1. Init => ST!Init
    <2> SUFFICES ASSUME Init PROVE ST!Init
      OBVIOUS
    <2>1. QInv
      BY QInit
    <2>2. \A k \in Keys : Waiting[k] = <<>>
      BY <2>1, WaitingNow DEF Init, Taken, Actors
    <2>3. \A k \in Keys : Serving[k] = None
      BY QueueAssumption DEF Init, Serving, Actors
    <2>4. Waiting = [k \in Keys |-> <<>>] /\ Serving = [k \in Keys |-> None]
      BY <2>2, <2>3, Shapes
    <2> QED
      BY <2>4 DEF Init, ST!Init, Waiting, Serving
  <1>2. QInv /\ [Next]_vars => [ST!Next]_ST!vars
    BY SerialStep
  <1> QED
    BY <1>1, <1>2, QueueInvariant, PTL DEF Spec, ImplementsSerialTurns, ST!Spec
=============================================================================
