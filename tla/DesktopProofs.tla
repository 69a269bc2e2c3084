--------------------------- MODULE DesktopProofs ---------------------------
(***************************************************************************)
(* The desktop app, for every value of the constants: one daemon and one   *)
(* bridge to it that somebody always restores; a store of configuration    *)
(* whose editors spare what is not theirs; binaries that are put in place  *)
(* whole.                                                                  *)
(***************************************************************************)
EXTENDS Bridge, ConfigStore, Installer, FiniteSetTheorems, TLAPS

-----------------------------------------------------------------------------
(* The supervisor and the bridge.                                          *)
Places == {"rest", "restart", "spawn", "wait", "dial", "publish", "auth", "stop",
           "reading", "ended", "redial", "backoff"}
Tasks == [at : Places,
          why : {"none", "startup", "core", "reconnect", "redial", "closed", "too long"},
          epoch : Nat, tries : Nat, new : SUBSET Conns]

(* On the way to a published client.                                       *)
UnderWay == {"restart", "spawn", "wait", "dial", "publish"}

ProcsInv ==
  /\ proc \in [Procs -> Tasks]
  /\ \A p \in Callers : proc[p].why \in {"none", "startup", "core"}
  /\ \A c \in Conns : proc[c].why \notin {"startup", "core"}
  /\ \A p \in Callers :
       proc[p].why = "startup" /\ proc[p].at \in UnderWay \cup {"auth"} =>
         phase = "down" /\ \A q \in Callers : q # p => At(q, "rest")

(* Whoever starts a daemon has the mutex, and has stopped the last one.    *)
MutexInv ==
  /\ \A p \in Procs : proc[p].at \in {"spawn", "wait"} <=> holder = {p}
  /\ holder = {} \/ \E p \in Procs : holder = {p}
  /\ \A p \in Procs : At(p, "spawn") => cmd = 0
  /\ cmd # 0 => authToken = cmd

(* A connection is to a daemon that was there, is one goroutine's until it *)
(* is published, and has no reader before.                                 *)
ConnsInv ==
  /\ \A c \in Conns : conn[c].open = TRUE => conn[c].to # 0 /\ daemon[conn[c].to] # "unborn"
  /\ \A c \in Conns : conn[c].to = 0 => At(c, "rest")
  /\ \A p \in Procs : At(p, "publish") =>
       \E c \in Conns : proc[p].new = {c} /\ conn[c].to # 0 /\ At(c, "rest")
  /\ \A p, q \in Procs : At(p, "publish") /\ At(q, "publish") /\ p # q => proc[p].new # proc[q].new

(* Somebody will notice that the bus is down, or is at it.  A goroutine    *)
(* that another epoch has superseded does not count, nor does one that has *)
(* published its client: from there on that client's reader does.          *)
Covers(p, task, now, published) ==
  \/ p \in Callers /\ task.at \in UnderWay
  \/ p \in Conns /\ task.at = "reading" /\ published = {p}
  \/ p \in Conns /\ task.at = "ended"
  \/ p \in Conns /\ task.at \in UnderWay \cup {"redial", "backoff"} /\ task.epoch = now

NeedsCover ==
  /\ shuttingDown = FALSE
  /\ phase = "up" \/ \E p \in Callers : At(p, "auth") /\ proc[p].why = "startup"

CoverInv ==
  NeedsCover => failed = TRUE \/ \E p \in Procs : Covers(p, proc[p], epoch, client)

BridgeInv ==
  BridgeTypeOK /\ OneDaemon /\ TokenFits /\ ProcsInv /\ MutexInv /\ ConnsInv /\ CoverInv

LEMMA BridgeImplies == BridgeInv => BridgeSafe /\ SomeoneReconnects
<1> SUFFICES ASSUME BridgeInv PROVE BridgeSafe /\ SomeoneReconnects
  OBVIOUS
<1>1. BridgeSafe
  BY DEF BridgeInv, BridgeSafe
<1>2. SomeoneReconnects
  <2> SUFFICES ASSUME phase = "up", ~shuttingDown PROVE failed \/ \E p \in Procs : Busy(p)
    BY DEF SomeoneReconnects
  <2>1. failed = TRUE \/ \E p \in Procs : Covers(p, proc[p], epoch, client)
    BY DEF BridgeInv, CoverInv, NeedsCover, BridgeTypeOK
  <2>2. ASSUME NEW p \in Procs, Covers(p, proc[p], epoch, client) PROVE Busy(p)
    BY <2>2 DEF Covers, UnderWay, Busy, At
  <2> QED
    BY <2>1, <2>2
<1> QED
  BY <1>1, <1>2

LEMMA InitBridge == BridgeInit => BridgeInv
<1> SUFFICES ASSUME BridgeInit PROVE BridgeInv
  OBVIOUS
<1>1. /\ MaxDaemons \in Nat /\ MaxRedials \in Nat
      /\ \A c \in Conns : c \in Procs
      /\ \A p \in Callers : p \in Procs
  BY BridgeAssumption DEF Procs
<1>2. /\ Rest \in Tasks /\ Rest.at = "rest" /\ Rest.why = "none"
      /\ Unused \in [to : 0..MaxDaemons, open : BOOLEAN, token : 0..MaxDaemons]
      /\ Unused.to = 0 /\ Unused.open = FALSE
  BY <1>1 DEF Rest, Tasks, Places, Unused
<1>3. BridgeTypeOK
  <2>1. phase \in {"down", "up", "failed"} /\ shuttingDown \in BOOLEAN /\ failed \in BOOLEAN
    BY DEF BridgeInit
  <2>2. epoch \in Nat /\ oversized \in 0..(MaxRedials + 1) /\ {cmd, authToken, socket} \subseteq 0..MaxDaemons
    BY <1>1 DEF BridgeInit
  <2>3. client \in SUBSET Conns /\ holder \in SUBSET Procs
    BY DEF BridgeInit
  <2>4. daemon \in [Daemons -> {"unborn", "booting", "bound", "gone"}] /\ born \in [Daemons -> Nat]
    BY DEF BridgeInit
  <2>5. conn \in [Conns -> [to : 0..MaxDaemons, open : BOOLEAN, token : 0..MaxDaemons]]
    BY <1>2 DEF BridgeInit
  <2>6. DOMAIN proc = Procs
    BY DEF BridgeInit
  <2> QED
    BY <2>1, <2>2, <2>3, <2>4, <2>5, <2>6 DEF BridgeTypeOK
<1>4. \A p \in Procs : proc[p] = Rest
  BY DEF BridgeInit
<1>5. ProcsInv
  BY <1>1, <1>2, <1>4 DEF BridgeInit, ProcsInv, UnderWay
<1>6. MutexInv
  BY <1>2, <1>4 DEF BridgeInit, MutexInv, At
<1>7. ConnsInv
  BY <1>1, <1>2, <1>4 DEF BridgeInit, ConnsInv, At
<1>8. CoverInv
  BY <1>1, <1>2, <1>4 DEF BridgeInit, CoverInv, NeedsCover, At
<1>9. OneDaemon /\ TokenFits
  BY <1>1, <1>2 DEF BridgeInit, OneDaemon, TokenFits, Alive, Live, Daemons
<1> QED
  BY <1>3, <1>5, <1>6, <1>7, <1>8, <1>9 DEF BridgeInv

-----------------------------------------------------------------------------
(* A step of one goroutine, which leaves the others where they are.        *)
Moves(p, task) == task \in Tasks /\ proc' = [proc EXCEPT ![p] = task]

LEMMA Moved ==
  ASSUME BridgeInv, NEW p \in Procs, NEW r, Moves(p, r)
  PROVE  /\ proc' \in [Procs -> Tasks] /\ DOMAIN proc' = Procs /\ r \in Tasks
         /\ proc'[p] = r /\ \A q \in Procs : q # p => proc'[q] = proc[q]
BY DEF BridgeInv, ProcsInv, Moves

LEMMA ProcsKept ==
  ASSUME BridgeInv, NEW p \in Procs, NEW r, Moves(p, r),
         p \in Callers => r.why \in {"none", "startup", "core"},
         p \in Conns => r.why \notin {"startup", "core"},
         (r.why = "startup" /\ r.at \in UnderWay \cup {"auth"})
           => (proc[p].why = "startup" /\ proc[p].at \in UnderWay \cup {"auth"} /\ phase' = phase),
         p \in Callers => ~At(p, "rest") \/ phase = "up",
         \/ phase' = phase
         \/ p \in Callers /\ proc[p].why = "startup" /\ proc[p].at \in UnderWay \cup {"auth"}
  PROVE  ProcsInv'
<1>1. ProcsInv /\ (\A q \in Callers : q \in Procs /\ q \notin Conns) /\ (\A q \in Conns : q \in Procs)
  BY BridgeAssumption DEF BridgeInv, Procs
<1>2. /\ proc' \in [Procs -> Tasks]
      /\ proc'[p] = r /\ \A q \in Procs : q # p => proc'[q] = proc[q]
  BY Moved
<1>3. \A q \in Callers : proc'[q].why \in {"none", "startup", "core"}
  BY <1>1, <1>2 DEF ProcsInv
<1>4. \A q \in Conns : proc'[q].why \notin {"startup", "core"}
  BY <1>1, <1>2 DEF ProcsInv
<1>5. ASSUME NEW q \in Callers, proc'[q].why = "startup", proc'[q].at \in UnderWay \cup {"auth"}
      PROVE  phase' = "down" /\ \A o \in Callers : o # q => (At(o, "rest"))'
  <2>1. proc[q].why = "startup" /\ proc[q].at \in UnderWay \cup {"auth"}
    BY <1>1, <1>2, <1>5
  <2>2. phase = "down" /\ \A o \in Callers : o # q => proc[o].at = "rest"
    BY <1>1, <2>1 DEF ProcsInv, At
  <2>3. p = q \/ p \notin Callers
    BY <2>2 DEF At
  <2>4. phase' = "down"
    BY <2>2, <2>3, <1>2, <1>5
  <2>5. \A o \in Callers : o # q => proc'[o].at = "rest"
    BY <1>1, <1>2, <2>2, <2>3
  <2> QED
    BY <2>4, <2>5 DEF At
<1> QED
  BY <1>2, <1>3, <1>4, <1>5 DEF ProcsInv

(* A goroutine that neither takes the mutex nor keeps it.                  *)
LEMMA MutexKept ==
  ASSUME BridgeInv, NEW p \in Procs, NEW r, Moves(p, r),
         proc[p].at \notin {"spawn", "wait"}, r.at \notin {"spawn", "wait"},
         UNCHANGED <<authToken, holder>>, cmd' = cmd \/ cmd' = 0
  PROVE  MutexInv'
<1>1. MutexInv
  BY DEF BridgeInv
<1>2. proc'[p] = r /\ \A q \in Procs : q # p => proc'[q] = proc[q]
  BY Moved
<1> QED
  BY <1>1, <1>2 DEF MutexInv, At

(* A goroutine that gives it back, or that has it and goes on.             *)
LEMMA MutexLeft ==
  ASSUME BridgeInv, NEW p \in Procs, NEW r, Moves(p, r),
         proc[p].at \in {"spawn", "wait"}, r.at \notin {"spawn", "wait"},
         holder' = {}, UNCHANGED <<cmd, authToken>>
  PROVE  MutexInv'
<1>1. MutexInv
  BY DEF BridgeInv
<1>2. proc'[p] = r /\ \A q \in Procs : q # p => proc'[q] = proc[q]
  BY Moved
<1>3. holder = {p}
  BY <1>1 DEF MutexInv
<1>4. \A q \in Procs : q # p => proc[q].at \notin {"spawn", "wait"}
  BY <1>1, <1>3 DEF MutexInv
<1>5. \A q \in Procs : proc'[q].at \notin {"spawn", "wait"} /\ holder' # {q}
  BY <1>2, <1>4
<1> QED
  BY <1>1, <1>5 DEF MutexInv, At

(* A step that dials nothing: connections may close, and daemons end.      *)
LEMMA ConnsKept ==
  ASSUME BridgeInv, NEW p \in Procs, NEW r, Moves(p, r),
         p \in Conns => ~At(p, "rest"), r.at # "publish",
         \A c \in Conns : /\ conn'[c].to = conn[c].to
                          /\ conn'[c].open = TRUE => conn[c].open = TRUE,
         \A d \in Daemons : daemon'[d] = "unborn" => daemon[d] = "unborn"
  PROVE  ConnsInv'
<1>1. ConnsInv /\ (\A q \in Callers : q \in Procs /\ q \notin Conns) /\ (\A q \in Conns : q \in Procs)
  BY BridgeAssumption DEF BridgeInv, Procs
<1>2. proc'[p] = r /\ \A q \in Procs : q # p => proc'[q] = proc[q]
  BY Moved
<1>3. \A c \in Conns : conn[c].to # 0 => conn[c].to \in Daemons
  <2> SUFFICES ASSUME NEW c \in Conns, conn[c].to # 0 PROVE conn[c].to \in Daemons
    OBVIOUS
  <2>1. conn[c].to \in 0..MaxDaemons
    BY DEF BridgeInv, BridgeTypeOK
  <2> QED
    BY <2>1, BridgeAssumption DEF Daemons
<1>4. \A c \in Conns : conn'[c].open = TRUE => conn'[c].to # 0 /\ daemon'[conn'[c].to] # "unborn"
  BY <1>1, <1>3 DEF ConnsInv
<1>5. \A c \in Conns : At(c, "rest") => proc'[c].at = "rest"
  BY <1>1, <1>2 DEF At
<1>6. \A c \in Conns : conn'[c].to = 0 => proc'[c].at = "rest"
  BY <1>1, <1>5 DEF ConnsInv
<1>7. \A q \in Procs : proc'[q].at = "publish" => At(q, "publish") /\ proc'[q] = proc[q]
  BY <1>2 DEF At
<1>8. \A q \in Procs : proc'[q].at = "publish" =>
        \E c \in Conns : proc'[q].new = {c} /\ conn'[c].to # 0 /\ proc'[c].at = "rest"
  BY <1>1, <1>5, <1>7 DEF ConnsInv
<1>9. \A q, o \in Procs : proc'[q].at = "publish" /\ proc'[o].at = "publish" /\ q # o => proc'[q].new # proc'[o].new
  BY <1>1, <1>7 DEF ConnsInv
<1> QED
  BY <1>4, <1>6, <1>8, <1>9 DEF ConnsInv, At

(* A goroutine that hands on what it covered, if it covered anything.      *)
LEMMA CoverKept ==
  ASSUME BridgeInv, NEW p \in Procs, NEW r, Moves(p, r),
         NeedsCover' => NeedsCover,
         UNCHANGED <<epoch, client>>, failed' = failed \/ failed' = TRUE,
         NeedsCover' /\ Covers(p, proc[p], epoch, client) => failed' = TRUE \/ Covers(p, r, epoch, client)
  PROVE  CoverInv'
<1>1. CoverInv
  BY DEF BridgeInv
<1>2. proc'[p] = r /\ \A q \in Procs : q # p => proc'[q] = proc[q]
  BY Moved
<1> SUFFICES ASSUME NeedsCover', failed' # TRUE
             PROVE  \E q \in Procs : Covers(q, proc'[q], epoch', client')
  BY DEF CoverInv, Covers
<1>3. PICK q \in Procs : Covers(q, proc[q], epoch, client)
  BY <1>1 DEF CoverInv
<1>4. Covers(q, proc'[q], epoch, client)
  <2>1. CASE q = p
    BY <2>1, <1>2, <1>3
  <2>2. CASE q # p
    BY <2>2, <1>2, <1>3
  <2> QED
    BY <2>1, <2>2
<1> QED
  BY <1>4

(* What needs cover now needed it before.                                  *)
LEMMA NeedKept ==
  ASSUME BridgeInv, NEW p \in Procs, NEW r, Moves(p, r),
         shuttingDown' = shuttingDown, phase' = "up" => phase = "up",
         r.why = "startup" => r.at # "auth"
  PROVE  NeedsCover' => NeedsCover
<1>1. \A q \in Callers : q \in Procs
  BY DEF Procs
<1>2. proc'[p] = r /\ \A q \in Procs : q # p => proc'[q] = proc[q]
  BY Moved
<1> QED
  BY <1>1, <1>2 DEF NeedsCover, At

-----------------------------------------------------------------------------
(* The records that the steps write.                                       *)
LEMMA RestIsTask ==
  /\ Rest \in Tasks /\ Rest.at = "rest" /\ Rest.why = "none"
  /\ \A place \in Places : /\ [Rest EXCEPT !.at = place] \in Tasks
                           /\ [Rest EXCEPT !.at = place].at = place
                           /\ [Rest EXCEPT !.at = place].why = "none"
<1>1. Rest \in Tasks /\ Rest.at = "rest" /\ Rest.why = "none"
  BY DEF Rest, Tasks, Places
<1> QED
  BY <1>1 DEF Tasks

Whys == {"none", "startup", "core", "reconnect", "redial", "closed", "too long"}

TaskAt(place, why) == [Rest EXCEPT !.at = place, !.why = why]
EpochTaskAt(place, why, now) == [Rest EXCEPT !.at = place, !.why = why, !.epoch = now]

LEMMA NewTask ==
  ASSUME NEW place \in Places, NEW why \in Whys
  PROVE  /\ TaskAt(place, why) \in Tasks
         /\ TaskAt(place, why).at = place /\ TaskAt(place, why).why = why
         /\ \A now \in Nat : /\ EpochTaskAt(place, why, now) \in Tasks
                             /\ EpochTaskAt(place, why, now).at = place
                             /\ EpochTaskAt(place, why, now).why = why
                             /\ EpochTaskAt(place, why, now).epoch = now
<1>1. PICK a : a = [Rest EXCEPT !.at = place]
  OBVIOUS
<1>2. a \in Tasks /\ a.at = place
  BY <1>1, RestIsTask
<1>3. PICK b : b = [a EXCEPT !.why = why]
  OBVIOUS
<1>4. b \in Tasks /\ b.at = place /\ b.why = why
  BY <1>2, <1>3 DEF Tasks, Whys
<1>5. TaskAt(place, why) = b
  BY <1>1, <1>3 DEF TaskAt
<1>6. ASSUME NEW now \in Nat
      PROVE  /\ EpochTaskAt(place, why, now) \in Tasks
             /\ EpochTaskAt(place, why, now).at = place
             /\ EpochTaskAt(place, why, now).why = why
             /\ EpochTaskAt(place, why, now).epoch = now
  <2>1. EpochTaskAt(place, why, now) = [b EXCEPT !.epoch = now]
    BY <1>5 DEF TaskAt, EpochTaskAt
  <2> QED
    BY <1>4, <2>1 DEF Tasks
<1> QED
  BY <1>4, <1>5, <1>6

LEMMA GoesMoves ==
  ASSUME BridgeInv, NEW p \in Procs, NEW place \in Places, proc' = Goes(p, place)
  PROVE  \E r : /\ Moves(p, r) /\ r.at = place
                /\ \/ place # "rest" /\ r.why = proc[p].why /\ r.epoch = proc[p].epoch
                   \/ place = "rest" /\ r.why = "none"
<1>1. proc[p] \in Tasks
  BY DEF BridgeInv, ProcsInv
<1>2. CASE place = "rest"
  <2>1. proc' = [proc EXCEPT ![p] = Rest]
    BY <1>2 DEF Goes
  <2> QED
    BY <2>1, <1>2, RestIsTask DEF Moves
<1>3. CASE place # "rest"
  <2>1. PICK r : r = [proc[p] EXCEPT !.at = place]
    OBVIOUS
  <2>2. r \in Tasks /\ r.at = place /\ r.why = proc[p].why /\ r.epoch = proc[p].epoch
    BY <1>1, <2>1 DEF Tasks
  <2>3. proc' = [proc EXCEPT ![p] = r]
    BY <1>3, <2>1 DEF Goes
  <2> QED
    BY <1>3, <2>2, <2>3 DEF Moves
<1> QED
  BY <1>2, <1>3

LEMMA ReconnectMoves ==
  ASSUME BridgeInv, NEW p \in Procs, Reconnects(p)
  PROVE  \E r : Moves(p, r) /\ r.at = "backoff" /\ r.why = "reconnect" /\ r.epoch = epoch'
<1>1. epoch \in Nat /\ epoch + 1 \in Nat
  BY DEF BridgeInv, BridgeTypeOK
<1>2. PICK r : r = EpochTaskAt("backoff", "reconnect", epoch + 1)
  OBVIOUS
<1>3. "backoff" \in Places /\ "reconnect" \in Whys
  BY DEF Places, Whys
<1>4. r \in Tasks /\ r.at = "backoff" /\ r.why = "reconnect" /\ r.epoch = epoch + 1
  BY <1>1, <1>2, <1>3, NewTask
<1>5. proc' = [proc EXCEPT ![p] = r] /\ epoch' = epoch + 1
  BY <1>2 DEF Reconnects, EpochTaskAt
<1> QED
  BY <1>4, <1>5 DEF Moves

(* Whatever an error leads to, cover included.                             *)
LEMMA ErrsMoves ==
  ASSUME BridgeInv, NEW p \in Procs, Errs(p), proc[p].at \in UnderWay,
         UNCHANGED <<shuttingDown, client>>
  PROVE  \E r : /\ Moves(p, r) /\ r.at \in {"rest", "stop", "backoff"}
                /\ p \in Callers => r.why \in {"none", "startup", "core"}
                /\ p \in Conns => r.why \notin {"startup", "core"}
                /\ \/ phase' = phase
                   \/ p \in Callers /\ proc[p].why = "startup" /\ phase' = "failed"
                /\ epoch' \in Nat /\ failed' \in BOOLEAN /\ CoverInv'
<1>1. /\ epoch \in Nat /\ failed \in BOOLEAN /\ epoch + 1 \in Nat
  BY DEF BridgeInv, BridgeTypeOK
<1>2. /\ proc[p] \in Tasks /\ ProcsInv
      /\ \A q \in Callers : q \in Procs /\ q \notin Conns
      /\ \A q \in Conns : q \in Procs
      /\ p \in Callers \/ p \in Conns
  BY BridgeAssumption DEF BridgeInv, ProcsInv, Procs
<1>3. /\ p \in Callers => proc[p].why \in {"none", "startup", "core"}
      /\ p \in Conns => proc[p].why \notin {"startup", "core"}
  BY <1>2 DEF ProcsInv
<1>4. CASE proc[p].why = "reconnect" /\ Retries(p) /\ UNCHANGED <<epoch, phase>>
  <2>1. p \in Conns /\ p \notin Callers
    BY <1>2, <1>3, <1>4
  <2>2. CASE proc[p].tries + 1 < MaxAttempts
    <3>1. PICK r : r = [proc[p] EXCEPT !.at = "backoff", !.tries = @ + 1]
      OBVIOUS
    <3>2. r \in Tasks /\ r.at = "backoff" /\ r.why = "reconnect" /\ r.epoch = proc[p].epoch
      <4>1. PICK a : a = [proc[p] EXCEPT !.at = "backoff"]
        OBVIOUS
      <4>2. a \in Tasks /\ a.at = "backoff" /\ a.why = "reconnect" /\ a.epoch = proc[p].epoch /\ a.tries = proc[p].tries
        BY <1>2, <1>4, <4>1 DEF Tasks, Places
      <4>3. r = [a EXCEPT !.tries = a.tries + 1]
        BY <1>2, <3>1, <4>1 DEF Tasks
      <4>4. a.tries \in Nat
        BY <4>2 DEF Tasks
      <4>5. a.tries + 1 \in Nat
        BY <4>4
      <4> QED
        BY <4>2, <4>3, <4>5 DEF Tasks
    <3>3. proc' = [proc EXCEPT ![p] = r] /\ failed' = failed
      <4>1. proc' = [proc EXCEPT ![p] = r]
        <5>1. proc' = [proc EXCEPT ![p] = [proc[p] EXCEPT !.at = "backoff", !.tries = proc[p].tries + 1]]
          <6>1. proc' = [proc EXCEPT ![p] =
                  IF proc[p].tries + 1 < MaxAttempts
                  THEN [proc[p] EXCEPT !.at = "backoff", !.tries = proc[p].tries + 1] ELSE Rest]
            BY <1>4 DEF Retries
          <6> QED
            BY <2>2, <6>1
        <5>2. r = [proc[p] EXCEPT !.at = "backoff", !.tries = proc[p].tries + 1]
          BY <3>1
        <5> QED
          BY <5>1, <5>2
      <4>2. failed' = (failed \/ FALSE)
        BY <1>4, <2>2 DEF Retries
      <4>3. failed' = failed
        BY <1>1, <4>2
      <4> QED
        BY <4>1, <4>3
    <3>4. Moves(p, r)
      BY <3>2, <3>3 DEF Moves
    <3>5. Covers(p, proc[p], epoch, client) => Covers(p, r, epoch, client)
      BY <2>1, <3>2 DEF Covers, UnderWay
    <3>6. NeedsCover' => NeedsCover
      BY <1>4, <3>2, <3>4, NeedKept
    <3>7. CoverInv'
      BY <1>4, <3>3, <3>4, <3>5, <3>6, CoverKept
    <3> QED
      BY <1>1, <1>4, <2>1, <3>2, <3>3, <3>4, <3>7
  <2>3. CASE ~(proc[p].tries + 1 < MaxAttempts)
    <3>1. proc' = [proc EXCEPT ![p] = Rest] /\ failed' = TRUE
      BY <1>4, <2>3 DEF Retries
    <3>2. Moves(p, Rest) /\ Rest.at = "rest" /\ Rest.why = "none"
      BY <3>1, RestIsTask DEF Moves
    <3>3. CoverInv'
      BY <3>1 DEF CoverInv
    <3> QED
      BY <1>1, <1>4, <2>1, <3>1, <3>2, <3>3
  <2> QED
    BY <2>2, <2>3
<1>5. CASE proc[p].why = "redial" /\ Reconnects(p) /\ UNCHANGED <<failed, phase>>
  <2>1. p \in Conns /\ p \notin Callers
    BY <1>2, <1>3, <1>5
  <2>2. PICK r : Moves(p, r) /\ r.at = "backoff" /\ r.why = "reconnect" /\ r.epoch = epoch'
    BY <1>5, ReconnectMoves
  <2>3. proc'[p] = r
    BY <2>2, Moved
  <2>4. Covers(p, proc'[p], epoch', client')
    BY <2>1, <2>2, <2>3 DEF Covers
  <2>5. CoverInv'
    BY <2>4 DEF CoverInv
  <2>6. epoch' \in Nat
    BY <1>1, <1>5 DEF Reconnects
  <2> QED
    BY <1>1, <1>5, <2>1, <2>2, <2>5, <2>6
<1>6. CASE proc[p].why = "core" /\ proc' = Goes(p, "rest") /\ failed' = TRUE /\ UNCHANGED <<epoch, phase>>
  <2>1. p \in Callers /\ p \notin Conns
    BY <1>2, <1>3, <1>6
  <2>2. PICK r : Moves(p, r) /\ r.at = "rest" /\ r.why = "none"
    BY <1>6, GoesMoves DEF Places
  <2>3. CoverInv'
    BY <1>6 DEF CoverInv
  <2> QED
    BY <1>1, <1>6, <2>1, <2>2, <2>3
<1>7. CASE proc[p].why = "startup" /\ proc' = Goes(p, "stop") /\ phase' = "failed" /\ UNCHANGED <<epoch, failed>>
  <2>1. p \in Callers /\ p \notin Conns
    BY <1>2, <1>3, <1>7
  <2>2. PICK r : Moves(p, r) /\ r.at = "stop" /\ r.why = "startup"
    BY <1>7, GoesMoves DEF Places
  <2>3. proc'[p] = r /\ \A q \in Procs : q # p => proc'[q] = proc[q]
    BY <2>2, Moved
  <2>4. \A q \in Callers : q # p => proc[q].at = "rest"
    BY <1>2, <1>7, <2>1 DEF ProcsInv, At
  <2>5. ~NeedsCover'
    BY <1>2, <1>7, <2>2, <2>3, <2>4 DEF NeedsCover, At
  <2>6. CoverInv'
    BY <2>5 DEF CoverInv
  <2> QED
    BY <1>1, <1>7, <2>1, <2>2, <2>6
<1> QED
  BY <1>4, <1>5, <1>6, <1>7 DEF Errs, FallsBack

(* A step that only the daemons take, or the count of long envelopes.      *)
LEMMA StillKept ==
  ASSUME BridgeInv,
         UNCHANGED <<service, epoch, client, supervisor, conn, proc, failed>>,
         \A d \in Daemons : /\ daemon'[d] = "unborn" => daemon[d] = "unborn"
                            /\ daemon'[d] \in {"booting", "bound"} => daemon[d] \in {"booting", "bound"}
  PROVE  OneDaemon' /\ TokenFits' /\ ProcsInv' /\ MutexInv' /\ ConnsInv' /\ CoverInv'
<1>1. /\ phase' = phase /\ shuttingDown' = shuttingDown /\ epoch' = epoch /\ client' = client /\ cmd' = cmd
      /\ authToken' = authToken /\ holder' = holder /\ conn' = conn /\ proc' = proc /\ failed' = failed
  BY DEF service, supervisor
<1>2. OneDaemon'
  BY <1>1 DEF BridgeInv, OneDaemon, Alive
<1>3. \A c \in Conns : conn[c].to = 0 \/ conn[c].to \in Daemons
  <2>1. \A c \in Conns : conn[c].to \in 0..MaxDaemons
    BY DEF BridgeInv, BridgeTypeOK
  <2> QED
    BY <2>1, BridgeAssumption DEF Daemons
<1>4. TokenFits'
  BY <1>1, <1>3 DEF BridgeInv, TokenFits, Live, Alive
<1>5. ProcsInv'
  BY <1>1 DEF BridgeInv, ProcsInv, At
<1>6. MutexInv'
  BY <1>1 DEF BridgeInv, MutexInv, At
<1>7. ConnsInv'
  <2>1. ConnsInv
    BY DEF BridgeInv
  <2>2. \A c \in Conns : conn'[c].open = TRUE => conn'[c].to # 0 /\ daemon'[conn'[c].to] # "unborn"
    BY <1>1, <1>3, <2>1 DEF ConnsInv
  <2> QED
    BY <1>1, <2>1, <2>2 DEF ConnsInv, At
<1>8. CoverInv'
  BY <1>1 DEF BridgeInv, CoverInv, NeedsCover, Covers, At
<1> QED
  BY <1>2, <1>4, <1>5, <1>6, <1>7, <1>8

(* Whoever stops the last daemon leaves none.                              *)
LEMMA Stopped ==
  ASSUME BridgeInv, StopLocked
  PROVE  /\ daemon' \in [Daemons -> {"unborn", "booting", "bound", "gone"}]
         /\ socket' \in 0..MaxDaemons /\ cmd' = 0
         /\ \A d \in Daemons : daemon'[d] = "unborn" => daemon[d] = "unborn"
         /\ \A d \in Daemons : daemon'[d] \notin {"booting", "bound"}
         /\ OneDaemon' /\ (UNCHANGED conn => TokenFits')
<1>1. /\ daemon \in [Daemons -> {"unborn", "booting", "bound", "gone"}]
      /\ socket \in 0..MaxDaemons /\ cmd \in 0..MaxDaemons /\ MaxDaemons \in Nat
      /\ 0 \notin Daemons /\ (cmd # 0 => cmd \in Daemons)
      /\ \A c \in Conns : conn[c].to = 0 \/ conn[c].to \in Daemons
  <2>1. /\ daemon \in [Daemons -> {"unborn", "booting", "bound", "gone"}]
        /\ socket \in 0..MaxDaemons /\ cmd \in 0..MaxDaemons /\ MaxDaemons \in Nat
    BY BridgeAssumption DEF BridgeInv, BridgeTypeOK
  <2>2. \A c \in Conns : conn[c].to \in 0..MaxDaemons
    BY DEF BridgeInv, BridgeTypeOK
  <2> QED
    BY <2>1, <2>2 DEF Daemons
<1>2. \A d \in Daemons : daemon[d] \in {"booting", "bound"} => d = cmd
  BY <1>1 DEF BridgeInv, OneDaemon, Alive
<1>3. cmd' = 0 /\ socket' \in 0..MaxDaemons
  BY <1>1 DEF StopLocked
<1>4. /\ daemon' \in [Daemons -> {"unborn", "booting", "bound", "gone"}]
      /\ \A d \in Daemons : daemon'[d] = IF d = cmd THEN "gone" ELSE daemon[d]
  <2>1. CASE cmd # 0
    BY <2>1, <1>1 DEF StopLocked, Ends
  <2>2. CASE cmd = 0
    BY <2>2, <1>1 DEF StopLocked
  <2> QED
    BY <2>1, <2>2
<1>5. \A d \in Daemons : daemon'[d] \notin {"booting", "bound"}
  BY <1>2, <1>4
<1>6. OneDaemon'
  BY <1>5 DEF OneDaemon, Alive
<1>7. ASSUME UNCHANGED conn PROVE TokenFits'
  BY <1>1, <1>5, <1>7 DEF TokenFits, Live, Alive
<1> QED
  BY <1>3, <1>4, <1>5, <1>6, <1>7

-----------------------------------------------------------------------------
(* What every step starts from.                                            *)
LEMMA BridgeFacts ==
  ASSUME BridgeInv
  PROVE  /\ phase \in {"down", "up", "failed"} /\ shuttingDown \in BOOLEAN /\ failed \in BOOLEAN
         /\ epoch \in Nat /\ epoch + 1 \in Nat
         /\ MaxDaemons \in Nat /\ MaxRedials \in Nat /\ 0 \in 0..MaxDaemons
         /\ cmd \in 0..MaxDaemons /\ authToken \in 0..MaxDaemons /\ socket \in 0..MaxDaemons
         /\ \A d \in Daemons : d # 0 /\ d \in 0..MaxDaemons
         /\ \A d \in 0..MaxDaemons : d # 0 => d \in Daemons
         /\ proc \in [Procs -> Tasks]
         /\ \A q \in Callers : q \in Procs /\ q \notin Conns
         /\ \A q \in Conns : q \in Procs /\ q \notin Callers
         /\ \A q \in Procs : q \in Callers \/ q \in Conns
<1>1. MaxDaemons \in Nat /\ MaxRedials \in Nat /\ Callers \cap Conns = {}
  BY BridgeAssumption
<1>2. phase \in {"down", "up", "failed"} /\ shuttingDown \in BOOLEAN /\ failed \in BOOLEAN
  BY DEF BridgeInv, BridgeTypeOK
<1>3. epoch \in Nat /\ cmd \in 0..MaxDaemons /\ authToken \in 0..MaxDaemons /\ socket \in 0..MaxDaemons
  BY DEF BridgeInv, BridgeTypeOK
<1>4. /\ \A d \in Daemons : d # 0 /\ d \in 0..MaxDaemons
      /\ \A d \in 0..MaxDaemons : d # 0 => d \in Daemons
      /\ 0 \in 0..MaxDaemons
  BY <1>1 DEF Daemons
<1>5. proc \in [Procs -> Tasks]
  BY DEF BridgeInv, ProcsInv
<1> QED
  BY <1>1, <1>2, <1>3, <1>4, <1>5 DEF Procs

(* The types, when daemons and connections stay.                           *)
LEMMA TypesKept ==
  ASSUME BridgeInv, UNCHANGED <<daemon, born, conn, cmd, authToken>>, DOMAIN proc' = Procs,
         socket' \in 0..MaxDaemons, oversized' \in 0..(MaxRedials + 1),
         phase' \in {"down", "up", "failed"}, shuttingDown' \in BOOLEAN, failed' \in BOOLEAN,
         epoch' \in Nat, client' \in SUBSET Conns, holder' \in SUBSET Procs
  PROVE  BridgeTypeOK'
BY DEF BridgeInv, BridgeTypeOK

(* One daemon and its token, when daemons and connections stay.            *)
LEMMA DaemonsStay ==
  ASSUME BridgeInv, UNCHANGED <<daemon, conn, cmd>>
  PROVE  OneDaemon' /\ TokenFits'
BY DEF BridgeInv, OneDaemon, TokenFits, Alive, Live

(* The invariant after a step of one goroutine that touches no process and *)
(* no connection, from the parts that the step is about.                   *)
LEMMA MovesInv ==
  ASSUME BridgeInv, NEW p \in Procs, NEW r, Moves(p, r),
         UNCHANGED <<daemon, born, conn, cmd, authToken>>,
         socket' \in 0..MaxDaemons, oversized' \in 0..(MaxRedials + 1),
         p \in Conns => ~At(p, "rest"), r.at # "publish",
         phase' \in {"down", "up", "failed"}, shuttingDown' \in BOOLEAN, failed' \in BOOLEAN,
         epoch' \in Nat, client' \in SUBSET Conns, holder' \in SUBSET Procs,
         ProcsInv', MutexInv', CoverInv'
  PROVE  BridgeInv'
<1>1. DOMAIN proc' = Procs
  BY Moved
<1>2. BridgeTypeOK'
  BY <1>1, TypesKept
<1>3. OneDaemon' /\ TokenFits'
  BY DaemonsStay
<1>4. ConnsInv'
  BY ConnsKept
<1> QED
  BY <1>2, <1>3, <1>4 DEF BridgeInv

(* Stop and RestartStops: the daemon is stopped.                           *)
LEMMA StopSteps ==
  ASSUME BridgeInv, NEW p \in Procs, Stop(p) \/ RestartStops(p)
  PROVE  BridgeInv'
<1>1. /\ StopLocked /\ holder = {}
      /\ phase' = phase /\ shuttingDown' = shuttingDown /\ failed' = failed
      /\ epoch' = epoch /\ client' = client /\ oversized' = oversized
      /\ born' = born /\ authToken' = authToken /\ conn' = conn
  BY DEF Stop, RestartStops, service
<1>2. PICK r : /\ Moves(p, r)
               /\ \/ At(p, "stop") /\ holder' = holder /\ r.at = "rest" /\ r.why = "none"
                  \/ /\ At(p, "restart") /\ holder' = {p} /\ r.at = "spawn"
                     /\ r.why = proc[p].why /\ r.epoch = proc[p].epoch
  <2>1. CASE Stop(p)
    <3>1. proc' = Goes(p, "rest") /\ At(p, "stop") /\ holder' = holder
      BY <2>1 DEF Stop
    <3>2. "rest" \in Places
      BY DEF Places
    <3> QED
      BY <3>1, <3>2, GoesMoves
  <2>2. CASE RestartStops(p)
    <3>1. proc' = Goes(p, "spawn") /\ At(p, "restart") /\ holder' = {p}
      BY <2>2 DEF RestartStops
    <3>2. "spawn" \in Places
      BY DEF Places
    <3> QED
      BY <3>1, <3>2, GoesMoves
  <2> QED
    BY <2>1, <2>2
<1>3. /\ daemon' \in [Daemons -> {"unborn", "booting", "bound", "gone"}]
      /\ socket' \in 0..MaxDaemons /\ cmd' = 0
      /\ \A d \in Daemons : daemon'[d] = "unborn" => daemon[d] = "unborn"
      /\ OneDaemon' /\ TokenFits'
  BY <1>1, Stopped
<1>4. /\ r \in Tasks /\ DOMAIN proc' = Procs /\ proc'[p] = r
      /\ \A q \in Procs : q # p => proc'[q] = proc[q]
  BY <1>2, Moved
<1>5. BridgeTypeOK'
  <2>1. /\ phase' \in {"down", "up", "failed"} /\ shuttingDown' \in BOOLEAN /\ failed' \in BOOLEAN
    BY <1>1, BridgeFacts
  <2>2. /\ epoch' \in Nat /\ oversized' \in 0..(MaxRedials + 1)
        /\ {cmd', authToken', socket'} \subseteq 0..MaxDaemons
    BY <1>1, <1>3, BridgeFacts DEF BridgeInv, BridgeTypeOK
  <2>3. /\ client' \in SUBSET Conns /\ holder' \in SUBSET Procs /\ born' \in [Daemons -> Nat]
        /\ conn' \in [Conns -> [to : 0..MaxDaemons, open : BOOLEAN, token : 0..MaxDaemons]]
    BY <1>1, <1>2 DEF BridgeInv, BridgeTypeOK
  <2> QED
    BY <1>3, <1>4, <2>1, <2>2, <2>3 DEF BridgeTypeOK
<1>6. ProcsInv'
  <2>1. /\ p \in Callers => proc[p].why \in {"none", "startup", "core"}
        /\ p \in Conns => proc[p].why \notin {"startup", "core"}
    BY DEF BridgeInv, ProcsInv
  <2> QED
    BY <1>1, <1>2, <2>1, ProcsKept DEF UnderWay, At
<1>7. MutexInv'
  <2>1. CASE At(p, "stop") /\ holder' = holder /\ r.at = "rest"
    BY <1>1, <1>2, <1>3, <2>1, MutexKept DEF At
  <2>2. CASE At(p, "restart") /\ holder' = {p} /\ r.at = "spawn"
    <3>1. \A q \in Procs : proc[q].at \notin {"spawn", "wait"}
      BY <1>1 DEF BridgeInv, MutexInv
    <3>2. \A q \in Procs : proc'[q].at \in {"spawn", "wait"} <=> holder' = {q}
      BY <1>4, <2>2, <3>1
    <3> QED
      BY <1>3, <2>2, <3>2 DEF MutexInv, At
  <2> QED
    BY <1>2, <2>1, <2>2
<1>8. ConnsInv'
  BY <1>1, <1>2, <1>3, ConnsKept DEF At
<1>9. CoverInv'
  <2>1. NeedsCover' => NeedsCover
    BY <1>1, <1>2, NeedKept
  <2>2. Covers(p, proc[p], epoch, client) => Covers(p, r, epoch, client)
    BY <1>2 DEF Covers, UnderWay, At
  <2> QED
    BY <1>1, <1>2, <2>1, <2>2, CoverKept
<1> QED
  BY <1>3, <1>5, <1>6, <1>7, <1>8, <1>9 DEF BridgeInv

(* Spawns: there is no other daemon.                                       *)
LEMMA SpawnStep ==
  ASSUME BridgeInv, NEW p \in Procs, Spawns(p)
  PROVE  BridgeInv'
<1>1. /\ At(p, "spawn") /\ proc' = Goes(p, "wait") /\ socket' = 0
      /\ phase' = phase /\ shuttingDown' = shuttingDown /\ failed' = failed
      /\ epoch' = epoch /\ client' = client /\ oversized' = oversized
      /\ holder' = holder /\ conn' = conn
  BY DEF Spawns, service
<1>2. PICK d \in Daemons : /\ daemon[d] = "unborn" /\ daemon' = [daemon EXCEPT ![d] = "booting"]
                          /\ born' = [born EXCEPT ![d] = epoch] /\ cmd' = d /\ authToken' = d
  BY DEF Spawns
<1>3. PICK r : Moves(p, r) /\ r.at = "wait" /\ r.why = proc[p].why /\ r.epoch = proc[p].epoch
  <2>1. "wait" \in Places
    BY DEF Places
  <2> QED
    BY <1>1, <2>1, GoesMoves
<1>4. /\ r \in Tasks /\ DOMAIN proc' = Procs /\ proc'[p] = r
      /\ \A q \in Procs : q # p => proc'[q] = proc[q]
  BY <1>3, Moved
<1>5. /\ daemon \in [Daemons -> {"unborn", "booting", "bound", "gone"}] /\ born \in [Daemons -> Nat]
      /\ \A c \in Conns : conn[c].to \in 0..MaxDaemons
  BY DEF BridgeInv, BridgeTypeOK
<1>6. holder = {p} /\ cmd = 0
  BY <1>1 DEF BridgeInv, MutexInv, At
<1>7. /\ daemon' \in [Daemons -> {"unborn", "booting", "bound", "gone"}] /\ born' \in [Daemons -> Nat]
      /\ \A x \in Daemons : daemon'[x] = IF x = d THEN "booting" ELSE daemon[x]
  BY <1>2, <1>5, BridgeFacts
<1>8. \A x \in Daemons : daemon[x] \notin {"booting", "bound"}
  BY <1>6, BridgeFacts DEF BridgeInv, OneDaemon, Alive
<1>9. OneDaemon' /\ TokenFits'
  <2>1. \A x \in Daemons : daemon'[x] \in {"booting", "bound"} => x = d
    BY <1>7, <1>8
  <2>2. OneDaemon'
    BY <1>2, <2>1 DEF OneDaemon, Alive
  <2>3. ASSUME NEW c \in Conns PROVE ~(Live(c))'
    <3>1. conn[c].open = TRUE => conn[c].to # 0 /\ daemon[conn[c].to] # "unborn"
      BY DEF BridgeInv, ConnsInv
    <3>2. conn[c].open = TRUE => conn[c].to \in Daemons /\ conn[c].to # d
      BY <1>2, <1>5, <3>1, BridgeFacts
    <3> QED
      BY <1>1, <2>1, <3>2 DEF Live, Alive
  <2> QED
    BY <2>2, <2>3 DEF TokenFits
<1>10. BridgeTypeOK'
  <2>1. /\ phase' \in {"down", "up", "failed"} /\ shuttingDown' \in BOOLEAN /\ failed' \in BOOLEAN
    BY <1>1, BridgeFacts
  <2>2. /\ epoch' \in Nat /\ oversized' \in 0..(MaxRedials + 1)
        /\ {cmd', authToken', socket'} \subseteq 0..MaxDaemons
    BY <1>1, <1>2, BridgeFacts DEF BridgeInv, BridgeTypeOK
  <2>3. /\ client' \in SUBSET Conns /\ holder' \in SUBSET Procs
        /\ conn' \in [Conns -> [to : 0..MaxDaemons, open : BOOLEAN, token : 0..MaxDaemons]]
    BY <1>1 DEF BridgeInv, BridgeTypeOK
  <2> QED
    BY <1>4, <1>7, <2>1, <2>2, <2>3 DEF BridgeTypeOK
<1>11. ProcsInv'
  <2>1. /\ p \in Callers => proc[p].why \in {"none", "startup", "core"}
        /\ p \in Conns => proc[p].why \notin {"startup", "core"}
    BY DEF BridgeInv, ProcsInv
  <2> QED
    BY <1>1, <1>3, <2>1, ProcsKept DEF UnderWay, At
<1>12. MutexInv'
  <2>1. \A q \in Procs : proc'[q].at \in {"spawn", "wait"} <=> holder' = {q}
    BY <1>1, <1>3, <1>4, <1>6 DEF BridgeInv, MutexInv
  <2>2. \A q \in Procs : proc'[q].at # "spawn"
    BY <1>3, <1>4, <1>6, <2>1, <1>1
  <2> QED
    BY <1>1, <1>2, <1>6, <2>1, <2>2 DEF MutexInv, At
<1>13. ConnsInv'
  BY <1>1, <1>3, <1>7, ConnsKept DEF At
<1>14. CoverInv'
  <2>1. NeedsCover' => NeedsCover
    BY <1>1, <1>3, NeedKept
  <2>2. Covers(p, proc[p], epoch, client) => Covers(p, r, epoch, client)
    BY <1>1, <1>3 DEF Covers, UnderWay, At
  <2> QED
    BY <1>1, <1>3, <2>1, <2>2, CoverKept
<1> QED
  BY <1>9, <1>10, <1>11, <1>12, <1>13, <1>14 DEF BridgeInv

(* The count of long envelopes and the socket stay as they are typed.      *)
LEMMA CountFits == BridgeInv => oversized \in 0..(MaxRedials + 1) /\ client \in SUBSET Conns /\ holder \in SUBSET Procs
BY DEF BridgeInv, BridgeTypeOK

(* SpawnFails, SocketTimeout and DialFails: an error.                      *)
LEMMA ErrSteps ==
  ASSUME BridgeInv, NEW p \in Procs, SpawnFails(p) \/ SocketTimeout(p) \/ DialFails(p)
  PROVE  BridgeInv'
<1>1. /\ Errs(p)
      /\ shuttingDown' = shuttingDown /\ client' = client /\ oversized' = oversized
      /\ daemon' = daemon /\ born' = born /\ cmd' = cmd /\ authToken' = authToken /\ conn' = conn
      /\ socket' = socket \/ socket' = 0
      /\ \/ proc[p].at \in {"spawn", "wait"} /\ holder' = {}
         \/ proc[p].at = "dial" /\ holder' = holder
  BY DEF SpawnFails, SocketTimeout, DialFails, processes, supervisor, At
<1>2. PICK r : /\ Moves(p, r) /\ r.at \in {"rest", "stop", "backoff"}
               /\ p \in Callers => r.why \in {"none", "startup", "core"}
               /\ p \in Conns => r.why \notin {"startup", "core"}
               /\ \/ phase' = phase
                  \/ p \in Callers /\ proc[p].why = "startup" /\ phase' = "failed"
               /\ epoch' \in Nat /\ failed' \in BOOLEAN /\ CoverInv'
  BY <1>1, ErrsMoves DEF UnderWay
<1>3. ProcsInv'
  BY <1>1, <1>2, ProcsKept DEF UnderWay, At
<1>4. MutexInv'
  BY <1>1, <1>2, MutexLeft, MutexKept
<1>5. phase' \in {"down", "up", "failed"} /\ shuttingDown' \in BOOLEAN
  BY <1>1, <1>2, BridgeFacts
<1>6. /\ oversized' \in 0..(MaxRedials + 1) /\ client' \in SUBSET Conns /\ holder' \in SUBSET Procs
      /\ socket' \in 0..MaxDaemons
  BY <1>1, CountFits, BridgeFacts
<1>7. (p \in Conns => ~At(p, "rest")) /\ r.at # "publish"
  BY <1>1, <1>2 DEF At
<1> QED
  BY <1>1, <1>2, <1>3, <1>4, <1>5, <1>6, <1>7, MovesInv

(* SocketAppears.                                                          *)
LEMMA SocketStep ==
  ASSUME BridgeInv, NEW p \in Procs, SocketAppears(p)
  PROVE  BridgeInv'
<1>1. /\ At(p, "wait") /\ holder' = {} /\ proc' = Goes(p, "dial")
      /\ phase' = phase /\ shuttingDown' = shuttingDown /\ failed' = failed
      /\ epoch' = epoch /\ client' = client /\ oversized' = oversized
      /\ daemon' = daemon /\ born' = born /\ socket' = socket
      /\ cmd' = cmd /\ authToken' = authToken /\ conn' = conn
  BY DEF SocketAppears, service, processes
<1>2. PICK r : Moves(p, r) /\ r.at = "dial" /\ r.why = proc[p].why /\ r.epoch = proc[p].epoch
  <2>1. "dial" \in Places
    BY DEF Places
  <2> QED
    BY <1>1, <2>1, GoesMoves
<1>3. ProcsInv'
  <2>1. /\ p \in Callers => proc[p].why \in {"none", "startup", "core"}
        /\ p \in Conns => proc[p].why \notin {"startup", "core"}
    BY DEF BridgeInv, ProcsInv
  <2> QED
    BY <1>1, <1>2, <2>1, ProcsKept DEF UnderWay, At
<1>4. MutexInv'
  BY <1>1, <1>2, MutexLeft DEF At
<1>5. CoverInv'
  <2>1. NeedsCover' => NeedsCover
    BY <1>1, <1>2, NeedKept
  <2>2. Covers(p, proc[p], epoch, client) => Covers(p, r, epoch, client)
    BY <1>1, <1>2 DEF Covers, UnderWay, At
  <2> QED
    BY <1>1, <1>2, <2>1, <2>2, CoverKept
<1>6. phase' \in {"down", "up", "failed"} /\ shuttingDown' \in BOOLEAN /\ failed' \in BOOLEAN /\ epoch' \in Nat
  BY <1>1, BridgeFacts
<1>7. /\ oversized' \in 0..(MaxRedials + 1) /\ client' \in SUBSET Conns /\ holder' \in SUBSET Procs
      /\ socket' \in 0..MaxDaemons
  BY <1>1, CountFits, BridgeFacts
<1>8. (p \in Conns => ~At(p, "rest")) /\ r.at # "publish"
  BY <1>1, <1>2 DEF At
<1> QED
  BY <1>1, <1>2, <1>3, <1>4, <1>5, <1>6, <1>7, <1>8, MovesInv

(* Dial: the connection is fresh, and is to the daemon that runs.          *)
LEMMA DialStep ==
  ASSUME BridgeInv, NEW p \in Procs, Dial(p)
  PROVE  BridgeInv'
<1>1. /\ At(p, "dial") /\ Alive(socket)
      /\ phase' = phase /\ shuttingDown' = shuttingDown /\ failed' = failed
      /\ epoch' = epoch /\ client' = client /\ oversized' = oversized
      /\ daemon' = daemon /\ born' = born /\ socket' = socket
      /\ cmd' = cmd /\ authToken' = authToken /\ holder' = holder
  BY DEF Dial, service, processes, supervisor
<1>2. PICK c \in Conns : /\ conn[c] = Unused
                        /\ conn' = [conn EXCEPT ![c] = [Unused EXCEPT !.to = socket, !.open = TRUE]]
                        /\ proc' = [proc EXCEPT ![p].at = "publish", ![p].new = {c}]
  BY DEF Dial
<1>3. PICK r : r = [proc[p] EXCEPT !.at = "publish", !.new = {c}]
  OBVIOUS
<1>4. r \in Tasks /\ r.at = "publish" /\ r.new = {c} /\ r.why = proc[p].why /\ r.epoch = proc[p].epoch
  <2>1. proc[p] \in Tasks
    BY BridgeFacts
  <2>2. PICK a : a = [proc[p] EXCEPT !.at = "publish"]
    OBVIOUS
  <2>3. a \in Tasks /\ a.at = "publish" /\ a.why = proc[p].why /\ a.epoch = proc[p].epoch
    BY <2>1, <2>2 DEF Tasks, Places
  <2>4. r = [a EXCEPT !.new = {c}]
    BY <1>3, <2>2
  <2> QED
    BY <2>3, <2>4 DEF Tasks
<1>5. Moves(p, r)
  <2>1. proc' = [proc EXCEPT ![p] = [proc[p] EXCEPT !.at = "publish", !.new = {c}]]
    BY <1>2, BridgeFacts
  <2> QED
    BY <1>3, <1>4, <2>1 DEF Moves
<1>6. /\ DOMAIN proc' = Procs /\ proc'[p] = r
      /\ \A q \in Procs : q # p => proc'[q] = proc[q]
  BY <1>5, Moved
<1>7. PICK k : k = [Unused EXCEPT !.to = socket, !.open = TRUE]
  OBVIOUS
<1>8. /\ k.to = socket /\ k.open = TRUE /\ k.token = 0
      /\ k \in [to : 0..MaxDaemons, open : BOOLEAN, token : 0..MaxDaemons]
      /\ socket # 0 /\ socket \in Daemons /\ daemon[socket] # "unborn"
  <2>1. k.to = socket /\ k.open = TRUE /\ k.token = 0
    BY <1>7 DEF Unused
  <2>2. k = [to |-> socket, open |-> TRUE, token |-> 0]
    BY <1>7 DEF Unused
  <2>3. k \in [to : 0..MaxDaemons, open : BOOLEAN, token : 0..MaxDaemons]
    BY <2>2, BridgeFacts
  <2>4. socket # 0 /\ socket \in Daemons /\ daemon[socket] # "unborn"
    BY <1>1, BridgeFacts DEF Alive
  <2> QED
    BY <2>1, <2>3, <2>4
<1>9. conn \in [Conns -> [to : 0..MaxDaemons, open : BOOLEAN, token : 0..MaxDaemons]]
  BY DEF BridgeInv, BridgeTypeOK
<1>10. /\ conn' \in [Conns -> [to : 0..MaxDaemons, open : BOOLEAN, token : 0..MaxDaemons]]
       /\ conn'[c] = k /\ \A o \in Conns : o # c => conn'[o] = conn[o]
  BY <1>2, <1>7, <1>8, <1>9
<1>11. conn[c].to = 0 /\ At(c, "rest") /\ c \in Procs /\ c # p
  <2>1. conn[c].to = 0
    BY <1>2 DEF Unused
  <2>2. At(c, "rest")
    BY <2>1 DEF BridgeInv, ConnsInv
  <2> QED
    BY <1>1, <2>1, <2>2, BridgeFacts DEF At
<1>12. BridgeTypeOK'
  <2>1. /\ phase' \in {"down", "up", "failed"} /\ shuttingDown' \in BOOLEAN /\ failed' \in BOOLEAN
    BY <1>1, BridgeFacts
  <2>2. /\ epoch' \in Nat /\ oversized' \in 0..(MaxRedials + 1)
        /\ {cmd', authToken', socket'} \subseteq 0..MaxDaemons
    BY <1>1, CountFits, BridgeFacts
  <2>3. /\ client' \in SUBSET Conns /\ holder' \in SUBSET Procs /\ born' \in [Daemons -> Nat]
        /\ daemon' \in [Daemons -> {"unborn", "booting", "bound", "gone"}]
    BY <1>1 DEF BridgeInv, BridgeTypeOK
  <2> QED
    BY <1>6, <1>10, <2>1, <2>2, <2>3 DEF BridgeTypeOK
<1>13. OneDaemon'
  BY <1>1 DEF BridgeInv, OneDaemon, Alive
<1>14. TokenFits'
  <2>1. ASSUME NEW o \in Conns, o # c, (Live(o))' PROVE conn'[o].token \in {0, conn'[o].to}
    <3>1. Live(o)
      BY <1>1, <1>10, <2>1 DEF Live, Alive
    <3> QED
      BY <1>10, <2>1, <3>1 DEF BridgeInv, TokenFits
  <2>2. conn'[c].token = 0
    BY <1>8, <1>10
  <2> QED
    BY <2>1, <2>2 DEF TokenFits
<1>15. ProcsInv'
  <2>1. /\ p \in Callers => proc[p].why \in {"none", "startup", "core"}
        /\ p \in Conns => proc[p].why \notin {"startup", "core"}
    BY DEF BridgeInv, ProcsInv
  <2> QED
    BY <1>1, <1>4, <1>5, <2>1, ProcsKept DEF UnderWay, At
<1>16. MutexInv'
  BY <1>1, <1>4, <1>5, MutexKept DEF At
<1>17. ConnsInv'
  <2>1. ConnsInv
    BY DEF BridgeInv
  <2>2. \A o \in Conns : conn'[o].open = TRUE => conn'[o].to # 0 /\ daemon'[conn'[o].to] # "unborn"
    BY <1>1, <1>8, <1>10, <2>1 DEF ConnsInv
  <2>3. \A o \in Conns : conn'[o].to = 0 => o # p /\ conn[o].to = 0
    BY <1>1, <1>8, <1>10, <1>11, <2>1 DEF ConnsInv, At
  <2>4. \A o \in Conns : conn'[o].to = 0 => proc'[o].at = "rest"
    BY <1>6, <2>1, <2>3, BridgeFacts DEF ConnsInv, At
  <2>5. \A o \in Conns : At(o, "rest") => proc'[o].at = "rest"
    BY <1>1, <1>6, BridgeFacts DEF At
  <2>6. \A q \in Procs : q # p /\ proc'[q].at = "publish" =>
          \E o \in Conns : proc'[q].new = {o} /\ conn'[o].to # 0 /\ conn[o].to # 0 /\ proc'[o].at = "rest"
    <3> SUFFICES ASSUME NEW q \in Procs, q # p, proc'[q].at = "publish"
                 PROVE  \E o \in Conns : proc'[q].new = {o} /\ conn'[o].to # 0 /\ conn[o].to # 0 /\ proc'[o].at = "rest"
      OBVIOUS
    <3>1. proc'[q] = proc[q]
      BY <1>6
    <3>2. PICK o \in Conns : proc[q].new = {o} /\ conn[o].to # 0 /\ At(o, "rest")
      BY <2>1, <3>1 DEF ConnsInv, At
    <3> QED
      BY <1>10, <1>11, <2>5, <3>1, <3>2
  <2>7. proc'[p].new = {c} /\ conn'[c].to # 0 /\ proc'[c].at = "rest"
    BY <1>4, <1>6, <1>8, <1>10, <1>11, <2>5
  <2>8. \A q \in Procs : q # p /\ proc'[q].at = "publish" => proc'[q].new # {c}
    BY <1>11, <2>6
  <2>9. \A q, o \in Procs : q # p /\ o # p /\ proc'[q].at = "publish" /\ proc'[o].at = "publish" /\ q # o
                            => proc'[q].new # proc'[o].new
    BY <1>6, <2>1 DEF ConnsInv, At
  <2>10. \A q, o \in Procs : proc'[q].at = "publish" /\ proc'[o].at = "publish" /\ q # o
                             => proc'[q].new # proc'[o].new
    BY <2>7, <2>8, <2>9
  <2>11. \A q \in Procs : proc'[q].at = "publish" =>
           \E o \in Conns : proc'[q].new = {o} /\ conn'[o].to # 0 /\ proc'[o].at = "rest"
    BY <2>6, <2>7
  <2> QED
    BY <2>2, <2>4, <2>10, <2>11 DEF ConnsInv, At
<1>18. CoverInv'
  <2>1. NeedsCover' => NeedsCover
    BY <1>1, <1>4, <1>5, NeedKept
  <2>2. Covers(p, proc[p], epoch, client) => Covers(p, r, epoch, client)
    BY <1>1, <1>4 DEF Covers, UnderWay, At
  <2> QED
    BY <1>1, <1>5, <2>1, <2>2, CoverKept
<1> QED
  BY <1>12, <1>13, <1>14, <1>15, <1>16, <1>17, <1>18 DEF BridgeInv

(* Publish: the client is p's, and its reader starts.                      *)
LEMMA PublishStep ==
  ASSUME BridgeInv, NEW p \in Procs, Publish(p)
  PROVE  BridgeInv'
<1>1. /\ At(p, "publish") /\ failed' = FALSE /\ client' = proc[p].new
      /\ phase' = phase /\ shuttingDown' = shuttingDown
      /\ epoch' = epoch /\ oversized' = oversized
      /\ daemon' = daemon /\ born' = born /\ socket' = socket
      /\ cmd' = cmd /\ authToken' = authToken /\ holder' = holder /\ conn' = conn
  BY DEF Publish, service, processes, supervisor
<1>2. PICK c \in Conns : proc[p].new = {c} /\ conn[c].to # 0 /\ At(c, "rest")
  BY <1>1 DEF BridgeInv, ConnsInv
<1>3. c # p /\ c \in Procs
  BY <1>1, <1>2, BridgeFacts DEF At
<1>4. PICK read : read = [Rest EXCEPT !.at = "reading"]
  OBVIOUS
<1>5. read \in Tasks /\ read.at = "reading" /\ read.why = "none"
  BY <1>4, RestIsTask DEF Places
<1>6. PICK told : told = [proc[p] EXCEPT !.at = "auth"]
  OBVIOUS
<1>7. told \in Tasks /\ told.at = "auth" /\ told.why = proc[p].why
  <2>1. proc[p] \in Tasks
    BY BridgeFacts
  <2> QED
    BY <1>6, <2>1 DEF Tasks, Places
<1>8. proc' = [q \in Procs |-> IF q = c THEN read ELSE IF q = p THEN told ELSE proc[q]]
  BY <1>2, <1>4, <1>6 DEF Publish
<1>9. /\ proc' \in [Procs -> Tasks] /\ DOMAIN proc' = Procs /\ proc'[c] = read /\ proc'[p] = told
      /\ \A q \in Procs : q # p /\ q # c => proc'[q] = proc[q]
  BY <1>3, <1>5, <1>7, <1>8, BridgeFacts
<1>10. BridgeTypeOK'
  <2>1. /\ phase' \in {"down", "up", "failed"} /\ shuttingDown' \in BOOLEAN /\ failed' \in BOOLEAN
        /\ epoch' \in Nat
    BY <1>1, BridgeFacts
  <2>2. /\ oversized' \in 0..(MaxRedials + 1) /\ client' \in SUBSET Conns /\ holder' \in SUBSET Procs
        /\ socket' \in 0..MaxDaemons
    BY <1>1, <1>2, CountFits, BridgeFacts
  <2> QED
    BY <1>1, <1>9, <2>1, <2>2, TypesKept
<1>11. OneDaemon' /\ TokenFits'
  BY <1>1, DaemonsStay
<1>12. ProcsInv'
  <2>1. ProcsInv
    BY DEF BridgeInv
  <2>2. \A q \in Callers : proc'[q].why = proc[q].why
    BY <1>2, <1>7, <1>9, BridgeFacts
  <2>3. \A q \in Conns : q # c => proc'[q].why = proc[q].why
    BY <1>7, <1>9, BridgeFacts
  <2>4. \A q \in Callers : /\ proc'[q].why \in {"none", "startup", "core"}
                           /\ proc'[q].at \in UnderWay \cup {"auth"} => proc[q].at \in UnderWay \cup {"auth"}
                           /\ At(q, "rest") => proc'[q].at = "rest"
    BY <1>1, <1>2, <1>7, <1>9, <2>1, <2>2, BridgeFacts DEF ProcsInv, UnderWay, At
  <2>5. \A q \in Conns : proc'[q].why \notin {"startup", "core"}
    BY <1>5, <1>9, <2>1, <2>3 DEF ProcsInv
  <2>6. ASSUME NEW q \in Callers, proc'[q].why = "startup", proc'[q].at \in UnderWay \cup {"auth"}
        PROVE  phase' = "down" /\ \A o \in Callers : o # q => proc'[o].at = "rest"
    <3>1. proc[q].why = "startup" /\ proc[q].at \in UnderWay \cup {"auth"}
      BY <2>2, <2>4, <2>6
    <3>2. phase = "down" /\ \A o \in Callers : o # q => At(o, "rest")
      BY <2>1, <3>1 DEF ProcsInv
    <3> QED
      BY <1>1, <2>4, <3>2
  <2>7. \A q \in Callers : proc'[q].why \in {"none", "startup", "core"}
    BY <2>4
  <2> QED
    BY <1>9, <2>5, <2>6, <2>7 DEF ProcsInv, At
<1>13. MutexInv'
  <2>1. MutexInv
    BY DEF BridgeInv
  <2>2. \A q \in Procs : \/ proc'[q] = proc[q]
                         \/ /\ proc[q].at \notin {"spawn", "wait"}
                            /\ proc'[q].at \notin {"spawn", "wait"}
    BY <1>1, <1>2, <1>5, <1>7, <1>9 DEF At
  <2>3. \A q \in Procs : proc'[q].at \in {"spawn", "wait"} <=> holder' = {q}
    BY <1>1, <2>1, <2>2 DEF MutexInv
  <2>4. \A q \in Procs : proc'[q].at = "spawn" => cmd' = 0
    BY <1>1, <2>1, <2>2 DEF MutexInv, At
  <2> QED
    BY <1>1, <2>1, <2>3, <2>4 DEF MutexInv, At
<1>14. ConnsInv'
  <2>1. ConnsInv
    BY DEF BridgeInv
  <2>2. \A o \in Conns : o # c /\ At(o, "rest") => proc'[o].at = "rest"
    BY <1>1, <1>9, BridgeFacts DEF At
  <2>3. \A o \in Conns : conn'[o].to = 0 => proc'[o].at = "rest"
    BY <1>1, <1>2, <2>1, <2>2 DEF ConnsInv
  <2>4. \A q \in Procs : proc'[q].at = "publish" => q # p /\ q # c /\ At(q, "publish") /\ proc'[q] = proc[q]
    BY <1>5, <1>7, <1>9 DEF At
  <2>5. \A q \in Procs : proc'[q].at = "publish" =>
          \E o \in Conns : proc'[q].new = {o} /\ conn'[o].to # 0 /\ proc'[o].at = "rest"
    <3> SUFFICES ASSUME NEW q \in Procs, proc'[q].at = "publish"
                 PROVE  \E o \in Conns : proc'[q].new = {o} /\ conn'[o].to # 0 /\ proc'[o].at = "rest"
      OBVIOUS
    <3>1. PICK o \in Conns : proc[q].new = {o} /\ conn[o].to # 0 /\ At(o, "rest")
      BY <2>1, <2>4 DEF ConnsInv
    <3>2. proc[q].new # proc[p].new
      BY <1>1, <2>1, <2>4 DEF ConnsInv
    <3>3. o # c
      BY <1>2, <3>1, <3>2
    <3> QED
      BY <1>1, <2>2, <2>4, <3>1, <3>3
  <2>6. \A q, o \in Procs : proc'[q].at = "publish" /\ proc'[o].at = "publish" /\ q # o
                            => proc'[q].new # proc'[o].new
    BY <2>1, <2>4 DEF ConnsInv
  <2>7. \A o \in Conns : conn'[o].open = TRUE => conn'[o].to # 0 /\ daemon'[conn'[o].to] # "unborn"
    BY <1>1, <2>1 DEF ConnsInv
  <2> QED
    BY <2>3, <2>5, <2>6, <2>7 DEF ConnsInv, At
<1>15. CoverInv'
  <2>1. Covers(c, proc'[c], epoch', client')
    BY <1>1, <1>2, <1>5, <1>9 DEF Covers
  <2> QED
    BY <1>3, <2>1 DEF CoverInv
<1> QED
  BY <1>10, <1>11, <1>12, <1>13, <1>14, <1>15 DEF BridgeInv

(* Auth: a daemon that lives is the one whose token this is.               *)
LEMMA AuthStep ==
  ASSUME BridgeInv, NEW p \in Procs, Auth(p)
  PROVE  BridgeInv'
<1>1. /\ At(p, "auth") /\ holder = {} /\ proc' = [proc EXCEPT ![p] = Rest]
      /\ conn' = [c \in Conns |-> IF c \in proc[p].new /\ Live(c)
                                 THEN [conn[c] EXCEPT !.token = authToken] ELSE conn[c]]
      /\ phase' = IF proc[p].why = "startup" THEN "up" ELSE phase
      /\ failed' = failed /\ client' = client /\ shuttingDown' = shuttingDown
      /\ epoch' = epoch /\ oversized' = oversized
      /\ daemon' = daemon /\ born' = born /\ socket' = socket
      /\ cmd' = cmd /\ authToken' = authToken /\ holder' = holder
  BY DEF Auth, Token, processes, supervisor
<1>2. Moves(p, Rest) /\ Rest.at = "rest" /\ Rest.why = "none"
  BY <1>1, RestIsTask DEF Moves
<1>3. DOMAIN proc' = Procs /\ proc'[p] = Rest /\ \A q \in Procs : q # p => proc'[q] = proc[q]
  BY <1>2, Moved
<1>4. conn \in [Conns -> [to : 0..MaxDaemons, open : BOOLEAN, token : 0..MaxDaemons]]
  BY DEF BridgeInv, BridgeTypeOK
<1>5. /\ conn' \in [Conns -> [to : 0..MaxDaemons, open : BOOLEAN, token : 0..MaxDaemons]]
      /\ \A c \in Conns : /\ conn'[c].to = conn[c].to /\ conn'[c].open = conn[c].open
                          /\ \/ conn'[c].token = conn[c].token
                             \/ Live(c) /\ conn'[c].token = authToken
  <2>1. \A c \in Conns : conn'[c] = IF c \in proc[p].new /\ Live(c)
                                  THEN [conn[c] EXCEPT !.token = authToken] ELSE conn[c]
    BY <1>1
  <2>2. ASSUME NEW c \in Conns
        PROVE  /\ conn'[c] \in [to : 0..MaxDaemons, open : BOOLEAN, token : 0..MaxDaemons]
               /\ conn'[c].to = conn[c].to /\ conn'[c].open = conn[c].open
               /\ \/ conn'[c].token = conn[c].token
                  \/ Live(c) /\ conn'[c].token = authToken
    <3>1. conn[c] \in [to : 0..MaxDaemons, open : BOOLEAN, token : 0..MaxDaemons]
      BY <1>4
    <3>2. PICK k : k = [conn[c] EXCEPT !.token = authToken]
      OBVIOUS
    <3>3. /\ k \in [to : 0..MaxDaemons, open : BOOLEAN, token : 0..MaxDaemons]
          /\ k.to = conn[c].to /\ k.open = conn[c].open /\ k.token = authToken
      BY <3>1, <3>2, BridgeFacts
    <3>4. (conn'[c] = k /\ Live(c)) \/ conn'[c] = conn[c]
      BY <2>1, <3>2
    <3> QED
      BY <3>1, <3>3, <3>4
  <2>3. conn' = [c \in Conns |-> conn'[c]]
    BY <1>1
  <2> QED
    BY <2>2, <2>3
<1>6. BridgeTypeOK'
  <2>1. /\ phase' \in {"down", "up", "failed"} /\ shuttingDown' \in BOOLEAN /\ failed' \in BOOLEAN
    BY <1>1, BridgeFacts
  <2>2. /\ epoch' \in Nat /\ oversized' \in 0..(MaxRedials + 1)
        /\ {cmd', authToken', socket'} \subseteq 0..MaxDaemons
    BY <1>1, CountFits, BridgeFacts
  <2>3. /\ client' \in SUBSET Conns /\ holder' \in SUBSET Procs /\ born' \in [Daemons -> Nat]
        /\ daemon' \in [Daemons -> {"unborn", "booting", "bound", "gone"}]
    BY <1>1 DEF BridgeInv, BridgeTypeOK
  <2> QED
    BY <1>3, <1>5, <2>1, <2>2, <2>3 DEF BridgeTypeOK
<1>7. OneDaemon'
  BY <1>1 DEF BridgeInv, OneDaemon, Alive
<1>8. TokenFits'
  <2> SUFFICES ASSUME NEW c \in Conns, (Live(c))' PROVE conn'[c].token \in {0, conn'[c].to}
    BY DEF TokenFits
  <2>1. Live(c)
    BY <1>1, <1>5 DEF Live, Alive
  <2>2. conn[c].to \in 0..MaxDaemons
    BY <1>4
  <2>3. conn[c].to = cmd /\ cmd # 0
    BY <2>1, <2>2, BridgeFacts DEF BridgeInv, OneDaemon, Live, Alive
  <2>4. authToken = cmd
    BY <2>3 DEF BridgeInv, MutexInv
  <2>5. conn[c].token \in {0, conn[c].to}
    BY <2>1 DEF BridgeInv, TokenFits
  <2> QED
    BY <1>5, <2>3, <2>4, <2>5
<1>9. ProcsInv'
  <2>1. proc[p].why = "startup" => p \in Callers
    BY BridgeFacts DEF BridgeInv, ProcsInv
  <2> QED
    BY <1>1, <1>2, <2>1, ProcsKept DEF At
<1>10. MutexInv'
  BY <1>1, <1>2, MutexKept DEF At
<1>11. ConnsInv'
  BY <1>1, <1>2, <1>5, ConnsKept DEF At
<1>12. CoverInv'
  <2>1. ASSUME NeedsCover' PROVE NeedsCover
    <3>1. shuttingDown = FALSE
      BY <1>1, <2>1 DEF NeedsCover
    <3>2. CASE proc[p].why = "startup"
      <4>1. p \in Callers
        BY <3>2, BridgeFacts DEF BridgeInv, ProcsInv
      <4> QED
        BY <1>1, <3>1, <3>2, <4>1 DEF NeedsCover
    <3>3. CASE proc[p].why # "startup"
      <4>1. phase' = phase
        BY <1>1, <3>3
      <4> QED
        BY <1>1, <1>2, <2>1, <4>1, NeedKept
    <3> QED
      BY <3>2, <3>3
  <2>2. ~Covers(p, proc[p], epoch, client)
    BY <1>1 DEF Covers, UnderWay, At
  <2> QED
    BY <1>1, <1>2, <2>1, <2>2, CoverKept
<1> QED
  BY <1>6, <1>7, <1>8, <1>9, <1>10, <1>11, <1>12 DEF BridgeInv

(* A reader's step: it changes its own place, and at most the epoch and    *)
(* the count of long envelopes.  What a newer epoch needs is the covering  *)
(* by the reader itself.                                                   *)
LEMMA ReaderInv ==
  ASSUME BridgeInv, NEW c \in Conns, NEW r, Moves(c, r),
         UNCHANGED <<service, client, processes, supervisor, conn, failed>>,
         proc[c].at \in {"reading", "ended", "redial", "backoff"},
         r.at \in {"rest", "ended", "redial", "dial", "backoff", "restart"},
         r.why \notin {"startup", "core"},
         oversized' \in 0..(MaxRedials + 1), epoch' \in Nat,
         \/ epoch' = epoch /\ (NeedsCover /\ Covers(c, proc[c], epoch, client) => Covers(c, r, epoch, client))
         \/ Covers(c, r, epoch', client)
  PROVE  BridgeInv'
<1>1. /\ phase' = phase /\ shuttingDown' = shuttingDown /\ failed' = failed /\ client' = client
      /\ daemon' = daemon /\ born' = born /\ socket' = socket
      /\ cmd' = cmd /\ authToken' = authToken /\ holder' = holder /\ conn' = conn
  BY DEF service, processes, supervisor
<1>2. c \in Procs /\ c \notin Callers
  BY BridgeFacts
<1>3. ProcsInv'
  BY <1>1, <1>2, ProcsKept
<1>4. MutexInv'
  BY <1>1, <1>2, MutexKept
<1>5. NeedsCover' => NeedsCover
  BY <1>1, <1>2, NeedKept
<1>6. CoverInv'
  <2>1. CASE epoch' = epoch /\ (NeedsCover /\ Covers(c, proc[c], epoch, client) => Covers(c, r, epoch, client))
    BY <1>1, <1>2, <1>5, <2>1, CoverKept
  <2>2. CASE Covers(c, r, epoch', client)
    <3>1. proc'[c] = r
      BY <1>2, Moved
    <3> QED
      BY <1>1, <1>2, <2>2, <3>1 DEF CoverInv
  <2> QED
    BY <2>1, <2>2
<1>7. phase' \in {"down", "up", "failed"} /\ shuttingDown' \in BOOLEAN /\ failed' \in BOOLEAN
  BY <1>1, BridgeFacts
<1>8. client' \in SUBSET Conns /\ holder' \in SUBSET Procs /\ socket' \in 0..MaxDaemons
  BY <1>1, CountFits, BridgeFacts
<1>9. ~At(c, "rest") /\ r.at # "publish"
  BY DEF At
<1> QED
  BY <1>1, <1>2, <1>3, <1>4, <1>6, <1>7, <1>8, <1>9, MovesInv

LEMMA ReaderSteps ==
  ASSUME BridgeInv, NEW c \in Conns,
         ReadEnds(c) \/ Oversized(c) \/ Redial(c) \/ Claim(c) \/ BackedOff(c)
  PROVE  BridgeInv'
<1>1. c \in Procs /\ proc[c] \in Tasks /\ c \notin Callers /\ proc[c].why \notin {"startup", "core"}
  <2>1. c \in Procs /\ c \notin Callers /\ proc \in [Procs -> Tasks]
    BY BridgeFacts
  <2> QED
    BY <2>1 DEF BridgeInv, ProcsInv
<1>2. epoch \in Nat /\ epoch + 1 \in Nat /\ oversized \in 0..(MaxRedials + 1) /\ MaxRedials \in Nat
  BY BridgeFacts, CountFits
<1>3. CASE ReadEnds(c)
  <2>1. /\ At(c, "reading") /\ epoch' = epoch /\ oversized' = oversized
        /\ UNCHANGED <<service, client, processes, supervisor, conn, failed>>
    BY <1>3 DEF ReadEnds
  <2>2. PICK why \in {"closed", "too long"} :
          proc' = [proc EXCEPT ![c] = IF shuttingDown \/ client # {c} THEN Rest
                                     ELSE [Rest EXCEPT !.at = "ended", !.why = why]]
    BY <1>3 DEF ReadEnds
  <2>3. why \in Whys /\ why \notin {"startup", "core"} /\ "ended" \in Places
    BY DEF Whys, Places
  <2>4. PICK r : r = IF shuttingDown \/ client # {c} THEN Rest ELSE TaskAt("ended", why)
    OBVIOUS
  <2>5. CASE shuttingDown \/ client # {c}
    <3>1. r \in Tasks /\ r.at = "rest" /\ r.why = "none" /\ proc' = [proc EXCEPT ![c] = r]
      BY <2>2, <2>4, <2>5, RestIsTask
    <3>2. ~(NeedsCover /\ Covers(c, proc[c], epoch, client))
      BY <1>1, <2>1, <2>5, BridgeFacts DEF NeedsCover, Covers, UnderWay, At
    <3> QED
      BY <1>2, <2>1, <3>1, <3>2, ReaderInv DEF Moves, At
  <2>6. CASE ~(shuttingDown \/ client # {c})
    <3>1. r = TaskAt("ended", why)
      BY <2>4, <2>6
    <3>2. r \in Tasks /\ r.at = "ended" /\ r.why = why
      <4>1. \A place \in Places : /\ TaskAt(place, why) \in Tasks /\ TaskAt(place, why).at = place
                                  /\ TaskAt(place, why).why = why
        BY <2>3, NewTask
      <4> QED
        BY <2>3, <3>1, <4>1
    <3>3. proc' = [proc EXCEPT ![c] = r]
      BY <2>2, <2>6, <3>1 DEF TaskAt
    <3>4. Covers(c, r, epoch', client)
      BY <3>2 DEF Covers
    <3> QED
      BY <1>2, <2>1, <2>3, <3>2, <3>3, <3>4, ReaderInv DEF Moves, At
  <2> QED
    BY <2>5, <2>6
<1>4. CASE Oversized(c)
  <2>1. /\ At(c, "ended") /\ epoch' = epoch + 1
        /\ oversized' = IF oversized > MaxRedials THEN oversized ELSE oversized + 1
        /\ proc' = [proc EXCEPT ![c] =
             IF oversized < MaxRedials THEN [proc[c] EXCEPT !.at = "redial", !.why = "redial", !.epoch = epoch + 1]
             ELSE [proc[c] EXCEPT !.why = "closed"]]
        /\ UNCHANGED <<service, client, processes, supervisor, conn, failed>>
    BY <1>4 DEF Oversized
  <2>2. oversized' \in 0..(MaxRedials + 1)
    BY <1>2, <2>1
  <2>3. CASE oversized < MaxRedials
    <3>1. PICK r : r = [proc[c] EXCEPT !.at = "redial", !.why = "redial", !.epoch = epoch + 1]
      OBVIOUS
    <3>2. r \in Tasks /\ r.at = "redial" /\ r.why = "redial" /\ r.epoch = epoch + 1
      <4>1. PICK a : a = [proc[c] EXCEPT !.at = "redial"]
        OBVIOUS
      <4>2. a \in Tasks /\ a.at = "redial"
        BY <1>1, <4>1 DEF Tasks, Places
      <4>3. PICK b : b = [a EXCEPT !.why = "redial"]
        OBVIOUS
      <4>4. b \in Tasks /\ b.at = "redial" /\ b.why = "redial"
        BY <4>2, <4>3 DEF Tasks
      <4>5. r = [b EXCEPT !.epoch = epoch + 1]
        BY <3>1, <4>1, <4>3
      <4> QED
        BY <1>2, <4>4, <4>5 DEF Tasks
    <3>3. proc' = [proc EXCEPT ![c] = r]
      BY <2>1, <2>3, <3>1
    <3>4. Covers(c, r, epoch', client)
      BY <2>1, <3>2 DEF Covers
    <3> QED
      BY <1>2, <2>1, <2>2, <3>2, <3>3, <3>4, ReaderInv DEF Moves, At
  <2>4. CASE ~(oversized < MaxRedials)
    <3>1. PICK r : r = [proc[c] EXCEPT !.why = "closed"]
      OBVIOUS
    <3>2. r \in Tasks /\ r.at = "ended" /\ r.why = "closed"
      BY <1>1, <2>1, <3>1 DEF Tasks, At
    <3>3. proc' = [proc EXCEPT ![c] = r]
      BY <2>1, <2>4, <3>1
    <3>4. Covers(c, r, epoch', client)
      BY <3>2 DEF Covers
    <3> QED
      BY <1>2, <2>1, <2>2, <3>2, <3>3, <3>4, ReaderInv DEF Moves, At
  <2> QED
    BY <2>3, <2>4
<1>5. CASE Redial(c) \/ BackedOff(c)
  <2>1. PICK place \in {"dial", "restart"} :
          proc' = Goes(c, IF EpochCurrent(c) THEN place ELSE "rest")
    BY <1>5 DEF Redial, BackedOff
  <2>2. /\ proc[c].at \in {"redial", "backoff"} /\ epoch' = epoch /\ oversized' = oversized
        /\ UNCHANGED <<service, client, processes, supervisor, conn, failed>>
    BY <1>5 DEF Redial, BackedOff, At
  <2>3. CASE EpochCurrent(c)
    <3>1. proc' = Goes(c, place) /\ place \in Places /\ place # "rest"
      BY <2>1, <2>3 DEF Places
    <3>2. PICK r : Moves(c, r) /\ r.at = place /\ r.why = proc[c].why /\ r.epoch = proc[c].epoch
      BY <1>1, <3>1, GoesMoves
    <3>3. Covers(c, r, epoch', client)
      BY <2>2, <2>3, <3>2 DEF Covers, EpochCurrent, UnderWay
    <3> QED
      BY <1>1, <1>2, <2>2, <3>2, <3>3, ReaderInv
  <2>4. CASE ~EpochCurrent(c)
    <3>1. proc' = Goes(c, "rest") /\ "rest" \in Places
      BY <2>1, <2>4 DEF Places
    <3>2. PICK r : Moves(c, r) /\ r.at = "rest" /\ r.why = "none"
      BY <1>1, <3>1, GoesMoves
    <3>3. ~(NeedsCover /\ Covers(c, proc[c], epoch, client))
      BY <1>1, <2>2, <2>4, BridgeFacts DEF NeedsCover, Covers, EpochCurrent, UnderWay
    <3> QED
      BY <1>2, <2>2, <3>2, <3>3, ReaderInv
  <2> QED
    BY <2>3, <2>4
<1>6. CASE Claim(c)
  <2>1. /\ At(c, "ended") /\ Reconnects(c) /\ oversized' = oversized /\ epoch' = epoch + 1
        /\ UNCHANGED <<service, client, processes, supervisor, conn, failed>>
    BY <1>6 DEF Claim, Reconnects
  <2>2. PICK r : Moves(c, r) /\ r.at = "backoff" /\ r.why = "reconnect" /\ r.epoch = epoch'
    BY <1>1, <2>1, ReconnectMoves
  <2>3. Covers(c, r, epoch', client)
    BY <2>2 DEF Covers
  <2> QED
    BY <1>2, <2>1, <2>2, <2>3, ReaderInv DEF At
<1> QED
  BY <1>3, <1>4, <1>5, <1>6

(* FirstEnvelope, Binds and Crashes.                                       *)
LEMMA OtherSteps ==
  ASSUME BridgeInv, \/ \E c \in Conns : FirstEnvelope(c)
                    \/ \E d \in Daemons : Binds(d) \/ Crashes(d)
  PROVE  BridgeInv'
<1>1. daemon \in [Daemons -> {"unborn", "booting", "bound", "gone"}] /\ DOMAIN proc = Procs
  BY DEF BridgeInv, BridgeTypeOK
<1>2. /\ UNCHANGED <<service, epoch, client, supervisor, conn, proc, failed>>
      /\ born' = born /\ socket' \in 0..MaxDaemons /\ oversized' \in 0..(MaxRedials + 1)
      /\ daemon' \in [Daemons -> {"unborn", "booting", "bound", "gone"}]
      /\ \A d \in Daemons : /\ daemon'[d] = "unborn" => daemon[d] = "unborn"
                            /\ daemon'[d] \in {"booting", "bound"} => daemon[d] \in {"booting", "bound"}
  <2>1. ASSUME NEW c \in Conns, FirstEnvelope(c)
        PROVE  /\ UNCHANGED <<service, epoch, client, supervisor, conn, proc, failed>>
               /\ daemon' = daemon /\ born' = born
               /\ socket' \in 0..MaxDaemons /\ oversized' \in 0..(MaxRedials + 1)
    <3>1. /\ UNCHANGED <<service, epoch, client, supervisor, conn, proc, failed>>
          /\ daemon' = daemon /\ born' = born /\ socket' = socket /\ oversized' = 0
      BY <2>1 DEF FirstEnvelope, processes
    <3> QED
      BY <3>1, BridgeFacts
  <2>2. ASSUME NEW d \in Daemons, Binds(d) \/ Crashes(d)
        PROVE  /\ UNCHANGED <<service, epoch, client, supervisor, conn, proc, failed>>
               /\ born' = born /\ socket' \in {socket, d} /\ oversized' = oversized
               /\ daemon[d] \in {"booting", "bound"}
               /\ \/ daemon' = [daemon EXCEPT ![d] = "bound"]
                  \/ daemon' = [daemon EXCEPT ![d] = "gone"]
    BY <2>2 DEF Binds, Crashes, Alive
  <2>3. ASSUME NEW d \in Daemons, Binds(d) \/ Crashes(d)
        PROVE  /\ socket' \in 0..MaxDaemons /\ oversized' \in 0..(MaxRedials + 1)
               /\ daemon' \in [Daemons -> {"unborn", "booting", "bound", "gone"}]
               /\ \A x \in Daemons : /\ daemon'[x] = "unborn" => daemon[x] = "unborn"
                                     /\ daemon'[x] \in {"booting", "bound"} => daemon[x] \in {"booting", "bound"}
    <3>1. socket' \in {socket, d} /\ oversized' = oversized /\ daemon[d] \in {"booting", "bound"}
      BY <2>2, <2>3
    <3>2. socket' \in 0..MaxDaemons /\ oversized' \in 0..(MaxRedials + 1)
      BY <3>1, BridgeFacts, CountFits
    <3>3. PICK s \in {"bound", "gone"} : daemon' = [daemon EXCEPT ![d] = s]
      BY <2>2, <2>3
    <3> QED
      BY <1>1, <3>1, <3>2, <3>3
  <2> QED
    BY <1>1, <2>1, <2>2, <2>3
<1>3. OneDaemon' /\ TokenFits' /\ ProcsInv' /\ MutexInv' /\ ConnsInv' /\ CoverInv'
  BY <1>2, StillKept
<1>4. BridgeTypeOK'
  <2>1. /\ phase' \in {"down", "up", "failed"} /\ shuttingDown' \in BOOLEAN /\ failed' \in BOOLEAN
    BY <1>2, BridgeFacts DEF service
  <2>2. /\ epoch' \in Nat /\ {cmd', authToken', socket'} \subseteq 0..MaxDaemons
    BY <1>2, BridgeFacts DEF supervisor
  <2>3. /\ client' \in SUBSET Conns /\ holder' \in SUBSET Procs /\ born' \in [Daemons -> Nat]
        /\ conn' \in [Conns -> [to : 0..MaxDaemons, open : BOOLEAN, token : 0..MaxDaemons]]
        /\ DOMAIN proc' = Procs
    BY <1>1, <1>2 DEF BridgeInv, BridgeTypeOK, supervisor
  <2> QED
    BY <1>2, <2>1, <2>2, <2>3 DEF BridgeTypeOK
<1> QED
  BY <1>3, <1>4 DEF BridgeInv

(* ServiceStartup: nobody else is at anything.                             *)
LEMMA StartupStep ==
  ASSUME BridgeInv, NEW p \in Callers, ServiceStartup(p)
  PROVE  BridgeInv'
<1>1. /\ phase = "down" /\ \A q \in Procs : At(q, "rest")
      /\ phase' = phase /\ shuttingDown' = shuttingDown /\ failed' = failed
      /\ epoch' = epoch /\ client' = client /\ oversized' = oversized
      /\ daemon' = daemon /\ born' = born /\ socket' = socket
      /\ cmd' = cmd /\ authToken' = authToken /\ holder' = holder /\ conn' = conn
  BY DEF ServiceStartup, service, processes, supervisor
<1>2. p \in Procs /\ p \notin Conns
  BY BridgeFacts
<1>3. PICK r : r = TaskAt("restart", "startup")
  OBVIOUS
<1>4. r \in Tasks /\ r.at = "restart" /\ r.why = "startup"
  <2>1. "restart" \in Places /\ "startup" \in Whys
    BY DEF Places, Whys
  <2> QED
    BY <1>3, <2>1, NewTask
<1>5. Moves(p, r)
  BY <1>3, <1>4 DEF ServiceStartup, TaskAt, Moves
<1>6. proc' \in [Procs -> Tasks] /\ proc'[p] = r /\ \A q \in Procs : q # p => proc'[q] = proc[q]
  BY <1>2, <1>5, Moved
<1>7. ProcsInv'
  <2>1. \A q \in Procs : q # p => proc'[q].at = "rest" /\ proc'[q].why = proc[q].why
    BY <1>1, <1>6 DEF At
  <2>2. \A q \in Callers : proc'[q].why \in {"none", "startup", "core"}
    BY <1>4, <1>6, <2>1, BridgeFacts DEF BridgeInv, ProcsInv
  <2>3. \A q \in Conns : proc'[q].why \notin {"startup", "core"}
    BY <1>2, <2>1, BridgeFacts DEF BridgeInv, ProcsInv
  <2>4. \A q \in Callers : proc'[q].at \in UnderWay \cup {"auth"} => q = p
    BY <2>1, BridgeFacts DEF UnderWay
  <2>5. \A o \in Callers : o # p => proc'[o].at = "rest"
    BY <2>1, BridgeFacts
  <2> QED
    BY <1>1, <1>6, <2>2, <2>3, <2>4, <2>5 DEF ProcsInv, At
<1>8. MutexInv'
  BY <1>1, <1>2, <1>4, <1>5, MutexKept DEF At
<1>9. CoverInv'
  <2>1. NeedsCover' => NeedsCover
    BY <1>1, <1>2, <1>4, <1>5, NeedKept
  <2>2. ~Covers(p, proc[p], epoch, client)
    BY <1>1, <1>2 DEF Covers, UnderWay, At
  <2> QED
    BY <1>1, <1>2, <1>5, <2>1, <2>2, CoverKept
<1>10. phase' \in {"down", "up", "failed"} /\ shuttingDown' \in BOOLEAN /\ failed' \in BOOLEAN /\ epoch' \in Nat
  BY <1>1, BridgeFacts
<1>11. /\ oversized' \in 0..(MaxRedials + 1) /\ client' \in SUBSET Conns /\ holder' \in SUBSET Procs
       /\ socket' \in 0..MaxDaemons
  BY <1>1, CountFits, BridgeFacts
<1> QED
  BY <1>1, <1>2, <1>4, <1>5, <1>7, <1>8, <1>9, <1>10, <1>11, MovesInv

(* RestartCore and ServiceShutdown: the client's connection is closed.     *)
LEMMA CallSteps ==
  ASSUME BridgeInv, NEW p \in Callers, RestartCore(p) \/ ServiceShutdown(p)
  PROVE  BridgeInv'
<1>1. /\ phase = "up" /\ shuttingDown = FALSE /\ At(p, "rest") /\ phase' = phase /\ failed' = failed
      /\ oversized' = oversized /\ conn' = Closed
      /\ daemon' = daemon /\ born' = born /\ socket' = socket
      /\ cmd' = cmd /\ authToken' = authToken /\ holder' = holder
  BY BridgeFacts DEF RestartCore, ServiceShutdown, service, processes, supervisor
<1>2. p \in Procs /\ p \notin Conns
  BY BridgeFacts
<1>3. PICK r : /\ Moves(p, r)
               /\ \/ /\ r.at = "restart" /\ r.why = "core" /\ shuttingDown' = shuttingDown
                     /\ epoch' = epoch + 1 /\ client' = {}
                  \/ r.at = "stop" /\ r.why = "none" /\ shuttingDown' = TRUE /\ epoch' = epoch /\ client' = client
  <2>1. CASE RestartCore(p)
    <3>1. /\ epoch' = epoch + 1 /\ client' = {} /\ shuttingDown' = shuttingDown
          /\ proc' = [proc EXCEPT ![p] = TaskAt("restart", "core")]
      BY <2>1 DEF RestartCore, service, TaskAt
    <3>2. "restart" \in Places /\ "core" \in Whys
      BY DEF Places, Whys
    <3>3. /\ TaskAt("restart", "core") \in Tasks /\ TaskAt("restart", "core").at = "restart"
          /\ TaskAt("restart", "core").why = "core"
      BY <3>2, NewTask
    <3> QED
      BY <3>1, <3>3 DEF Moves
  <2>2. CASE ServiceShutdown(p)
    <3>1. /\ epoch' = epoch /\ client' = client /\ shuttingDown' = TRUE
          /\ proc' = [proc EXCEPT ![p] = [Rest EXCEPT !.at = "stop"]]
      BY <2>2 DEF ServiceShutdown
    <3>2. "stop" \in Places
      BY DEF Places
    <3>3. /\ [Rest EXCEPT !.at = "stop"] \in Tasks /\ [Rest EXCEPT !.at = "stop"].at = "stop"
          /\ [Rest EXCEPT !.at = "stop"].why = "none"
      BY <3>2, RestIsTask
    <3> QED
      BY <3>1, <3>3 DEF Moves
  <2> QED
    BY <2>1, <2>2
<1>4. DOMAIN proc' = Procs /\ proc'[p] = r
  BY <1>2, <1>3, Moved
<1>5. /\ conn' \in [Conns -> [to : 0..MaxDaemons, open : BOOLEAN, token : 0..MaxDaemons]]
      /\ \A c \in Conns : /\ conn'[c].to = conn[c].to /\ conn'[c].token = conn[c].token
                          /\ conn'[c].open = TRUE => conn[c].open = TRUE
  <2>1. conn' = [c \in Conns |-> IF c \in client THEN [conn[c] EXCEPT !.open = FALSE] ELSE conn[c]]
    BY <1>1 DEF Closed
  <2>2. ASSUME NEW c \in Conns
        PROVE  /\ conn'[c] \in [to : 0..MaxDaemons, open : BOOLEAN, token : 0..MaxDaemons]
               /\ conn'[c].to = conn[c].to /\ conn'[c].token = conn[c].token
               /\ conn'[c].open = TRUE => conn[c].open = TRUE
    <3>1. conn[c] \in [to : 0..MaxDaemons, open : BOOLEAN, token : 0..MaxDaemons]
      BY DEF BridgeInv, BridgeTypeOK
    <3>2. PICK k : k = [conn[c] EXCEPT !.open = FALSE]
      OBVIOUS
    <3>3. /\ k \in [to : 0..MaxDaemons, open : BOOLEAN, token : 0..MaxDaemons]
          /\ k.to = conn[c].to /\ k.token = conn[c].token /\ k.open = FALSE
      BY <3>1, <3>2
    <3>4. conn'[c] = k \/ conn'[c] = conn[c]
      BY <2>1, <3>2
    <3> QED
      BY <3>1, <3>3, <3>4
  <2>3. conn' = [c \in Conns |-> conn'[c]]
    BY <2>1
  <2> QED
    BY <2>2, <2>3
<1>6. BridgeTypeOK'
  <2>1. /\ phase' \in {"down", "up", "failed"} /\ shuttingDown' \in BOOLEAN /\ failed' \in BOOLEAN
    BY <1>1, <1>3, BridgeFacts
  <2>2. /\ epoch' \in Nat /\ oversized' \in 0..(MaxRedials + 1)
        /\ {cmd', authToken', socket'} \subseteq 0..MaxDaemons
    BY <1>1, <1>3, CountFits, BridgeFacts
  <2>3. /\ client' \in SUBSET Conns /\ holder' \in SUBSET Procs /\ born' \in [Daemons -> Nat]
        /\ daemon' \in [Daemons -> {"unborn", "booting", "bound", "gone"}]
    BY <1>1, <1>3 DEF BridgeInv, BridgeTypeOK
  <2> QED
    BY <1>4, <1>5, <2>1, <2>2, <2>3 DEF BridgeTypeOK
<1>7. OneDaemon'
  BY <1>1 DEF BridgeInv, OneDaemon, Alive
<1>8. TokenFits'
  <2> SUFFICES ASSUME NEW c \in Conns, (Live(c))' PROVE conn'[c].token \in {0, conn'[c].to}
    BY DEF TokenFits
  <2>1. conn'[c].open /\ Alive(conn[c].to)
    BY <1>1, <1>5 DEF Live, Alive
  <2>2. conn'[c].open = TRUE
    BY <1>5, <2>1
  <2>3. Live(c)
    BY <1>5, <2>1, <2>2 DEF Live
  <2> QED
    BY <1>5, <2>3 DEF BridgeInv, TokenFits
<1>9. ProcsInv'
  BY <1>1, <1>2, <1>3, ProcsKept
<1>10. MutexInv'
  BY <1>1, <1>2, <1>3, MutexKept DEF At
<1>11. ConnsInv'
  BY <1>1, <1>2, <1>3, <1>5, ConnsKept
<1>12. CoverInv'
  <2>1. CASE r.at = "restart"
    <3>1. Covers(p, proc'[p], epoch', client')
      BY <1>4, <2>1 DEF Covers, UnderWay
    <3> QED
      BY <1>2, <3>1 DEF CoverInv
  <2>2. CASE shuttingDown' = TRUE
    BY <2>2 DEF CoverInv, NeedsCover
  <2> QED
    BY <1>3, <2>1, <2>2
<1> QED
  BY <1>6, <1>7, <1>8, <1>9, <1>10, <1>11, <1>12 DEF BridgeInv

LEMMA BridgeStep == BridgeInv /\ [BridgeNext]_bridgeVars => BridgeInv'
<1> SUFFICES ASSUME BridgeInv, [BridgeNext]_bridgeVars PROVE BridgeInv'
  OBVIOUS
<1>1. CASE UNCHANGED bridgeVars
  <2>1. /\ UNCHANGED <<service, epoch, client, supervisor, conn, proc, failed>>
        /\ daemon' = daemon /\ born' = born /\ socket' = socket /\ oversized' = oversized
    BY <1>1 DEF bridgeVars, processes
  <2>2. OneDaemon' /\ TokenFits' /\ ProcsInv' /\ MutexInv' /\ ConnsInv' /\ CoverInv'
    BY <2>1, StillKept
  <2>3. BridgeTypeOK'
    BY <2>1 DEF BridgeInv, BridgeTypeOK, service, supervisor
  <2> QED
    BY <2>2, <2>3 DEF BridgeInv
<1>2. ASSUME NEW p \in Procs,
             \/ Stop(p) \/ RestartStops(p) \/ Spawns(p) \/ SpawnFails(p)
             \/ SocketAppears(p) \/ SocketTimeout(p)
             \/ Dial(p) \/ DialFails(p) \/ Publish(p) \/ Auth(p)
      PROVE  BridgeInv'
  BY <1>2, StopSteps, SpawnStep, ErrSteps, SocketStep, DialStep, PublishStep, AuthStep
<1>3. ASSUME NEW c \in Conns,
             FirstEnvelope(c) \/ ReadEnds(c) \/ Oversized(c) \/ Redial(c) \/ Claim(c) \/ BackedOff(c)
      PROVE  BridgeInv'
  BY <1>3, ReaderSteps, OtherSteps
<1>4. ASSUME NEW p \in Callers, ServiceStartup(p) \/ RestartCore(p) \/ ServiceShutdown(p)
      PROVE  BridgeInv'
  BY <1>4, StartupStep, CallSteps
<1>5. ASSUME NEW d \in Daemons, Binds(d) \/ Crashes(d) PROVE BridgeInv'
  BY <1>5, OtherSteps
<1> QED
  BY <1>1, <1>2, <1>3, <1>4, <1>5 DEF BridgeNext

(* However restarts, crashes, calls and re-dials overlap: one daemon lives *)
(* at most and the supervisor knows it, and a connection that lives has    *)
(* been told the token of the daemon at its other end (supervisor.go,      *)
(* octobuddyservice.go connect).                                           *)
THEOREM BridgesAreSafe == BridgeSpec => []BridgeSafe
<1>1. BridgeInv => BridgeSafe
  BY BridgeImplies
<1> QED
  BY <1>1, InitBridge, BridgeStep, PTL DEF BridgeSpec

(* A bus that is down is somebody's business, or was given up: the epochs  *)
(* that make the older reconnects bail never leave nobody to reconnect     *)
(* (octobuddyservice.go reconnect, readLoop and RestartCore).              *)
THEOREM SomeoneAlwaysReconnects == BridgeSpec => []SomeoneReconnects
<1>1. BridgeInv => SomeoneReconnects
  BY BridgeImplies
<1> QED
  BY <1>1, InitBridge, BridgeStep, PTL DEF BridgeSpec

-----------------------------------------------------------------------------
(* The store of configuration and secrets.                                 *)
Tokens == [Bots -> 0..MaxToken]
Overrides == [Bots -> 0..MaxTools]
Configs == [bots : SUBSET Bots, channel : Overrides, tools : 0..MaxTools]
Views == [loaded : SUBSET Bots, bots : SUBSET Bots, channel : Overrides, token : Tokens]
Calls == [at : {"none", "merged", "bots", "pruning"}, by : SUBSET Editors,
          view : Views, was : Configs, todo : SUBSET Bots]

StoreTypes ==
  /\ config \in Configs /\ surfaced \in 0..MaxTools /\ override \in Overrides
  /\ dir \in SUBSET Bots /\ bootstrap \in SUBSET Bots /\ profile \in SUBSET Bots
  /\ greeted \in SUBSET Bots /\ owed \in SUBSET Bots
  /\ keyring \in Tokens /\ file \in Tokens /\ token \in Tokens /\ keyringUp \in BOOLEAN
  /\ call \in Calls

(* An editor shows one view, or it is closed.                              *)
OneView == /\ DOMAIN editor = Editors
           /\ \A e \in Editors : editor[e] = {} \/ \E v \in Views : editor[e] = {v}

(* The file's overrides are the last that were set; nobody has one who is  *)
(* not in it, so that a bot that comes back finds none.                    *)
FileInv ==
  /\ config.channel = override /\ config.tools = surfaced
  /\ \A b \in Bots : b \notin config.bots => override[b] = 0
  /\ greeted \subseteq config.bots

(* What a Save has read of the file is the file until it writes it, what   *)
(* it sets up it keeps, and what it takes away is nobody's any more.  The  *)
(* ritual of a bot that it finds there is not written again.               *)
CallInv ==
  /\ call.at = "merged" => call.was = config
  /\ call.at = "bots" => call.todo \subseteq call.view.bots /\ greeted \subseteq call.was.bots
  /\ call.at = "pruning" => call.todo \subseteq call.view.loaded \ call.view.bots
  /\ call.at # "none" => owed \cap (call.view.loaded \ call.view.bots) = {}

ConfigInv == StoreTypes /\ OneView /\ FileInv /\ CallInv /\ DataKept /\ BootstrapStaysGone

LEMMA ConfigImplies == ConfigInv => ConfigSpared
<1> SUFFICES ASSUME ConfigInv PROVE ConfigSpared
  OBVIOUS
<1>1. /\ config.bots \subseteq Bots /\ config.channel \in [Bots -> 0..MaxTools] /\ config.tools \in 0..MaxTools
      /\ call.at \in {"none", "merged", "bots", "pruning"}
  BY DEF ConfigInv, StoreTypes, Configs, Overrides, Calls
<1>2. /\ {dir, bootstrap, profile, greeted, owed} \subseteq SUBSET Bots
      /\ {keyring, file, token} \subseteq [Bots -> 0..MaxToken] /\ keyringUp \in BOOLEAN
  BY DEF ConfigInv, StoreTypes, Tokens
<1>3. ASSUME NEW e \in Editors PROVE Cardinality(editor[e]) <= 1
  <2>1. CASE editor[e] = {}
    BY <2>1, FS_EmptySet
  <2>2. ASSUME NEW v, editor[e] = {v} PROVE Cardinality(editor[e]) <= 1
    <3>1. Cardinality({v}) = 1
      BY FS_Singleton
    <3> QED
      BY <2>2, <3>1
  <2> QED
    BY <2>1, <2>2 DEF ConfigInv, OneView
<1>4. ConfigTypeOK
  BY <1>1, <1>2, <1>3 DEF ConfigTypeOK
<1>5. OverridesKept
  BY DEF ConfigInv, FileInv, OverridesKept
<1> QED
  BY <1>4, <1>5 DEF ConfigInv, ConfigSpared

LEMMA EmptyRecords ==
  /\ Zero \in Tokens /\ Zero \in Overrides /\ (\A b \in Bots : Zero[b] = 0)
  /\ Empty \in Configs /\ Empty.bots = {} /\ Empty.channel = Zero /\ Empty.tools = 0
  /\ NoCall \in Calls /\ NoCall.at = "none"
<1>1. MaxTools \in Nat /\ MaxToken \in Nat
  BY ConfigAssumption
<1>2. Zero \in Tokens /\ Zero \in Overrides /\ (\A b \in Bots : Zero[b] = 0)
  BY <1>1 DEF Zero, Tokens, Overrides
<1>3. Empty \in Configs /\ Empty.bots = {} /\ Empty.channel = Zero /\ Empty.tools = 0
  BY <1>1, <1>2 DEF Empty, Configs
<1>4. NoView \in Views
  BY <1>2 DEF NoView, Views
<1>5. NoCall \in Calls /\ NoCall.at = "none"
  BY <1>3, <1>4 DEF NoCall, Calls
<1> QED
  BY <1>2, <1>3, <1>5

LEMMA InitConfig == ConfigInit => ConfigInv
<1> SUFFICES ASSUME ConfigInit PROVE ConfigInv
  OBVIOUS
<1>1. MaxTools \in Nat
  BY ConfigAssumption
<1>2. StoreTypes
  BY <1>1, EmptyRecords DEF ConfigInit, StoreTypes
<1>3. OneView
  BY DEF ConfigInit, OneView
<1>4. FileInv
  BY EmptyRecords DEF ConfigInit, FileInv
<1>5. CallInv
  BY EmptyRecords DEF ConfigInit, CallInv
<1>6. DataKept /\ BootstrapStaysGone
  BY DEF ConfigInit, DataKept, BootstrapStaysGone
<1> QED
  BY <1>2, <1>3, <1>4, <1>5, <1>6 DEF ConfigInv

(* A step of the editor, which writes nothing.                             *)
LEMMA ShowsKept ==
  ASSUME ConfigInv, NEW e \in Editors, NEW views, Shows(e, views),
         views = {} \/ \E v \in Views : views = {v}
  PROVE  ConfigInv'
<1>1. /\ editor' = [editor EXCEPT ![e] = views]
      /\ UNCHANGED <<config, dir, bootstrap, keyring, file, keyringUp, token, profile, call,
                     override, surfaced, greeted, owed>>
  BY DEF Shows, secretVars, history
<1>2. OneView'
  <2>1. DOMAIN editor' = Editors
    BY <1>1 DEF ConfigInv, OneView
  <2>2. ASSUME NEW d \in Editors PROVE editor'[d] = {} \/ \E v \in Views : editor'[d] = {v}
    <3>1. CASE d = e
      BY <1>1, <3>1 DEF ConfigInv, OneView
    <3>2. CASE d # e
      BY <1>1, <3>2 DEF ConfigInv, OneView
    <3> QED
      BY <3>1, <3>2
  <2> QED
    BY <2>1, <2>2 DEF OneView
<1> QED
  BY <1>1, <1>2 DEF ConfigInv, StoreTypes, FileInv, CallInv, DataKept, BootstrapStaysGone

LEMMA GetFits == ConfigInv => \A b \in Bots : Get(b) \in 0..MaxToken
BY DEF ConfigInv, StoreTypes, Tokens, Get

LEMMA EditorSteps ==
  ASSUME ConfigInv, NEW e \in Editors, LoadConfig(e) \/ Leave(e) \/ AddBot(e) \/ DropBot(e) \/ EditToken(e)
  PROVE  ConfigInv'
<1>1. \A v \in editor[e] : v \in Views
  BY DEF ConfigInv, OneView
<1>2. CASE LoadConfig(e)
  <2>1. View \in Views
    <3>1. [b \in Bots |-> IF b \in config.bots THEN Get(b) ELSE 0] \in Tokens
      BY GetFits, ConfigAssumption DEF Tokens
    <3>2. config.bots \in SUBSET Bots /\ config.channel \in Overrides
      BY DEF ConfigInv, StoreTypes, Configs
    <3> QED
      BY <3>1, <3>2 DEF View, Views
  <2> QED
    BY <1>2, <2>1, ShowsKept DEF LoadConfig
<1>3. CASE Leave(e)
  BY <1>3, ShowsKept DEF Leave
<1>4. ASSUME NEW v \in editor[e], NEW b \in Bots, NEW t \in 0..MaxToken,
             Shows(e, {[v EXCEPT !.bots = @ \cup {b}, !.token[b] = t]})
      PROVE  ConfigInv'
  <2>1. PICK w : w = [v EXCEPT !.bots = v.bots \cup {b}]
    OBVIOUS
  <2>2. w \in Views
    BY <1>1, <2>1 DEF Views
  <2>3. PICK x : x = [w EXCEPT !.token = [w.token EXCEPT ![b] = t]]
    OBVIOUS
  <2>4. x \in Views
    <3>1. w.token \in Tokens
      BY <2>2 DEF Views
    <3>2. [w.token EXCEPT ![b] = t] \in Tokens
      BY <3>1 DEF Tokens
    <3> QED
      BY <2>2, <2>3, <3>2 DEF Views
  <2>5. x = [v EXCEPT !.bots = @ \cup {b}, !.token[b] = t]
    BY <1>1, <2>1, <2>3 DEF Views
  <2> QED
    BY <1>4, <2>4, <2>5, ShowsKept
<1>5. ASSUME NEW v \in editor[e], NEW b \in v.bots, Shows(e, {[v EXCEPT !.bots = @ \ {b}]})
      PROVE  ConfigInv'
  <2>1. [v EXCEPT !.bots = @ \ {b}] \in Views
    BY <1>1 DEF Views
  <2> QED
    BY <1>5, <2>1, ShowsKept
<1>6. ASSUME NEW v \in editor[e], NEW t \in 0..MaxToken, NEW b \in v.bots,
             Shows(e, {[v EXCEPT !.token[b] = t]})
      PROVE  ConfigInv'
  <2>1. v \in Views /\ v.token \in Tokens /\ b \in Bots
    BY <1>1 DEF Views
  <2>2. [v.token EXCEPT ![b] = t] \in Tokens
    BY <2>1 DEF Tokens
  <2>3. [v EXCEPT !.token[b] = t] = [v EXCEPT !.token = [v.token EXCEPT ![b] = t]]
    BY <2>1 DEF Views
  <2>4. [v EXCEPT !.token[b] = t] \in Views
    BY <2>1, <2>2, <2>3 DEF Views
  <2> QED
    BY <1>6, <2>4, ShowsKept
<1>7. CASE AddBot(e)
  BY <1>7, <1>4 DEF AddBot
<1>8. CASE DropBot(e)
  BY <1>8, <1>5 DEF DropBot
<1>9. CASE EditToken(e)
  BY <1>9, <1>6 DEF EditToken
<1> QED
  BY <1>2, <1>3, <1>7, <1>8, <1>9

(* A step of a writer, from what it leaves.                                *)
LEMMA WriterSteps ==
  ASSUME ConfigInv, SetChannelTools \/ SaveToolset \/ KeyringToggles \/ OctoCliProfile \/ DeletesBootstrap
  PROVE  ConfigInv'
<1>1. /\ config \in Configs /\ config.bots \subseteq Bots /\ config.channel \in Overrides
      /\ OneView /\ FileInv /\ CallInv /\ DataKept /\ BootstrapStaysGone /\ StoreTypes
  BY DEF ConfigInv, StoreTypes, Configs
<1>2. CASE SetChannelTools
  <2>1. /\ call.at = "none"
        /\ UNCHANGED <<dir, bootstrap, keyring, file, keyringUp, token, profile, editor, call,
                       surfaced, greeted, owed>>
    BY <1>2 DEF SetChannelTools, SaveMuFree, secretVars
  <2>2. PICK b \in config.bots, tools \in 0..MaxTools :
          /\ config' = [config EXCEPT !.channel[b] = tools]
          /\ override' = [override EXCEPT ![b] = tools]
    BY <1>2 DEF SetChannelTools
  <2>3. PICK ch : ch = [config.channel EXCEPT ![b] = tools]
    OBVIOUS
  <2>4. ch \in Overrides /\ override' = ch /\ b \in Bots
    BY <1>1, <2>2, <2>3 DEF FileInv, Overrides
  <2>5. config' = [config EXCEPT !.channel = ch]
    BY <1>1, <2>2, <2>3 DEF Configs
  <2>6. /\ config' \in Configs /\ config'.channel = ch
        /\ config'.bots = config.bots /\ config'.tools = config.tools
    BY <1>1, <2>4, <2>5 DEF Configs
  <2>7. StoreTypes'
    BY <1>1, <2>1, <2>4, <2>6 DEF StoreTypes
  <2>8. FileInv'
    <3>1. \A x \in Bots : x \notin config.bots => override'[x] = 0
      BY <1>1, <2>2, <2>4 DEF FileInv, StoreTypes, Overrides
    <3> QED
      BY <1>1, <2>1, <2>4, <2>6, <3>1 DEF FileInv
  <2>9. CallInv'
    BY <1>1, <2>1 DEF CallInv
  <2> QED
    BY <1>1, <2>1, <2>7, <2>8, <2>9 DEF ConfigInv, OneView, DataKept, BootstrapStaysGone
<1>3. CASE SaveToolset
  <2>1. /\ call.at = "none"
        /\ UNCHANGED <<dir, bootstrap, keyring, file, keyringUp, token, profile, editor, call,
                       override, greeted, owed>>
    BY <1>3 DEF SaveToolset, SaveMuFree, secretVars
  <2>2. PICK tools \in 1..MaxTools : config' = [config EXCEPT !.tools = tools] /\ surfaced' = tools
    BY <1>3 DEF SaveToolset
  <2>3. tools \in 0..MaxTools
    BY ConfigAssumption
  <2>4. /\ config' \in Configs /\ config'.tools = tools
        /\ config'.bots = config.bots /\ config'.channel = config.channel
    BY <1>1, <2>2, <2>3 DEF Configs
  <2>5. StoreTypes'
    BY <1>1, <2>1, <2>2, <2>3, <2>4 DEF StoreTypes
  <2>6. FileInv'
    BY <1>1, <2>1, <2>2, <2>4 DEF FileInv
  <2>7. CallInv'
    BY <1>1, <2>1 DEF CallInv
  <2> QED
    BY <1>1, <2>1, <2>5, <2>6, <2>7 DEF ConfigInv, OneView, DataKept, BootstrapStaysGone
<1>4. CASE KeyringToggles
  <2>1. /\ keyringUp' = ~keyringUp
        /\ UNCHANGED <<config, dir, bootstrap, keyring, file, token, profile, editor, call,
                       override, surfaced, greeted, owed>>
    BY <1>4 DEF KeyringToggles, history
  <2>2. keyringUp' \in BOOLEAN
    BY <2>1
  <2> QED
    BY <1>1, <2>1, <2>2 DEF ConfigInv, StoreTypes, OneView, FileInv, CallInv, DataKept, BootstrapStaysGone
<1>5. CASE OctoCliProfile
  <2>1. UNCHANGED <<config, dir, bootstrap, keyring, file, keyringUp, token, editor, call,
                    override, surfaced, greeted, owed>>
    BY <1>5 DEF OctoCliProfile, history, secretVars
  <2>2. profile' \in SUBSET Bots
    <3>1. PICK b \in config.bots : profile' \in Login(b, Get(b)) \cup Logout(b)
      BY <1>5 DEF OctoCliProfile
    <3>2. profile' \in {profile, profile \cup {b}, profile \ {b}}
      BY <3>1 DEF Login, Logout
    <3> QED
      BY <1>1, <3>2 DEF StoreTypes
  <2> QED
    BY <1>1, <2>1, <2>2 DEF ConfigInv, StoreTypes, OneView, FileInv, CallInv, DataKept, BootstrapStaysGone
<1>6. CASE DeletesBootstrap
  <2>1. UNCHANGED <<config, dir, keyring, file, keyringUp, token, profile, editor, call,
                    override, surfaced, owed>>
    BY <1>6 DEF DeletesBootstrap, secretVars
  <2>2. PICK b \in bootstrap \cap config.bots :
          /\ bootstrap' = bootstrap \ {b}
          /\ greeted' = IF call.at = "bots" /\ IsNew(b) THEN greeted ELSE greeted \cup {b}
    BY <1>6 DEF DeletesBootstrap
  <2>3. greeted' \in SUBSET Bots /\ bootstrap' \in SUBSET Bots /\ greeted' \subseteq config.bots
    BY <1>1, <2>2 DEF StoreTypes, FileInv
  <2>4. greeted' \cap bootstrap' = {}
    BY <1>1, <2>2 DEF BootstrapStaysGone
  <2>5. call.at = "bots" => greeted' \subseteq call.was.bots
    BY <1>1, <2>2 DEF CallInv, IsNew
  <2> QED
    BY <1>1, <2>1, <2>3, <2>4, <2>5 DEF ConfigInv, StoreTypes, OneView, FileInv, CallInv, DataKept, BootstrapStaysGone
<1> QED
  BY <1>2, <1>3, <1>4, <1>5, <1>6

(* The token of a bot, in each of the places that it is kept in.           *)
LEMMA PutFits ==
  ASSUME ConfigInv, NEW b \in Bots, NEW t \in 0..MaxToken, Put(b, t)
  PROVE  keyring' \in Tokens /\ file' \in Tokens /\ token' \in Tokens /\ keyringUp' = keyringUp
<1>1. keyring \in Tokens /\ file \in Tokens /\ token \in Tokens
  BY DEF ConfigInv, StoreTypes
<1>2. \A f \in Tokens : [f EXCEPT ![b] = t] \in Tokens
  BY DEF Tokens
<1> QED
  BY <1>1, <1>2 DEF Put

(* The call that holds saveMu, as a step leaves it.                        *)
LEMMA CallFields ==
  ASSUME ConfigInv, NEW at \in {"none", "merged", "bots", "pruning"}, NEW todo \in SUBSET Bots
  PROVE  /\ [call EXCEPT !.at = at, !.todo = todo] \in Calls
         /\ [call EXCEPT !.at = at, !.todo = todo].at = at
         /\ [call EXCEPT !.at = at, !.todo = todo].todo = todo
         /\ [call EXCEPT !.at = at, !.todo = todo].view = call.view
         /\ [call EXCEPT !.at = at, !.todo = todo].was = call.was
<1>1. call \in Calls
  BY DEF ConfigInv, StoreTypes
<1>2. PICK a : a = [call EXCEPT !.at = at]
  OBVIOUS
<1>3. a \in Calls /\ a.at = at /\ a.view = call.view /\ a.was = call.was
  BY <1>1, <1>2 DEF Calls
<1>4. PICK k : k = [a EXCEPT !.todo = todo]
  OBVIOUS
<1>5. k \in Calls /\ k.at = at /\ k.todo = todo /\ k.view = call.view /\ k.was = call.was
  BY <1>3, <1>4 DEF Calls
<1>6. [call EXCEPT !.at = at, !.todo = todo] = k
  BY <1>2, <1>4
<1> QED
  BY <1>5, <1>6

LEMMA TodoFields ==
  ASSUME ConfigInv, NEW todo \in SUBSET Bots
  PROVE  /\ [call EXCEPT !.todo = todo] \in Calls
         /\ [call EXCEPT !.todo = todo].at = call.at /\ [call EXCEPT !.todo = todo].todo = todo
         /\ [call EXCEPT !.todo = todo].view = call.view /\ [call EXCEPT !.todo = todo].was = call.was
BY DEF ConfigInv, StoreTypes, Calls

(* A Save that ends, whatever it had done.                                 *)
LEMMA CallEnds ==
  ASSUME ConfigInv, call' = NoCall, OneView', greeted' \cap bootstrap' = {},
         dir' \in SUBSET Bots, owed \subseteq dir', bootstrap' \in SUBSET Bots,
         keyring' \in Tokens, file' \in Tokens, token' \in Tokens, keyringUp' \in BOOLEAN,
         UNCHANGED <<config, profile, override, surfaced, greeted, owed>>
  PROVE  ConfigInv'
<1>1. call' \in Calls /\ call'.at = "none"
  BY EmptyRecords
<1>2. StoreTypes'
  BY <1>1 DEF ConfigInv, StoreTypes
<1>3. FileInv' /\ DataKept'
  BY DEF ConfigInv, FileInv, DataKept
<1>4. CallInv'
  BY <1>1 DEF CallInv
<1> QED
  BY <1>2, <1>3, <1>4 DEF ConfigInv, BootstrapStaysGone

LEMMA SaveBeginsStep ==
  ASSUME ConfigInv, NEW e \in Editors, SaveBegins(e)
  PROVE  ConfigInv'
<1>1. UNCHANGED <<config, dir, bootstrap, keyring, file, keyringUp, token, profile, editor,
                  override, surfaced, greeted>>
  BY DEF SaveBegins, secretVars
<1>2. PICK v \in editor[e] :
        /\ call' = [at |-> "merged", by |-> {e}, view |-> v, was |-> config, todo |-> {}]
        /\ owed' = owed \ (v.loaded \ v.bots)
  BY DEF SaveBegins
<1>3. v \in Views /\ config \in Configs
  BY DEF ConfigInv, OneView, StoreTypes
<1>4. /\ call' \in Calls /\ call'.at = "merged" /\ call'.was = config /\ call'.view = v
  BY <1>2, <1>3 DEF Calls
<1>5. StoreTypes'
  BY <1>1, <1>2, <1>4 DEF ConfigInv, StoreTypes
<1>6. FileInv' /\ OneView' /\ BootstrapStaysGone'
  BY <1>1 DEF ConfigInv, FileInv, OneView, BootstrapStaysGone
<1>7. CallInv'
  BY <1>1, <1>2, <1>4 DEF CallInv
<1>8. DataKept'
  BY <1>1, <1>2 DEF ConfigInv, DataKept
<1> QED
  BY <1>5, <1>6, <1>7, <1>8 DEF ConfigInv

LEMMA WritesConfigStep ==
  ASSUME ConfigInv, WritesConfig
  PROVE  ConfigInv'
<1>1. /\ call.at = "merged" /\ call.was = config /\ call \in Calls /\ call.view \in Views
      /\ call.view.bots \in SUBSET Bots /\ config \in Configs /\ config.channel = override
      /\ override \in Overrides /\ config.tools = surfaced /\ greeted \subseteq config.bots
  BY DEF WritesConfig, ConfigInv, CallInv, StoreTypes, Calls, Views, FileInv
<1>2. UNCHANGED <<dir, bootstrap, keyring, file, keyringUp, token, profile, editor, surfaced, owed>>
  BY DEF WritesConfig, secretVars
<1>3. PICK ch : ch = [b \in Bots |-> IF b \in call.view.bots THEN MergedChannel(call.view, call.was, b) ELSE 0]
  OBVIOUS
<1>4. /\ config' = [bots |-> call.view.bots, tools |-> call.was.tools, channel |-> ch]
      /\ override' = [b \in Bots |-> IF b \in call.view.bots THEN override[b] ELSE 0]
      /\ greeted' = greeted \cap call.view.bots
      /\ call' = [call EXCEPT !.at = "bots", !.todo = call.view.bots]
  BY <1>3 DEF WritesConfig
<1>5. \A b \in Bots : b \notin config.bots => override[b] = 0
  BY DEF ConfigInv, FileInv
<1>6. \A b \in Bots : MergedChannel(call.view, call.was, b) = override[b]
  BY <1>1, <1>5 DEF MergedChannel
<1>7. override' = ch
  BY <1>3, <1>4, <1>6
<1>8. override' \in Overrides
  BY <1>1, <1>4, ConfigAssumption DEF Overrides
<1>9. config' \in Configs /\ config'.bots = call.view.bots /\ config'.channel = ch /\ config'.tools = surfaced
  BY <1>1, <1>4, <1>7, <1>8 DEF Configs
<1>10. /\ call' \in Calls /\ call'.at = "bots" /\ call'.todo = call.view.bots
       /\ call'.view = call.view /\ call'.was = call.was
  BY <1>1, <1>4, CallFields
<1>11. StoreTypes'
  BY <1>1, <1>2, <1>4, <1>8, <1>9, <1>10 DEF ConfigInv, StoreTypes
<1>12. FileInv'
  BY <1>2, <1>4, <1>7, <1>9 DEF FileInv
<1>13. CallInv'
  BY <1>1, <1>2, <1>4, <1>10 DEF ConfigInv, CallInv
<1>14. OneView' /\ DataKept' /\ BootstrapStaysGone'
  BY <1>2, <1>4 DEF ConfigInv, OneView, DataKept, BootstrapStaysGone
<1> QED
  BY <1>11, <1>12, <1>13, <1>14 DEF ConfigInv

LEMMA SetsUpStep ==
  ASSUME ConfigInv, NEW b \in Bots, SetsUpBot(b)
  PROVE  ConfigInv'
<1>1. /\ call.at = "bots" /\ b \in call.todo /\ call \in Calls
      /\ call.todo \in SUBSET Bots /\ call.todo \subseteq call.view.bots
      /\ greeted \subseteq call.was.bots /\ call.view \in Views
  BY DEF SetsUpBot, ConfigInv, CallInv, StoreTypes, Calls
<1>2. /\ UNCHANGED <<config, editor, override, surfaced, greeted>>
      /\ dir' = dir \cup {b} /\ owed' = owed \cup {b}
      /\ bootstrap' = IF IsNew(b) THEN bootstrap \cup {b} ELSE bootstrap
      /\ Put(b, call.view.token[b]) /\ profile' \in Login(b, call.view.token[b])
      /\ call' = [call EXCEPT !.todo = call.todo \ {b}]
  BY DEF SetsUpBot
<1>3. call.view.token[b] \in 0..MaxToken
  BY <1>1 DEF Views, Tokens
<1>4. keyring' \in Tokens /\ file' \in Tokens /\ token' \in Tokens /\ keyringUp' = keyringUp
  BY <1>2, <1>3, PutFits
<1>5. profile' \in SUBSET Bots
  <2>1. profile' \in {profile, profile \cup {b}}
    BY <1>2 DEF Login
  <2> QED
    BY <2>1 DEF ConfigInv, StoreTypes
<1>6. PICK left \in SUBSET Bots : left = call.todo \ {b}
  BY <1>1
<1>7. /\ call' \in Calls /\ call'.at = "bots" /\ call'.todo = left
      /\ call'.view = call.view /\ call'.was = call.was
  BY <1>1, <1>2, <1>6, TodoFields
<1>8. StoreTypes'
  BY <1>2, <1>4, <1>5, <1>7 DEF ConfigInv, StoreTypes
<1>9. FileInv' /\ OneView'
  BY <1>2 DEF ConfigInv, FileInv, OneView
<1>10. CallInv'
  BY <1>1, <1>2, <1>6, <1>7 DEF ConfigInv, CallInv
<1>11. DataKept' /\ BootstrapStaysGone'
  BY <1>1, <1>2 DEF ConfigInv, DataKept, BootstrapStaysGone, IsNew
<1> QED
  BY <1>8, <1>9, <1>10, <1>11 DEF ConfigInv

LEMMA PrunesStep ==
  ASSUME ConfigInv, NEW b \in Bots, Prunes(b)
  PROVE  ConfigInv'
<1>1. /\ call.at = "pruning" /\ b \in call.todo /\ call \in Calls /\ call.todo \in SUBSET Bots
      /\ call.todo \subseteq call.view.loaded \ call.view.bots
      /\ owed \cap (call.view.loaded \ call.view.bots) = {}
  BY DEF Prunes, ConfigInv, CallInv, StoreTypes, Calls
<1>2. /\ UNCHANGED <<config, editor, override, surfaced, greeted, owed>>
      /\ call' = [call EXCEPT !.todo = call.todo \ {b}]
  BY DEF Prunes, history
<1>3. /\ dir' \in SUBSET Bots /\ bootstrap' \in SUBSET Bots /\ profile' \in SUBSET Bots
      /\ keyring' \in Tokens /\ file' \in Tokens /\ token' \in Tokens /\ keyringUp' = keyringUp
      /\ dir \ {b} \subseteq dir' /\ bootstrap' \subseteq bootstrap
  <2>1. CASE b \in dir
    <3>1. /\ dir' = dir \ {b} /\ bootstrap' = bootstrap \ {b} /\ Put(b, 0)
          /\ profile' \in IF b \in call.was.bots THEN Logout(b) ELSE {profile}
      BY <2>1 DEF Prunes
    <3>2. 0 \in 0..MaxToken
      BY ConfigAssumption
    <3>3. profile' \in {profile, profile \ {b}}
      BY <3>1 DEF Logout
    <3>4. keyring' \in Tokens /\ file' \in Tokens /\ token' \in Tokens /\ keyringUp' = keyringUp
      BY <3>1, <3>2, PutFits
    <3> QED
      BY <3>1, <3>3, <3>4 DEF ConfigInv, StoreTypes
  <2>2. CASE b \notin dir
    <3>1. UNCHANGED <<dir, bootstrap, keyring, file, keyringUp, token, profile>>
      BY <2>2 DEF Prunes, secretVars
    <3> QED
      BY <3>1 DEF ConfigInv, StoreTypes
  <2> QED
    BY <2>1, <2>2
<1>4. PICK left \in SUBSET Bots : left = call.todo \ {b}
  BY <1>1
<1>5. /\ call' \in Calls /\ call'.at = "pruning" /\ call'.todo = left
      /\ call'.view = call.view /\ call'.was = call.was
  BY <1>1, <1>2, <1>4, TodoFields
<1>6. StoreTypes'
  BY <1>2, <1>3, <1>5 DEF ConfigInv, StoreTypes
<1>7. FileInv' /\ OneView'
  BY <1>2 DEF ConfigInv, FileInv, OneView
<1>8. CallInv'
  BY <1>1, <1>2, <1>4, <1>5 DEF ConfigInv, CallInv
<1>9. DataKept' /\ BootstrapStaysGone'
  BY <1>1, <1>2, <1>3 DEF ConfigInv, DataKept, BootstrapStaysGone
<1> QED
  BY <1>6, <1>7, <1>8, <1>9 DEF ConfigInv

LEMMA PruneCutStep ==
  ASSUME ConfigInv, NEW b \in Bots, PruneCut(b)
  PROVE  ConfigInv'
<1>1. /\ b \in call.view.loaded \ call.view.bots
      /\ owed \cap (call.view.loaded \ call.view.bots) = {}
  BY DEF PruneCut, ConfigInv, CallInv
<1>2. /\ UNCHANGED <<config, profile, override, surfaced, greeted, owed>>
      /\ dir' = dir \ {b} /\ bootstrap' = bootstrap \ {b}
      /\ call' = NoCall /\ editor' = [e \in Editors |-> {}]
      /\ Put(b, 0) \/ UNCHANGED <<keyring, file, keyringUp, token>>
  BY DEF PruneCut, history, secretVars
<1>3. keyring' \in Tokens /\ file' \in Tokens /\ token' \in Tokens /\ keyringUp' \in BOOLEAN
  <2>1. 0 \in 0..MaxToken
    BY ConfigAssumption
  <2> QED
    BY <1>2, <2>1, PutFits DEF ConfigInv, StoreTypes
<1>4. OneView'
  BY <1>2 DEF OneView
<1>5. greeted' \cap bootstrap' = {} /\ owed \subseteq dir' /\ dir' \in SUBSET Bots /\ bootstrap' \in SUBSET Bots
  BY <1>1, <1>2 DEF ConfigInv, DataKept, BootstrapStaysGone, StoreTypes
<1> QED
  BY <1>2, <1>3, <1>4, <1>5, CallEnds

LEMMA BotsDoneStep ==
  ASSUME ConfigInv, BotsDone
  PROVE  ConfigInv'
<1>1. /\ call.at = "bots" /\ call \in Calls /\ call.view \in Views
      /\ owed \cap (call.view.loaded \ call.view.bots) = {}
  BY DEF BotsDone, ConfigInv, CallInv, StoreTypes, Calls
<1>2. /\ UNCHANGED <<config, dir, bootstrap, keyring, file, keyringUp, token, profile, editor,
                     override, surfaced, greeted, owed>>
      /\ call' = [call EXCEPT !.at = "pruning", !.todo = call.view.loaded \ call.view.bots]
  BY DEF BotsDone, Removed, secretVars, history
<1>3. PICK left \in SUBSET Bots : left = call.view.loaded \ call.view.bots
  BY <1>1 DEF Views
<1>4. /\ call' \in Calls /\ call'.at = "pruning" /\ call'.todo = left
      /\ call'.view = call.view /\ call'.was = call.was
  BY <1>2, <1>3, CallFields
<1>5. StoreTypes'
  BY <1>2, <1>4 DEF ConfigInv, StoreTypes
<1>6. FileInv' /\ OneView' /\ DataKept' /\ BootstrapStaysGone'
  BY <1>2 DEF ConfigInv, FileInv, OneView, DataKept, BootstrapStaysGone
<1>7. CallInv'
  BY <1>1, <1>2, <1>3, <1>4 DEF CallInv
<1> QED
  BY <1>5, <1>6, <1>7 DEF ConfigInv

LEMMA EndSteps ==
  ASSUME ConfigInv, SaveReturns \/ SaveFails \/ DesktopEnds \/ \E b \in Bots : SetUpFails(b)
  PROVE  ConfigInv'
<1>1. /\ OneView /\ StoreTypes /\ greeted \cap bootstrap = {} /\ owed \subseteq dir
  BY DEF ConfigInv, BootstrapStaysGone, DataKept
<1>2. CASE SaveReturns
  <2>1. /\ call' = NoCall
        /\ UNCHANGED <<config, dir, bootstrap, keyring, file, keyringUp, token, profile,
                       override, surfaced, greeted, owed>>
        /\ editor' = [e \in Editors |-> IF e \in call.by
                        THEN {[v EXCEPT !.loaded = call.view.bots] : v \in editor[e]} ELSE editor[e]]
    BY <1>2 DEF SaveReturns, secretVars, history
  <2>2. call.view.bots \in SUBSET Bots
    BY <1>1 DEF StoreTypes, Calls, Views
  <2>3. \A v \in Views : [v EXCEPT !.loaded = call.view.bots] \in Views
    BY <2>2 DEF Views
  <2>4. ASSUME NEW e \in Editors PROVE editor'[e] = {} \/ \E v \in Views : editor'[e] = {v}
    <3>1. CASE editor[e] = {}
      BY <2>1, <3>1
    <3>2. ASSUME NEW v \in Views, editor[e] = {v} PROVE \E w \in Views : editor'[e] = {w}
      <4>1. editor'[e] = {v} \/ editor'[e] = {[v EXCEPT !.loaded = call.view.bots]}
        BY <2>1, <3>2
      <4> QED
        BY <2>3, <4>1
    <3> QED
      BY <1>1, <3>1, <3>2 DEF OneView
  <2>5. OneView'
    BY <2>1, <2>4 DEF OneView
  <2> QED
    BY <1>1, <2>1, <2>5, CallEnds DEF StoreTypes
<1>3. CASE SaveFails
  <2>1. /\ call' = NoCall
        /\ UNCHANGED <<config, dir, bootstrap, keyring, file, keyringUp, token, profile, editor,
                       override, surfaced, greeted, owed>>
    BY <1>3 DEF SaveFails, secretVars, history
  <2>2. OneView'
    BY <1>1, <2>1 DEF OneView
  <2> QED
    BY <1>1, <2>1, <2>2, CallEnds DEF StoreTypes
<1>4. CASE DesktopEnds
  <2>1. /\ call' = NoCall /\ editor' = [e \in Editors |-> {}]
        /\ UNCHANGED <<config, dir, bootstrap, keyring, file, keyringUp, token, profile,
                       override, surfaced, greeted, owed>>
    BY <1>4 DEF DesktopEnds, secretVars, history
  <2>2. OneView'
    BY <2>1 DEF OneView
  <2> QED
    BY <1>1, <2>1, <2>2, CallEnds DEF StoreTypes
<1>5. ASSUME NEW b \in Bots, SetUpFails(b) PROVE ConfigInv'
  <2>1. /\ call' = NoCall /\ call.at = "bots" /\ b \in call.todo /\ dir' = dir \cup {b}
        /\ bootstrap' \in {bootstrap, IF IsNew(b) THEN bootstrap \cup {b} ELSE bootstrap}
        /\ Put(b, call.view.token[b]) \/ UNCHANGED <<keyring, file, keyringUp, token>>
        /\ UNCHANGED <<config, profile, editor, override, surfaced, greeted, owed>>
    BY <1>5 DEF SetUpFails, secretVars, history
  <2>6. keyring' \in Tokens /\ file' \in Tokens /\ token' \in Tokens /\ keyringUp' \in BOOLEAN
    <3>1. call.view.token[b] \in 0..MaxToken
      BY <1>1 DEF StoreTypes, Calls, Views, Tokens
    <3> QED
      BY <1>1, <2>1, <3>1, PutFits DEF StoreTypes
  <2>2. OneView'
    BY <1>1, <2>1 DEF OneView
  <2>3. greeted \subseteq call.was.bots
    BY <2>1 DEF ConfigInv, CallInv
  <2>4. greeted' \cap bootstrap' = {}
    BY <1>1, <2>1, <2>3 DEF IsNew
  <2>5. dir' \in SUBSET Bots /\ owed \subseteq dir' /\ bootstrap' \in SUBSET Bots
    BY <1>1, <2>1 DEF StoreTypes
  <2> QED
    BY <2>1, <2>2, <2>4, <2>5, <2>6, CallEnds
<1> QED
  BY <1>2, <1>3, <1>4, <1>5

LEMMA ConfigStep == ConfigInv /\ [ConfigNext]_configVars => ConfigInv'
<1> SUFFICES ASSUME ConfigInv, [ConfigNext]_configVars PROVE ConfigInv'
  OBVIOUS
<1>1. CASE UNCHANGED configVars
  BY <1>1 DEF configVars, secretVars, history, ConfigInv, StoreTypes, OneView, FileInv, CallInv,
              DataKept, BootstrapStaysGone
<1>2. ASSUME NEW e \in Editors,
             LoadConfig(e) \/ Leave(e) \/ AddBot(e) \/ DropBot(e) \/ EditToken(e) \/ SaveBegins(e)
      PROVE  ConfigInv'
  BY <1>2, EditorSteps, SaveBeginsStep
<1>3. CASE SetChannelTools \/ SaveToolset \/ KeyringToggles \/ OctoCliProfile \/ DeletesBootstrap
  BY <1>3, WriterSteps
<1>4. CASE WritesConfig \/ BotsDone
  BY <1>4, WritesConfigStep, BotsDoneStep
<1>5. CASE SaveReturns \/ SaveFails \/ DesktopEnds
  BY <1>5, EndSteps
<1>6. ASSUME NEW b \in Bots, SetsUpBot(b) \/ SetUpFails(b) \/ Prunes(b) \/ PruneCut(b) PROVE ConfigInv'
  BY <1>6, SetsUpStep, EndSteps, PrunesStep, PruneCutStep
<1> QED
  BY <1>1, <1>2, <1>3, <1>4, <1>5, <1>6 DEF ConfigNext

(* However old the views that are saved, and wherever a save fails or the  *)
(* app ends: the file keeps every override and tool surface that was set   *)
(* after a view was loaded, no bot loses its directory but one its editor  *)
(* saw and dropped, and the ritual of a bot that went through it never     *)
(* comes back (configstore.go Save, removedIDs and applyDefaultTools).     *)
THEOREM SavesSpareTheRest == ConfigSpec => []ConfigSpared
<1>1. ConfigInv => ConfigSpared
  BY ConfigImplies
<1> QED
  BY <1>1, InitConfig, ConfigStep, PTL DEF ConfigSpec

-----------------------------------------------------------------------------
(* The companion binaries.                                                 *)
(* A job has something to put in place only when it is whole; once it has  *)
(* put it there, it is on record; and of claude's jobs there is one at a   *)
(* time, whose version no installed one exceeds.                           *)
JobOK(q) ==
  /\ q.at \in {"snapshot", "swap", "stamp"} => q.new # None /\ (Unchecked(q.tool) \/ q.new.ok = TRUE)
  /\ q.at = "stamp" => q.new.ver \in had[q.tool]
  /\ q.tool = "claude" /\ q.at # "fetch" =>
       q.new.ver <= latest /\ \A v \in had["claude"] : v <= q.new.ver
  /\ q.tool = "claude" /\ q.at = "stamp" => bin["claude"] = q.new
  /\ app = "starting" => q.tool = "octo-cli" /\ q.at # "fetch" /\ q.new = bundle.binary
  /\ app # "down"

JobsInv ==
  /\ \A j \in Jobs : job[j].at = "idle" => job[j] = Idle
  /\ \A j \in Jobs : job[j] # Idle => JobOK(job[j])
  /\ \/ installing = FALSE /\ \A j \in Jobs : job[j].tool = "octo-cli"
     \/ /\ installing = TRUE
        /\ \E j \in Jobs : \A i \in Jobs : job[i].tool = "claude" <=> i = j

(* What is in place is on record, no version of claude gives way to an     *)
(* older one, and a label is of a version that was there before the tools  *)
(* it stands for were probed.                                              *)
FilesInv ==
  /\ \A v \in had["claude"] : v <= latest
  /\ \A t \in Tools : bin[t] # None => bin[t].ver \in had[t]
  /\ bin["claude"] # None => \A v \in had["claude"] : v <= bin["claude"].ver
  /\ bin["claude"] = None => stamp["claude"] <= prev["claude"].ver
  /\ \A t \in Tools : stamp[t] # 0 => stamp[t] \in had[t]

SurfaceInv ==
  /\ refresh.at = "probing" /\ refresh.label # 0 => refresh.label \in had["claude"]
  /\ cache.label # 0 =>
       \/ cache.tools \in {cache.label, OnPath}
       \/ cache.tools \in had["claude"] /\ cache.label < cache.tools

InstallInv ==
  InstallTypeOK /\ OnlyVerified /\ NeverLost /\ JobsInv /\ FilesInv /\ SurfaceInv

LEMMA BinaryIs ==
  ASSUME NEW b \in Binaries
  PROVE  /\ b.ver \in 0..MaxVersion /\ b.ok \in BOOLEAN
         /\ b # None => b.ver \in 1..MaxVersion
         /\ b = None <=> b.ver = 0
<1>1. None.ver = 0 /\ None.ok = TRUE
  BY DEF None, Binary
<1>2. CASE b = None
  <2>1. b.ver = 0 /\ 0 \in 0..MaxVersion
    BY <1>1, <1>2, InstallerAssumption
  <2>2. b.ok \in BOOLEAN
    BY <1>1, <1>2
  <2> QED
    BY <1>2, <2>1, <2>2
<1>3. CASE b \in [ver : 1..MaxVersion, ok : BOOLEAN]
  <2>1. b.ver \in 1..MaxVersion /\ b.ok \in BOOLEAN
    BY <1>3
  <2>2. b.ver \in 0..MaxVersion /\ b.ver # 0
    BY <2>1, InstallerAssumption
  <2> QED
    BY <1>1, <2>1, <2>2
<1> QED
  BY <1>2, <1>3 DEF Binaries

LEMMA InstallImplies == InstallInv => InstallSafe
<1> SUFFICES ASSUME InstallInv PROVE InstallSafe
  OBVIOUS
<1>1. /\ bin \in [Tools -> Binaries] /\ prev \in [Tools -> Binaries]
      /\ stamp \in [Tools -> 0..MaxVersion] /\ "claude" \in Tools
      /\ had \in [Tools -> SUBSET (1..MaxVersion)]
  BY DEF InstallInv, InstallTypeOK, Tools
<1>2. bin["claude"].ver \in 0..MaxVersion /\ prev["claude"].ver \in 0..MaxVersion
  BY <1>1, BinaryIs
<1>3. bin["claude"] = None <=> bin["claude"].ver = 0
  BY <1>1, BinaryIs
<1>4. StampsHonest
  <2>1. CASE bin["claude"] = None
    BY <2>1 DEF InstallInv, FilesInv, StampsHonest
  <2>2. CASE bin["claude"] # None
    <3>1. stamp["claude"] = 0 \/ stamp["claude"] <= bin["claude"].ver
      BY <1>1, <2>2 DEF InstallInv, FilesInv
    <3>2. stamp["claude"] <= bin["claude"].ver
      BY <1>2, <3>1, InstallerAssumption
    <3> QED
      BY <3>2 DEF InstallInv, FilesInv, StampsHonest
  <2> QED
    BY <2>1, <2>2
<1>5. OneClaudeJob
  <2> DEFINE S == {j \in Jobs : job[j].tool = "claude"}
  <2>1. CASE installing = FALSE /\ \A j \in Jobs : job[j].tool = "octo-cli"
    <3>1. S = {}
      BY <2>1
    <3> QED
      BY <2>1, <3>1, FS_EmptySet DEF OneClaudeJob
  <2>2. CASE installing = TRUE /\ \E j \in Jobs : \A i \in Jobs : job[i].tool = "claude" <=> i = j
    <3>1. PICK j \in Jobs : S = {j}
      BY <2>2
    <3>2. Cardinality(S) = 1
      BY <3>1, FS_Singleton
    <3> QED
      BY <2>2, <3>2 DEF OneClaudeJob
  <2> QED
    BY <2>1, <2>2 DEF InstallInv, JobsInv
<1>6. SurfaceOfVersion
  <2> SUFFICES ASSUME cache.label # 0, cache.label = bin["claude"].ver
               PROVE  cache.tools \in {cache.label, OnPath}
    BY DEF SurfaceOfVersion
  <2>1. bin["claude"] # None
    BY <1>3
  <2>2. \A v \in had["claude"] : v <= cache.label
    BY <2>1 DEF InstallInv, FilesInv
  <2>3. cache.label \in Nat /\ cache.tools \in Nat
    BY InstallerAssumption DEF InstallInv, InstallTypeOK, OnPath
  <2> QED
    BY <2>2, <2>3 DEF InstallInv, SurfaceInv
<1> QED
  BY <1>4, <1>5, <1>6 DEF InstallInv, InstallSafe

LEMMA InitInstall == InstallInit => InstallInv
<1> SUFFICES ASSUME InstallInit PROVE InstallInv
  OBVIOUS
<1>1. /\ None \in Binaries /\ None.ok = TRUE /\ None.ver = 0 /\ "octo-cli" \in Tools /\ "claude" \in Tools
  BY DEF Binaries, None, Binary, Tools
<1>2. Idle \in [tool : Tools, at : {"idle", "fetch", "snapshot", "swap", "stamp"}, new : Binaries]
  BY <1>1 DEF Idle
<1>3. 0 \in 0..MaxVersion /\ 1 \in 1..MaxVersion /\ 0 \in 0..OnPath
  BY InstallerAssumption DEF OnPath
<1>4. InstallTypeOK
  BY <1>1, <1>2, <1>3 DEF InstallInit, InstallTypeOK, NoRefresh
<1>5. OnlyVerified /\ NeverLost
  BY <1>1 DEF InstallInit, OnlyVerified, Unchecked, NeverLost
<1>6. JobsInv
  BY DEF InstallInit, JobsInv, Idle
<1>7. FilesInv
  BY <1>1 DEF InstallInit, FilesInv
<1>8. SurfaceInv
  BY DEF InstallInit, SurfaceInv, NoRefresh
<1> QED
  BY <1>4, <1>5, <1>6, <1>7, <1>8 DEF InstallInv

(* A step that gives one job something else to do.                         *)
LEMMA JobMoves ==
  ASSUME JobsInv, DOMAIN job = Jobs, \A i \in Jobs : job[i].tool \in Tools, NEW j \in Jobs, NEW q, job' = [job EXCEPT ![j] = q],
         q.at = "idle" => q = Idle, q # Idle => JobOK(q)', q.tool \in Tools,
         \A i \in Jobs : \A r : i # j /\ r = job[i] /\ r # Idle => JobOK(r)',
         \/ q.tool = job[j].tool /\ installing' = installing
         \/ job[j].tool = "claude" /\ q.tool = "octo-cli" /\ installing' = FALSE
         \/ installing = FALSE /\ installing' = TRUE /\ q.tool = "claude"
  PROVE  JobsInv'
<1>1. job'[j] = q /\ \A i \in Jobs : i # j => job'[i] = job[i]
  OBVIOUS
<1>2. \A i \in Jobs : job'[i].at = "idle" => job'[i] = Idle
  BY <1>1 DEF JobsInv
<1>3. \A i \in Jobs : job'[i] # Idle => JobOK(job[i])'
  BY <1>1 DEF JobOK, Unchecked
<1>4. \/ installing' = FALSE /\ \A i \in Jobs : job'[i].tool = "octo-cli"
      \/ installing' = TRUE /\ \E k \in Jobs : \A i \in Jobs : job'[i].tool = "claude" <=> i = k
  <2>1. CASE q.tool = job[j].tool /\ installing' = installing
    <3>1. \A i \in Jobs : job'[i].tool = job[i].tool
      BY <1>1, <2>1
    <3> QED
      BY <2>1, <3>1 DEF JobsInv
  <2>2. CASE job[j].tool = "claude" /\ q.tool = "octo-cli" /\ installing' = FALSE
    <3>1. \A i \in Jobs : i # j => job[i].tool # "claude"
      BY <2>2 DEF JobsInv
    <3> QED
      BY <1>1, <2>2, <3>1 DEF Tools
  <2>3. CASE installing = FALSE /\ installing' = TRUE /\ q.tool = "claude"
    <3>1. \A i \in Jobs : job[i].tool = "octo-cli"
      BY <2>3 DEF JobsInv
    <3>2. \A i \in Jobs : job'[i].tool = "claude" <=> i = j
      BY <1>1, <2>3, <3>1
    <3> QED
      BY <2>3, <3>2
  <2> QED
    BY <2>1, <2>2, <2>3
<1> QED
  BY <1>2, <1>3, <1>4 DEF JobsInv

LEMMA InstallStep == InstallInv /\ [InstallNext]_installVars => InstallInv'
<1> SUFFICES ASSUME InstallInv, [InstallNext]_installVars PROVE InstallInv'
  OBVIOUS
<1> DEFINE Stages == {"idle", "fetch", "snapshot", "swap", "stamp"}
           AllJobs == [tool : Tools, at : Stages, new : Binaries]
           Files == UNCHANGED <<bin, prev, stamp>>
<1>1. /\ InstallTypeOK /\ OnlyVerified /\ NeverLost /\ JobsInv /\ FilesInv /\ SurfaceInv
      /\ job \in [Jobs -> AllJobs] /\ DOMAIN job = Jobs /\ \A i \in Jobs : job[i].tool \in Tools
      /\ MaxVersion \in Nat /\ latest \in 1..MaxVersion
      /\ bundle \in Bundles /\ installing \in BOOLEAN /\ due \in BOOLEAN
      /\ app \in {"down", "starting", "ready", "up"}
      /\ bin \in [Tools -> Binaries] /\ prev \in [Tools -> Binaries]
      /\ stamp \in [Tools -> 0..MaxVersion]
      /\ had \in [Tools -> SUBSET (1..MaxVersion)]
      /\ refresh \in [at : {"idle", "resolved", "probing"}, managed : BOOLEAN, label : 0..MaxVersion]
      /\ cache \in [label : 0..MaxVersion, tools : 0..OnPath]
  BY InstallerAssumption DEF InstallInv, InstallTypeOK
<1>2. /\ "octo-cli" \in Tools /\ "claude" \in Tools /\ None \in Binaries /\ "octo-cli" # "claude"
      /\ Idle \in AllJobs /\ Idle.tool = "octo-cli" /\ Idle.at = "idle"
  BY DEF Tools, Binaries, Idle
<1> HIDE DEF AllJobs
(* Only the jobs, and what the tray knows of them, move.                   *)
<1>a. ASSUME NEW j \in Jobs, NEW q \in AllJobs, job' = [job EXCEPT ![j] = q],
             q.at = "idle" => q = Idle, q # Idle => JobOK(q)',
             \A i \in Jobs : \A r : i # j /\ r = job[i] /\ r # Idle => JobOK(r)',
             \/ q.tool = job[j].tool /\ installing' = installing
             \/ job[j].tool = "claude" /\ q.tool = "octo-cli" /\ installing' = FALSE
             \/ installing = FALSE /\ installing' = TRUE /\ q.tool = "claude"
      PROVE  JobsInv' /\ job' \in [Jobs -> AllJobs] /\ installing' \in BOOLEAN
  <2>1. q.tool \in Tools
    BY <1>a DEF AllJobs
  <2>2. JobsInv'
    BY <1>1, <1>a, <2>1, JobMoves
  <2>3. job' \in [Jobs -> AllJobs]
    BY <1>1, <1>a
  <2>4. installing' \in BOOLEAN
    BY <1>1, <1>a
  <2> QED
    BY <2>2, <2>3, <2>4
<1>b. ASSUME UNCHANGED <<latest, bin, prev, stamp, had, refresh, cache>>,
             bundle' = bundle \/ (bundle.production /\ bundle'.production)
      PROVE  OnlyVerified' /\ NeverLost' /\ FilesInv' /\ SurfaceInv'
  BY <1>1, <1>b DEF OnlyVerified, Unchecked, NeverLost, FilesInv, SurfaceInv
<1>c. ASSUME UNCHANGED <<latest, had, bundle, bin>>, app' = app \/ (app' # "starting" /\ app' # "down")
      PROVE  \A i \in Jobs : \A q : q = job[i] /\ q # Idle => JobOK(q)'
  <2>1. \A i \in Jobs : job[i] # Idle => JobOK(job[i])
    BY <1>1 DEF JobsInv
  <2> QED
    BY <1>c, <2>1 DEF JobOK, Unchecked
<1>d. ASSUME NEW j \in Jobs, End(j), UNCHANGED <<bundle, latest, bin, had>>
      PROVE  /\ JobsInv' /\ job' \in [Jobs -> AllJobs] /\ installing' \in BOOLEAN
             /\ due' \in BOOLEAN /\ app' \in {"down", "starting", "ready", "up"}
             /\ UNCHANGED <<refresh, cache>>
  <2>1. /\ job' = [job EXCEPT ![j] = Idle]
        /\ installing' = (installing /\ job[j].tool # "claude")
        /\ due' = (due \/ job[j].tool = "claude")
        /\ app' = IF app = "starting" THEN "ready" ELSE app
        /\ UNCHANGED <<refresh, cache>>
    BY <1>d DEF End
  <2>2. app' = app \/ (app' # "starting" /\ app' # "down")
    BY <2>1
  <2>3. \A i \in Jobs : \A q : q = job[i] /\ q # Idle => JobOK(q)'
    BY <1>c, <1>d, <2>2
  <2>4. \/ Idle.tool = job[j].tool /\ installing' = installing
        \/ job[j].tool = "claude" /\ Idle.tool = "octo-cli" /\ installing' = FALSE
    <3>1. job[j].tool \in {"octo-cli", "claude"}
      BY <1>1 DEF Tools
    <3>2. CASE job[j].tool = "claude"
      BY <1>2, <2>1, <3>2
    <3>3. CASE job[j].tool = "octo-cli"
      BY <1>1, <1>2, <2>1, <3>3
    <3> QED
      BY <3>1, <3>2, <3>3
  <2>5. JobsInv' /\ job' \in [Jobs -> AllJobs] /\ installing' \in BOOLEAN
    BY <1>2, <1>a, <2>1, <2>3, <2>4
  <2>6. due' \in BOOLEAN /\ app' \in {"down", "starting", "ready", "up"}
    BY <1>1, <2>1
  <2> QED
    BY <2>1, <2>5, <2>6
<1>e. ASSUME OnlyVerified', NeverLost', JobsInv', FilesInv', SurfaceInv',
             job' \in [Jobs -> AllJobs], installing' \in BOOLEAN, due' \in BOOLEAN,
             app' \in {"down", "starting", "ready", "up"},
             bundle' \in Bundles, latest' \in 1..MaxVersion,
             bin' \in [Tools -> Binaries], prev' \in [Tools -> Binaries],
             stamp' \in [Tools -> 0..MaxVersion],
             had' \in [Tools -> SUBSET (1..MaxVersion)],
             refresh' \in [at : {"idle", "resolved", "probing"}, managed : BOOLEAN, label : 0..MaxVersion],
             cache' \in [label : 0..MaxVersion, tools : 0..OnPath]
      PROVE  InstallInv'
  BY <1>e DEF InstallInv, InstallTypeOK, AllJobs
<1>3. ASSUME NEW j \in Jobs, FetchFails(j) \/ SwapFails(j) PROVE InstallInv'
  <2>1. End(j) /\ UNCHANGED <<bundle, latest, bin, prev, stamp, had>>
    BY <1>3 DEF FetchFails, SwapFails, files
  <2>2. /\ JobsInv' /\ job' \in [Jobs -> AllJobs] /\ installing' \in BOOLEAN
        /\ due' \in BOOLEAN /\ app' \in {"down", "starting", "ready", "up"}
        /\ UNCHANGED <<refresh, cache>>
    BY <1>d, <2>1
  <2> QED
    BY <1>1, <1>b, <1>e, <2>1, <2>2
<1>4. ASSUME NEW j \in Jobs, Stamps(j) PROVE InstallInv'
  <2>1. /\ job[j].at = "stamp" /\ End(j) /\ UNCHANGED <<bundle, latest, bin, prev, had>>
    BY <1>4 DEF Stamps
  <2>2. PICK v \in {BundledVersion, job[j].new.ver} :
          /\ v = IF app = "starting" THEN BundledVersion ELSE job[j].new.ver
          /\ stamp' \in {stamp} \cup {[stamp EXCEPT ![job[j].tool] = w] : w \in {v} \ {0}}
    BY <1>4 DEF Stamps
  <2>3. /\ JobsInv' /\ job' \in [Jobs -> AllJobs] /\ installing' \in BOOLEAN
        /\ due' \in BOOLEAN /\ app' \in {"down", "starting", "ready", "up"}
        /\ UNCHANGED <<refresh, cache>>
    BY <1>d, <2>1
  <2>4. JobOK(job[j]) /\ job[j].tool \in Tools
    <3>1. job[j] # Idle
      BY <1>2, <2>1
    <3> QED
      BY <1>1, <3>1 DEF JobsInv
  <2>5. stamp' = stamp \/ (stamp' = [stamp EXCEPT ![job[j].tool] = job[j].new.ver] /\ job[j].new.ver # 0)
    <3>1. CASE app # "starting"
      BY <2>2, <3>1
    <3>2. CASE app = "starting"
      <4>1. v = 0 \/ v = job[j].new.ver
        BY <2>2, <2>4, <3>2 DEF JobOK, Unchecked, BundledVersion
      <4> QED
        BY <2>2, <4>1
    <3> QED
      BY <3>1, <3>2
  <2>6. OnlyVerified' /\ NeverLost' /\ SurfaceInv'
    BY <1>1, <2>1, <2>3 DEF OnlyVerified, Unchecked, NeverLost, SurfaceInv
  <2>7. CASE stamp' = stamp
    BY <1>1, <1>b, <1>e, <2>1, <2>3, <2>6, <2>7
  <2>8. CASE stamp' = [stamp EXCEPT ![job[j].tool] = job[j].new.ver]
    <3>1. job[j].new.ver \in had[job[j].tool]
      BY <2>1, <2>4 DEF JobOK, Unchecked
    <3>2. job[j].new.ver \in 0..MaxVersion
      <4>1. job[j].new \in Binaries
        BY <1>1 DEF AllJobs
      <4> QED
        BY <4>1, BinaryIs
    <3>3. /\ stamp' \in [Tools -> 0..MaxVersion]
          /\ \A t \in Tools : stamp'[t] = IF t = job[j].tool THEN job[j].new.ver ELSE stamp[t]
      BY <1>1, <2>4, <2>8, <3>2
    <3>4. job[j].tool = "claude" => bin["claude"] # None
      BY <2>1, <2>4 DEF JobOK, Unchecked
    <3>5. FilesInv'
      <4>1. \A t \in Tools : stamp'[t] # 0 => stamp'[t] \in had'[t]
        BY <1>1, <2>1, <3>1, <3>3 DEF FilesInv
      <4>2. bin'["claude"] = None => stamp'["claude"] <= prev'["claude"].ver
        BY <1>1, <1>2, <2>1, <3>3, <3>4 DEF FilesInv
      <4> QED
        BY <1>1, <2>1, <4>1, <4>2 DEF FilesInv
    <3> QED
      BY <1>1, <1>e, <2>1, <2>3, <2>6, <3>3, <3>5
  <2> QED
    BY <2>5, <2>7, <2>8
(* A new job.                                                              *)
<1>f. ASSUME NEW j \in Jobs, NEW t \in Tools, NEW place \in Stages, NEW new \in Binaries,
             Begin(j, t, place, new),
             place # "idle",
             \A q : q = [tool |-> t, at |-> place, new |-> new] => JobOK(q)',
             \A i \in Jobs : \A r : i # j /\ r = job[i] /\ r # Idle => JobOK(r)',
             \/ t = "octo-cli" /\ installing' = installing
             \/ installing = FALSE /\ installing' = TRUE /\ t = "claude"
      PROVE  JobsInv' /\ job' \in [Jobs -> AllJobs] /\ installing' \in BOOLEAN
  <2> DEFINE q == [tool |-> t, at |-> place, new |-> new]
  <2>1. job[j] = Idle /\ job' = [job EXCEPT ![j] = q]
    BY <1>f DEF Begin
  <2>2. q \in AllJobs /\ q.tool = t /\ q.at = place
    BY <1>f DEF AllJobs
  <2>3. JobOK(q)'
    BY <1>f
  <2> HIDE DEF q
  <2> QED
    BY <1>2, <1>a, <1>f, <2>1, <2>2, <2>3
<1>5. ASSUME NEW j \in Jobs, BaselineStarts(j) PROVE InstallInv'
  <2>1. /\ app = "starting" /\ \A i \in Jobs : job[i] = Idle
        /\ BundleVerified /\ Begin(j, "octo-cli", "swap", bundle.binary)
        /\ UNCHANGED <<app, bundle, latest, bin, prev, stamp, installing, due, refresh, cache, had>>
    BY <1>5 DEF BaselineStarts, files, surface
  <2>2. bundle.binary \in Binaries /\ bundle.binary # None
    BY <1>1 DEF Bundles
  <2>3. Unchecked("octo-cli") \/ bundle.binary.ok = TRUE
    <3>1. bundle.binary.ok \in BOOLEAN
      BY <2>2, BinaryIs
    <3>2. Unchecked("octo-cli") \/ bundle.binary.ok
      BY <1>1, <2>1 DEF BundleVerified, Unchecked
    <3> QED
      BY <3>1, <3>2
  <2>4. \A q : q = [tool |-> "octo-cli", at |-> "swap", new |-> bundle.binary] => JobOK(q)'
    BY <2>1, <2>2, <2>3 DEF JobOK, Unchecked
  <2>5. JobsInv' /\ job' \in [Jobs -> AllJobs] /\ installing' \in BOOLEAN
    BY <1>2, <1>f, <2>1, <2>2, <2>4
  <2> QED
    BY <1>1, <1>b, <1>e, <2>1, <2>5
<1>6. ASSUME NEW j \in Jobs, EnsureClaude(j) \/ UpgradeClaude(j) PROVE InstallInv'
  <2>1. /\ app' = "up" /\ app # "starting" /\ installing = FALSE /\ installing' = TRUE /\ due' \in BOOLEAN
        /\ Begin(j, "claude", "fetch", None)
        /\ UNCHANGED <<bundle, latest, bin, prev, stamp, refresh, cache, had>>
    BY <1>1, <1>6 DEF EnsureClaude, UpgradeClaude, files
  <2>2. \A q : q = [tool |-> "claude", at |-> "fetch", new |-> None] => JobOK(q)'
    BY <2>1 DEF JobOK, Unchecked
  <2>3. \A i \in Jobs : \A q : q = job[i] /\ q # Idle => JobOK(q)'
    BY <1>c, <2>1
  <2>4. JobsInv' /\ job' \in [Jobs -> AllJobs] /\ installing' \in BOOLEAN
    BY <1>2, <1>f, <2>1, <2>2, <2>3
  <2> QED
    BY <1>1, <1>b, <1>e, <2>1, <2>4
<1>7. ASSUME NEW j \in Jobs, UpgradeOcto(j) PROVE InstallInv'
  <2>1. /\ app = "up" /\ Begin(j, "octo-cli", "fetch", None)
        /\ UNCHANGED <<app, bundle, latest, bin, prev, stamp, installing, due, refresh, cache, had>>
    BY <1>7 DEF UpgradeOcto, files, surface
  <2>2. \A q : q = [tool |-> "octo-cli", at |-> "fetch", new |-> None] => JobOK(q)'
    BY <2>1 DEF JobOK, Unchecked
  <2>3. \A i \in Jobs : \A q : q = job[i] /\ q # Idle => JobOK(q)'
    BY <1>c, <2>1
  <2>4. JobsInv' /\ job' \in [Jobs -> AllJobs] /\ installing' \in BOOLEAN
    BY <1>2, <1>f, <2>1, <2>2, <2>3
  <2> QED
    BY <1>1, <1>b, <1>e, <2>1, <2>4
<1>8. ASSUME NEW j \in Jobs, Fetched(j) PROVE InstallInv'
  <2>1. PICK listed, ok \in BOOLEAN :
          /\ Verified(listed, ok)
          /\ job' = [job EXCEPT ![j].at = "snapshot", ![j].new = ExtractBinary(latest, ok)]
    BY <1>8 DEF Fetched
  <2>2. /\ job[j].at = "fetch"
        /\ UNCHANGED <<app, bundle, latest, bin, prev, stamp, installing, due, refresh, cache, had>>
    BY <1>8 DEF Fetched, files, surface
  <2>a. PICK new : new = [ver |-> latest, ok |-> TRUE]
    OBVIOUS
  <2>b. PICK q : q = [tool |-> job[j].tool, at |-> "snapshot", new |-> new]
    OBVIOUS
  <2>3. ok = TRUE
    BY <2>1 DEF Verified
  <2>4. job[j] \in AllJobs
    BY <1>1
  <2>5. job' = [job EXCEPT ![j] = q]
    <3>1. [job[j] EXCEPT !.at = "snapshot", !.new = new] = q
      <4>1. [job[j] EXCEPT !.at = "snapshot"] = [tool |-> job[j].tool, at |-> "snapshot", new |-> job[j].new]
        BY <2>4 DEF AllJobs
      <4>2. \A r \in [tool : Tools, at : {"snapshot"}, new : Binaries] :
              [r EXCEPT !.new = new] = [tool |-> r.tool, at |-> r.at, new |-> new]
        OBVIOUS
      <4>3. [job[j] EXCEPT !.at = "snapshot", !.new = new]
              = [[job[j] EXCEPT !.at = "snapshot"] EXCEPT !.new = new]
        OBVIOUS
      <4>4. job[j].tool \in Tools /\ job[j].new \in Binaries
        BY <2>4 DEF AllJobs
      <4> QED
        BY <2>b, <4>1, <4>2, <4>3, <4>4
    <3>2. ExtractBinary(latest, ok) = new
      BY <2>3, <2>a DEF ExtractBinary, Binary
    <3> QED
      BY <1>1, <2>1, <3>1, <3>2
  <2>6. new \in Binaries /\ new # None /\ new.ok = TRUE /\ new.ver = latest
    <3>1. new \in [ver : 1..MaxVersion, ok : BOOLEAN]
      BY <1>1, <2>a
    <3>2. new.ver # 0 /\ None.ver = 0
      BY <1>1, <2>a DEF None, Binary
    <3> QED
      BY <2>a, <3>1, <3>2 DEF Binaries
  <2>7. q \in AllJobs /\ q.tool = job[j].tool /\ q.at = "snapshot" /\ q.new = new
    BY <1>1, <2>6, <2>b DEF AllJobs
  <2>8. JobOK(job[j])
    BY <1>1, <1>2, <2>2 DEF JobsInv
  <2>9. JobOK(q)'
    BY <1>1, <2>2, <2>6, <2>7, <2>8 DEF JobOK, Unchecked, FilesInv
  <2>10. \A i \in Jobs : \A r : r = job[i] /\ r # Idle => JobOK(r)'
    BY <1>c, <2>2
  <2>11. JobsInv' /\ job' \in [Jobs -> AllJobs] /\ installing' \in BOOLEAN
    BY <1>a, <2>2, <2>5, <2>7, <2>9, <2>10
  <2> QED
    BY <1>1, <1>b, <1>e, <2>2, <2>11
<1>9. ASSUME NEW j \in Jobs, Snapshot(j) PROVE InstallInv'
  <2> DEFINE t == job[j].tool
  <2>b. PICK q : q = [tool |-> job[j].tool, at |-> "swap", new |-> job[j].new]
    OBVIOUS
  <2>1. /\ job[j].at = "snapshot" /\ job' = [job EXCEPT ![j].at = "swap"]
        /\ UNCHANGED <<app, bundle, latest, stamp, installing, due, refresh, cache, had>>
        /\ \/ UNCHANGED <<bin, prev>>
           \/ /\ bin[t] # None /\ prev' = [prev EXCEPT ![t] = bin[t]]
              /\ bin' = IF t = "claude" THEN [bin EXCEPT ![t] = None] ELSE bin
    BY <1>9 DEF Snapshot, To, surface
  <2>2. job[j] \in AllJobs /\ t \in Tools
    BY <1>1
  <2>3. job' = [job EXCEPT ![j] = q]
    <3>1. [job[j] EXCEPT !.at = "swap"] = q
      BY <2>2, <2>b DEF AllJobs
    <3> QED
      BY <1>1, <2>1, <3>1
  <2>4. q \in AllJobs /\ q.tool = job[j].tool /\ q.at = "swap" /\ q.new = job[j].new
    BY <2>2, <2>b DEF AllJobs
  <2>5. JobOK(job[j])
    BY <1>1, <1>2, <2>1 DEF JobsInv
  <2>6. JobOK(q)'
    BY <2>1, <2>4, <2>5 DEF JobOK, Unchecked
  <2>7. \A i \in Jobs : \A r : i # j /\ r = job[i] /\ r # Idle => JobOK(r)'
    <3>1. \A i \in Jobs : job[i] # Idle => JobOK(job[i])
      BY <1>1 DEF JobsInv
    <3>2. CASE bin'["claude"] = bin["claude"]
      BY <2>1, <3>1, <3>2 DEF JobOK, Unchecked
    <3>3. CASE t = "claude"
      <4>1. \A i \in Jobs : i # j => job[i].tool # "claude"
        BY <1>1, <3>3 DEF JobsInv
      <4> QED
        BY <2>1, <3>1, <4>1 DEF JobOK, Unchecked
    <3> QED
      BY <2>1, <3>2, <3>3
  <2>8. JobsInv' /\ job' \in [Jobs -> AllJobs] /\ installing' \in BOOLEAN
    BY <1>a, <2>1, <2>3, <2>4, <2>6, <2>7
  <2>9. SurfaceInv'
    BY <1>1, <2>1 DEF SurfaceInv
  <2>10. CASE UNCHANGED <<bin, prev>>
    BY <1>1, <1>b, <1>e, <2>1, <2>8, <2>10
  <2>11. CASE /\ bin[t] # None /\ prev' = [prev EXCEPT ![t] = bin[t]]
              /\ bin' = IF t = "claude" THEN [bin EXCEPT ![t] = None] ELSE bin
    <3>1. /\ prev' \in [Tools -> Binaries] /\ bin' \in [Tools -> Binaries]
          /\ prev'[t] = bin[t] /\ \A u \in Tools : u # t => prev'[u] = prev[u] /\ bin'[u] = bin[u]
          /\ t # "claude" => bin' = bin
          /\ t = "claude" => bin'["claude"] = None
      BY <1>1, <1>2, <2>2, <2>11
    <3>2. OnlyVerified'
      <4>1. None.ok = TRUE
        BY DEF None, Binary
      <4>2. bundle' = bundle
        BY <2>1
      <4> QED
        BY <1>1, <2>2, <3>1, <4>1, <4>2 DEF OnlyVerified, Unchecked
    <3>3. NeverLost'
      BY <1>1, <2>1, <2>2, <2>11, <3>1 DEF NeverLost
    <3>4. FilesInv'
      <4>1. \A u \in Tools : bin'[u] # None => bin'[u].ver \in had'[u]
        BY <1>1, <2>1, <2>2, <3>1 DEF FilesInv
      <4>2. bin'["claude"] # None => \A v \in had'["claude"] : v <= bin'["claude"].ver
        BY <1>1, <1>2, <2>1, <3>1 DEF FilesInv
      <4>3. bin'["claude"] = None => stamp'["claude"] <= prev'["claude"].ver
        <5>1. CASE t = "claude"
          <6>1. stamp["claude"] = 0 \/ stamp["claude"] <= bin["claude"].ver
            BY <1>1, <1>2, <2>11, <5>1 DEF FilesInv
          <6>2. bin["claude"].ver \in 0..MaxVersion
            BY <1>1, <1>2, BinaryIs
          <6>3. stamp["claude"] <= bin["claude"].ver
            BY <1>1, <6>1, <6>2
          <6> QED
            BY <2>1, <3>1, <5>1, <6>3
        <5>2. CASE t # "claude"
          BY <1>1, <1>2, <2>1, <3>1, <5>2 DEF FilesInv
        <5> QED
          BY <5>1, <5>2
      <4> QED
        BY <1>1, <2>1, <4>1, <4>2, <4>3 DEF FilesInv
    <3> QED
      BY <1>1, <1>e, <2>1, <2>8, <2>9, <3>1, <3>2, <3>3, <3>4
  <2> QED
    BY <2>1, <2>10, <2>11
<1>10. ASSUME NEW j \in Jobs, Swapped(j) PROVE InstallInv'
  <2> DEFINE t == job[j].tool
             new == job[j].new
  <2>b. PICK q : q = [tool |-> t, at |-> "stamp", new |-> new]
    OBVIOUS
  <2>1. /\ job[j].at = "swap" /\ job' = [job EXCEPT ![j].at = "stamp"]
        /\ bin' = [bin EXCEPT ![t] = new] /\ had' = [had EXCEPT ![t] = @ \cup {new.ver}]
        /\ UNCHANGED <<app, bundle, latest, prev, stamp, installing, due, refresh, cache>>
    BY <1>10 DEF Swapped, To, surface
  <2>2. job[j] \in AllJobs /\ t \in Tools /\ new \in Binaries
    BY <1>1 DEF AllJobs
  <2>3. job' = [job EXCEPT ![j] = q]
    <3>1. [job[j] EXCEPT !.at = "stamp"] = q
      BY <2>2, <2>b DEF AllJobs
    <3> QED
      BY <1>1, <2>1, <3>1
  <2>4. q \in AllJobs /\ q.tool = t /\ q.at = "stamp" /\ q.new = new
    BY <2>2, <2>b DEF AllJobs
  <2>5. JobOK(job[j])
    BY <1>1, <1>2, <2>1 DEF JobsInv
  <2>6. new # None /\ (Unchecked(t) \/ new.ok = TRUE) /\ new.ver \in 1..MaxVersion
    <3>1. new # None /\ (Unchecked(t) \/ new.ok = TRUE)
      BY <2>1, <2>5 DEF JobOK
    <3> QED
      BY <2>2, <3>1, BinaryIs
  <2>7. /\ bin' \in [Tools -> Binaries] /\ had' \in [Tools -> SUBSET (1..MaxVersion)]
        /\ bin'[t] = new /\ had'[t] = had[t] \cup {new.ver}
        /\ \A u \in Tools : u # t => bin'[u] = bin[u] /\ had'[u] = had[u]
    BY <1>1, <2>1, <2>2, <2>6
  <2>8. \A u \in Tools : had[u] \subseteq had'[u]
    BY <2>7
  <2>9. t = "claude" => new.ver <= latest /\ \A v \in had'["claude"] : v <= new.ver
    <3>1. t = "claude" => new.ver <= latest /\ \A v \in had["claude"] : v <= new.ver
      BY <2>1, <2>5 DEF JobOK, Unchecked
    <3>2. new.ver <= new.ver
      BY <1>1, <2>6
    <3> QED
      BY <2>7, <3>1, <3>2
  <2>10. JobOK(q)'
    <3>1. app' = "starting" => t = "octo-cli" /\ new = bundle'.binary
      BY <2>1, <2>5 DEF JobOK, Unchecked
    <3>2. app' # "down"
      BY <2>1, <2>5 DEF JobOK, Unchecked
    <3> QED
      BY <2>1, <2>4, <2>6, <2>7, <2>9, <3>1, <3>2 DEF JobOK, Unchecked
  <2>11. \A i \in Jobs : \A r : i # j /\ r = job[i] /\ r # Idle => JobOK(r)'
    <3> SUFFICES ASSUME NEW i \in Jobs, i # j, job[i] # Idle, NEW r, r = job[i] PROVE JobOK(r)'
      OBVIOUS
    <3>1. JobOK(r) /\ r.tool \in Tools
      BY <1>1 DEF JobsInv
    <3>2. r.tool = "claude" => t # "claude"
      BY <1>1 DEF JobsInv
    <3>3. r.at = "stamp" => r.new.ver \in had'[r.tool]
      BY <2>8, <3>1 DEF JobOK, Unchecked
    <3>4. t # "claude" => had'["claude"] = had["claude"] /\ bin'["claude"] = bin["claude"]
      BY <1>2, <2>7
    <3> QED
      BY <2>1, <3>1, <3>2, <3>3, <3>4 DEF JobOK, Unchecked
  <2>12. JobsInv' /\ job' \in [Jobs -> AllJobs] /\ installing' \in BOOLEAN
    BY <1>a, <2>1, <2>3, <2>4, <2>10, <2>11
  <2>13. OnlyVerified' /\ NeverLost'
    BY <1>1, <2>1, <2>2, <2>6, <2>7 DEF OnlyVerified, Unchecked, NeverLost
  <2>14. SurfaceInv'
    BY <1>1, <1>2, <2>1, <2>8 DEF SurfaceInv
  <2>15. FilesInv'
    <3>1. \A v \in had'["claude"] : v <= latest'
      <4>1. CASE t = "claude"
        <5>1. had'["claude"] = had["claude"] \cup {new.ver}
          BY <2>7, <4>1
        <5> QED
          BY <1>1, <2>1, <2>9, <4>1, <5>1 DEF FilesInv
      <4>2. CASE t # "claude"
        BY <1>1, <1>2, <2>1, <2>7, <4>2 DEF FilesInv
      <4> QED
        BY <4>1, <4>2
    <3>2. \A u \in Tools : bin'[u] # None => bin'[u].ver \in had'[u]
      BY <1>1, <2>2, <2>7 DEF FilesInv
    <3>3. bin'["claude"] # None => \A v \in had'["claude"] : v <= bin'["claude"].ver
      BY <1>1, <1>2, <2>7, <2>9 DEF FilesInv
    <3>4. bin'["claude"] = None => stamp'["claude"] <= prev'["claude"].ver
      BY <1>1, <1>2, <2>1, <2>6, <2>7 DEF FilesInv
    <3>5. \A u \in Tools : stamp'[u] # 0 => stamp'[u] \in had'[u]
      BY <1>1, <2>1, <2>8 DEF FilesInv
    <3> QED
      BY <3>1, <3>2, <3>3, <3>4, <3>5 DEF FilesInv
  <2> QED
    BY <1>1, <1>e, <2>1, <2>7, <2>12, <2>13, <2>14, <2>15
<1>11. CASE Launch \/ BaselineSkipped
  <2>1. /\ app' \in {"starting", "ready"}
        /\ UNCHANGED <<bundle, latest, bin, prev, stamp, job, installing, due, refresh, cache, had>>
    BY <1>11 DEF Launch, BaselineSkipped, files, surface
  <2>2. \A j \in Jobs : job[j] = Idle
    BY <1>1, <1>11 DEF Launch, BaselineSkipped, JobsInv, JobOK, Unchecked
  <2>3. JobsInv'
    BY <1>1, <2>1, <2>2 DEF JobsInv
  <2> QED
    BY <1>1, <1>b, <1>e, <2>1, <2>3
<1>12. CASE ClaudeLeftAlone \/ LoadToolset \/ UNCHANGED installVars
  <2>1. /\ (app' = app \/ app' = "up") /\ due' \in BOOLEAN
        /\ UNCHANGED <<bundle, latest, bin, prev, stamp, job, installing, refresh, cache, had>>
    BY <1>1, <1>12 DEF ClaudeLeftAlone, LoadToolset, files, surface, installVars
  <2>2. \A i \in Jobs : \A q : q = job[i] /\ q # Idle => JobOK(q)'
    BY <1>c, <2>1
  <2>3. JobsInv'
    BY <1>1, <2>1, <2>2 DEF JobsInv, JobOK, Unchecked
  <2> QED
    BY <1>1, <1>b, <1>e, <2>1, <2>3
<1>13. CASE RefreshStarts \/ RefreshReads \/ RefreshEnds
  <2>1. UNCHANGED <<app, bundle, latest, bin, prev, stamp, job, installing, had>>
    BY <1>13 DEF RefreshStarts, RefreshReads, RefreshEnds, files
  <2>2. JobsInv' /\ FilesInv' /\ OnlyVerified' /\ NeverLost'
    BY <1>1, <2>1 DEF JobsInv, JobOK, Unchecked, FilesInv, OnlyVerified, Unchecked, NeverLost
  <2> DEFINE Refreshes == [at : {"idle", "resolved", "probing"}, managed : BOOLEAN, label : 0..MaxVersion]
  <2>3. NoRefresh \in Refreshes /\ NoRefresh.at = "idle"
    BY <1>1 DEF NoRefresh
  <2>4. CASE RefreshStarts
    <3>1. /\ due' = FALSE /\ UNCHANGED cache
          /\ refresh' \in Refreshes /\ refresh'.at = "resolved"
      BY <1>1, <2>4 DEF RefreshStarts
    <3>2. SurfaceInv'
      BY <1>1, <2>1, <3>1 DEF SurfaceInv
    <3> QED
      BY <1>1, <1>e, <2>1, <2>2, <3>1, <3>2
  <2>5. CASE RefreshReads
    <3> DEFINE v == InstalledVersion("claude")
    <3>1. v \in 0..MaxVersion /\ (v # 0 => v \in had["claude"])
      BY <1>1, <1>2 DEF InstalledVersion, FilesInv
    <3>2. UNCHANGED <<due, cache>> /\ refresh' \in {NoRefresh, [refresh EXCEPT !.at = "probing", !.label = v]}
      BY <2>5 DEF RefreshReads
    <3> HIDE DEF v
    <3>3. refresh' \in Refreshes /\ (refresh'.at = "probing" => refresh'.label = v)
      BY <1>1, <2>3, <3>1, <3>2
    <3>4. SurfaceInv'
      BY <1>1, <2>1, <3>1, <3>2, <3>3 DEF SurfaceInv
    <3> QED
      BY <1>1, <1>e, <2>1, <2>2, <3>2, <3>3, <3>4
  <2>6. CASE RefreshEnds
    <3>1. /\ refresh.at = "probing" /\ refresh' = NoRefresh /\ UNCHANGED due
          /\ cache' \in {cache} \cup [label : {refresh.label}, tools : ProbedTools]
      BY <2>6 DEF RefreshEnds, Label
    <3>2. bin["claude"].ver \in 0..MaxVersion /\ (bin["claude"] = None <=> bin["claude"].ver = 0)
      BY <1>1, <1>2, BinaryIs
    <3>3. ASSUME NEW n \in ProbedTools
          PROVE  /\ n \in 0..OnPath
                 /\ n = OnPath \/ (n \in had["claude"] /\ \A v \in had["claude"] : v <= n)
      <4>1. CASE n = OnPath
        BY <1>1, <4>1 DEF OnPath
      <4>2. CASE n \in {bin["claude"].ver} \ {0}
        <5>1. bin["claude"] # None /\ n = bin["claude"].ver
          BY <3>2, <4>2
        <5>2. n \in had["claude"] /\ \A v \in had["claude"] : v <= n
          BY <1>1, <1>2, <5>1 DEF FilesInv
        <5>3. n \in 0..OnPath
          BY <1>1, <3>2, <5>1 DEF OnPath
        <5> QED
          BY <5>2, <5>3
      <4> QED
        BY <3>3, <4>1, <4>2 DEF ProbedTools
    <3>4. refresh.label \in 0..MaxVersion /\ (refresh.label # 0 => refresh.label \in had["claude"])
      BY <1>1, <3>1 DEF SurfaceInv
    <3>5. CASE cache' = cache
      BY <1>1, <1>e, <2>1, <2>2, <2>3, <3>1, <3>5 DEF SurfaceInv
    <3>6. CASE cache' \in [label : {refresh.label}, tools : ProbedTools]
      <4>1. cache'.label = refresh.label /\ cache'.tools \in ProbedTools
            /\ cache' = [label |-> cache'.label, tools |-> cache'.tools]
        BY <3>6
      <4>2. cache' \in [label : 0..MaxVersion, tools : 0..OnPath]
        BY <3>3, <3>4, <4>1
      <4>3. SurfaceInv'
        <5>1. CASE cache'.tools = OnPath
          BY <2>3, <3>1, <5>1 DEF SurfaceInv
        <5>2. CASE cache'.tools \in had["claude"] /\ \A v \in had["claude"] : v <= cache'.tools
          <6>1. cache'.label # 0 => cache'.label <= cache'.tools
            BY <3>4, <4>1, <5>2
          <6>2. cache'.label # 0 => cache'.tools = cache'.label \/ cache'.label < cache'.tools
            BY <1>1, <3>4, <4>1, <4>2, <5>2, <6>1
          <6> QED
            BY <2>1, <2>3, <3>1, <5>2, <6>2 DEF SurfaceInv
        <5> QED
          BY <3>3, <4>1, <5>1, <5>2
      <4> QED
        BY <1>1, <1>e, <2>1, <2>2, <2>3, <3>1, <4>2, <4>3
    <3> QED
      BY <3>1, <3>5, <3>6
  <2> QED
    BY <1>13, <2>4, <2>5, <2>6
<1>14. CASE Release
  <2>1. /\ latest' = latest + 1 /\ latest' \in 1..MaxVersion /\ latest <= latest'
        /\ UNCHANGED <<app, bundle, bin, prev, stamp, job, installing, due, refresh, cache, had>>
    BY <1>1, <1>14 DEF Release, files, surface
  <2>2. OnlyVerified' /\ NeverLost' /\ SurfaceInv'
    BY <1>1, <2>1 DEF OnlyVerified, Unchecked, NeverLost, SurfaceInv
  <2>3. FilesInv'
    <3>1. \A v \in had["claude"] : v <= latest'
      BY <1>1, <1>2, <2>1 DEF FilesInv
    <3> QED
      BY <1>1, <2>1, <3>1 DEF FilesInv
  <2>4. ASSUME NEW q \in AllJobs, JobOK(q), q # Idle PROVE JobOK(q)'
    <3>1. q.new \in Binaries
      BY DEF AllJobs
    <3>2. q.new.ver \in 0..MaxVersion
      BY <3>1, BinaryIs
    <3>3. q.new.ver <= latest => q.new.ver <= latest'
      BY <1>1, <2>1, <3>2
    <3> QED
      BY <2>1, <2>4, <3>3 DEF JobOK, Unchecked
  <2>5. JobsInv'
    <3>1. \A j \in Jobs : \A q : q = job[j] /\ q # Idle => JobOK(q)'
      BY <1>1, <2>4 DEF JobsInv
    <3>2. \A j \in Jobs : job'[j] # Idle => (JobOK(job[j]))'
      BY <2>1, <3>1 DEF JobOK, Unchecked
    <3> QED
      BY <1>1, <2>1, <3>2 DEF JobsInv
  <2> QED
    BY <1>1, <1>e, <2>1, <2>2, <2>3, <2>5
<1>15. CASE AppEnds
  <2>1. /\ app' = "down" /\ job' = [j \in Jobs |-> Idle] /\ installing' = FALSE
        /\ due' = FALSE /\ refresh' = NoRefresh
        /\ UNCHANGED <<bundle, latest, bin, prev, stamp, cache, had>>
    BY <1>15 DEF AppEnds, files
  <2>2. JobsInv' /\ job' \in [Jobs -> AllJobs]
    BY <1>2, <2>1 DEF JobsInv
  <2>3. /\ NoRefresh \in [at : {"idle", "resolved", "probing"}, managed : BOOLEAN, label : 0..MaxVersion]
        /\ NoRefresh.at = "idle"
    BY <1>1 DEF NoRefresh
  <2>4. OnlyVerified' /\ NeverLost' /\ FilesInv' /\ SurfaceInv'
    BY <1>1, <2>1, <2>3 DEF OnlyVerified, Unchecked, NeverLost, FilesInv, SurfaceInv
  <2> QED
    BY <1>1, <1>e, <2>1, <2>2, <2>3, <2>4
<1>16. CASE AppUpdated
  <2>1. /\ app = "down" /\ bundle' \in Bundles /\ bundle.production /\ bundle'.production
        /\ UNCHANGED <<app, latest, bin, prev, stamp, job, installing, due, refresh, cache, had>>
    BY <1>16 DEF AppUpdated, files, surface
  <2>2. \A j \in Jobs : job[j] = Idle
    BY <1>1, <2>1 DEF JobsInv, JobOK, Unchecked
  <2>3. JobsInv'
    BY <1>1, <2>1, <2>2 DEF JobsInv
  <2> QED
    BY <1>1, <1>b, <1>e, <2>1, <2>3
<1> QED
  BY <1>3, <1>4, <1>5, <1>6, <1>7, <1>8, <1>9, <1>10, <1>11, <1>12, <1>13, <1>14, <1>15, <1>16
  DEF InstallNext

(* For any number of jobs and releases: no unverified binary is ever in    *)
(* place but a dev build's own bundle that came without a hash, no crash   *)
(* or failure leaves a tool without a copy, no version file names what was *)
(* not installed, and the tools cached for a version                       *)
(* of claude are its own (octocli.go:146-168, 297-360, claudecli.go,       *)
(* toolset.go).                                                            *)
THEOREM InstallsAreSafe == InstallSpec => []InstallSafe
  BY InitInstall, InstallStep, InstallImplies, PTL DEF InstallSpec
=============================================================================
