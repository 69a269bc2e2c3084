-------------------------------- MODULE Bridge --------------------------------
(***********************************************************************)
(* The desktop's bridge to the daemon: OctoBuddyService (its client, its  *)
(* epoch, the reader of each connection, reconnect, RestartCore), the     *)
(* Supervisor that owns the process, and control.Client.                  *)
(*                                                                       *)
(* Daemons are numbered as they are spawned, and the token of each is its *)
(* number.  Supervisor.mu is held from the stop to the end of the wait    *)
(* for the socket.  A process that is killed ends.                        *)
(***********************************************************************)
EXTENDS Naturals, FiniteSets

CONSTANTS Callers,      \* goroutines that start, restart and shut down
          Conns,        \* bound: connections
          MaxDaemons,   \* bound: processes spawned
          MaxEpoch,     \* bound: no RestartCore from here on
          MaxAttempts,  \* of reconnect: 20
          MaxRedials    \* maxOversizedRedials: 3

ASSUME BridgeAssumption ==
  /\ {MaxDaemons, MaxEpoch, MaxAttempts} \subseteq Nat \ {0} /\ MaxRedials \in Nat
  /\ IsFiniteSet(Callers) /\ IsFiniteSet(Conns) /\ Callers \cap Conns = {}

Daemons == 1..MaxDaemons
Procs == Callers \cup Conns     \* a connection stands for its reader

VARIABLES
  phase,            \* of the service: down, up, failed
  shuttingDown,
  epoch,
  client,           \* x.client, {} for nil
  oversized,        \* oversizedRetries
  daemon,           \* [Daemons -> {"unborn", "booting", "bound", "gone"}]
  born,             \* history: [Daemons -> the epoch it was spawned in]
  cmd, authToken,   \* of the supervisor, 0 for none
  socket,           \* whose socket file is on disk
  holder,           \* of Supervisor.mu, {} for nobody
  conn,             \* [Conns -> the connection]
  proc,             \* [Procs -> where the goroutine is]
  failed            \* the last attempt was given up, or its error returned

service == <<phase, shuttingDown>>
supervisor == <<cmd, authToken, holder>>
processes == <<daemon, born, socket>>
bridgeVars == <<service, epoch, client, oversized, processes, supervisor, conn, proc, failed>>

Rest == [at |-> "rest", why |-> "none", epoch |-> 0, tries |-> 0, new |-> {}]
Unused == [to |-> 0, open |-> FALSE, token |-> 0]

BridgeInit ==
  /\ phase = "down" /\ shuttingDown = FALSE /\ epoch = 0
  /\ client = {} /\ oversized = 0
  /\ daemon = [d \in Daemons |-> "unborn"] /\ born = [d \in Daemons |-> 0]
  /\ cmd = 0 /\ authToken = 0 /\ socket = 0 /\ holder = {}
  /\ conn = [c \in Conns |-> Unused]
  /\ proc = [p \in Procs |-> Rest] /\ failed = FALSE

Alive(d) == d # 0 /\ daemon[d] \in {"booting", "bound"}

(* Its daemon is there, and neither end closed it.                          *)
Live(c) == conn[c].open /\ Alive(conn[c].to)

At(p, place) == proc[p].at = place
Goes(p, place) == [proc EXCEPT ![p] = IF place = "rest" THEN Rest ELSE [@ EXCEPT !.at = place]]
EpochCurrent(p) == ~shuttingDown /\ epoch = proc[p].epoch

-----------------------------------------------------------------------------
(* What a call that ended leads to.                                         *)

(* Deviation: a re-dial that fails is not followed by reconnect.            *)
GivesUpRedial(why) == why # "redial"
FallsBack(why) == why = "redial"

(* reconnect, from its claim of an epoch.                                   *)
Reconnects(p) ==
  /\ epoch' = epoch + 1
  /\ proc' = [proc EXCEPT ![p] = [Rest EXCEPT !.at = "backoff", !.why = "reconnect", !.epoch = epoch + 1]]

Retries(p) ==
  LET again == proc[p].tries + 1 < MaxAttempts
  IN  /\ proc' = [proc EXCEPT ![p] = IF again THEN [@ EXCEPT !.at = "backoff", !.tries = proc[p].tries + 1]
                                       ELSE Rest]
      /\ failed' = (failed \/ ~again)

(* The error of Restart or of connect.                                      *)
Errs(p) ==
  \/ /\ proc[p].why = "reconnect" /\ Retries(p)
     /\ UNCHANGED <<epoch, phase>>
  \/ /\ proc[p].why = "redial"
     /\ IF FallsBack(proc[p].why) THEN Reconnects(p)
        ELSE proc' = Goes(p, "rest") /\ UNCHANGED epoch
     /\ UNCHANGED <<failed, phase>>
  \/ /\ proc[p].why = "core"
     /\ proc' = Goes(p, "rest") /\ failed' = TRUE
     /\ UNCHANGED <<epoch, phase>>
  \/ /\ proc[p].why = "startup"
     /\ proc' = Goes(p, "stop") /\ phase' = "failed"
     /\ UNCHANGED <<epoch, failed>>

-----------------------------------------------------------------------------
(* Supervisor.                                                              *)

(* Deviation: interrupted and not waited for.                               *)
Interrupts(d) == daemon
Ends(d) == [x \in Daemons |-> IF x = d THEN "gone" ELSE daemon[x]]

(* stopLocked.                                                              *)
StopLocked ==
  /\ daemon' = IF cmd # 0 THEN Ends(cmd) ELSE daemon
  /\ socket' = IF cmd # 0 THEN 0 ELSE socket
  /\ cmd' = 0

Stop(p) ==
  /\ At(p, "stop") /\ holder = {}
  /\ StopLocked
  /\ proc' = Goes(p, "rest")
  /\ UNCHANGED <<service, epoch, client, oversized, born, authToken, holder, conn, failed>>

(* Restart, and Start of a supervisor that has no process yet.              *)
RestartStops(p) ==
  /\ At(p, "restart") /\ holder = {}
  /\ StopLocked
  /\ holder' = {p} /\ proc' = Goes(p, "spawn")
  /\ UNCHANGED <<service, epoch, client, oversized, born, authToken, conn, failed>>

(* startLocked.                                                             *)
Spawns(p) ==
  /\ At(p, "spawn")
  /\ \E d \in Daemons :
       /\ daemon[d] = "unborn" /\ \A e \in 1..(d - 1) : daemon[e] # "unborn"
       /\ daemon' = [daemon EXCEPT ![d] = "booting"]
       /\ born' = [born EXCEPT ![d] = epoch]
       /\ cmd' = d /\ authToken' = d
  /\ socket' = 0
  /\ proc' = Goes(p, "wait")
  /\ UNCHANGED <<service, epoch, client, oversized, holder, conn, failed>>

SpawnFails(p) ==
  /\ At(p, "spawn")
  /\ socket' = 0 /\ holder' = {}
  /\ Errs(p)
  /\ UNCHANGED <<shuttingDown, client, oversized, daemon, born, cmd, authToken, conn>>

SocketAppears(p) ==
  /\ At(p, "wait") /\ socket # 0
  /\ holder' = {} /\ proc' = Goes(p, "dial")
  /\ UNCHANGED <<service, epoch, client, oversized, processes, cmd, authToken, conn, failed>>

SocketTimeout(p) ==
  /\ At(p, "wait") /\ socket = 0
  /\ holder' = {}
  /\ Errs(p)
  /\ UNCHANGED <<shuttingDown, client, oversized, processes, cmd, authToken, conn>>

-----------------------------------------------------------------------------
(* connect.                                                                 *)

Dial(p) ==
  /\ At(p, "dial") /\ Alive(socket)
  /\ \E c \in Conns :
       /\ conn[c] = Unused
       /\ conn' = [conn EXCEPT ![c] = [Unused EXCEPT !.to = socket, !.open = TRUE]]
       /\ proc' = [proc EXCEPT ![p].at = "publish", ![p].new = {c}]
  /\ UNCHANGED <<service, epoch, client, oversized, processes, supervisor, failed>>

DialFails(p) ==
  /\ At(p, "dial") /\ ~Alive(socket)
  /\ Errs(p)
  /\ UNCHANGED <<shuttingDown, client, oversized, processes, supervisor, conn>>

(* The client is the bridge's, and its reader starts.                       *)
Publish(p) ==
  /\ At(p, "publish")
  /\ client' = proc[p].new
  /\ proc' = [q \in Procs |-> IF q \in proc[p].new THEN [Rest EXCEPT !.at = "reading"]
                              ELSE IF q = p THEN [proc[p] EXCEPT !.at = "auth"] ELSE proc[q]]
  /\ failed' = FALSE
  /\ UNCHANGED <<service, epoch, oversized, processes, supervisor, conn>>

(* Of the process that runs now; it waits for Supervisor.mu.                *)
Token == authToken

Auth(p) ==
  /\ At(p, "auth") /\ holder = {}
  /\ conn' = [c \in Conns |-> IF c \in proc[p].new /\ Live(c)
                              THEN [conn[c] EXCEPT !.token = Token] ELSE conn[c]]
  /\ proc' = [proc EXCEPT ![p] = Rest]
  /\ phase' = IF proc[p].why = "startup" THEN "up" ELSE phase
  /\ UNCHANGED <<shuttingDown, epoch, client, oversized, processes, supervisor, failed>>

-----------------------------------------------------------------------------
(* The reader.                                                              *)

(* The first envelope of a connection.                                      *)
FirstEnvelope(c) ==
  /\ At(c, "reading") /\ Live(c) /\ oversized # 0
  /\ oversized' = 0
  /\ UNCHANGED <<service, epoch, client, processes, supervisor, conn, proc, failed>>

(* Read returned: the reader leaves unless it is the client's.              *)
ReadEnds(c) ==
  /\ At(c, "reading")
  /\ \E why \in (IF Live(c) THEN {} ELSE {"closed"}) \cup (IF conn[c].open THEN {"too long"} ELSE {}) :
       proc' = [proc EXCEPT ![c] =
         IF shuttingDown \/ client # {c} THEN Rest
         ELSE [Rest EXCEPT !.at = "ended", !.why = why]]
  /\ UNCHANGED <<service, epoch, client, oversized, processes, supervisor, conn, failed>>

Oversized(c) ==
  /\ At(c, "ended") /\ proc[c].why = "too long"
  /\ oversized' = IF oversized > MaxRedials THEN oversized ELSE oversized + 1
  /\ epoch' = epoch + 1
  /\ proc' = [proc EXCEPT ![c] =
       IF oversized < MaxRedials THEN [@ EXCEPT !.at = "redial", !.why = "redial", !.epoch = epoch + 1]
       ELSE [@ EXCEPT !.why = "closed"]]
  /\ UNCHANGED <<service, client, processes, supervisor, conn, failed>>

Redial(c) ==
  /\ At(c, "redial")
  /\ proc' = Goes(c, IF EpochCurrent(c) THEN "dial" ELSE "rest")
  /\ UNCHANGED <<service, epoch, client, oversized, processes, supervisor, conn, failed>>

Claim(c) ==
  /\ At(c, "ended") /\ proc[c].why = "closed"
  /\ Reconnects(c)
  /\ UNCHANGED <<service, client, oversized, processes, supervisor, conn, failed>>

(* After the pause.                                                         *)
BackedOff(c) ==
  /\ At(c, "backoff")
  /\ proc' = Goes(c, IF EpochCurrent(c) THEN "restart" ELSE "rest")
  /\ UNCHANGED <<service, epoch, client, oversized, processes, supervisor, conn, failed>>

-----------------------------------------------------------------------------
(* Calls.                                                                   *)

ServiceStartup(p) ==
  /\ phase = "down" /\ \A q \in Procs : At(q, "rest")
  /\ proc' = [proc EXCEPT ![p] = [Rest EXCEPT !.at = "restart", !.why = "startup"]]
  /\ UNCHANGED <<service, epoch, client, oversized, processes, supervisor, conn, failed>>

Closed == [c \in Conns |-> IF c \in client THEN [conn[c] EXCEPT !.open = FALSE] ELSE conn[c]]

RestartCore(p) ==
  /\ phase = "up" /\ ~shuttingDown /\ At(p, "rest") /\ epoch < MaxEpoch
  /\ epoch' = epoch + 1
  /\ client' = {} /\ conn' = Closed
  /\ proc' = [proc EXCEPT ![p] = [Rest EXCEPT !.at = "restart", !.why = "core"]]
  /\ UNCHANGED <<service, oversized, processes, supervisor, failed>>

ServiceShutdown(p) ==
  /\ phase = "up" /\ ~shuttingDown /\ At(p, "rest")
  /\ shuttingDown' = TRUE /\ conn' = Closed
  /\ proc' = [proc EXCEPT ![p] = [Rest EXCEPT !.at = "stop"]]
  /\ UNCHANGED <<phase, epoch, client, oversized, processes, supervisor, failed>>

-----------------------------------------------------------------------------
(* The daemon.                                                              *)

Binds(d) ==
  /\ daemon[d] = "booting"
  /\ daemon' = [daemon EXCEPT ![d] = "bound"] /\ socket' = d
  /\ UNCHANGED <<service, epoch, client, oversized, born, supervisor, conn, proc, failed>>

Crashes(d) ==
  /\ Alive(d)
  /\ daemon' = [daemon EXCEPT ![d] = "gone"]
  /\ UNCHANGED <<service, epoch, client, oversized, born, socket, supervisor, conn, proc, failed>>

BridgeNext ==
  \/ \E p \in Procs :
       \/ Stop(p) \/ RestartStops(p) \/ Spawns(p) \/ SpawnFails(p)
       \/ SocketAppears(p) \/ SocketTimeout(p)
       \/ Dial(p) \/ DialFails(p) \/ Publish(p) \/ Auth(p)
  \/ \E c \in Conns :
       FirstEnvelope(c) \/ ReadEnds(c) \/ Oversized(c) \/ Redial(c) \/ Claim(c) \/ BackedOff(c)
  \/ \E p \in Callers : ServiceStartup(p) \/ RestartCore(p) \/ ServiceShutdown(p)
  \/ \E d \in Daemons : Binds(d) \/ Crashes(d)

BridgeSpec == BridgeInit /\ [][BridgeNext]_bridgeVars

-----------------------------------------------------------------------------
BridgeTypeOK ==
  /\ phase \in {"down", "up", "failed"} /\ shuttingDown \in BOOLEAN
  /\ epoch \in Nat /\ oversized \in 0..(MaxRedials + 1)
  /\ client \in SUBSET Conns /\ holder \in SUBSET Procs
  /\ daemon \in [Daemons -> {"unborn", "booting", "bound", "gone"}] /\ born \in [Daemons -> Nat]
  /\ {cmd, authToken, socket} \subseteq 0..MaxDaemons
  /\ conn \in [Conns -> [to : 0..MaxDaemons, open : BOOLEAN, token : 0..MaxDaemons]]
  /\ DOMAIN proc = Procs /\ failed \in BOOLEAN

(* "could spawn two daemons fighting over the socket" (supervisor.go:250):  *)
(* however restarts, crashes and calls overlap, there is one at most, and   *)
(* the supervisor knows it.                                                 *)
OneDaemon == \A d \in Daemons : Alive(d) => d = cmd

(* What a daemon that lives is told as its token is its token, though it is *)
(* read after the dial and another may have been started by then.           *)
TokenFits == \A c \in Conns : Live(c) => conn[c].token \in {0, conn[c].to}

BridgeSafe == BridgeTypeOK /\ OneDaemon /\ TokenFits

(* A bus that is down is somebody's business: a reader about to see it, a   *)
(* reconnect or a re-dial that will not find itself superseded, a call that *)
(* is under way - or the operator has been told, or it was given up.        *)
Busy(p) ==
  \/ p \in Callers /\ ~At(p, "rest")
  \/ p \in Conns /\ (At(p, "ended") \/ (At(p, "reading") /\ client = {p}))
  \/ p \in Conns /\ proc[p].at \in {"redial", "backoff"} /\ proc[p].epoch = epoch
  \/ p \in Conns /\ proc[p].at \in {"restart", "spawn", "wait", "dial", "publish"}

SomeoneReconnects ==
  (phase = "up" /\ ~shuttingDown /\ ~\E c \in client : Live(c))
    => failed \/ \E p \in Procs : Busy(p)

(* "bails the moment a newer one appears ... so it can't tear down a daemon *)
(* someone else just started" (octobuddyservice.go:189): what reconnect     *)
(* stops was not spawned in a later epoch than its own.                     *)
SparesOthers ==
  \A c \in Conns :
    (At(c, "restart") /\ proc'[c].at = "spawn" /\ Alive(cmd)) => born[cmd] <= proc[c].epoch

ReconnectSparesOthers == [][SparesOthers]_bridgeVars
=============================================================================
