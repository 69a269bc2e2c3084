------------------------------ MODULE Connection ------------------------------
(***************************************************************************)
(* The Octo connector's run loop (connector_run.go) and the socket it runs *)
(* (socket.go, socket_recv.go): register, dial, shake hands, read, back    *)
(* off, try again, until the context is cancelled.                         *)
(*                                                                         *)
(* Three goroutines meet on one socketConn: Run, which is also the reader, *)
(* the watcher that closes it on cancellation and the ping loop.  After    *)
(* run returned the last two can only close what is closed already, so     *)
(* they are modelled for the current socket.  Times are left out: the read *)
(* deadline (2.5 ping intervals) is taken never to cut a live link, and    *)
(* always to end a dead one.                                               *)
(***************************************************************************)
EXTENDS Naturals, FiniteSets

CONSTANTS Messages,     (* messages the server holds for the bot           *)
          MaxRetries,   (* maxDecryptRetries                               *)
          MaxKeys,      (* maxDecryptFailKeys                              *)
          MaxBackoff,   (* reconnectMax in units of reconnectBase          *)
          MaxFaults,    (* bound: failures of the network and the server   *)
          MaxRotations  (* bound: registrations by somebody else           *)

ASSUME ConnectionAssumption ==
  /\ IsFiniteSet(Messages)
  /\ MaxRetries \in Nat \ {0} /\ MaxKeys \in Nat /\ MaxKeys >= 2
  /\ MaxBackoff \in Nat \ {0} /\ MaxFaults \in Nat /\ MaxRotations \in Nat

VARIABLES run,        (* where Run is                                      *)
          registered, (* Run's local of that name                          *)
          backoff,    (* Run's local, in units of reconnectBase            *)
          report,     (* connectOnce's error: "none", "fault", "auth"      *)
          cancelled,  (* ctx.Err() # nil                                   *)
          secret,     (* whether a token has been injected                 *)
          valid,      (* the server's IM token is the one in reg           *)
          link,       (* the connection: none, up, kicked, cut, dead       *)
          closed,     (* socketConn.closed                                 *)
          closeErr,   (* socketConn.closeErr                               *)
          stable,     (* the session has lived for connectionStableAfter   *)
          strikes,    (* socketConn.decryptFails, 0 for no entry           *)
          unacked,    (* server: messages it will send again               *)
          faults, rotations

socket == <<link, closed, closeErr, stable>>
inbox == <<strikes, unacked>>
local == <<registered, backoff, report>>
world == <<cancelled, secret, valid>>
bounds == <<faults, rotations>>
vars == <<run, registered, backoff, report, cancelled, secret, valid,
          link, closed, closeErr, stable, strikes, unacked, faults, rotations>>

Places == {"top", "registering", "waiting", "dialing", "handshake", "reading",
           "erred", "lost", "sleeping", "ended"}

Clean == [m \in Messages |-> 0]

Init ==
  /\ run = "top" /\ registered = FALSE /\ backoff = 1 /\ report = "none"
  /\ cancelled = FALSE /\ secret = FALSE /\ valid = FALSE
  /\ link = "none" /\ closed = FALSE /\ closeErr = "none" /\ stable = FALSE
  /\ strikes = Clean /\ unacked = Messages
  /\ faults = 0 /\ rotations = 0

-----------------------------------------------------------------------------
GoTo(place) == run' = place

(* Something outside the daemon goes wrong, once more.                     *)
Fault == faults < MaxFaults /\ faults' = faults + 1 /\ UNCHANGED rotations

Doubled == IF 2 * backoff > MaxBackoff THEN MaxBackoff ELSE 2 * backoff

(* The loop's first test, and the one after each sleep.                    *)
Cancelled ==
  /\ run = "top" /\ cancelled
  /\ GoTo("ended")
  /\ UNCHANGED <<local, world, socket, inbox, bounds>>

(* waitForToken has one; without it Run polls.                             *)
LoopTop ==
  /\ run = "top" /\ ~cancelled /\ secret
  /\ GoTo(IF registered THEN "dialing" ELSE "registering")
  /\ UNCHANGED <<local, world, socket, inbox, bounds>>

(* Register succeeds: the server has a new token, and so has reg.          *)
RegisterOk ==
  /\ run = "registering"
  /\ registered' = TRUE /\ backoff' = 1 /\ valid' = TRUE
  /\ GoTo("dialing")
  /\ UNCHANGED <<report, cancelled, secret, socket, inbox, bounds>>

(* Register fails; the server may have done it all the same.               *)
RegisterFails ==
  /\ run = "registering"
  /\ \/ cancelled /\ GoTo("ended") /\ UNCHANGED bounds
     \/ ~cancelled /\ GoTo("waiting") /\ Fault
  /\ UNCHANGED valid \/ valid' = FALSE
  /\ UNCHANGED <<local, cancelled, secret, socket, inbox>>

(* registerInitial's sleep is over.                                        *)
RetryRegister ==
  /\ run = "waiting"
  /\ backoff' = Doubled
  /\ GoTo("top")
  /\ UNCHANGED <<registered, report, world, socket, inbox, bounds>>

-----------------------------------------------------------------------------
(* connectOnce: newSocketConn and the dial, which a silent server accepts. *)
DialOk ==
  /\ run = "dialing"
  /\ \/ link' = "up" /\ UNCHANGED bounds
     \/ link' = "dead" /\ Fault
  /\ closed' = FALSE /\ closeErr' = "none" /\ stable' = FALSE
  /\ strikes' = Clean
  /\ GoTo("handshake")
  /\ UNCHANGED <<local, world, unacked>>

(* connectOnce returns, and its deferred close releases the socket.        *)
Lose(err) ==
  /\ GoTo("lost")
  /\ report' = err
  /\ link' = "none" /\ closed' = FALSE /\ closeErr' = "none"
  /\ strikes' = Clean
  /\ UNCHANGED <<registered, backoff, world, unacked>>

DialFails ==
  /\ run = "dialing"
  /\ \/ cancelled /\ UNCHANGED bounds
     \/ Fault
  /\ Lose("fault")
  /\ stable' = FALSE

(* CONNACK: success starts the watcher, the ping loop and the read loop.   *)
ConnackOk ==
  /\ run = "handshake" /\ link = "up" /\ valid
  /\ GoTo("reading")
  /\ UNCHANGED <<local, world, socket, inbox, bounds>>

(* ReasonAuthFail: the token in reg is not the server's.                   *)
ConnackAuthFail ==
  /\ run = "handshake" /\ link = "up" /\ ~valid
  /\ Lose("auth")
  /\ UNCHANGED <<stable, bounds>>

(* Any other reason, or an answer that cannot be read.                     *)
ConnackRefused ==
  /\ run = "handshake" /\ link = "up"
  /\ Fault
  /\ Lose("fault")
  /\ UNCHANGED stable

(* Deviation: the wait for CONNACK has no deadline.                        *)
ConnackWaits ==
  /\ run = "handshake" /\ link = "cut"
  /\ Lose("fault")
  /\ UNCHANGED <<stable, bounds>>

(* The read fails, by its deadline if the server is silent.                *)
ConnackLost ==
  /\ run = "handshake" /\ link \in {"cut", "dead"}
  /\ Lose("fault")
  /\ UNCHANGED <<stable, bounds>>

-----------------------------------------------------------------------------
(* The read loop ends by itself: a DISCONNECT frame, or one that cannot be *)
(* parsed.  run returns without a look at closeErr.                        *)
Disconnected ==
  /\ run = "reading"
  /\ \/ link = "kicked" /\ UNCHANGED bounds
     \/ link = "up" /\ Fault
  /\ Lose("fault")
  /\ UNCHANGED stable

(* Deviation: ReadMessage is called without a deadline.                    *)
ReadWaits ==
  /\ run = "reading" /\ (closed \/ link = "cut")
  /\ GoTo("erred")
  /\ UNCHANGED <<local, world, socket, inbox, bounds>>

(* ReadMessage returns an error: the socket was closed under it, the       *)
(* connection broke, or the deadline passed on a dead one.                 *)
ReadFails ==
  /\ run = "reading" /\ (closed \/ link \in {"cut", "dead"})
  /\ GoTo("erred")
  /\ UNCHANGED <<local, world, socket, inbox, bounds>>

(* readErr: the raw error, or what the socket was closed with.             *)
ReadErr ==
  /\ run = "erred"
  /\ Lose(IF closed THEN closeErr ELSE "fault")
  /\ UNCHANGED <<stable, bounds>>

(* closeWithCause: the first cause wins.                                   *)
CloseWith(cause) ==
  /\ run \in {"reading", "erred"} /\ ~closed
  /\ closed' = TRUE /\ closeErr' = cause
  /\ UNCHANGED <<run, local, world, link, stable, inbox, bounds>>

(* The watcher closes the socket when the context is cancelled.            *)
Watch == cancelled /\ CloseWith("none")

(* Deviation: the ping loop closes as for a clean shutdown.                *)
PingFailsClean == link \in {"kicked", "cut", "dead"} /\ CloseWith("none")

(* The ping loop's write fails.                                            *)
PingFails == link \in {"kicked", "cut", "dead"} /\ CloseWith("fault")

(* connectOnce returned: end, or note the loss and sleep.                  *)
NoteLoss ==
  /\ run = "lost"
  /\ IF cancelled
       THEN GoTo("ended") /\ UNCHANGED backoff
       ELSE GoTo("sleeping") /\ backoff' = IF stable THEN 1 ELSE backoff
  /\ UNCHANGED <<registered, report, world, socket, inbox, bounds>>

(* Deviation: every reconnect registers again.                             *)
WakeRegistering ==
  /\ run = "sleeping"
  /\ backoff' = Doubled
  /\ registered' = FALSE
  /\ GoTo(IF cancelled THEN "ended" ELSE "top")
  /\ UNCHANGED <<report, world, socket, inbox, bounds>>

(* The sleep is over; only an auth failure asks for a new registration.    *)
Wake ==
  /\ run = "sleeping"
  /\ backoff' = Doubled
  /\ IF cancelled
       THEN GoTo("ended") /\ UNCHANGED registered
       ELSE GoTo("top") /\ registered' = (registered /\ report # "auth")
  /\ UNCHANGED <<report, world, socket, inbox, bounds>>

-----------------------------------------------------------------------------
(* onRecv, for a frame that ReadMessage returned, perhaps before a close.  *)
Receiving(m) == run = "reading" /\ link = "up" /\ m \in unacked

(* An ack may get lost, and is not written to a closed socket.             *)
Acked(m) == unacked' = unacked \/ (~closed /\ unacked' = unacked \ {m})

(* The payload decrypts and parses: ack it and hand it on (TurnQueue).     *)
Accept(m) ==
  /\ Receiving(m)
  /\ strikes' = [strikes EXCEPT ![m] = 0]
  /\ Acked(m)
  /\ UNCHANGED <<run, local, world, socket, bounds>>

Struck(m) == [strikes EXCEPT ![m] = @ + 1]

Counted(s) == {m \in Messages : s[m] > 0}

(* Deviation: any other entry may go.                                      *)
AnyVictim(m) == Counted(strikes) \ {m}

(* The entries with the fewest strikes but m's: map order decides.         *)
Victims(m) ==
  {c \in Counted(strikes) \ {m} :
     \A o \in Counted(strikes) \ {m} : strikes[c] <= strikes[o]}

(* handleDecryptFailure below the cap: no ack, and the map kept in bounds. *)
Strike(m) ==
  /\ Receiving(m)
  /\ strikes[m] + 1 < MaxRetries
  /\ \/ /\ Cardinality(Counted(Struck(m))) <= MaxKeys
        /\ strikes' = Struck(m)
     \/ /\ Cardinality(Counted(Struck(m))) > MaxKeys
        /\ \E c \in Victims(m) : strikes' = [Struck(m) EXCEPT ![c] = 0]
  /\ UNCHANGED <<run, local, world, socket, unacked, bounds>>

(* At the cap: ack and drop.                                               *)
DropPoison(m) ==
  /\ Receiving(m)
  /\ strikes[m] + 1 >= MaxRetries
  /\ strikes' = [strikes EXCEPT ![m] = 0]
  /\ Acked(m)
  /\ UNCHANGED <<run, local, world, socket, bounds>>

-----------------------------------------------------------------------------
(* The world.                                                              *)

(* The link breaks, or falls silent with nothing to show for it.           *)
LinkFails ==
  /\ link \in {"up", "kicked"}
  /\ Fault
  /\ link' \in {"cut", "dead"}
  /\ UNCHANGED <<run, local, world, closed, closeErr, stable, inbox>>

(* The session has been up for connectionStableAfter.                      *)
Settle ==
  /\ run = "reading" /\ ~stable
  /\ stable' = TRUE
  /\ UNCHANGED <<run, local, world, link, closed, closeErr, inbox, bounds>>

(* Somebody else registers the bot: UpdateIMToken kicks our session.       *)
Rotate ==
  /\ rotations < MaxRotations /\ rotations' = rotations + 1
  /\ valid' = FALSE
  /\ link' = IF run = "reading" /\ link = "up" THEN "kicked" ELSE link
  /\ UNCHANGED <<run, local, cancelled, secret, closed, closeErr, stable, inbox, faults>>

(* The secret arrives through the configuration.                           *)
Inject ==
  /\ ~secret /\ secret' = TRUE
  /\ UNCHANGED <<run, local, cancelled, valid, socket, inbox, bounds>>

Cancel ==
  /\ ~cancelled /\ cancelled' = TRUE
  /\ UNCHANGED <<run, local, secret, valid, socket, inbox, bounds>>

Looping == \/ Cancelled \/ LoopTop \/ RegisterOk \/ RegisterFails \/ RetryRegister
           \/ DialOk \/ DialFails
           \/ ConnackOk \/ ConnackAuthFail \/ ConnackRefused \/ ConnackLost
           \/ Disconnected \/ ReadFails \/ ReadErr \/ NoteLoss \/ Wake

Next == \/ Looping \/ Watch \/ PingFails
        \/ \E m \in Messages : Accept(m) \/ Strike(m) \/ DropPoison(m)
        \/ LinkFails \/ Settle \/ Rotate \/ Inject \/ Cancel

Spec == Init /\ [][Next]_vars

(* Run runs and its timers fire; so does the watcher.  The network and the *)
(* server fail MaxFaults times at most, and otherwise answer Run.          *)
FairSpec == Spec /\ WF_vars(Looping) /\ WF_vars(Watch)

-----------------------------------------------------------------------------
(* Every variable keeps its type, and decryptFails stays within its bound. *)
TypeOK ==
  /\ run \in Places /\ registered \in BOOLEAN /\ backoff \in 1..MaxBackoff
  /\ report \in {"none", "fault", "auth"}
  /\ cancelled \in BOOLEAN /\ secret \in BOOLEAN /\ valid \in BOOLEAN
  /\ link \in {"none", "up", "kicked", "cut", "dead"}
  /\ closed \in BOOLEAN /\ closeErr \in {"none", "fault"} /\ stable \in BOOLEAN
  /\ strikes \in [Messages -> 0..MaxRetries] /\ unacked \subseteq Messages
  /\ Cardinality(Counted(strikes)) <= MaxKeys
  /\ faults \in 0..MaxFaults /\ rotations \in 0..MaxRotations

(* Run: "Only an auth failure (the server's token no longer matches ours)  *)
(* genuinely needs a fresh register".  A registration kicks the session    *)
(* under the current token, so none is asked for while reg's is good,      *)
(* through lost answers, kicks and registrations by others.                *)
NoNeedlessRegister == run = "registering" => ~valid

(* closeWithCause: a fault is never taken for a clean shutdown.  When the  *)
(* connection ends without an error the context was cancelled, whoever of  *)
(* reader, watcher and ping loop was first.                                *)
LossHasCause == run \in {"lost", "sleeping"} /\ report = "none" => cancelled

(* handleDecryptFailure: losing a count must not make a message "never     *)
(* reach maxDecryptRetries": a strike evicts a count only if another       *)
(* message is at least as close to being dropped.                          *)
EvictionSparesLeader ==
  [][\A m, c \in Messages :
       strikes'[m] > strikes[m] /\ strikes[c] > 0 /\ strikes'[c] = 0
         => \E o \in Messages \ {c} : strikes'[o] >= strikes[c]]_vars

(* readConnack's comment: a server that is silent must not leave "SIGTERM  *)
(* ineffective".  Run returns after a cancellation, wherever it is.        *)
ShutdownEnds == cancelled ~> run = "ended"

Connected == run = "reading" /\ link = "up" /\ valid

(* While faults last, Run comes back to a session that works: a dead link  *)
(* is noticed and a stale token replaced.                                  *)
Recovers == secret ~> (Connected \/ cancelled)
=============================================================================
