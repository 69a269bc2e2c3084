------------------------------- MODULE Daemon -------------------------------
(***********************************************************************)
(* The life of the daemon process: core/cmd/octobuddy-daemon/main.go,   *)
(* bot_runtime.go, bot.go, and the turns that reach a bot other than     *)
(* through its connector's queue (control.go, bot_cron.go).              *)
(*                                                                       *)
(* In config mode each bot has a goroutine (runBot) that builds the bot,  *)
(* runs its connector until the context ends, drains and closes the store. *)
(* The single-bot mode has the same parts in main itself.  A session.send  *)
(* is a handler on a connection's goroutine that starts a turn; a console  *)
(* fire is a goroutine of the scheduler that does.  What the connector's   *)
(* own turns are is the matter of TurnQueue, what ticks and fires are that *)
(* of CronTasks, what the bus does that of ControlBus.                     *)
(***********************************************************************)
EXTENDS Naturals, FiniteSets

CONSTANTS
  Bots,    \* the roster of config.json, or the one bot of the single-bot mode
  Sends,   \* session.send commands
  Fires    \* console fires of the scheduler

ASSUME DaemonAssumption == Sends \cap Fires = {}

VARIABLES
  mode,     \* "config" or "single"
  ctx,      \* "live" or "cancelled"
  bus,      \* "up" or "closed": serveControlBus and its cleanup
  pc,       \* [Bots -> where runBot is]
  ending,   \* [Bots -> {"none", "done", "error", "panic"}]: how runBot returns
  registry, \* [Bots -> {"absent", "runtime", "stub"}]: botRegistry.bots
  failed,   \* [Bots -> BOOLEAN]: lastErr is set
  store,    \* [Bots -> {"none", "open", "closed"}]
  cronLoop, \* [Bots -> {"off", "armed", "stopped"}]
  im,       \* [Bots -> {"idle", "running"}]: a turn of the connector's queue
  send,     \* [Sends -> {"idle", "resolved", "running", "done"}]
  fire,     \* [Fires -> {"idle", "starting", "running", "done"}]
  target,   \* [Sends \cup Fires -> Bots \cup {"none"}]
  late,     \* [Sends -> BOOLEAN]: counted after the drain had stopped waiting
  main      \* "waiting" or "exited"

procVars == <<mode, ctx, bus, main>>
botVars == <<pc, ending, registry, failed, store, cronLoop>>
turnVars == <<im, send, fire, target, late>>
daemonVars == <<procVars, botVars, turnVars>>

Drain == {"cronStop", "cronWait", "queueWait", "busClose", "sendWait", "storeClose"}

DaemonTypeOK ==
  /\ mode \in {"config", "single"} /\ ctx \in {"live", "cancelled"}
  /\ bus \in {"up", "closed"} /\ main \in {"waiting", "exited"}
  /\ pc \in [Bots -> Drain \cup {"dirs", "store", "build", "register", "cron", "run", "report", "ended"}]
  /\ ending \in [Bots -> {"none", "done", "error", "panic"}]
  /\ registry \in [Bots -> {"absent", "runtime", "stub"}]
  /\ failed \in [Bots -> BOOLEAN]
  /\ store \in [Bots -> {"none", "open", "closed"}]
  /\ cronLoop \in [Bots -> {"off", "armed", "stopped"}]
  /\ im \in [Bots -> {"idle", "running"}]
  /\ send \in [Sends -> {"idle", "resolved", "running", "done"}]
  /\ fire \in [Fires -> {"idle", "starting", "running", "done"}]
  /\ target \in [Sends \cup Fires -> Bots \cup {"none"}]
  /\ late \in [Sends -> BOOLEAN]

(* runConfigMode serves the bus before it starts the bots.  The single-bot  *)
(* mode opens its store first, and a failure there is fatal.                *)
DaemonInit ==
  /\ mode \in {"config", "single"}
  /\ mode = "single" => Cardinality(Bots) = 1
  /\ ctx = "live" /\ bus = "up" /\ main = "waiting"
  /\ pc = [b \in Bots |-> IF mode = "config" THEN "dirs" ELSE "run"]
  /\ ending = [b \in Bots |-> "none"]
  /\ registry = [b \in Bots |-> IF mode = "config" THEN "absent" ELSE "runtime"]
  /\ failed = [b \in Bots |-> FALSE]
  /\ store = [b \in Bots |-> IF mode = "config" THEN "none" ELSE "open"]
  /\ cronLoop = [b \in Bots |-> "off"]
  /\ im = [b \in Bots |-> "idle"]
  /\ send = [s \in Sends |-> "idle"] /\ fire = [f \in Fires |-> "idle"]
  /\ target = [t \in Sends \cup Fires |-> "none"]
  /\ late = [s \in Sends |-> FALSE]

-----------------------------------------------------------------------------
(* Signals.                                                                 *)

(* SIGINT, SIGTERM, or the parent's exit (watchParentExit).                 *)
Cancel ==
  /\ ctx = "live" /\ main = "waiting"
  /\ ctx' = "cancelled"
  /\ UNCHANGED <<mode, bus, main, botVars, turnVars>>

(* startConfigControl: a goroutine closes the bus when the context ends,    *)
(* while the bots drain.                                                    *)
BusCloses ==
  /\ mode = "config" /\ ctx = "cancelled" /\ bus = "up"
  /\ bus' = "closed"
  /\ UNCHANGED <<mode, ctx, main, botVars, turnVars>>

-----------------------------------------------------------------------------
(* runBot.                                                                  *)

Goes(b, from, to) == pc[b] = from /\ pc' = [pc EXCEPT ![b] = to]

(* Where the deferred calls begin: the drain is deferred once the bot is    *)
(* assembled, the closing of the store once it is open.                     *)
Unwind(b) ==
  CASE pc[b] \in {"dirs", "store"}                -> "report"
    [] pc[b] = "build"                            -> "storeClose"
    [] pc[b] \in {"register", "cron", "run"}      -> "cronStop"

(* prepareBotDirs, store.Open, agent.New and assembleBotRuntime may fail.   *)
Fails(b) ==
  /\ pc[b] \in {"dirs", "store", "build"}
  /\ pc' = [pc EXCEPT ![b] = Unwind(b)]
  /\ ending' = [ending EXCEPT ![b] = "error"]
  /\ UNCHANGED <<procVars, registry, failed, store, cronLoop, turnVars>>

Panics(b) ==
  /\ mode = "config"
  /\ pc[b] \in {"dirs", "store", "build", "register", "cron", "run"}
  /\ pc' = [pc EXCEPT ![b] = Unwind(b)]
  /\ ending' = [ending EXCEPT ![b] = "panic"]
  /\ UNCHANGED <<procVars, registry, failed, store, cronLoop, turnVars>>

MakeDirs(b) ==
  /\ Goes(b, "dirs", "store")
  /\ UNCHANGED <<procVars, ending, registry, failed, store, cronLoop, turnVars>>

OpenStore(b) ==
  /\ Goes(b, "store", "build")
  /\ store' = [store EXCEPT ![b] = "open"]
  /\ UNCHANGED <<procVars, ending, registry, failed, cronLoop, turnVars>>

AssembleBotRuntime(b) ==
  /\ Goes(b, "build", "register")
  /\ UNCHANGED <<procVars, ending, registry, failed, store, cronLoop, turnVars>>

RegisterBotRuntime(b) ==
  /\ Goes(b, "register", "cron")
  /\ registry' = [registry EXCEPT ![b] = "runtime"]
  /\ UNCHANGED <<procVars, ending, failed, store, cronLoop, turnVars>>

(* A bot without agent.cron has no manager.                                 *)
StartBotCron(b) ==
  /\ Goes(b, "cron", "run")
  /\ cronLoop' \in {cronLoop, [cronLoop EXCEPT ![b] = "armed"]}
  /\ UNCHANGED <<procVars, ending, registry, failed, store, turnVars>>

(* connector.Run returns when the context has ended, and not before.        *)
RunReturns(b) ==
  /\ ctx = "cancelled" /\ pc[b] = "run"
  /\ pc' = [pc EXCEPT ![b] = IF mode = "config" THEN "cronStop" ELSE "queueWait"]
  /\ ending' = [ending EXCEPT ![b] = "done"]
  /\ UNCHANGED <<procVars, registry, failed, store, cronLoop, turnVars>>

-----------------------------------------------------------------------------
(* drainBotRuntime, and the deferred calls of runSingleBotMode.             *)

Fired(b, where) == {f \in Fires : target[f] = b /\ fire[f] = where}
Counted(b) == {s \in Sends : target[s] = b /\ send[s] = "running"}

(* cm.Stop returns when the scheduler's loop has.                           *)
CronStop(b) ==
  /\ Goes(b, "cronStop", "cronWait")
  /\ cronLoop' = [cronLoop EXCEPT ![b] = "stopped"]
  /\ UNCHANGED <<procVars, ending, registry, failed, store, turnVars>>

(* Deviation: the drain without cm.Wait: a fire on its way is not awaited.  *)
CronNoWait(b) ==
  /\ Goes(b, "cronWait", "queueWait")
  /\ UNCHANGED <<procVars, ending, registry, failed, store, cronLoop, turnVars>>

(* cm.Wait: the goroutines of the fires have returned; a console fire has   *)
(* counted its turn by then.                                                *)
CronWait(b) ==
  /\ Fired(b, "starting") = {}
  /\ Goes(b, "cronWait", "queueWait")
  /\ UNCHANGED <<procVars, ending, registry, failed, store, cronLoop, turnVars>>

(* connector.WaitTurns: nothing is queued from here on, what runs ends.     *)
QueueWait(b) ==
  /\ im[b] = "idle"
  /\ Goes(b, "queueWait", IF mode = "config" THEN "sendWait" ELSE "busClose")
  /\ UNCHANGED <<procVars, ending, registry, failed, store, cronLoop, turnVars>>

(* The single-bot mode closes the bus between the two waits.                *)
SoloBusClose(b) ==
  /\ Goes(b, "busClose", "sendWait")
  /\ bus' = "closed"
  /\ UNCHANGED <<mode, ctx, main, ending, registry, failed, store, cronLoop, turnVars>>

(* target.turnsWG.Wait.                                                     *)
SendWait(b) ==
  /\ Counted(b) = {} /\ Fired(b, "running") = {}
  /\ Goes(b, "sendWait", "storeClose")
  /\ UNCHANGED <<procVars, ending, registry, failed, store, cronLoop, turnVars>>

CloseStore(b) ==
  /\ Goes(b, "storeClose", "report")
  /\ store' = [store EXCEPT ![b] = "closed"]
  /\ UNCHANGED <<procVars, ending, registry, failed, cronLoop, turnVars>>

RegisterFailedBot(b) ==
  /\ failed' = [failed EXCEPT ![b] = TRUE]
  /\ registry' = [registry EXCEPT ![b] = IF @ = "absent" THEN "stub" ELSE @]

(* Deviation: only a panic is reported.                                     *)
ReportPanic(b) ==
  /\ Goes(b, "report", "ended")
  /\ IF ending[b] = "panic"
     THEN RegisterFailedBot(b) ELSE UNCHANGED <<registry, failed>>
  /\ UNCHANGED <<procVars, ending, store, cronLoop, turnVars>>

(* What runConfiguredBots does with the way runBot returned.                *)
Report(b) ==
  /\ Goes(b, "report", "ended")
  /\ IF ending[b] = "panic" \/ (ending[b] = "error" /\ ctx = "live")
     THEN RegisterFailedBot(b) ELSE UNCHANGED <<registry, failed>>
  /\ UNCHANGED <<procVars, ending, store, cronLoop, turnVars>>

(* wg.Wait, or, for an empty roster, the end of the context; the deferred   *)
(* stopControl; the process exits.                                          *)
Exit ==
  /\ main = "waiting"
  /\ IF Bots = {} THEN ctx = "cancelled" ELSE \A b \in Bots : pc[b] = "ended"
  /\ main' = "exited" /\ bus' = "closed"
  /\ UNCHANGED <<mode, ctx, botVars, turnVars>>

-----------------------------------------------------------------------------
(* Turns.  Every one of them ends: the context is theirs, and the idle      *)
(* guard kills a silent driver.                                             *)

Alive == main = "waiting"

(* Deviation: enqueueTurn does not look at closed.                          *)
ImTurnAnyTime(b) ==
  /\ Alive /\ pc[b] \in {"run", "cronStop", "cronWait", "queueWait"}
  /\ im' = [im EXCEPT ![b] = IF @ = "idle" THEN "running" ELSE "idle"]
  /\ UNCHANGED <<procVars, botVars, send, fire, target, late>>

(* A turn of the connector's queue; enqueueTurn starts none once WaitTurns  *)
(* has set closed, which it does first.                                     *)
ImTurn(b) ==
  /\ Alive
  /\ \/ /\ im[b] = "idle" /\ pc[b] \in {"run", "cronStop", "cronWait"}
        /\ im' = [im EXCEPT ![b] = "running"]
     \/ /\ im[b] = "running"
        /\ im' = [im EXCEPT ![b] = "idle"]
  /\ UNCHANGED <<procVars, botVars, send, fire, target, late>>

(* botRegistry.get: an empty id names the only bot there is.                *)
Get(id) ==
  LET known == {b \in Bots : registry[b] # "absent"}
  IN IF id = "" THEN (IF Cardinality(known) = 1 THEN known ELSE {}) ELSE known \cap {id}

(* resolve: a stub has no gateway and is refused.                           *)
Resolve(id) == {b \in Get(id) : registry[b] = "runtime"}

(* The handler of session.send resolves its bot and reads the attachments.  *)
SendResolved(s) ==
  /\ Alive /\ bus = "up" /\ send[s] = "idle"
  /\ \E id \in Bots \cup {""} :
       IF Resolve(id) = {}
       THEN send' = [send EXCEPT ![s] = "done"] /\ UNCHANGED target
       ELSE /\ send' = [send EXCEPT ![s] = "resolved"]
            /\ \E b \in Resolve(id) : target' = [target EXCEPT ![s] = b]
  /\ UNCHANGED <<procVars, botVars, im, fire, late>>

(* turnsWG.Add(1) and go runControlTurn: neither the bus nor the drain      *)
(* stops a handler that is already under way.                               *)
SendCounted(s) ==
  /\ Alive /\ send[s] = "resolved"
  /\ send' = [send EXCEPT ![s] = "running"]
  /\ late' = [late EXCEPT ![s] = pc[target[s]] \in {"storeClose", "report", "ended"}]
  /\ UNCHANGED <<procVars, botVars, im, fire, target>>

SendEnds(s) ==
  /\ Alive /\ send[s] = "running"
  /\ send' = [send EXCEPT ![s] = "done"]
  /\ UNCHANGED <<procVars, botVars, im, fire, target, late>>

(* A tick starts the goroutine of a console fire.                           *)
FireStarts(f) ==
  /\ Alive /\ fire[f] = "idle"
  /\ \E b \in Bots : cronLoop[b] = "armed" /\ target' = [target EXCEPT ![f] = b]
  /\ fire' = [fire EXCEPT ![f] = "starting"]
  /\ UNCHANGED <<procVars, botVars, im, send, late>>

(* fireCronTask: counted, and a goroutine of its own.                       *)
FireCounted(f) ==
  /\ Alive /\ fire[f] = "starting"
  /\ fire' = [fire EXCEPT ![f] = "running"]
  /\ UNCHANGED <<procVars, botVars, im, send, target, late>>

FireEnds(f) ==
  /\ Alive /\ fire[f] = "running"
  /\ fire' = [fire EXCEPT ![f] = "done"]
  /\ UNCHANGED <<procVars, botVars, im, send, target, late>>

-----------------------------------------------------------------------------
BotNext(b) ==
  \/ MakeDirs(b) \/ OpenStore(b) \/ AssembleBotRuntime(b) \/ RegisterBotRuntime(b)
  \/ StartBotCron(b) \/ RunReturns(b)
  \/ CronStop(b) \/ CronWait(b) \/ QueueWait(b) \/ SoloBusClose(b) \/ SendWait(b)
  \/ CloseStore(b) \/ Report(b)

DaemonNext ==
  \/ Cancel \/ BusCloses \/ Exit
  \/ \E b \in Bots : BotNext(b) \/ Fails(b) \/ Panics(b) \/ ImTurn(b)
  \/ \E s \in Sends : SendResolved(s) \/ SendCounted(s) \/ SendEnds(s)
  \/ \E f \in Fires : FireStarts(f) \/ FireCounted(f) \/ FireEnds(f)

(* Goroutines run and turns end.  Each step of DaemonRuns happens once in    *)
(* its bot, send or fire, so that fairness of their disjunction makes each  *)
(* of them happen; the turns of a queue follow one another without end and  *)
(* need their own.                                                          *)
DaemonRuns ==
  \/ BusCloses \/ Exit
  \/ \E b \in Bots : BotNext(b)
  \/ \E s \in Sends : SendCounted(s) \/ SendEnds(s)
  \/ \E f \in Fires : FireCounted(f) \/ FireEnds(f)

ImTurnEnds(b) == im[b] = "running" /\ ImTurn(b)

DaemonSpec ==
  /\ DaemonInit /\ [][DaemonNext]_daemonVars
  /\ WF_daemonVars(DaemonRuns)
  /\ \A b \in Bots : WF_daemonVars(ImTurnEnds(b))

-----------------------------------------------------------------------------
(* A turn that the shutdown knows of never meets a closed store: not one of *)
(* the queue, not one of the scheduler, whose fires may be on their way     *)
(* when the drain begins, and not a session.send that was counted before    *)
(* the drain stopped waiting (bot.go:547-554, control.go:41-46).            *)
StoreOutlivesTurns ==
  \A b \in Bots : store[b] = "closed" =>
    /\ im[b] = "idle"
    /\ Fired(b, "starting") = {} /\ Fired(b, "running") = {}
    /\ \A s \in Counted(b) : late[s]

(* "shows it as down-with-error rather than missing entirely"               *)
(* (bot_runtime.go:181-183): while the daemon is not told to stop, a bot    *)
(* that came up is in the registry, and one that did not, or came down,     *)
(* stands there with its error.                                             *)
EveryBotListed ==
  /\ DaemonTypeOK
  /\ \A b \in Bots : (ctx = "live" /\ pc[b] \in {"run", "ended"}) =>
       registry[b] # "absent" /\ (pc[b] = "ended" => failed[b])

(* Told to stop, it exits: none of the waits of the drain misses what it    *)
(* waits for, whatever fires, sends and panics come meanwhile.              *)
DaemonExits == (ctx = "cancelled") ~> (main = "exited")
=============================================================================
