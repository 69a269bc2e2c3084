------------------------------- MODULE CronTasks -------------------------------
(***************************************************************************)
(* A bot's scheduled tasks: the owner-gated store of core/cron (tasks.go,  *)
(* store.go), the scheduler's loop (scheduler_loop.go), the owner handed   *)
(* over by the connector after each registration (scheduler.go,            *)
(* connector.go), the fire path (cmd/octobuddy-daemon/bot_cron.go) and the *)
(* graceful shutdown that drains it (bot.go).                              *)
(*                                                                         *)
(* Three kinds of goroutine meet in the store: the connector's Run         *)
(* goroutine (it registers and prunes), the scheduler's loop, and the      *)
(* control bus's handlers.  Every Store.Update is one step, under Store.mu;*)
(* what its caller read or computed beforehand may be old by then.         *)
(*                                                                         *)
(* A task keeps who created it, whether it is enabled, and its NextRun: 0  *)
(* as long as it lies ahead, then which of the task's occurrences it is.   *)
(* Schedules are abstracted: a firing task may or may not have a further   *)
(* occurrence, and an edit may or may not leave the schedule as it was.    *)
(***************************************************************************)
EXTENDS Naturals, FiniteSets

CONSTANTS Ids,        (* task ids, never reused (uuid.NewString)           *)
          Owners,     (* owner uids the server may register                *)
          Clients,    (* control-bus handlers                              *)
          None,       (* no task, no owner (""), no request                *)
          MaxTasks,   (* MaxTasksPerBot                                    *)
          MaxOcc,     (* bound: occurrences of a task                      *)
          MaxFaults   (* bound: restarts of the daemon and failures to     *)
                      (* read or write cron.json, together                 *)

ASSUME CronAssumption ==
  /\ None \notin Owners
  /\ IsFiniteSet(Ids)
  /\ MaxTasks \in Nat \ {0} /\ MaxOcc \in Nat
  /\ MaxFaults \in Nat

VARIABLES stored,    (* cron.json                                          *)
          owner,     (* Manager.ownerUID                                   *)
          connOwner, (* Connector.ownerUID, and SetOwnerUID's argument     *)
          reg,       (* SetOwnerUID: "idle", "prune", "swap"               *)
          tick,      (* Tick: "idle", "collect", "dispatch"                *)
          pending,   (* Tick's local fires                                 *)
          flying,    (* onFire goroutines, counted by firesWG              *)
          turns,     (* turns of fires, the two turnsWG together           *)
          stage,     (* up, stopping, waiting, closing, closed             *)
          req,       (* the uid each handler's request passed the gate with*)
          edits,     (* the full update each handler has prepared          *)
          faults,    (* restarts and failures so far                       *)
          born,      (* history: ids ever given out                        *)
          occ,       (* history: occurrences of a task that have come      *)
          fired,     (* history: occurrences handed to onFire              *)
          twice,     (* history: those handed to it once more              *)
          putBack,   (* history: those an edit wrote back after a tick     *)
                     (* had taken them                                     *)
          late       (* history: ids created after their owner was pruned  *)

owning == <<owner, connOwner, reg>>
ticking == <<tick, pending>>
running == <<flying, turns>>
asking == <<req, edits>>
past == <<born, occ, fired, twice, putBack, late>>
vars == <<stored, owner, connOwner, reg, tick, pending, flying, turns,
          stage, req, edits, faults, born, occ, fired, twice, putBack, late>>

Task == [by : Owners, on : BOOLEAN, due : 0 .. MaxOcc]
Edit == [id : Ids, due : 0 .. MaxOcc]
Fire == [id : Ids, nth : 0 .. MaxOcc, by : Owners, under : Owners]

Stored == {i \in Ids : stored[i] # None}

Fresh ==
  /\ owner' = None /\ connOwner' = None /\ reg' = "idle"
  /\ tick' = "idle" /\ pending' = {} /\ flying' = {}
  /\ turns' = 0 /\ stage' = "up"
  /\ req' = [c \in Clients |-> None] /\ edits' = [c \in Clients |-> None]

Init ==
  /\ stored = [i \in Ids |-> None]
  /\ owner = None /\ connOwner = None /\ reg = "idle"
  /\ tick = "idle" /\ pending = {} /\ flying = {}
  /\ turns = 0 /\ stage = "up"
  /\ req = [c \in Clients |-> None] /\ edits = [c \in Clients |-> None]
  /\ faults = 0
  /\ born = {} /\ occ = [i \in Ids |-> 0] /\ fired = [i \in Ids |-> {}]
  /\ twice = {} /\ putBack = {} /\ late = {}

(* Store.load or Store.save returns an error and cron.json is as it was.   *)
StoreFails ==
  /\ faults < MaxFaults
  /\ faults' = faults + 1
  /\ UNCHANGED stored

-----------------------------------------------------------------------------
(* The connector's Run goroutine.                                          *)

(* applyRegistration: the connector's own owner first, then SetOwnerUID.   *)
Register(o) ==
  /\ stage = "up" /\ reg = "idle"
  /\ connOwner' = o
  /\ reg' = IF owner = o THEN "idle" ELSE "prune"
  /\ UNCHANGED <<stored, owner, ticking, running, stage, asking, faults, past>>

(* Deviation: only an owner that replaces another one prunes.              *)
KeepsOnFirstOwner(i) == owner = None \/ stored[i].by = connOwner

(* The tasks SetOwnerUID's prune keeps.                                    *)
Keeps(i) == stored[i].by = connOwner

Prune ==
  /\ reg = "prune"
  /\ \/ /\ stored' = [i \in Ids |-> IF stored[i] # None /\ Keeps(i) THEN stored[i]
                                                                     ELSE None]
        /\ reg' = "swap"
        /\ UNCHANGED faults
     \/ StoreFails /\ reg' = "idle"
  /\ UNCHANGED <<owner, connOwner, ticking, running, stage, asking, past>>

Swap ==
  /\ reg = "swap"
  /\ owner' = connOwner /\ reg' = "idle"
  /\ UNCHANGED <<stored, connOwner, ticking, running, stage, asking, faults, past>>

-----------------------------------------------------------------------------
(* The scheduler's loop.                                                   *)

(* The edits of i that still lie ahead.                                    *)
Ahead(i) == {c \in Clients : edits[c] # None /\ edits[c].id = i /\ edits[c].due = 0}

(* Time passes an occurrence: the task's NextRun, or the one some edit of  *)
(* it has computed, or, of a schedule that was left alone, both.           *)
ComesDue(i) ==
  /\ occ[i] < MaxOcc
  /\ occ' = [occ EXCEPT ![i] = @ + 1]
  /\ \E C \in SUBSET Ahead(i) :
       /\ edits' = [c \in Clients |-> IF c \in C THEN [edits[c] EXCEPT !.due = occ[i] + 1]
                                                   ELSE edits[c]]
       /\ \/ /\ stored[i] # None /\ stored[i].due = 0
             /\ stored' = [stored EXCEPT ![i].due = occ[i] + 1]
          \/ C # {} /\ UNCHANGED stored
  /\ UNCHANGED <<owning, ticking, running, stage, req, faults,
                 born, fired, twice, putBack, late>>

(* The ticker's channel is ready; with stopCh closed too, select may still *)
(* take it.  Tick returns at once while no owner is known.                 *)
TickStart ==
  /\ stage \in {"up", "stopping"} /\ tick = "idle"
  /\ owner # None
  /\ tick' = "collect"
  /\ UNCHANGED <<stored, owning, pending, running, stage, asking, faults, past>>

(* isCronTaskDue                                                           *)
Due == {i \in Stored : stored[i].on /\ stored[i].due > 0}

DueFires == {[id |-> i, nth |-> stored[i].due, by |-> stored[i].by, under |-> owner] : i \in Due}

(* advanceFiredCronTask: NextRun moves on, or the task is dropped.         *)
Advance(again) ==
  stored' = [i \in Ids |-> IF i \notin Due THEN stored[i]
                           ELSE IF i \in again THEN [stored[i] EXCEPT !.due = 0]
                           ELSE None]

(* Deviation: the fires of a tick whose save failed are dispatched.        *)
CollectFailsFiring ==
  /\ tick = "collect" /\ StoreFails
  /\ tick' = "dispatch" /\ pending' = DueFires
  /\ UNCHANGED <<owning, running, stage, asking, past>>

(* Tick's store.Update returns an error: nothing is fired.                 *)
CollectFails ==
  /\ tick = "collect" /\ StoreFails
  /\ tick' = "idle"
  /\ UNCHANGED <<pending, owning, running, stage, asking, past>>

(* Tick's store.Update: the due tasks advance before any of them fires.    *)
Collect ==
  /\ tick = "collect"
  /\ \E again \in SUBSET Due : Advance(again)
  /\ pending' = DueFires /\ tick' = "dispatch"
  /\ UNCHANGED <<owning, running, stage, asking, faults, past>>

(* dispatchCronFires: a goroutine per fire.                                *)
Dispatch ==
  /\ tick = "dispatch"
  /\ flying' = flying \cup pending
  /\ fired' = [i \in Ids |-> fired[i] \cup {f.nth : f \in {g \in pending : g.id = i}}]
  /\ twice' = twice \cup {<<f.id, f.nth>> : f \in {g \in pending : g.nth \in fired[g.id]}}
  /\ pending' = {} /\ tick' = "idle"
  /\ UNCHANGED <<stored, owning, turns, stage, asking, faults,
                 born, occ, putBack, late>>

-----------------------------------------------------------------------------
(* fireCronTask, on a goroutine of its own.                                *)

(* EnqueueCron: the connector's queue; a closed connector drops the fire.  *)
DeliverIM(f) ==
  /\ f \in flying /\ flying' = flying \ {f}
  /\ turns' = IF stage \in {"closing", "closed"} THEN turns ELSE turns + 1
  /\ UNCHANGED <<stored, owning, ticking, stage, asking, faults, past>>

(* A Console task: the gateway directly, counted by the target's turnsWG.  *)
DeliverConsole(f) ==
  /\ f \in flying /\ flying' = flying \ {f}
  /\ turns' = turns + 1
  /\ UNCHANGED <<stored, owning, ticking, stage, asking, faults, past>>

(* No session for its coordinates, or safeFire recovers a panic.           *)
FireFails(f) ==
  /\ f \in flying /\ flying' = flying \ {f}
  /\ UNCHANGED <<stored, owning, ticking, turns, stage, asking, faults, past>>

(* The turn is over (TurnQueue has it in detail).                          *)
TurnEnds ==
  /\ turns > 0
  /\ turns' = turns - 1
  /\ UNCHANGED <<stored, owning, ticking, flying, stage, asking, faults, past>>

-----------------------------------------------------------------------------
(* The control bus's handlers.                                             *)

(* cronTarget reads the owner for the requester; Create, Delete and Update *)
(* compare it with the owner again, and go on under that uid.  Which of    *)
(* the three it is shows at its Store.Update.                              *)
Admit(c) ==
  /\ stage # "closed"
  /\ req[c] = None /\ owner # None
  /\ req' = [req EXCEPT ![c] = owner]
  /\ UNCHANGED <<stored, owning, ticking, running, stage, edits, faults, past>>

Answered(c) == /\ req' = [req EXCEPT ![c] = None]
               /\ edits' = [edits EXCEPT ![c] = None]

(* prepareCronUpdate, before Store.mu: a full update's NextRun is computed *)
(* from the present.  (An id that is not in the store stays out of it, and *)
(* its edit ends in Refuse.)                                               *)
PrepareUpdate(c) ==
  /\ req[c] # None /\ edits[c] = None
  /\ \E i \in Stored : edits' = [edits EXCEPT ![c] = [id |-> i, due |-> 0]]
  /\ UNCHANGED <<stored, owning, ticking, running, stage, req, faults, past>>

(* Create's mutator re-checks the cap.                                     *)
HasRoom == Cardinality(Stored) < MaxTasks

CreateTask(c) ==
  /\ req[c] # None /\ edits[c] = None /\ Answered(c)
  /\ \/ /\ HasRoom
        /\ \E i \in Ids \ born :
             /\ stored' = [stored EXCEPT
                             ![i] = [by |-> req[c], on |-> TRUE, due |-> 0]]
             /\ born' = born \cup {i}
             /\ late' = IF req[c] # owner \/ reg = "swap" THEN late \cup {i} ELSE late
     \/ ~HasRoom /\ UNCHANGED <<stored, born, late>>
  /\ UNCHANGED <<owning, ticking, running, stage, faults, occ, fired, twice, putBack>>

(* Delete looks at the id alone.                                           *)
DeleteTask(c) ==
  /\ req[c] # None /\ edits[c] = None /\ Answered(c)
  /\ \E i \in Ids : stored' = [stored EXCEPT ![i] = None]
  /\ UNCHANGED <<owning, ticking, running, stage, faults, past>>

(* A tick has taken the n-th occurrence of i.                              *)
Taken(i, n) == n \in fired[i] \/ \E f \in pending : f.id = i /\ f.nth = n

(* applyCronUpdate: the enabled-only path leaves NextRun alone, a full     *)
(* update puts the prepared one over whatever the store has by now.        *)
UpdateTask(c) ==
  /\ req[c] # None /\ Answered(c)
  /\ \E i \in Stored, v \in BOOLEAN :
       /\ stored[i].by = req[c]
       /\ \/ /\ edits[c] = None
             /\ stored' = [stored EXCEPT ![i].on = v]
             /\ UNCHANGED putBack
          \/ /\ edits[c] # None /\ edits[c].id = i
             /\ stored' = [stored EXCEPT ![i].on = v, ![i].due = edits[c].due]
             /\ putBack' = IF Taken(i, edits[c].due) THEN putBack \cup {<<i, edits[c].due>>}
                                                    ELSE putBack
  /\ UNCHANGED <<owning, ticking, running, stage, faults, born, occ, fired, twice, late>>

(* The store fails, or there is no such task: the caller gets an error.    *)
Refuse(c) ==
  /\ req[c] # None /\ Answered(c)
  /\ UNCHANGED <<stored, owning, ticking, running, stage, faults, past>>

-----------------------------------------------------------------------------
(* drainBotRuntime, deferred by runBot: the Run goroutine has returned.    *)

Stop ==
  /\ stage = "up" /\ reg = "idle"
  /\ stage' = "stopping"
  /\ UNCHANGED <<stored, owning, ticking, running, asking, faults, past>>

(* Deviation: Stop does not wait for the loop's goroutine.                 *)
LoopIgnored == TRUE

(* loopWG is zero.                                                         *)
LoopGone == tick = "idle"

StopReturns ==
  /\ stage = "stopping" /\ LoopGone
  /\ stage' = "waiting"
  /\ UNCHANGED <<stored, owning, ticking, running, asking, faults, past>>

(* Manager.Wait returns and WaitTurns closes the connector.                *)
CloseConnector ==
  /\ stage = "waiting" /\ flying = {}
  /\ stage' = "closing"
  /\ UNCHANGED <<stored, owning, ticking, running, asking, faults, past>>

(* WaitTurns, then the target's turnsWG.Wait: the store may be closed.     *)
Drained ==
  /\ stage = "closing" /\ turns = 0
  /\ stage' = "closed"
  /\ UNCHANGED <<stored, owning, ticking, running, asking, faults, past>>

(* The daemon dies, or has exited, and starts again; cron.json stays.      *)
Restart ==
  /\ faults < MaxFaults /\ faults' = faults + 1
  /\ Fresh
  /\ UNCHANGED <<stored, past>>

-----------------------------------------------------------------------------
Next ==
  \/ \E o \in Owners : Register(o)
  \/ Prune \/ Swap
  \/ \E i \in Ids : ComesDue(i)
  \/ TickStart \/ Collect \/ CollectFails \/ Dispatch
  \/ \E f \in flying : DeliverIM(f) \/ DeliverConsole(f) \/ FireFails(f)
  \/ TurnEnds
  \/ \E c \in Clients : \/ Admit(c) \/ PrepareUpdate(c) \/ CreateTask(c) \/ DeleteTask(c)
                        \/ UpdateTask(c) \/ Refuse(c)
  \/ Stop \/ StopReturns \/ CloseConnector \/ Drained
  \/ Restart

Spec == Init /\ [][Next]_vars

-----------------------------------------------------------------------------
(* The variables have their types.                                         *)
TypeOK ==
  /\ stored \in [Ids -> Task \cup {None}]
  /\ owner \in Owners \cup {None} /\ connOwner \in Owners \cup {None}
  /\ reg \in {"idle", "prune", "swap"}
  /\ tick \in {"idle", "collect", "dispatch"}
  /\ pending \subseteq Fire /\ flying \subseteq Fire
  /\ turns \in Nat
  /\ stage \in {"up", "stopping", "waiting", "closing", "closed"}
  /\ req \in [Clients -> Owners \cup {None}] /\ edits \in [Clients -> Edit \cup {None}]
  /\ faults \in 0 .. MaxFaults
  /\ born \subseteq Ids /\ late \subseteq Ids
  /\ occ \in [Ids -> 0 .. MaxOcc] /\ fired \in [Ids -> SUBSET (0 .. MaxOcc)]
  /\ twice \subseteq Ids \X (0 .. MaxOcc) /\ putBack \subseteq Ids \X (0 .. MaxOcc)

(* An occurrence fires at most once, whatever fails and whenever the       *)
(* daemon dies: the store has the advanced task before the fire leaves.    *)
(* The exception is an occurrence that came and was taken between the      *)
(* moment an edit computed its NextRun and the moment the store took it:   *)
(* the edit puts the occurrence back, and it fires again.                  *)
AtMostOncePerOccurrence == twice \subseteq putBack

(* No tick takes a task before the bot's owner is known, and what it takes *)
(* belongs to the owner it runs under, also when cron.json was written for *)
(* an earlier owner before a restart; the exception is a task whose Create *)
(* was let through under the previous owner and stored after the prune.    *)
FiresUnderOwner ==
  \A f \in pending \cup flying :
    f.under # None /\ (f.by = f.under \/ f.id \in late)

(* Graceful shutdown loses no fire: none reaches the connector after it is *)
(* closed, and nothing of the scheduler's runs once the store may close.   *)
ShutdownLosesNoFire ==
  /\ stage \in {"closing", "closed"} => tick = "idle" /\ flying = {}
  /\ stage = "closed" => turns = 0
=============================================================================
