-------------------------------- MODULE Turn --------------------------------
(***********************************************************************)
(* One session's turns, one after the other: core/gateway's runTurn      *)
(* (gateway_turn.go, gateway_idle.go), what it keeps of the CLI's own     *)
(* sessions in the store (store/activity.go), the CLI's run               *)
(* (agent/stream.go, parsed by AgentDriver) and what the connector's sink  *)
(* shows of it (connector_sink.go, connector_typing.go).                  *)
(*                                                                       *)
(* An event is emitted and consumed in one step: the channel between the   *)
(* drains and runTurn is a buffer, and what is done with an event does not *)
(* depend on when it is taken from it.  Between the two pipes any order    *)
(* goes.  Once the context has ended, an event may be dropped and the CLI   *)
(* is killed.  The breaker's own state is Breaker's matter: here it admits  *)
(* a turn or does not.                                                    *)
(***********************************************************************)
EXTENDS AgentDriver, Naturals, FiniteSets

CONSTANTS
  Ids,       \* the CLIs' own session ids
  MaxTurns   \* bound: turns of the session

ASSUME TurnAssumption ==   \* an unused id can always be made
  /\ NoId \notin Ids /\ MaxTurns \in Nat
  /\ IsFiniteSet(Ids) /\ Cardinality(Ids) > MaxTurns

VARIABLES
  guarded,   \* dispatchTimeout > 0
  driver,    \* the driver the bot is configured with
  resumes,   \* [Drivers -> Ids \cup {NoId}]: the session's rows of agent_sessions
  minted,    \* [Ids -> Drivers \cup {"no"}]: which CLI made the id (external)
  health,    \* [Ids -> {"fine", "sick", "gone"}]: what resuming it leads to (external)
  retired,   \* ids whose rows have been cleared
  held,      \* of these, the ones session.reset cleared under a turn resuming them (ghost)
  turns,     \* turns begun
  pc,        \* where runTurn is
  ctx,       \* "live", "expired" (the idle guard's cause) or "cancelled" (the caller's)
  idleDone,  \* idleGuard.done
  attempt, sid,      \* executeTurn's loop and req.SessionID
  out, errs, exit,   \* what the CLI has yet to say on stdout, on stderr, and how it ends
  sawDone,   \* streamCommand's sawTurnDone
  res,       \* agentAttemptResult
  gated, buf,        \* consumeAgentAttempt's gate and its buffer
  shown,     \* the sink has seen an event of this attempt
  typing,    \* the session has a typing heartbeat
  owed,      \* allow() said yes and onResult has not been called
  told,      \* the turn's replies, in order
  ran,       \* attempts of this turn in which the CLI ran a tool (ghost)
  cameTo    \* what the last run of the CLI came to (ghost)

lifeVars == <<guarded, driver, minted, health, turns>>
rowVars == <<resumes, retired, held>>
cliVars == <<out, errs, exit, sawDone>>
attemptVars == <<attempt, sid, res, gated, buf, shown, ran, cameTo>>
localVars == <<ctx, idleDone, cliVars, attemptVars>>   \* runTurn's locals, and the CLI
replyVars == <<owed, told, typing>>
turnVars == <<lifeVars, rowVars, pc, localVars, replyVars>>

(* An id no CLI has made yet (which one does not matter).                   *)
Unused(m) == CHOOSE i \in Ids : m[i] = "no"

NoResult == [newResume |-> NoId, failed |-> FALSE, transient |-> FALSE,
             poisoned |-> FALSE, resumeBad |-> FALSE, short |-> FALSE]

TurnInit ==
  /\ guarded \in BOOLEAN /\ driver \in Drivers
  /\ LET first == Unused([i \in Ids |-> "no"])
     IN  \/ /\ resumes = [d \in Drivers |-> NoId]
            /\ minted = [i \in Ids |-> "no"] /\ health = [i \in Ids |-> "fine"]
         \/ /\ resumes = [d \in Drivers |-> IF d = driver THEN first ELSE NoId]
            /\ minted = [i \in Ids |-> IF i = first THEN driver ELSE "no"]
            /\ health \in {[i \in Ids |-> IF i = first THEN h ELSE "fine"] : h \in {"fine", "sick", "gone"}}
  /\ retired = {} /\ held = {} /\ turns = 0 /\ pc = "idle" /\ ctx = "live" /\ idleDone = FALSE
  /\ out = <<>> /\ errs = <<>> /\ exit = "ended" /\ sawDone = FALSE
  /\ attempt = 0 /\ sid = NoId /\ res = NoResult /\ gated = FALSE /\ buf = <<>> /\ shown = FALSE
  /\ ran = {} /\ cameTo = "none"
  /\ typing = FALSE /\ owed = FALSE /\ told = <<>>

-----------------------------------------------------------------------------
(* The rows of these ids are deleted.                                      *)
Retires(ids) == retired' = retired \cup ids /\ held' = held \ ids

(* ClearResumeForAgent, of the id the turn resumed.                         *)
ClearsResume == resumes' = [resumes EXCEPT ![driver] = NoId] /\ Retires({sid})

(* The ids of the session's rows.                                          *)
Stored == {resumes[d] : d \in Drivers} \ {NoId}

(* runTurn returns: its locals and the CLI are gone.                        *)
Concludes ==
  /\ pc' = "idle" /\ ctx' = "live" /\ idleDone' = FALSE
  /\ out' = <<>> /\ errs' = <<>> /\ exit' = "ended" /\ sawDone' = FALSE
  /\ attempt' = 0 /\ sid' = NoId /\ res' = NoResult /\ gated' = FALSE /\ buf' = <<>> /\ shown' = FALSE
  /\ ran' = {} /\ cameTo' = "none"

(* The sink.  OnReply ends the heartbeat and is the turn's answer.          *)
OnReply(reply) == told' = Append(told, reply) /\ typing' = FALSE

EndsTyping(ev) == ev.kind = "turnDone" \/ (ev.kind = "error" /\ ~ev.recoverable)

(* Connector.OnEvent over a batch: startTyping is idempotent, so the last    *)
(* event that matters decides.                                             *)
OnEvents(evs) ==
  LET Matters(ev) == ev.kind = "sessionStarted" \/ EndsTyping(ev)
      ones == SelectSeq(evs, Matters)
  IN  /\ shown' = (shown \/ evs # <<>>)
      /\ typing' = IF ones = <<>> THEN typing ELSE ~EndsTyping(Last(ones))

-----------------------------------------------------------------------------
(* Gateway.Handle admits the next turn of the session (the router holds the  *)
(* session's lock until it is over).                                        *)
BeginTurn ==
  /\ pc = "idle" /\ turns < MaxTurns
  /\ turns' = turns + 1 /\ pc' = "admit" /\ told' = <<>>
  /\ UNCHANGED <<guarded, driver, minted, health, rowVars, localVars, owed, typing>>

(* failTurn, from before the CLI has run: apologise and conclude.           *)
FailTurn ==
  /\ pc \in {"admit", "compose"}
  /\ OnReply("error") /\ Concludes
  /\ UNCHANGED <<lifeVars, rowVars, owed>>

(* startTurn: no slash command.                                           *)
AdmitTurn ==
  /\ pc = "admit" /\ pc' = "compose"
  /\ UNCHANGED <<lifeVars, rowVars, localVars, replyVars>>

(* handleCommand: /reset drops the rows of every driver; a failed DELETE is   *)
(* logged and the command answered all the same.                            *)
SlashCommand ==
  /\ pc = "admit"
  /\ \/ UNCHANGED rowVars
     \/ resumes' = [d \in Drivers |-> NoId] /\ Retires(Stored)
  /\ OnReply("command") /\ Concludes
  /\ UNCHANGED <<lifeVars, owed>>

(* The Console's session.reset deletes the rows without the session's lock,   *)
(* while a turn may already have read one; it ignores a failed DELETE, and    *)
(* answers OK.  Bound: none in the last turn, which no turn follows.         *)
SessionReset ==
  /\ turns < MaxTurns /\ Stored # {}
  /\ resumes' = [d \in Drivers |-> NoId]
  /\ retired' = retired \cup Stored
  /\ held' = (held \ Stored) \cup
              (IF pc \in {"allow", "spawn", "stream", "deliver"} THEN Stored \cap {sid} ELSE {})
  /\ UNCHANGED <<lifeVars, pc, localVars, replyVars>>

(* Store.Resume: this driver's row; a failed read is logged and means none.  *)
Resume(d) == {resumes[d], NoId}

(* prepareAgentRequest, then newIdleGuard.                                 *)
Compose ==
  /\ pc = "compose"
  /\ \E id \in Resume(driver) : sid' = id
  /\ pc' = "allow"
  /\ UNCHANGED <<lifeVars, rowVars, ctx, idleDone, cliVars, attempt, res, gated, buf, shown, ran, cameTo, replyVars>>

(* executeTurn: breaker.allow.                                            *)
AskBreaker ==
  /\ pc = "allow"
  /\ \/ owed' = TRUE /\ pc' = "spawn" /\ UNCHANGED res
     \/ /\ res' = [NoResult EXCEPT !.failed = TRUE, !.transient = TRUE, !.short = TRUE]
        /\ pc' = "deliver" /\ UNCHANGED owed
  /\ UNCHANGED <<lifeVars, rowVars, ctx, idleDone, cliVars, attempt, sid, gated, buf, shown, ran, cameTo, told, typing>>

(* Deviation: a spawn that fails is not reported to the breaker.            *)
QueryFailsUnreported ==
  /\ pc = "spawn" /\ UNCHANGED owed
  /\ OnReply("error") /\ Concludes
  /\ UNCHANGED <<lifeVars, rowVars>>

(* driver.Query fails (fork, exec).                                       *)
QueryFails ==
  /\ pc = "spawn" /\ owed' = FALSE
  /\ OnReply("error") /\ Concludes
  /\ UNCHANGED <<lifeVars, rowVars>>

-----------------------------------------------------------------------------
(* The CLIs, as far as the parsers were written from what they print.        *)
Started(s) ==
  IF driver = "claude" THEN [type |-> "system", subtype |-> "init", sid |-> s]
                       ELSE [type |-> "thread.started", sid |-> s]

Block(b) ==
  IF driver = "claude" THEN [type |-> "assistant", blocks |-> <<b>>]
  ELSE [type |-> "item.completed",
        item |-> CASE b = "text" -> "agent_message" [] b = "tool_use" -> "command_execution"]

Retries(says) ==
  IF driver = "claude" THEN [type |-> "system", subtype |-> "api_retry", status |-> 529, says |-> says]
                       ELSE [type |-> "error", says |-> says]

Done ==
  IF driver = "claude"
    THEN [type |-> "result", subtype |-> "success", isError |-> FALSE, usage |-> TRUE, says |-> {}]
    ELSE [type |-> "turn.completed", usage |-> TRUE]

Failed(subtype, says) ==
  IF driver = "claude"
    THEN [type |-> "result", subtype |-> subtype, isError |-> TRUE, usage |-> TRUE, says |-> says]
    ELSE [type |-> "turn.failed", says |-> says]

Run(v, tool, lines, onErr, ends) ==
  [cameTo |-> v, tool |-> tool, out |-> lines, errs |-> onErr, exit |-> ends]

(* A healthy conversation: it answers, or fails for reasons of the moment, or *)
(* prints a line no scanner takes and counts as failed.                     *)
HealthyRuns(s) ==
  {Run("answer", TRUE, <<Started(s), Block("tool_use"), Block("text"), Done>>, << {"tooLong"} >>, "bad"),
   Run("answer", FALSE, <<Started(s), Retries({"capacity"}), Block("text"), Done>>, <<>>, "good"),
   Run("busy",  FALSE, <<Started(s), Failed("error_during_execution", {"capacity"})>>, << {"capacity"} >>, "bad"),
   Run("error", TRUE,  <<Started(s), Block("tool_use"), Failed("error_during_execution", {})>>, <<>>, "bad"),
   Run("error", TRUE,  <<Started(s), Block("tool_use")>>, << {} >>, "bad"),
   Run("error", TRUE,  <<Started(s), Block("tool_use"), TooLong, Done>>, <<>>, "good"),
   Run("hung",  FALSE, <<Started(s)>>, <<>>, "never")}

(* A request the provider rejects: once resumed, it rejects it every time.   *)
DeadEndRuns(r, s) ==
  {Run(IF r = NoId THEN "error" ELSE "poisoned", TRUE,
       <<Started(s), Block("tool_use"), Failed(c, says)>>, <<>>, "bad") :
     c \in {"error_max_turns"}, says \in {{"deadEnd"}}}

(* An id the CLI no longer knows: claude may also say so on stdout.          *)
UnknownRuns ==
  {Run("stale", FALSE, lines, << {"unknown"} >>, "bad") :
     lines \in {<<>>} \cup IF driver = "claude" THEN {<<Failed("error_during_execution", {"unknown"})>>} ELSE {}}

CliRuns(r, s) ==
  CASE r # NoId /\ health[r] = "gone" -> UnknownRuns
    [] r # NoId /\ health[r] = "sick" -> DeadEndRuns(r, s)
    [] OTHER -> HealthyRuns(s) \cup (IF r = NoId THEN DeadEndRuns(r, s) ELSE {})

(* The session a run works in: the one it resumes, or one never used.        *)
SessionOf(r) == IF r = NoId THEN Unused(minted) ELSE r

(* driver.Query and consumeAgentAttempt's start.  A resumed CLI keeps its id. *)
Spawn ==
  /\ pc = "spawn" /\ pc' = "stream"
  /\ \E run \in CliRuns(sid, SessionOf(sid)) :
       LET s == SessionOf(sid) IN
       /\ minted' = [minted EXCEPT ![s] = driver]
       /\ out' = StdoutEvents(driver, run.out, sid)
       /\ errs' = StderrEvents(driver, run.errs, sid)
       /\ exit' = run.exit /\ cameTo' = run.cameTo
       /\ ran' = IF run.tool THEN ran \cup {attempt} ELSE ran
  /\ sawDone' = FALSE /\ res' = NoResult /\ gated' = (sid # NoId) /\ buf' = <<>> /\ shown' = FALSE
  /\ UNCHANGED <<guarded, driver, health, rowVars, turns, ctx, idleDone, attempt, sid, replyVars>>

(* Between turns a conversation goes bad or is deleted, and the daemon may be *)
(* restarted with another driver (external).                               *)
Decay ==
  /\ pc = "idle" /\ turns \in 1..(MaxTurns - 1)
  /\ \/ /\ \E i \in Ids, h \in {"sick", "gone"} :
             minted[i] # "no" /\ health[i] = "fine" /\ health' = [health EXCEPT ![i] = h]
        /\ UNCHANGED driver
     \/ \E d \in Drivers : d # driver /\ driver' = d /\ UNCHANGED health
  /\ UNCHANGED <<guarded, minted, turns, rowVars, pc, localVars, replyVars>>

-----------------------------------------------------------------------------
(* consumeAgentEvent, for what outlives the event.                         *)
(* Deviation: any error ends the turn.                                    *)
FoldErrorAlways(ev) ==
  IF ev.kind # "error" THEN
    [res EXCEPT !.newResume = IF ev.kind = "sessionStarted" THEN ev.sid ELSE @]
  ELSE [res EXCEPT !.failed = TRUE, !.transient = ev.transient, !.poisoned = ev.poisoned]

FoldEvent(ev) ==
  CASE ev.kind = "sessionStarted" /\ ev.sid # NoId -> [res EXCEPT !.newResume = ev.sid]
    [] ev.kind = "error" /\ ~ev.recoverable ->
         [res EXCEPT !.failed = TRUE, !.transient = ev.transient, !.poisoned = ev.poisoned]
    [] OTHER -> res

(* emitToSink and releaseGate: held until the session is known to be live.   *)
PassThrough(ev) ==
  CASE ~gated -> OnEvents(<<ev>>) /\ UNCHANGED <<gated, buf>>
    [] gated /\ ev.kind = "sessionStarted" ->
         OnEvents(Append(buf, ev)) /\ gated' = FALSE /\ buf' = <<>>
    [] OTHER -> buf' = Append(buf, ev) /\ UNCHANGED <<gated, shown, typing>>

(* One round of consumeAgentAttempt's loop.                               *)
ConsumeEvent(ev) ==
  CASE ev.stale -> /\ res' = [res EXCEPT !.resumeBad = TRUE] /\ buf' = <<>>
                   /\ UNCHANGED <<idleDone, gated, shown, typing>>
    [] ~ev.stale /\ res.resumeBad -> UNCHANGED <<res, idleDone, gated, buf, shown, typing>>
    [] OTHER -> /\ res' = FoldEvent(ev)
                /\ PassThrough(ev)
                /\ idleDone' = (idleDone \/ (guarded /\ ev.kind = "turnDone" /\ ~res.failed))

streamRest == <<lifeVars, rowVars, pc, ctx, attempt, sid, ran, cameTo, owed, told>>

(* drainStdout and drainStderr emit; once the context has ended the select   *)
(* of emitAgentEvent may drop the event instead.                           *)
Emit(ev) ==
  \/ ConsumeEvent(ev)
  \/ ctx # "live" /\ UNCHANGED <<res, idleDone, gated, buf, shown, typing>>

StdoutEvent ==
  /\ pc = "stream" /\ out # <<>>
  /\ out' = Tail(out) /\ sawDone' = (sawDone \/ Head(out).kind = "turnDone")
  /\ Emit(Head(out)) /\ UNCHANGED <<streamRest, errs, exit>>

StderrEvent ==
  /\ pc = "stream" /\ errs # <<>>
  /\ errs' = Tail(errs)
  /\ Emit(Head(errs)) /\ UNCHANGED <<streamRest, out, exit, sawDone>>

(* Both pipes are drained and cmd.Wait reports a failure.                   *)
ExitError ==
  /\ pc = "stream" /\ out = <<>> /\ errs = <<>> /\ exit = "bad"
  /\ exit' = "ended"
  /\ Emit(ExitEvent(sawDone)) /\ UNCHANGED <<streamRest, out, errs, sawDone>>

(* Deviation: cmd.Cancel kills the CLI, and what it forked holds the pipes.  *)
KilledAlone ==
  /\ pc = "stream" /\ ctx # "live" /\ exit # "ended"
  /\ out \o errs # <<>>
  /\ out' = <<>> /\ errs' = <<>> /\ exit' = IF exit = "never" THEN exit ELSE "bad"
  /\ UNCHANGED <<streamRest, sawDone, res, idleDone, gated, buf, shown, typing>>

(* cmd.Cancel kills the process group when the context ends.                *)
Killed ==
  /\ pc = "stream" /\ ctx # "live" /\ exit # "ended"
  /\ out \o errs # <<>> \/ exit = "never"
  /\ out' = <<>> /\ errs' = <<>> /\ exit' = "bad"
  /\ UNCHANGED <<streamRest, sawDone, res, idleDone, gated, buf, shown, typing>>

(* Deviation: a poisoned conversation is retried fresh as a stale one is.   *)
RetriesPoisoned == (res.resumeBad \/ res.poisoned) /\ sid # NoId /\ attempt = 0

ShouldRetryFreshResume == res.resumeBad /\ sid # NoId /\ attempt = 0

(* The channel is closed: flush what is still gated, then retry fresh or go   *)
(* on to deliverTurn.  The store may fail to clear the mapping.             *)
StreamEnds ==
  /\ pc = "stream" /\ out = <<>> /\ errs = <<>> /\ exit \in {"good", "ended"}
  /\ IF res.resumeBad THEN UNCHANGED <<shown, typing>>
     ELSE OnEvents(IF gated THEN buf ELSE <<>>)
  /\ IF ShouldRetryFreshResume
     THEN /\ attempt' = 1 /\ sid' = NoId /\ pc' = "spawn"
          /\ UNCHANGED rowVars \/ ClearsResume
     ELSE pc' = "deliver" /\ UNCHANGED <<attempt, sid, rowVars>>
  /\ exit' = "ended"
  /\ UNCHANGED <<lifeVars, ctx, idleDone, out, errs, sawDone, res, gated, buf, ran, cameTo, owed, told>>

-----------------------------------------------------------------------------
(* The idle guard's timer, and the caller's cancellation.  Only while events *)
(* are awaited does it matter when: deliverTurn asks once, after them.       *)
IdleExpires ==
  /\ guarded /\ pc = "stream" /\ ctx = "live"
  /\ ctx' = "expired"
  /\ UNCHANGED <<lifeVars, rowVars, pc, idleDone, cliVars, attemptVars, replyVars>>

CallerCancels ==
  /\ pc = "stream" /\ ctx = "live" /\ ctx' = "cancelled"
  /\ UNCHANGED <<lifeVars, rowVars, pc, idleDone, cliVars, attemptVars, replyVars>>

Expired == guarded /\ ~idleDone /\ ctx = "expired"

(* handleDispatchTimeout.                                                 *)
DeliverTimeout ==
  /\ pc = "deliver" /\ Expired
  /\ OnReply("timeout") /\ owed' = FALSE /\ Concludes
  /\ UNCHANGED <<lifeVars, rowVars>>

(* handlePoisonedResume.                                                  *)
DeliverPoisoned ==
  /\ pc = "deliver" /\ ~Expired /\ res.poisoned
  /\ UNCHANGED rowVars \/ ClearsResume
  /\ OnReply("poisoned") /\ owed' = FALSE /\ Concludes
  /\ UNCHANGED <<lifeVars>>

(* handleTerminalAgentError; a short-circuited turn is not reported.        *)
DeliverError ==
  /\ pc = "deliver" /\ ~Expired /\ ~res.poisoned /\ res.failed
  /\ OnReply(IF res.transient THEN "busy" ELSE "error")
  /\ (IF res.short THEN UNCHANGED owed ELSE owed' = FALSE) /\ Concludes
  /\ UNCHANGED <<lifeVars, rowVars>>

(* completeSuccessfulTurn, to the reply; a failed write is only logged.      *)
DeliverSuccess ==
  /\ pc = "deliver" /\ ~Expired /\ ~res.poisoned /\ ~res.failed
  /\ \/ UNCHANGED resumes
     \/ res.newResume # NoId /\ resumes' = [resumes EXCEPT ![driver] = res.newResume]
  /\ OnReply("answer") /\ owed' = FALSE /\ pc' = "answered"
  /\ UNCHANGED <<lifeVars, retired, held, localVars>>

(* SaveBotReplySeq, and the turn counts as delivered.                       *)
Finishes ==
  /\ pc = "answered" /\ Concludes
  /\ UNCHANGED <<lifeVars, rowVars, replyVars>>

(* recoverTurn: a panic anywhere but in the sink's OnReply.  One between the   *)
(* answer and delivered = true apologises on top of the answer.             *)
Panics ==
  /\ pc # "idle" /\ owed' = FALSE
  /\ OnReply("error") /\ Concludes
  /\ UNCHANGED <<lifeVars, rowVars>>

(* deliverTurn.                                                            *)
Delivers == DeliverTimeout \/ DeliverPoisoned \/ DeliverError \/ DeliverSuccess

TurnRuns ==
  \/ FailTurn \/ AdmitTurn \/ SlashCommand \/ Compose \/ AskBreaker \/ QueryFails \/ Spawn
  \/ StreamEnds \/ Delivers \/ Finishes

TurnNext ==
  \/ TurnRuns \/ BeginTurn \/ Decay \/ StdoutEvent \/ StderrEvent \/ ExitError \/ Killed
  \/ IdleExpires \/ CallerCancels \/ Panics \/ SessionReset

(* A session whose idle guard is on: the code's own steps, the timer, and     *)
(* the kernel killing the process group it is told to kill.                *)
TurnFairness ==
  /\ WF_turnVars(TurnRuns) /\ WF_turnVars(IdleExpires)
  /\ WF_turnVars(StdoutEvent \/ StderrEvent \/ ExitError \/ Killed)

TurnSpec == TurnInit /\ [][TurnNext]_turnVars /\ TurnFairness

-----------------------------------------------------------------------------
TurnTypeOK ==
  /\ driver \in Drivers /\ ctx \in {"live", "expired", "cancelled"}
  /\ pc \in {"idle", "admit", "compose", "allow", "spawn", "stream", "deliver", "answered"}
  /\ resumes \in [Drivers -> Ids \cup {NoId}] /\ held \subseteq retired /\ retired \subseteq Ids
  /\ exit \in {"good", "bad", "never", "ended"} /\ sid \in Ids \cup {NoId}

(* Every admitted turn answers its user, whatever fails: a slash command, the *)
(* store, the spawn, the CLI, the timer or a panic.  It answers once, except  *)
(* that a panic after the answer adds an apology.                           *)
OneReply ==
  /\ Len(told) <= 1 \/ told = <<"answer", "error">>
  /\ pc = "idle" /\ turns > 0 => told # <<>>

(* A turn the breaker let through has reported an outcome when it is over:   *)
(* a probe that stays silent wedges the breaker half-open.                  *)
ProbeResolved == pc = "idle" => ~owed

(* No typing heartbeat outlives its turn.                                   *)
NoTypingAfterTurn == pc = "idle" => ~typing

(* What a turn leaves behind, on every path out of runTurn.                 *)
TurnSettles == TurnTypeOK /\ OneReply /\ ProbeResolved /\ NoTypingAfterTurn

(* What is resumed was made by this driver and has not been cleared: not by  *)
(* /reset, not as stale, not as poisoned, not by a session.reset of an idle   *)
(* session.  Only the id a turn was resuming when session.reset cleared it    *)
(* can be resumed again: that turn goes on with it, and puts it back.  The    *)
(* retry after a stale id never follows an attempt in which the CLI ran a     *)
(* tool, whose effects would happen twice, and the sink has seen nothing of   *)
(* the doomed attempt.                                                     *)
ResumeSafe ==
  /\ pc \in {"allow", "spawn", "stream"} /\ sid # NoId =>
       minted[sid] = driver /\ sid \notin retired \ held
  /\ attempt = 1 => 0 \notin ran
  /\ pc = "spawn" /\ attempt = 1 => ~shown

ToldAsRun == ~res.short /\ ctx = "live" => told' = <<cameTo>>

(* What the user is told is what the CLI's run came to, whatever the order in *)
(* which stdout, stderr and the exit status are heard.                      *)
ClaudeVerdictTold == [][Delivers /\ driver = "claude" => ToldAsRun]_turnVars

(* codex_parse.go: a terminal upstream failure yields busyReply.  It does not, *)
(* in a conversation of its own either: codex exits non-zero after            *)
(* turn.failed, and the exit error that follows takes the failure's place.    *)
CodexVerdictTold ==
  [][Delivers /\ driver = "codex" /\ resumes[driver] = NoId /\ sid = NoId /\ cameTo = "busy"
       => ToldAsRun]_turnVars

(* With an idle timeout a turn ends, though the CLI hang for ever: its lock    *)
(* is not held for ever.                                                   *)
HungTurnEnds == guarded => (pc # "idle" ~> pc = "idle")
==============================================================================
