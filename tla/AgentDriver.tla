----------------------------- MODULE AgentDriver -----------------------------
(***********************************************************************)
(* core/agent: what a driver makes of the CLI it spawns.  stream.go is   *)
(* common; claude_parse.go and codex_parse.go turn a line of stdout into  *)
(* AgentEvents, claude.go and codex.go a line of stderr, classify.go      *)
(* says which errors are the upstream's and which are baked into the      *)
(* resumed conversation.                                                  *)
(*                                                                       *)
(* A message is the set of the signatures the regular expressions find    *)
(* in it: "capacity" (transientUpstreamRE), "deadEnd" (poisonedResumeRE),  *)
(* "unknown" (the CLI does not know the id it is told to resume).          *)
(***********************************************************************)
EXTENDS Integers, Sequences, SequencesExt

Drivers == {"claude", "codex"}
NoId == "none"   \* the empty resume id

Event(kind) ==
  [kind |-> kind, sid |-> NoId, usage |-> FALSE, says |-> {}, class |-> "",
   recoverable |-> FALSE, stale |-> FALSE, transient |-> FALSE, poisoned |-> FALSE]

IsTransientUpstream(says) == "capacity" \in says

(* classify.go isPoisonedResume: a transient error is never poison.        *)
IsPoisonedResume(class, says) ==
  /\ ~IsTransientUpstream(says)
  /\ class = "error_max_turns" \/ "deadEnd" \in says

ErrorEvent(says, recoverable) ==
  [Event("error") EXCEPT !.says = says, !.recoverable = recoverable,
                         !.transient = IsTransientUpstream(says)]

(* tagPoisonedResume: terminal errors of a turn that resumed something.    *)
TagPoisonedResume(evs, sid) ==
  LET Poison(ev) == /\ sid # NoId /\ ev.kind = "error"
                    /\ ~ev.recoverable /\ ~ev.transient /\ ~ev.stale
                    /\ IsPoisonedResume(ev.class, ev.says)
  IN  [i \in DOMAIN evs |-> [evs[i] EXCEPT !.poisoned = Poison(evs[i])]]

-----------------------------------------------------------------------------
(* claude -p --output-format stream-json: one record a line.               *)
ClaudeSystemEvents(l) ==
  CASE l.subtype = "init" -> << [Event("sessionStarted") EXCEPT !.sid = l.sid] >>
    [] l.subtype = "api_retry" ->
         << [ErrorEvent(l.says, TRUE) EXCEPT !.transient = @ \/ l.status \in {429, 503, 529}] >>
    [] OTHER -> << Event("system") >>

ClaudeBlockEvents(b) ==
  CASE b = "text"     -> << Event("textDelta") >>
    [] b = "thinking" -> << Event("thinking") >>
    [] b = "tool_use" -> << Event("toolUse") >>
    [] OTHER -> <<>>

ClaudeUserBlockEvents(b) == IF b = "tool_result" THEN << Event("toolResult") >> ELSE <<>>

EventsOfBlocks(blocks, EventsOf(_)) ==
  FlattenSeq([i \in DOMAIN blocks |-> EventsOf(blocks[i])])

(* A failed result is an error and the end of the turn, in that order.     *)
ClaudeResultEvents(l) ==
  LET done == [Event("turnDone") EXCEPT !.usage = l.usage]
  IN  IF ~l.isError THEN <<done>>
      ELSE << [ErrorEvent(l.says, FALSE) EXCEPT !.class = l.subtype], done >>

ParseClaudeLine(l) ==
  CASE l.type = "system"    -> ClaudeSystemEvents(l)
    [] l.type = "assistant" -> EventsOfBlocks(l.blocks, ClaudeBlockEvents)
    [] l.type = "user"      -> EventsOfBlocks(l.blocks, ClaudeUserBlockEvents)
    [] l.type = "result"    -> ClaudeResultEvents(l)
    [] OTHER -> << Event("system") >>

(* claude.go stderrLineEvent: all of stderr is recoverable.                *)
ClaudeStderrEvent(says, sid) ==
  IF sid # NoId /\ "unknown" \in says
    THEN [ErrorEvent(says, TRUE) EXCEPT !.stale = TRUE, !.transient = FALSE]
    ELSE ErrorEvent(says, TRUE)

-----------------------------------------------------------------------------
(* codex exec --json.                                                      *)
CodexItemEvents(item) ==
  CASE item = "agent_message"     -> << Event("textDelta") >>
    [] item = "command_execution" -> << Event("toolUse") >>
    [] item = "reasoning"         -> << Event("thinking") >>
    [] OTHER -> <<>>

ParseCodexLine(l) ==
  CASE l.type = "thread.started" -> << [Event("sessionStarted") EXCEPT !.sid = l.sid] >>
    [] l.type = "item.completed" -> CodexItemEvents(l.item)
    [] l.type = "turn.completed" -> << [Event("turnDone") EXCEPT !.usage = l.usage] >>
    [] l.type = "turn.failed"    -> << ErrorEvent(l.says, FALSE) >>
    [] l.type = "error"          -> << ErrorEvent(l.says, TRUE) >>
    [] OTHER -> << Event("system") >>

(* codex.go codexStderrEvent: "stdin" is the line it prints on every turn;  *)
(* nothing on stderr is ever the upstream's.                               *)
CodexStderrEvent(says, sid) ==
  CASE "stdin" \in says -> Event("system")
    [] sid # NoId /\ "unknown" \in says ->
         [Event("error") EXCEPT !.says = says, !.recoverable = TRUE, !.stale = TRUE]
    [] OTHER -> [Event("error") EXCEPT !.says = says, !.recoverable = TRUE]

-----------------------------------------------------------------------------
(* A line over the scanner's 16 MiB (on stderr, a line that has "tooLong").   *)
TooLong == [type |-> "tooLong"]

(* The lineParser and the stderrParser each Query hands to streamCommand, and *)
(* what the drain says of a line too long: fatal on stdout, not on stderr.    *)
ParseOut(driver, l, sid) ==
  IF l.type = "tooLong" THEN << ErrorEvent({}, FALSE) >>
  ELSE TagPoisonedResume(IF driver = "claude" THEN ParseClaudeLine(l) ELSE ParseCodexLine(l), sid)

ParseErr(driver, says, sid) ==
  CASE "tooLong" \in says -> ErrorEvent({}, TRUE)
    [] "tooLong" \notin says /\ driver = "claude" -> ClaudeStderrEvent(says, sid)
    [] "tooLong" \notin says /\ driver = "codex" -> CodexStderrEvent(says, sid)

(* drainStdout's and drainStderr's events for a whole run of the CLI.  A      *)
(* drain ends with a line too long; what the CLI prints after it is not read. *)
StdoutEvents(driver, lines, sid) ==
  LET Read(i) == \A j \in 1..(i - 1) : lines[j].type # "tooLong"
  IN  FlattenSeq([i \in DOMAIN lines |-> IF Read(i) THEN ParseOut(driver, lines[i], sid) ELSE <<>>])

StderrEvents(driver, lines, sid) ==
  LET Read(i) == \A j \in 1..(i - 1) : "tooLong" \notin lines[j]
  IN  FlattenSeq([i \in DOMAIN lines |-> IF Read(i) THEN << ParseErr(driver, lines[i], sid) >> ELSE <<>>])

(* streamCommand, when cmd.Wait reports a failure: recoverable when the      *)
(* turn was already done.  Not seen by tagPoisonedResume.                   *)
ExitEvent(sawTurnDone) == ErrorEvent({}, sawTurnDone)

==============================================================================
