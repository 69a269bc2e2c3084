----------------------------- MODULE ToolSurface -----------------------------
(***********************************************************************)
(* The tools a spawned claude is given.  The policy is read from           *)
(* config.json on every turn (config.ToolPolicyFor, Resolve); the surface  *)
(* of a turn without one is probed from the binary and cached per path      *)
(* (agent/claude.go).                                                      *)
(*                                                                        *)
(* The turns of different sessions are prepared concurrently, while the     *)
(* operator edits the file and a background install moves the binary; the   *)
(* probe runs outside the lock.  A read of the file may fail at any time.   *)
(***********************************************************************)
EXTENDS Naturals, FiniteSets

CONSTANTS
  Policies,    \* what config.json may hold for the bot, for one channel
  Queries,     \* turns that are prepared
  Binaries,    \* the paths binPath may return
  RetryAfter,  \* toolProbeRetryInterval, in ticks
  MaxEdits     \* bound: edits of the file

Interactive == {"AskUserQuestion"}        \* interactiveExclusions
Mcp == "mcp__*"
Malformed == {"*"}                        \* names toolNameValid refuses
Names == {"Read", "Edit", Mcp} \cup Interactive \cup Malformed

(* A Go slice, nil or not; an entry of Channels that may be missing.        *)
Nil == [given |-> FALSE, names |-> {}]
List(names) == [given |-> TRUE, names |-> names]
Lists == {Nil} \cup {List(ns) : ns \in SUBSET Names}
Missing == [has |-> FALSE, list |-> Nil]
Entry(l) == [has |-> TRUE, list |-> l]
NoPolicy == [default |-> Nil, channel |-> Missing]   \* a nil *ToolPolicy

ASSUME ToolsAssumption ==
  /\ RetryAfter \in Nat \ {0} /\ MaxEdits \in Nat
  /\ Policies \subseteq [default : Lists, channel : {Missing} \cup {Entry(l) : l \in Lists}]

VARIABLES
  startup,   \* cfg.Agent.Tools: the policy at the start
  file,      \* the policy config.json holds
  edits,     \* edits so far
  binary,    \* what binPath returns now
  has,       \* [Binaries -> the built-in tools the binary there has] (external)
  probes,    \* [Binaries -> toolsCache entry]
  query      \* [Queries -> where a turn is, and what it goes by]

toolsVars == <<startup, file, edits, binary, has, probes, query>>

Probe(state, age) == [state |-> state, age |-> age]
NotProbed == Probe("none", 0)
Fallback == {"default"}   \* --tools default: all the CLI has

(* inForce and bins are ghosts: the policies and the paths there have been    *)
(* between the turn's start and its reading of the one and of the other; the  *)
(* policy of the start too, when that reading fails.                        *)
Idle == [at |-> "idle", inForce |-> {}, bins |-> {}, policy |-> Nil, mcp |-> FALSE,
         bin |-> CHOOSE b \in Binaries : TRUE, tools |-> {}, basis |-> NotProbed]

-----------------------------------------------------------------------------
(* The policy.                                                             *)

(* validateToolNames: a malformed name, at startup, fails the whole roster. *)
ValidNames(l) == l.names \cap Malformed = {}

(* filterValidToolNames: a list of malformed names only counts as not given. *)
FilterValidToolNames(l) ==
  LET valid == l.names \ Malformed
  IN  IF l.names # {} /\ valid = {} THEN Nil ELSE [l EXCEPT !.names = valid]

SanitizeToolPolicy(p) ==
  LET l == p.channel.list
      f == FilterValidToolNames(l)
  IN  [default |-> FilterValidToolNames(p.default),
       channel |-> IF l.given /\ ~f.given THEN Missing ELSE [p.channel EXCEPT !.list = f]]

(* ToolPolicy.Resolve, and Request.AllowedTools after it: nil when nothing  *)
(* is configured.                                                         *)
AllowedTools(p) ==
  CASE p.channel.has -> p.channel.list
    [] ~p.channel.has /\ p.default.given -> p.default
    [] OTHER -> Nil

(* Deviation: a policy that is gone from the file is taken from the start's.  *)
KeepsSnapshot(ok) ==
  IF ok /\ file # NoPolicy THEN AllowedTools(SanitizeToolPolicy(file)) ELSE AllowedTools(startup)

(* botToolResolver: the policy the file holds, sanitised, or, when the file  *)
(* or the bot in it cannot be read, the one of the start.                  *)
Resolved(ok) == IF ok THEN AllowedTools(SanitizeToolPolicy(file)) ELSE AllowedTools(startup)

-----------------------------------------------------------------------------
(* The surface.                                                            *)

FilterTools(names) == names \ Interactive

WithMCPWildcard(names, mcp) == IF mcp THEN names \cup {Mcp} ELSE names

(* appendHeadlessArgs for a list: never an interactive tool, and nothing    *)
(* is added to it, MCP or no MCP.                                          *)
Whitelist(l, mcp) == FilterTools(l.names)

(* ... and for none, with what the probe of the binary gave.                *)
DefaultTools(p, b, mcp) ==
  IF p.state = "ok" THEN WithMCPWildcard(FilterTools(has[b]), mcp) ELSE Fallback

(* headlessTools: an entry is good for ever, a failure for a while.         *)
Cached(p) == p.state = "ok" \/ (p.state = "failed" /\ p.age < RetryAfter)

ToolsInit ==
  /\ startup \in {p \in Policies : ValidNames(p.default) /\ ValidNames(p.channel.list)}
  /\ file = startup /\ edits = 0
  /\ binary \in Binaries
  /\ has \in [Binaries -> {Interactive, {"Read", "Edit"} \cup Interactive}]
  /\ probes = [b \in Binaries |-> NotProbed]
  /\ query = [q \in Queries |-> Idle]

(* The desktop's SetChannelTools, or a person with an editor.               *)
EditPolicy ==
  /\ edits < MaxEdits /\ edits' = edits + 1
  /\ \E p \in Policies \ {file} :
       /\ file' = p
       /\ query' = [t \in Queries |-> IF query[t].at = "begun"
                      THEN [query[t] EXCEPT !.inForce = @ \cup {p}] ELSE query[t]]
  /\ UNCHANGED <<startup, binary, has, probes>>

(* resolveAgentBin: a background install puts a managed binary in front of   *)
(* the one on PATH, or it is removed.                                      *)
BinaryMoves ==
  /\ \E b \in Binaries \ {binary} :
       /\ binary' = b
       /\ query' = [t \in Queries |-> IF query[t].at \in {"begun", "resolved"}
                      THEN [query[t] EXCEPT !.bins = @ \cup {b}] ELSE query[t]]
  /\ UNCHANGED <<startup, file, edits, has, probes>>

rest == <<startup, file, edits, binary, has>>

(* prepareAgentRequest, up to the policy, and the read of it.               *)
TurnBegins(t) ==
  /\ query[t].at = "idle"
  /\ query' = [query EXCEPT ![t] = [Idle EXCEPT !.at = "begun", !.inForce = {file}, !.bins = {binary}]]
  /\ UNCHANGED <<rest, probes>>

ResolveTools(t) ==
  /\ query[t].at = "begun"
  /\ \E ok \in BOOLEAN :
       query' = [query EXCEPT ![t].at = "resolved", ![t].policy = Resolved(ok),
                              ![t].inForce = IF ok THEN @ ELSE @ \cup {startup}]
  /\ UNCHANGED <<rest, probes>>

(* The value of --tools, and the probe it goes by.                         *)
WithTools(q, tools, basis) ==
  [Idle EXCEPT !.at = "spawned", !.inForce = q.inForce, !.bins = q.bins, !.tools = tools, !.basis = basis]

(* buildArgs, up to the cache.  Query has asked binPath for the binary to     *)
(* spawn before; headlessTools asks again for the one to probe.             *)
BuildArgs(t) ==
  /\ query[t].at = "resolved"
  /\ \E mcp \in BOOLEAN :
       LET p == probes[binary]
           l == query[t].policy
           q == [query[t] EXCEPT !.mcp = mcp, !.bin = binary]
       IN  query' = [query EXCEPT ![t] =
             IF l.given THEN WithTools(q, Whitelist(l, mcp), NotProbed)
             ELSE IF Cached(p) THEN WithTools(q, DefaultTools(p, binary, mcp), p)
             ELSE [q EXCEPT !.at = "probing"]]
  /\ UNCHANGED <<rest, probes>>

(* probeInit in a child process, then the lock again: the binary cannot be    *)
(* asked, or has no tool that is safe, or has some.                        *)
ProbeLands(t) ==
  /\ query[t].at = "probing"
  /\ \E p \in {Probe("ok", 0), Probe("failed", 0)} :
       /\ p.state = "ok" => FilterTools(has[query[t].bin]) # {}
       /\ probes' = [probes EXCEPT ![query[t].bin] = p]
       /\ query' = [query EXCEPT ![t] = WithTools(@, DefaultTools(p, @.bin, @.mcp), p)]
  /\ UNCHANGED rest

QueryEnds(t) ==
  /\ query[t].at = "spawned"
  /\ query' = [query EXCEPT ![t] = Idle]
  /\ UNCHANGED <<rest, probes>>

ToolsTick ==
  /\ \E b \in Binaries : probes[b].state = "failed" /\ probes[b].age < RetryAfter
  /\ probes' = [b \in Binaries |->
       IF probes[b].state = "failed" /\ probes[b].age < RetryAfter
         THEN [probes[b] EXCEPT !.age = @ + 1] ELSE probes[b]]
  /\ UNCHANGED <<rest, query>>

ToolsNext ==
  \/ ToolsTick \/ BinaryMoves \/ EditPolicy
  \/ \E t \in Queries : TurnBegins(t) \/ ResolveTools(t) \/ BuildArgs(t) \/ ProbeLands(t) \/ QueryEnds(t)

ToolsSpec == ToolsInit /\ [][ToolsNext]_toolsVars

-----------------------------------------------------------------------------
(* What the operator has said of the conversation in a policy: the list of    *)
(* the channel, unless all of it is malformed, or the bot's.  A null in the    *)
(* place of the channel's list lifts the bot's restriction.                 *)
Meant(l) == l.given /\ (l.names = {} \/ l.names \ Malformed # {})
Ruling(p) ==
  IF p.channel.has /\ (Meant(p.channel.list) \/ ~p.channel.list.given)
    THEN p.channel.list ELSE p.default

(* All the CLI has, when the probe has failed a moment ago.                *)
IsFallback(q) == q.tools = Fallback /\ q.basis.state = "failed" /\ q.basis.age < RetryAfter

(* What a binary on the path has, but the interactive tools.               *)
IsSurfaceOf(q, b) ==
  LET safe == has[b] \ Interactive
  IN  safe # {} /\ (q.tools = safe \/ q.tools = safe \cup {Mcp})

(* A turn gets the tools of a policy that was in force after it began, and no *)
(* others: an edit made before the turn holds, a restriction that was          *)
(* lifted is lifted.  Only when the file cannot be read may it be the policy   *)
(* of the daemon's start, however old and wide.  Where the policy names no     *)
(* tools they are those of a binary that was on the path since then, without   *)
(* the ones that ask a terminal, or, after a probe that failed a moment ago,   *)
(* all the CLI has (bot.go:424-450, claude.go:228-276, 294-344).             *)
ToolsScoped ==
  \A t \in Queries : query[t].at = "spawned" =>
    \E p \in query[t].inForce :
      IF Meant(Ruling(p)) THEN query[t].tools = Ruling(p).names \ (Malformed \cup Interactive)
      ELSE IsFallback(query[t]) \/ \E b \in query[t].bins : IsSurfaceOf(query[t], b)
=============================================================================
