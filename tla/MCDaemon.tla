------------------------------ MODULE MCDaemon ------------------------------
(***********************************************************************)
(* Three parts the daemon is wired of, in one run: the control bus, the    *)
(* life cycle, and the tools the turns of a bot are given.  The first two   *)
(* meet at session.send only, which each models from its own side, and the *)
(* third shares no state with them: part says which of the three a          *)
(* behaviour is about, and the others stay where they began.              *)
(***********************************************************************)
EXTENDS ControlBus, Daemon, ToolSurface

(* One policy of each kind: none; a muzzle; a null in front of a list; a       *)
(* malformed list in front of one, partly malformed, that names an interactive *)
(* tool.                                                                    *)
MCPolicies ==
  {NoPolicy,
   [default |-> List({}), channel |-> Missing],
   [default |-> List({"Read"}), channel |-> Entry(Nil)],
   [default |-> List({Mcp, "AskUserQuestion", "*"}), channel |-> Entry(List({"*"}))]}

VARIABLE part

allVars == <<part, busVars, daemonVars, toolsVars>>

(* One of the binaries has tools that are safe, the other has none.          *)
MCInit ==
  /\ part \in {"bus", "daemon", "tools"}
  /\ BusInit /\ DaemonInit /\ ToolsInit
  /\ has[Idle.bin] # Interactive /\ \E b \in Binaries : has[b] = Interactive
  /\ part # "bus" => gate = "empty"
  /\ part # "daemon" => mode = "config"
  /\ part # "tools" => startup = NoPolicy /\ binary = Idle.bin

OfBus(A) == part = "bus" /\ A /\ UNCHANGED <<part, daemonVars, toolsVars>>
OfDaemon(A) == part = "daemon" /\ A /\ UNCHANGED <<part, busVars, toolsVars>>
OfTools(A) == part = "tools" /\ A /\ UNCHANGED <<part, busVars, daemonVars>>

MCNext == OfBus(BusNext) \/ OfDaemon(DaemonNext) \/ OfTools(ToolsNext)

MCFairness ==
  /\ WF_allVars(OfBus(BusRuns))
  /\ WF_allVars(OfDaemon(DaemonRuns))
  /\ \A b \in Bots : WF_allVars(OfDaemon(ImTurnEnds(b)))

MCSpec == MCInit /\ [][MCNext]_allVars /\ MCFairness
=============================================================================
