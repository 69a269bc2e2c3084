------------------------------ MODULE MCDesktop ------------------------------
(***************************************************************************)
(* The desktop's own parts in one run: the bridge to the daemon, what is   *)
(* kept of the bots, and the two companion binaries.  They share no state, *)
(* so part says which one a behaviour is about, and the others stay where  *)
(* they began.                                                             *)
(***************************************************************************)
EXTENDS Bridge, ConfigStore, Installer, TLC

VARIABLE part

allVars == <<part, bridgeVars, configVars, installVars>>

(* Claude's part is that of an app whose bundle is refused.                 *)
RefusedBundle == [binary |-> Binary(1, FALSE), production |-> TRUE, sidecar |-> "hash"]

MCInit ==
  /\ part \in {"bridge", "config", "keyring"} \cup Tools
  /\ BridgeInit /\ ConfigInit /\ InstallInit
  /\ part # "octo-cli" => bundle = RefusedBundle

OnlyItsJobs == \A j \in Jobs : job'[j] # Idle => job'[j].tool = part

OfBridge(A) == part = "bridge" /\ A /\ UNCHANGED <<part, configVars, installVars>>
(* Two editors, or one and a keyring that comes and goes.                  *)
OneOrTheOther ==
  IF part = "config" THEN UNCHANGED keyringUp
                     ELSE Cardinality({e \in Editors : editor'[e] # {}}) <= 1

OfConfig(A) == part \in {"config", "keyring"} /\ A /\ UNCHANGED <<part, bridgeVars, installVars>>
OfTools(A) == part \in Tools /\ A /\ UNCHANGED <<part, bridgeVars, configVars>>

MCNext ==
  \/ OfBridge(BridgeNext)
  \/ OfConfig(ConfigNext /\ OneOrTheOther)
  \/ OfTools(InstallNext /\ OnlyItsJobs)

MCSpec == MCInit /\ [][MCNext]_allVars

(* Nothing tells two editors apart.                                         *)
Alike == Permutations(Editors)
=============================================================================
