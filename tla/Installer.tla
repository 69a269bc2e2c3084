----------------------------- MODULE Installer -----------------------------
(***********************************************************************)
(* The companion binaries of the desktop app in ~/.octobuddy/bin:         *)
(* octo-cli (internal/octocli) and claude (internal/claudecli), and the   *)
(* tool surface probed from the latter (internal/toolset).                *)
(*                                                                       *)
(* A binary is the version it is of and whether its bytes are the         *)
(* published ones.  Files are replaced by rename; between two of those    *)
(* the app may end.  The newest release never gets older.                 *)
(***********************************************************************)
EXTENDS Naturals, FiniteSets

CONSTANTS Jobs,         \* the menu's goroutines
          MaxVersion    \* bound on releases

ASSUME InstallerAssumption == MaxVersion \in Nat \ {0} /\ IsFiniteSet(Jobs)

Tools == {"octo-cli", "claude"}

VARIABLES
  app,          \* down, starting (EnsureInstalled of octo-cli), ready, up
  bundle,       \* what the app ships of octo-cli
  latest,       \* the newest release
  bin, prev,    \* [Tools -> binary]
  stamp,        \* [Tools -> the version file, 0 for none]
  job,          \* [Jobs -> what each is doing]
  installing,   \* claudecli.installing
  due,          \* toolset.Refresh has been called
  refresh,      \* where it is
  cache,        \* config.json's toolset
  had           \* history: [Tools -> the versions that were put in place]

files == <<bin, prev, stamp>>
surface == <<due, refresh, cache>>
installVars == <<app, bundle, latest, bin, prev, stamp, job, installing, due, refresh, cache, had>>

Binary(v, ok) == [ver |-> v, ok |-> ok]
None == Binary(0, TRUE)
Binaries == {None} \cup [ver : 1..MaxVersion, ok : BOOLEAN]

OnPath == MaxVersion + 1        \* the tools of the claude on PATH
NoRefresh == [at |-> "idle", managed |-> FALSE, label |-> 0]
Idle == [tool |-> "octo-cli", at |-> "idle", new |-> None]

(* The bundle of a release carries a version file; a dev build does not.    *)
Bundles ==
  [binary : Binaries \ {None}, production : BOOLEAN, sidecar : {"hash", "missing", "malformed"}]

InstallInit ==
  /\ app = "down" /\ bundle \in Bundles /\ latest = 1
  /\ bin = [t \in Tools |-> None] /\ prev = bin
  /\ stamp = [t \in Tools |-> 0]
  /\ job = [j \in Jobs |-> Idle] /\ installing = FALSE
  /\ due = FALSE /\ refresh = NoRefresh
  /\ cache = [label |-> 0, tools |-> 0]
  /\ had = [t \in Tools |-> {}]

-----------------------------------------------------------------------------
(* Where a job goes.                                                        *)

InstalledVersion(t) == IF bin[t] = None THEN 0 ELSE stamp[t]

To(j, place) == job' = [job EXCEPT ![j].at = place]

Begin(j, t, place, new) ==
  /\ job[j] = Idle
  /\ job' = [job EXCEPT ![j] = [tool |-> t, at |-> place, new |-> new]]

(* It is over; claude's says so to the tray, which probes the tools.        *)
End(j) ==
  /\ job' = [job EXCEPT ![j] = Idle]
  /\ installing' = (installing /\ job[j].tool # "claude")
  /\ due' = (due \/ job[j].tool = "claude")
  /\ app' = IF app = "starting" THEN "ready" ELSE app
  /\ UNCHANGED <<refresh, cache>>

-----------------------------------------------------------------------------
(* Start: the bundled octo-cli first, and then the rest.                    *)

Launch ==
  /\ app = "down" /\ app' = "starting"
  /\ UNCHANGED <<bundle, latest, files, job, installing, surface, had>>

BundledVersion == IF bundle.production THEN bundle.binary.ver ELSE 0

BaselineWanted == bin["octo-cli"] = None \/ BundledVersion > InstalledVersion("octo-cli")

(* verifyBundledBytes.                                                      *)
BundleVerified ==
  \/ bundle.sidecar = "hash" /\ bundle.binary.ok
  \/ bundle.sidecar = "missing" /\ ~bundle.production

BaselineStarts(j) ==
  /\ app = "starting" /\ \A i \in Jobs : job[i] = Idle
  /\ BaselineWanted /\ BundleVerified
  /\ Begin(j, "octo-cli", "swap", bundle.binary)
  /\ UNCHANGED <<app, bundle, latest, files, installing, surface, had>>

BaselineSkipped ==
  /\ app = "starting" /\ \A j \in Jobs : job[j] = Idle
  /\ ~(BaselineWanted /\ BundleVerified)
  /\ app' = "ready"
  /\ UNCHANGED <<bundle, latest, files, job, installing, surface, had>>

(* claudecli.EnsureInstalled, or OCTOBUDDY_SKIP_CLAUDE_INSTALL is set.      *)
EnsureClaude(j) ==
  /\ app = "ready" /\ bin["claude"] = None /\ ~installing
  /\ app' = "up" /\ installing' = TRUE
  /\ Begin(j, "claude", "fetch", None)
  /\ due' \in {due, TRUE}
  /\ UNCHANGED <<bundle, latest, files, refresh, cache, had>>

ClaudeLeftAlone ==
  /\ app = "ready" /\ app' = "up"
  /\ UNCHANGED <<bundle, latest, files, job, installing, surface, had>>

-----------------------------------------------------------------------------
(* Upgrade.                                                                 *)

(* Nothing keeps a second one from starting.                                *)
UpgradeOcto(j) ==
  /\ app = "up"
  /\ Begin(j, "octo-cli", "fetch", None)
  /\ UNCHANGED <<app, bundle, latest, files, installing, surface, had>>

UpgradeClaude(j) ==
  /\ app = "up" /\ ~installing
  /\ installing' = TRUE /\ due' = TRUE
  /\ Begin(j, "claude", "fetch", None)
  /\ UNCHANGED <<app, bundle, latest, files, refresh, cache, had>>

(* Deviation: no entry for the asset, nothing to compare with.              *)
VerifiedIfListed(listed, ok) == listed => ok

(* verifyChecksum.                                                          *)
Verified(listed, ok) == listed /\ ok

(* The entry of that name; an archive without one fails.                    *)
ExtractBinary(v, ok) == Binary(v, ok)

(* latestRelease, download, verifyChecksum, extractBinary.                  *)
Fetched(j) ==
  /\ job[j].at = "fetch"
  /\ \E listed, ok \in BOOLEAN :
       /\ Verified(listed, ok)
       /\ job' = [job EXCEPT ![j].at = "snapshot", ![j].new = ExtractBinary(latest, ok)]
  /\ UNCHANGED <<app, bundle, latest, files, installing, surface, had>>

FetchFails(j) ==
  /\ job[j].at = "fetch"
  /\ End(j)
  /\ UNCHANGED <<bundle, latest, files, had>>

(* Best effort: octo-cli is copied, claude is moved away.                   *)
Snapshot(j) ==
  /\ job[j].at = "snapshot"
  /\ To(j, "swap")
  /\ LET t == job[j].tool
     IN  \/ UNCHANGED <<bin, prev>>
         \/ /\ bin[t] # None
            /\ prev' = [prev EXCEPT ![t] = bin[t]]
            /\ bin' = IF t = "claude" THEN [bin EXCEPT ![t] = None] ELSE bin
  /\ UNCHANGED <<app, bundle, latest, stamp, installing, surface, had>>

(* SafeWriteAbs.                                                            *)
Swapped(j) ==
  /\ job[j].at = "swap"
  /\ LET t == job[j].tool
     IN  /\ bin' = [bin EXCEPT ![t] = job[j].new]
         /\ had' = [had EXCEPT ![t] = @ \cup {job[j].new.ver}]
  /\ To(j, "stamp")
  /\ UNCHANGED <<app, bundle, latest, prev, stamp, installing, surface>>

SwapFails(j) ==
  /\ job[j].at = "swap"
  /\ End(j)
  /\ UNCHANGED <<bundle, latest, files, had>>

(* writeVersion; a dev build's baseline has none.  octocli ignores an       *)
(* error, claudecli returns it.                                             *)
Stamps(j) ==
  /\ job[j].at = "stamp"
  /\ LET v == IF app = "starting" THEN BundledVersion ELSE job[j].new.ver
     IN  stamp' \in {stamp} \cup {[stamp EXCEPT ![job[j].tool] = w] : w \in {v} \ {0}}
  /\ End(j)
  /\ UNCHANGED <<bundle, latest, bin, prev, had>>

-----------------------------------------------------------------------------
(* toolset.Refresh, one at a time: refreshMu.                               *)

LoadToolset ==
  /\ app = "up" /\ ~due /\ due' = TRUE
  /\ UNCHANGED <<app, bundle, latest, files, job, installing, refresh, cache, had>>

(* ResolvedBinPath, before the version is read.                             *)
RefreshStarts ==
  /\ app = "up" /\ due /\ refresh.at = "idle"
  /\ due' = FALSE
  /\ refresh' = [at |-> "resolved", managed |-> bin["claude"] # None, label |-> 0]
  /\ UNCHANGED <<app, bundle, latest, files, job, installing, cache, had>>

Current(v) == cache.tools # 0 /\ cache.label = v

RefreshReads ==
  /\ refresh.at = "resolved"
  /\ LET v == InstalledVersion("claude")
     IN  refresh' = IF Current(v) THEN NoRefresh ELSE [refresh EXCEPT !.at = "probing", !.label = v]
  /\ UNCHANGED <<app, bundle, latest, files, job, installing, due, cache, had>>

(* The label of what is cached, read before the probe.                      *)
Label == refresh.label

(* Of the managed binary if it is still there; none if it fails.            *)
ProbedTools ==
  IF ~refresh.managed THEN {OnPath} ELSE {bin["claude"].ver} \ {0}

RefreshEnds ==
  /\ refresh.at = "probing"
  /\ refresh' = NoRefresh
  /\ cache' \in {cache} \cup [label : {Label}, tools : ProbedTools]
  /\ UNCHANGED <<app, bundle, latest, files, job, installing, due, had>>

-----------------------------------------------------------------------------
(* Outside.                                                                 *)

Release ==
  /\ latest < MaxVersion /\ latest' = latest + 1
  /\ UNCHANGED <<app, bundle, files, job, installing, surface, had>>

(* The app ends at any point; files stay, memory does not.                  *)
AppEnds ==
  /\ app # "down" /\ app' = "down"
  /\ job' = [j \in Jobs |-> Idle] /\ installing' = FALSE
  /\ due' = FALSE /\ refresh' = NoRefresh
  /\ UNCHANGED <<bundle, latest, files, cache, had>>

AppUpdated ==
  /\ app = "down"
  /\ \E b \in Bundles :
       /\ bundle.production /\ b.production /\ b.binary.ver > bundle.binary.ver
       /\ bundle' = b
  /\ UNCHANGED <<app, latest, files, job, installing, surface, had>>

InstallNext ==
  \/ Launch \/ BaselineSkipped \/ ClaudeLeftAlone
  \/ \E j \in Jobs :
       \/ BaselineStarts(j) \/ EnsureClaude(j) \/ UpgradeOcto(j) \/ UpgradeClaude(j)
       \/ Fetched(j) \/ FetchFails(j) \/ Snapshot(j)
       \/ Swapped(j) \/ SwapFails(j) \/ Stamps(j)
  \/ LoadToolset \/ RefreshStarts \/ RefreshReads \/ RefreshEnds
  \/ Release \/ AppEnds \/ AppUpdated

InstallSpec == InstallInit /\ [][InstallNext]_installVars

-----------------------------------------------------------------------------
InstallTypeOK ==
  /\ app \in {"down", "starting", "ready", "up"}
  /\ bundle \in Bundles /\ latest \in 1..MaxVersion
  /\ bin \in [Tools -> Binaries] /\ prev \in [Tools -> Binaries]
  /\ stamp \in [Tools -> 0..MaxVersion]
  /\ job \in [Jobs -> [tool : Tools, at : {"idle", "fetch", "snapshot", "swap", "stamp"}, new : Binaries]]
  /\ installing \in BOOLEAN /\ due \in BOOLEAN
  /\ refresh \in [at : {"idle", "resolved", "probing"}, managed : BOOLEAN, label : 0..MaxVersion]
  /\ cache \in [label : 0..MaxVersion, tools : 0..OnPath]
  /\ had \in [Tools -> SUBSET (1..MaxVersion)]

(* "a missing sidecar logs a warning and returns the buffer unverified".     *)
Unchecked(t) == t = "octo-cli" /\ ~bundle.production /\ bundle.sidecar = "missing"

(* "we never install an unverified binary" (octocli.go:297), from a release *)
(* or from the bundle, except from that of a dev build without a hash.       *)
OnlyVerified == \A t \in Tools : Unchecked(t) \/ (bin[t].ok /\ prev[t].ok)

(* An upgrade that fails, or that the app does not live to finish, leaves a *)
(* copy to run or to go back to.                                            *)
NeverLost == \A t \in Tools : had[t] # {} => bin[t] # None \/ prev[t] # None

(* "a crash between the two never records a version we didn't actually      *)
(* install" (octocli.go:346).  Of claude, whose installs do not overlap, it *)
(* is not newer than what is there.                                         *)
StampsHonest ==
  /\ \A t \in Tools : stamp[t] # 0 => stamp[t] \in had[t]
  /\ stamp["claude"] <= bin["claude"].ver \/ stamp["claude"] <= prev["claude"].ver

OneClaudeJob ==
  Cardinality({j \in Jobs : job[j].tool = "claude"}) = (IF installing THEN 1 ELSE 0)

(* What is cached as the tools of a version was not probed from another     *)
(* one, though a probe may overlap an upgrade; from the one on PATH it may, *)
(* if the managed one is put back between the two reads.                    *)
SurfaceOfVersion ==
  (cache.label # 0 /\ ~installing /\ cache.label = bin["claude"].ver)
    => cache.tools \in {cache.label, OnPath}

InstallSafe ==
  InstallTypeOK /\ OnlyVerified /\ NeverLost /\ StampsHonest /\ OneClaudeJob /\ SurfaceOfVersion
=============================================================================
