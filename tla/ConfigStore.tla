------------------------------ MODULE ConfigStore ------------------------------
(***********************************************************************)
(* What the desktop keeps of its bots: config.json, the directory, the    *)
(* tokens (internal/secrets) and the octo-cli profile of each.  Editors   *)
(* (the settings window, a second session) load a view, change it and     *)
(* save it back whole; the chat window and the tool probe write their own *)
(* part of config.json in between.  Writers hold saveMu.                  *)
(*                                                                       *)
(* A channel override, a tool surface and a token are numbers, 0 for      *)
(* none.  Each bot has an octo-cli profile of its own, and of the rest of *)
(* its directory SOUL.md and AGENTS.md are left out.                      *)
(***********************************************************************)
EXTENDS Naturals, FiniteSets

CONSTANTS Bots, Editors,
          MaxTools,         \* bound: overrides, and tool surfaces
          MaxToken          \* bound: tokens of a bot

ASSUME ConfigAssumption ==
  /\ {MaxTools, MaxToken} \subseteq Nat
  /\ IsFiniteSet(Bots) /\ IsFiniteSet(Editors)

VARIABLES
  config,       \* config.json: its bots, their overrides, the tool surface
  dir,          \* the bots that have a directory
  bootstrap,    \* those with a BOOTSTRAP.md
  keyring, file,  \* [Bots -> the token there]
  keyringUp,
  profile,      \* octo-cli's
  editor,       \* [Editors -> the view, {} if it is closed]
  call,         \* the Save that holds saveMu
  override,     \* history: [Bots -> what SetChannelTools last wrote]
  surfaced,     \* history: what SaveToolset last wrote
  token,        \* history: [Bots -> what was last stored of it]
  greeted,      \* history: bots that deleted their BOOTSTRAP.md
  owed          \* history: bots that were set up and that no one removed

secretVars == <<keyring, file, keyringUp, token>>
history == <<override, surfaced, greeted, owed>>
configVars == <<config, dir, bootstrap, secretVars, profile, editor, call, history>>

Zero == [b \in Bots |-> 0]
Empty == [bots |-> {}, channel |-> Zero, tools |-> 0]
NoView == [loaded |-> {}, bots |-> {}, channel |-> Zero, token |-> Zero]
NoCall == [at |-> "none", by |-> {}, view |-> NoView, was |-> Empty, todo |-> {}]

ConfigInit ==
  /\ config = Empty /\ dir = {} /\ bootstrap = {}
  /\ keyring = Zero /\ file = Zero /\ keyringUp = TRUE /\ token = Zero
  /\ profile = {}
  /\ editor = [e \in Editors |-> {}] /\ call = NoCall
  /\ override = Zero /\ surfaced = 0 /\ greeted = {} /\ owed = {}

-----------------------------------------------------------------------------
(* internal/secrets.                                                        *)

Get(b) == IF keyringUp /\ keyring[b] # 0 THEN keyring[b] ELSE file[b]

(* Set, and Delete for 0, of every writable backend; one is enough.         *)
Put(b, t) ==
  /\ keyring' = IF keyringUp THEN [keyring EXCEPT ![b] = t] ELSE keyring
  /\ file' = [file EXCEPT ![b] = t]
  /\ token' = [token EXCEPT ![b] = t]
  /\ UNCHANGED keyringUp

(* "keyring access revoked/granted mid-session".                            *)
KeyringToggles ==
  /\ keyringUp' = ~keyringUp
  /\ UNCHANGED <<config, dir, bootstrap, keyring, file, token, profile, editor, call, history>>

-----------------------------------------------------------------------------
(* What octo-cli's profiles may be after its login and its logout.          *)

Login(b, t) == {profile} \cup (IF t # 0 THEN {profile \cup {b}} ELSE {})
Logout(b) == {profile, profile \ {b}}

-----------------------------------------------------------------------------
(* The editor.                                                              *)

(* Load, resolveBot.                                                        *)
View == [loaded |-> config.bots, bots |-> config.bots, channel |-> config.channel,
         token |-> [b \in Bots |-> IF b \in config.bots THEN Get(b) ELSE 0]]

Shows(e, views) ==
  /\ editor' = [editor EXCEPT ![e] = views]
  /\ UNCHANGED <<config, dir, bootstrap, secretVars, profile, call, history>>

LoadConfig(e) == editor[e] = {} /\ Shows(e, {View})
Leave(e) == editor[e] # {} /\ call.by # {e} /\ Shows(e, {})

AddBot(e) ==
  \E v \in editor[e], b \in Bots, t \in 0..MaxToken :
    /\ b \notin v.bots
    /\ Shows(e, {[v EXCEPT !.bots = @ \cup {b}, !.token[b] = t]})

DropBot(e) ==
  \E v \in editor[e] : \E b \in v.bots : Shows(e, {[v EXCEPT !.bots = @ \ {b}]})

EditToken(e) ==
  \E v \in editor[e], t \in 0..MaxToken : \E b \in v.bots : Shows(e, {[v EXCEPT !.token[b] = t]})

-----------------------------------------------------------------------------
(* Writers of a part of config.json.                                        *)

SaveMuFree == call.at = "none"

SetChannelTools ==
  /\ SaveMuFree
  /\ \E b \in config.bots, tools \in 0..MaxTools :
       /\ config' = [config EXCEPT !.channel[b] = tools]
       /\ override' = [override EXCEPT ![b] = tools]
  /\ UNCHANGED <<dir, bootstrap, secretVars, profile, editor, call, surfaced, greeted, owed>>

SaveToolset ==
  /\ SaveMuFree
  /\ \E tools \in 1..MaxTools : config' = [config EXCEPT !.tools = tools] /\ surfaced' = tools
  /\ UNCHANGED <<dir, bootstrap, secretVars, profile, editor, call, override, greeted, owed>>

-----------------------------------------------------------------------------
(* Save.                                                                    *)

(* removedIDs, less what is kept.  Deviation: what the view does not have.  *)
RemovedByDifference(v, was) == was.bots \ v.bots
Removed(v, was) == v.loaded \ v.bots

SaveBegins(e) ==
  /\ call = NoCall
  /\ \E v \in editor[e] :
       /\ call' = [at |-> "merged", by |-> {e}, view |-> v, was |-> config, todo |-> {}]
       /\ owed' = owed \ (v.loaded \ v.bots)
  /\ UNCHANGED <<config, dir, bootstrap, secretVars, profile, editor, override, surfaced, greeted>>

(* applyDefaultTools: not the view's overrides, the file's.                 *)
MergedChannel(v, was, b) == IF b \in was.bots THEN was.channel[b] ELSE 0

WritesConfig ==
  /\ call.at = "merged"
  /\ LET v == call.view
     IN  /\ config' = [bots |-> v.bots, tools |-> call.was.tools,
                       channel |-> [b \in Bots |-> IF b \in v.bots THEN MergedChannel(v, call.was, b) ELSE 0]]
         /\ override' = [b \in Bots |-> IF b \in v.bots THEN override[b] ELSE 0]
         /\ greeted' = greeted \cap v.bots
         /\ call' = [call EXCEPT !.at = "bots", !.todo = v.bots]
  /\ UNCHANGED <<dir, bootstrap, secretVars, profile, editor, surfaced, owed>>

IsNew(b) == b \notin call.was.bots

(* SOUL.md and AGENTS.md, the ritual, the tokens, octo-cli's login.         *)
SetsUpBot(b) ==
  /\ call.at = "bots" /\ b \in call.todo
  /\ dir' = dir \cup {b} /\ owed' = owed \cup {b}
  /\ bootstrap' = IF IsNew(b) THEN bootstrap \cup {b} ELSE bootstrap
  /\ Put(b, call.view.token[b])
  /\ profile' \in Login(b, call.view.token[b])
  /\ call' = [call EXCEPT !.todo = @ \ {b}]
  /\ UNCHANGED <<config, editor, override, surfaced, greeted>>

(* An error, or the end of the app, in the middle of it: before the tokens,  *)
(* or between the first of them and octo-cli's login.                       *)
SetUpFails(b) ==
  /\ call.at = "bots" /\ b \in call.todo
  /\ dir' = dir \cup {b}
  /\ LET scaffolded == IF IsNew(b) THEN bootstrap \cup {b} ELSE bootstrap
     IN  \/ bootstrap' \in {bootstrap, scaffolded} /\ UNCHANGED secretVars
         \/ bootstrap' = scaffolded /\ Put(b, call.view.token[b])
  /\ call' = NoCall
  /\ UNCHANGED <<config, profile, editor, history>>

BotsDone ==
  /\ call.at = "bots" /\ call.todo = {}
  /\ call' = [call EXCEPT !.at = "pruning", !.todo = Removed(call.view, call.was)]
  /\ UNCHANGED <<config, dir, bootstrap, secretVars, profile, editor, history>>

(* The profile goes if the file still said whose it is.                     *)
Prunes(b) ==
  /\ call.at = "pruning" /\ b \in call.todo
  /\ call' = [call EXCEPT !.todo = @ \ {b}]
  /\ IF b \in dir
     THEN /\ dir' = dir \ {b} /\ bootstrap' = bootstrap \ {b}
          /\ Put(b, 0)
          /\ profile' \in IF b \in call.was.bots THEN Logout(b) ELSE {profile}
     ELSE UNCHANGED <<dir, bootstrap, secretVars, profile>>
  /\ UNCHANGED <<config, editor, history>>

(* The app ends when the directory is gone: no later save will find a reason *)
(* to take away the tokens and the profile, or only the profile.            *)
PruneCut(b) ==
  /\ call.at = "pruning" /\ b \in call.todo \cap dir
  /\ dir' = dir \ {b} /\ bootstrap' = bootstrap \ {b}
  /\ Put(b, 0) \/ UNCHANGED secretVars
  /\ call' = NoCall /\ editor' = [e \in Editors |-> {}]
  /\ UNCHANGED <<config, profile, history>>

SaveReturns ==
  /\ call.at = "pruning" /\ call.todo = {}
  /\ editor' = [e \in Editors |-> IF e \in call.by
                  THEN {[v EXCEPT !.loaded = call.view.bots] : v \in editor[e]} ELSE editor[e]]
  /\ call' = NoCall
  /\ UNCHANGED <<config, dir, bootstrap, secretVars, profile, history>>

(* At any other point.                                                      *)
SaveFails ==
  /\ call.at \in {"merged", "bots"}
  /\ call' = NoCall
  /\ UNCHANGED <<config, dir, bootstrap, secretVars, profile, editor, history>>

DesktopEnds ==
  /\ call' = NoCall /\ editor' = [e \in Editors |-> {}]
  /\ UNCHANGED <<config, dir, bootstrap, secretVars, profile, history>>

-----------------------------------------------------------------------------
(* OctoCliRelogin and OctoCliLogout.                                        *)
OctoCliProfile ==
  /\ \E b \in config.bots : profile' \in Login(b, Get(b)) \cup Logout(b)
  /\ UNCHANGED <<config, dir, bootstrap, secretVars, editor, call, history>>

(* The bot, in a turn of its owner.                                         *)
DeletesBootstrap ==
  /\ \E b \in bootstrap \cap config.bots :
       /\ bootstrap' = bootstrap \ {b}
       /\ greeted' = IF call.at = "bots" /\ IsNew(b) THEN greeted ELSE greeted \cup {b}
  /\ UNCHANGED <<config, dir, secretVars, profile, editor, call, override, surfaced, owed>>

ConfigNext ==
  \/ \E e \in Editors :
       LoadConfig(e) \/ Leave(e) \/ AddBot(e) \/ DropBot(e) \/ EditToken(e) \/ SaveBegins(e)
  \/ SetChannelTools \/ SaveToolset
  \/ WritesConfig \/ BotsDone \/ SaveReturns \/ SaveFails
  \/ \E b \in Bots : SetsUpBot(b) \/ SetUpFails(b) \/ Prunes(b) \/ PruneCut(b)
  \/ KeyringToggles \/ DesktopEnds \/ OctoCliProfile \/ DeletesBootstrap

ConfigSpec == ConfigInit /\ [][ConfigNext]_configVars

-----------------------------------------------------------------------------
ConfigTypeOK ==
  /\ config.bots \subseteq Bots /\ config.channel \in [Bots -> 0..MaxTools] /\ config.tools \in 0..MaxTools
  /\ {dir, bootstrap, profile, greeted, owed} \subseteq SUBSET Bots
  /\ {keyring, file, token} \subseteq [Bots -> 0..MaxToken] /\ keyringUp \in BOOLEAN
  /\ \A e \in Editors : Cardinality(editor[e]) <= 1
  /\ call.at \in {"none", "merged", "bots", "pruning"}

(* "prevents a stale modal snapshot from clobbering a channel override"     *)
(* (configstore.go:538), and a tool surface, though a view may be older     *)
(* than both.                                                               *)
OverridesKept ==
  /\ \A b \in config.bots : config.channel[b] = override[b]
  /\ config.tools = surfaced

(* "a stale editor snapshot ... would otherwise look like every other bot   *)
(* was removed and irreversibly wipe their data" (configstore.go:467).      *)
DataKept == owed \subseteq dir

(* "once the bot completes bootstrap and deletes the file, a later operator *)
(* save must not resurrect it" (configstore.go:641), while the bot is in    *)
(* config.json.                                                             *)
BootstrapStaysGone == greeted \cap bootstrap = {}

(* What views that are older than the disk, and saves that fail half way,   *)
(* leave alone.                                                             *)
ConfigSpared == ConfigTypeOK /\ OverridesKept /\ DataKept /\ BootstrapStaysGone

(* "a backend whose availability later toggles ... can't surface a stale    *)
(* copy via Get's read-precedence walk" (secrets.go:203).                   *)
NoStaleCopy == \A b \in Bots : Get(b) \in {0, token[b]}
=============================================================================
