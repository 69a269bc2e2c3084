# A TLA+ model of OctoBuddy

OctoBuddy runs chat bots whose answers come from a coding agent on the
operator's machine.  `core/` is a Go daemon (one process, several bots),
`desktop/` a Wails application that starts it and talks to it over a Unix socket,
`proto/` the contract between them.  This directory models their own logic: who
may run when, what is remembered, what is delivered, and what survives a failure,
an overlap or a restart.

## 1. Inventory

| Component | Source | State | Operations |
|---|---|---|---|
| Router: session locks | `core/router/locks.go` | `locks` (key -> refcounted mutex) | acquire, release, Reap |
| Router: rate limiter | `core/router/rate.go`, `bucket.go` | global, per-user, per-session token buckets with a "notified" flag | allow, Reap |
| Router: gates | `core/router/gate.go`, `router.go` | none (pure) | SessionKey, blocklist, bot-loop guard, size |
| Trigger classifier | `core/trigger/` | none (pure) | Classify, OBO trust |
| Gateway: turn | `core/gateway/gateway*.go`, `turn_context.go` | resume ids, history, group cursor, per-turn flags | Handle, runTurn, Observe |
| Gateway: idle guard | `core/gateway/gateway_idle.go` | timer, done flag, cancel cause | reset, markDone, expired |
| Gateway: breaker | `core/gateway/breaker.go` | state, consecFails, openedAt | allow, onResult |
| Agent drivers | `core/agent/` | child process, event channel, cache of probed tools | Query, parse, classify, DefaultTools |
| Group context | `core/groupctx/` | per-channel message window, ids, cursor, roster, backfilled set | Push, Backfill, BuildContextSince, SetCursor, RewindCursor, ReapIdle |
| Octo: inbound, GROUP.md | `core/im/octo/connector_inbound.go`, `sysmsg.go` | debounce stamps, the sandbox's copy of GROUP.md | onInbound, refresh |
| Octo: turn queue, dedup, replies | `connector_queue.go`, `connector_gateway.go`, `seenset.go`, `connector_sink.go` | per-session FIFO, reply targets, worker flags, closed, seen ids | enqueueTurn, drainTurns, WaitTurns |
| Octo: typing, progress | `connector_typing.go`, `connector_sink.go` | tickers, counts | startTyping, stopTyping, OnEvent |
| Octo: sending | `mention_*.go`, `rest_send.go`, `connector_sink.go` | none | resolve, split, post, retry |
| Octo: names | `namecache*.go` | names with expiry, fetches in flight | lookup, learn, prewarm, hook |
| Octo: run loop | `connector_run.go`, `socket*.go` | registration, backoff, socket, undecryptable counts | Run, connectOnce, reconnect |
| Octo: content, media, REST, wire | `content*.go`, `rest*.go`, `wire.go`, `crypto.go` | none | formatting, I/O |
| Store | `core/store/` | SQLite tables | sessions, messages, resume ids, reply cursors, seen ids, usage |
| Cron | `core/cron/` | `cron.json`, owner uid, fired minute | Create, Update, Delete, Tick, SetOwnerUID, Start, Stop, NextRun |
| Control bus | `core/control/` | clients, send queues, auth flags | Serve, Broadcast, dispatch, Close |
| Daemon runtime | `core/cmd/octobuddy-daemon/` | bots, registry, wait groups | start, drain, reapers, session.send |
| Config, persona, prompt, safety, sandbox, safepath, log | `core/config` ... | files, pure functions | load, compose, escape, resolve |
| Desktop: bridge, supervisor | `desktop/octobuddyservice.go`, `internal/core/`, `internal/control/` | child process, client, epoch | Start, Stop, Restart, reconnect, RestartCore |
| Desktop: config and secrets | `desktop/internal/configstore/`, `internal/secrets/` | `config.json`, bot directories, keyring and file | Load, Save, SetChannelTools, Get, Set, Delete |
| Desktop: companion binaries | `desktop/internal/octocli/`, `claudecli/`, `toolset/` | binaries, stamps, probed surface | EnsureInstalled, Upgrade, Refresh |
| Desktop: workspace, skills, workflows, tray, windows | `desktop/` | files, view state | CRUD, view |

How they interact.  The socket's read loop calls the connector's `onInbound`,
which classifies a frame, records observations in the group context inline and
queues everything else per session.  A worker per session publishes the turn's
reply target and calls `gateway.Handle`, which asks the router (gates, rate limit,
session lock) and runs the turn under the lock: group delta, history, breaker, agent
process, reply through a fan-out sink (the connector and the control bus).  Console
turns (`session.send`) and console cron fires call `gateway.Handle` from goroutines
of their own, so they meet the connector's workers only at the session lock.  A
ticker fires cron tasks, an hourly reaper trims locks, buckets, group windows and
seen ids, and a shutdown sequence stops the ticker, waits for the fires, the workers
and the console turns, and closes the store.  The desktop spawns the daemon, reads
its bus, edits the configuration the daemon reads and installs the binaries it runs.

What is hard, and where.

- *Concurrency without a single owner.*  Read loop, queue workers, console turns,
  cron fires, reapers, bus connections, name fetches meet at mutexes that are taken and
  released many times in one turn.  What is true of each section is easy to test;
  what is true of every order of sections is not.
- *State read before, used after.*  `Reap` compares with an instant read before it had
  the mutex, `RewindCursor` restores a value read at the start of the turn, the reply
  target is looked up when the reply is sent, cron compares an owner outside the
  store's mutex and computes an edit's next run before it, a reconnect checks its epoch
  before it restarts, an editor saves a
  view it loaded long ago, a GROUP.md refresh writes what it fetched before another one.
- *Failure in the middle.*  A message is acknowledged before it is recorded and
  recorded before it runs; `cron.json` is written before a task fires; the cursor moves
  before the driver starts; a save touches directories, secrets, a login and a file;
  a panic may come from anywhere.
- *Delivery.*  The server sends again what was not acknowledged, to this process or the
  next; frames may not decrypt; links die silently; others may register the bot; a
  post that was taken may look failed.  Notices about a document are acknowledged before
  they are handled and remembered by nobody.
- *Shutdown.*  A row of waits (scheduler loop, fires, workers, console turns,
  connector, store), each of which must not miss a late arrival.

What makes each component correct.

| Component | Properties |
|---|---|
| Session locks | two turns of a session never overlap; eviction is invisible; nobody starves |
| Rate limiter | an evicted bucket answers as if it had been kept; one notice per block |
| Gates, trigger | every frame meets one fate; nobody who may ask is ignored, nobody else gets a turn, no answer leaves for a place its relay did not vouch for |
| Turn, idle guard | an answer on each path, probe and typing ended; a resume only of what may be resumed; what the CLI said is what the user is told; a hung CLI ends |
| Agent drivers | a turn's tools are those of a policy that was in force after it began; no failed probe is kept for ever |
| Breaker | opens only at the threshold, always has its probe, cools down |
| Group context | no message is hidden from every turn, but by the budget; history precedes live messages; the cutoff never falls |
| Turn queue | FIFO per session, one worker, own reply target, at most once across restarts, quiet after shutdown |
| Replies | each part shown once, in order, never cut within a mention |
| Names | one fetch at a time; a known name reaches every row that shows it, if the rows can be read |
| Run loop, socket | registers only when needed, reports every fault, recovers, stops |
| Store | single-row statements behind one connection; its monotone writes are part of the models that use them |
| Cron | at most one fire per occurrence (an edit aside), in the minutes that are meant, under the owner it was made for, none lost in shutdown |
| Control bus | while a token is set, a stream begins where it was shown and is whole and in order; a slow client does not stop the others, nothing is leaked |
| Daemon runtime | the store outlives the turns, a failed bot is listed, a signal ends the process |
| Bridge, supervisor | one daemon, its own token, somebody always reconnects, no live daemon torn down |
| Config and secrets | a stale editor takes nothing from others, a half-done save loses no data, no old token returns |
| Companion binaries | only verified bytes run (a dev build's bundle aside), none is lost, stamps name what was installed |

## 2. Modules

| Module | Models | Kind |
|---|---|---|
| `SessionLock` | what the router promises about sessions | abstract |
| `RouterLocks`, `RouterLocksProofs` | `locks.go`: acquire, release, the lock half of `Reap` | implements `SessionLock` |
| `RateLimitSpec` | buckets that exist for ever and refill by themselves | abstract |
| `RateLimiter` | `rate.go`, `bucket.go`, the bucket half of `Reap` | implements `RateLimitSpec` |
| `Breaker` | `breaker.go` among concurrent turns | |
| `AgentDriver` | the parsers of both CLIs and the error classes | pure |
| `Turn` | `runTurn`, idle guard, stream, CLI run, resume ids, typing | extends `AgentDriver` |
| `MCGateway` | the run of `RateLimiter`, `Breaker`, `Turn` | composition |
| `ToolSurface` | tool policies, the probe cache, the arguments of `claude` | |
| `GatewayProofs` | proofs about these four and `RateLimitSpec` | |
| `SerialTurns` | a FIFO of turns per session, served one at a time | abstract |
| `TurnQueue`, `MCTurnQueue`, `TurnQueueProofs` | from a queued frame to its reply | implements `SerialTurns` |
| `Inbound` | `onInbound`, `trigger`, `gate.go`: the fate of a frame | |
| `GroupDoc` | `sysmsg.go`: the copy of GROUP.md | |
| `MCInbound`, `InboundProofs` | the run of `TurnQueue`, `Inbound`, `GroupDoc` | composition |
| `GroupContext` | one channel's window, ids, cursor, backfill, cutoff | |
| `CronTasks` | tasks, owner, tick, fires, drain | |
| `Schedule` | `evaluator.go`, `oneshot.go`: when one task fires | |
| `MCPersisted`, `PersistedProofs` | the run of `GroupContext`, `CronTasks`, `Schedule` | composition |
| `Connection` | run loop, socket, decrypt failures | |
| `NameCache` | names, fetches, the rows that show them | |
| `ReplySend` | splitting, tagging and posting a reply | |
| `MCConnector`, `ConnectorProofs` | the run of `Connection`, `NameCache`, `ReplySend` | composition |
| `ControlBus` | accept loop, connections, broadcasts, close | |
| `Daemon` | start, run, drain and exit of the process and its bots | |
| `MCDaemon` | the run of `ControlBus`, `Daemon`, `ToolSurface` | composition |
| `RuntimeProofs` | proofs about `ControlBus` and `Daemon` | |
| `Bridge` | supervisor, client, reconnect, `RestartCore` | |
| `ConfigStore` | `Save` and the other writers, tokens in keyring and file | |
| `Installer` | `octo-cli`, `claude`, and the probed tool surface | |
| `MCDesktop`, `DesktopProofs` | the run of `Bridge`, `ConfigStore`, `Installer` | composition |

Conventions.  A section of a mutex is one action; a function that takes a mutex
twice is two actions with a `pc`-like variable between them.  Names are the code's.
A definition headed *Deviation* is no part of any specification: it is what the
definition after it would be with a plausible mistake, and PROJECT.json names, for
each property, the deviation that violates it.

*Compositions.*  Parts that share state are modelled in one module (turn, stream and
CLI; queue, worker, dedup and target).  The `MC` modules put parts side by side
that call one another but change no state in common: a variable `part`, chosen
in the first state, says which of them a behaviour is about, and the others stay
where they began.  A product of such parts would only repeat each part's states
for each of the other's.  Where two parts do meet, each models the meeting from its
own side: `session.send` in `ControlBus` is a command that is handled, in `Daemon` a
turn that the drain must know of; a due task is an event in `CronTasks` and the
subject of `Schedule`.  `ToolSurface` shares state with neither
run it could be in; it is in the daemon's, whose configuration it is about.

**RouterLocks.**  `locks` is `Router.locks`, `refs`, `lastUse` and `mu` are the fields
of `lockEntry`; entries are values of their own because a goroutine keeps the
pointer it looked up after the map has dropped it.  `acquire` is
`FindEntry`/`NewEntry` (under `locksMu`) and then `LockEntry` (`e.mu.Lock()`);
`release` is `UnlockEntry` and then `DropRef`; `Reap` is `ReapBegin` (reads the
clock) and `ReapLocks`.

**RateLimiter.**  `buckets` joins `global`, `perUser` and `perSess`; `Absent` is a key
that is not in its map.  `allow` is `Admit` or `Reject`, according to the first bucket
that blocks, with the stamping that each asked bucket gets.  Tokens are integers in
units of 1/`Window` of a message, where the code uses `float64`: rounding is left out.
The deciding detail is `EffectiveIdle`: the clamp in `Reap` that keeps a bucket until
it has refilled.

**Breaker.**  `state`, `consecFails` are the code's; `openedAt` is kept as the time the
cooldown still has to run (`coolingFor`).  `turn[t]` follows `runTurn` through every
place that asks `allow` or reports to `onResult`, `recoverTurn` included.

**AgentDriver, Turn.**  A line of a CLI is a record of what the parser looks at, a
message the set of signatures the classifier's regular expressions find in it.  `Spawn`
chooses a run the CLI may give (`CliRuns`: a healthy one, one whose stored conversation
is a dead end, one that does not know the id), its lines come through the two drains in
any order, `ExitError` and `Killed` end it, `ConsumeEvent` is `runTurn`'s switch.
`minted`, `health` and `retired` are what is true of the CLI's own sessions, which the
code cannot see: the properties compare it with what the store resumes.  `SessionReset`
is the console's `session.reset`, which clears the ids at any moment and takes no lock;
`held` are the ids it cleared under a turn that was resuming them.

**ToolSurface.**  A turn begins, reads the policy (`ResolveTools`; the read may fail),
builds its arguments, and may have to probe first (`ProbeLands`, outside the lock); in
between the file is edited and the binary moves.  Nothing in the code says which policy
was in force when: the ghosts `inForce` and `bins` gather those that there have been
between the turn's start and its own reading, and `ToolsScoped` judges the arguments by
what the operator meant with one of them (`Ruling`), not by what the code resolved.

**TurnQueue.**  Server (`unacked`, `sends`), read loop (`Receive`: ack, ring, queue),
`queue`/`running` (`turnQueue`), `targets`, `wg` (`turnsWG`), `stage` (`closed`, then
`WaitTurns` returned), `seen` (the table), and per goroutine `at`, `home`, `job`, `out`.
A worker goes `looping -> dedup -> routing -> locking -> running -> replying`; a
console turn starts at `routing` and does not touch the queue.  `lock` is the session
lock at the level `SessionLock` proves.

**Inbound.**  A behaviour is one frame under one setup (who is the bot's owner, which
lists and policies).  `OnInbound` decides as the code does, rule after rule (`Rules`,
`Met`), `RouteAndHandle` applies the gates, and the properties state in terms of the
frame alone who must be answered, who must not, and where the answer may go.

**GroupDoc.**  The server's document is the number of its last edit.  A notice is read,
and its ack arrives or not (`Acks`): what is owed comes again, after later ones
(`Redelivers`), since control frames are taken before the dedup ring; one that cannot
be decrypted is not acked twice and dropped the third time (`Undecrypted`, `Loses`), and
one whose handling the daemon did not live to begin is lost.  A notice starts a
refresh unless one was started in the debounce window; a refresh fetches and writes, or
fails.  `StaleHasCause` lists the six ways to end with another document than the
server's: a notice coalesced, lost or undecrypted, a refresh that failed or overlapped
another, a deletion that the server had undone when its notice was handled.

**GroupContext.**  `window`, `nextID`, `cursor`, `backfilled` are the maps of
`GroupContext` at one channel, `stale` is "`lastTouch` is older than the threshold",
`replySeq` the row of `group_reply_cursors`.  A turn is
`Admit, Claim, Land, Delta, PushCurrent, MaxID, SetCursor`, then one of
`Reply; SaveSeq`, `Apologize`, `Fail`; `Panic` may come at each of them, and where
`runTurn` recovers it the turn counts as answered, or not, as the code's `delivered`
says.  `Delta` takes a suffix of what lies above the cursor, for any budget; what it
leaves out is `cut` once the turn has concluded.

**CronTasks.**  `stored` is `cron.json` (a task is its creator, its enabled flag and
whether its next run has come), `owner` is `Manager.ownerUID`, `connOwner` the
connector's.  `Register; Prune; Swap` is the connector's re-registration,
`TickStart; Collect; Dispatch` is `Tick`, `flying` the goroutines of `firesWG`,
`stage` the progress of `drainBotRuntime`.  The handlers of the control bus pass
the owner gate at one moment (`Admit`) and reach the store at another; an edit has
computed its `NextRun` in between (`PrepareUpdate`), from a clock that goes on.

**Schedule.**  An expression is its five fields, each a list of parts; `Scan` is the
evaluator's minute-by-minute search, `Advanced` what `advanceFiredCronTask` makes of a
due task, `Civil` the local calendar of an instant.  `FiresAsWritten` says it without a
search: between two ticks nothing is passed over, no minute fires twice in a row, and
a task is given up only for a cause.

**Connection.**  `run` is where `Connector.Run` is, `registered`, `backoff` and
`report` its locals; `link`, `closed`, `closeErr`, `stable`, `strikes` are the socket's.
`valid` says whether the server's IM token is the one the bot holds: a registration
makes it so, a registration whose answer is lost, or somebody else's, ends it.

**NameCache, ReplySend.**  A name is known, fetched, expired or not; rows carry what was
known when they were read, and are corrected by the hook.  `TouchFails` and `HookFails`
are the reads of the session list that fail, where the code returns without a word;
`unread` are the rows that were not sent for it.  `told` only grows because the desktop
merges: a row that comes without a name keeps the one it had (`applySessionsList`,
`store.svelte.ts:981-1001`), so a row read before the hook's and sent after it takes
nothing away.  A reply is a
sequence of kinds of UTF-16 units (a letter, the halves of a pair, a space, a newline),
mentions are spans of positions in it; posts may fail before or after they were taken.

**ControlBus.**  A connection is its stage (backlog, accepted, reading, ended), its send
queue and its writer; `BroadcastBegins` takes the snapshot of the clients and
`BroadcastTo` reaches one of them.  The peer may stall or vanish at any moment.  The
token is set or not.  `first`, `got` and `shed` are ghosts: the number of the first
event that is due to a connection, and those that were written to it or found its queue
full.  Connections are told apart by their place in the backlog only, so `Foremost`
names them in that order.

**Daemon.**  `pc[b]` is where `runBot` is, from its directories to its report; `Unwind`
is where its deferred calls begin when it fails or panics.  Turns of the queue,
session.sends and fires are counted or not at the moments the code counts them.

**Bridge.**  Callers (startup, `RestartCore`, shutdown) and the readers of the
connections share `client`, `epoch` and the supervisor.  Daemons and connections are
numbered; a token is the number of the daemon it belongs to.

**ConfigStore, Installer.**  `Save` holds its mutex; it is cut between its phases and
between bots, and inside a bot's set-up and removal where it may fail or the process may
end: before the tokens, between tokens and login (`SetUpFails`), between directory,
secrets and logout (`PruneCut`).  The two tokens of a bot, of which one stands for both,
are written together; `editor[e]` is the view that an editor loaded and changed.  A binary
is the version it is of and whether its bytes are the published ones; an install is fetch,
snapshot, swap, stamp, with the end of the app between any two.

The modules fit together at these seams: `TurnQueue` takes the session lock as one
step, which `RouterLocks` justifies; `GroupContext` and `Turn` let the turns of their
session run one at a time, which `TurnQueue` justifies for the queue
(`ImplementsSerialTurns`) and `RouterLocks` for console turns; `Turn` takes the
breaker's verdict as a choice, which `Breaker` makes; `CronTasks`' fires become turns,
whose life is in `TurnQueue`, and `Daemon`'s waits are those that `CronTasks` and
`TurnQueue` model for one bot; `Connection` decides when frames arrive, `Inbound` what
they mean, `TurnQueue` what they become.

## 3. Runs

| Run | Instance | Shows |
|---|---|---|
| `router_locks` | 3 goroutines, 2 sessions, 3 entries, `Idle = 0`, 2 instants | exclusion, refinement of `SessionLock`, no starvation |
| `gateway` | *rate*: 2 users, 1 session, windows of 2 ticks, 6 ticks, `ReapIdle = 0`; *breaker*: 3 turns, threshold 2, cooldown 2; *turn*: 2 turns after one another, either driver, 3 ids of CLI sessions | refinement of `RateLimitSpec`; threshold, probe, cooldown; one answer on every path, safe resumes, the CLI's verdict told, a hung CLI ends |
| `queue_order` | *queue*: 1 session, messages, a fire, redelivery, a full ring, a crash, shutdown; *frame*: every frame under every setup; *doc*: 3 edits, 2 refreshes, notices lost and repeated, crashes | one worker, FIFO (`SerialTurns`), targets, at most once, quiet shutdown; the fate of frames; why GROUP.md is stale |
| `queue_live` | 1 session, 2 messages, a console turn, panics, a failing store, a crash | queued turns are taken up |
| `persisted` | *group*: 3 messages, window 2, scan 1, backfill 2, any budget, a fire, a crash; *cron*: a task and its successor, 2 owners, a handler, a restart or a failure; *plan*: 5 minutes about a clock change, 5 at a leap day | cursor, nothing skipped, cutoff; at most once, owner, drain; fires as written |
| `connector` | *connection*: 3 undecryptable messages over a map for 2, 2 faults, a foreign registration; *names*: a user, a group with a thread; *reply*: texts of 5 units in segments of 3 | registration, causes, eviction, recovery, shutdown; names reach their rows; replies intact |
| `daemon` | *bus*: 2 connections, a queue of one, 2 lines; *daemon*: 2 bots, a session.send, a fire; *tools*: 2 turns, 2 binaries, 4 policies, an edit | streams whole and in order from the gate on, no stall, no leak; the store outlives the turns, failed bots listed, exit; tools of a policy in force |
| `desktop` | *bridge*: 2 daemons, 2 connections; *config*, *keyring*: 1 bot, 2 editors; *tools*: 2 jobs, 2 releases | one daemon, somebody reconnects; what stale editors and half-done saves spare; verified binaries |
| `queue_console` | 1 message, 1 console turn for the same peer | *violation*: the console turn takes the reply target |
| `turn_codex` | 1 turn, a conversation of its own | *violation*: an upstream failure of codex told as a generic error |
| `bridge_restart` | a crash and a `RestartCore` | *violation*: the reconnect stops the daemon just started |
| `secrets_stale` | 1 bot, a keyring that goes and comes | *violation*: an old token returns |

Why the bounds are enough.

- `router_locks`: the hazard needs one goroutine between lookup and lock, a reaper, and
  a goroutine that makes the next entry; the third goroutine adds one that waits on the
  old entry.  With `Idle = 0` an entry may be evicted at the first reap after its last
  use, so every age is reached with two instants.  The theorems remove the bounds.
- `gateway`, rate: `Window = 2` is the smallest that tells a full, a half and an empty
  bucket apart; six ticks are time to drain, idle, be reaped and drain again.
  `ReapIdle = 0` makes the clamp matter.  Breaker: a probe, a late report and a panic at
  once.  The theorems remove both.  Turn: the second turn resumes what the first left,
  whatever the first was; three ids are one of each kind of CLI session.
- `queue_*`: two workers are what a second start for a key would take (`queue_order`
  shows there is none, so `queue_live` has one worker); the dedup store fails only in
  `queue_live`, because `turnFirstSeen` fails open and a message may then run twice; two
  messages are what order takes; a ring of one forgets at the second message; two
  deliveries are one redelivery.  Sessions share only `Connector.mu` and the ring, so
  one session shows what can happen to it.  A frame leaves nothing in `Inbound` that
  the next would meet, so all frames one by one are all there is.  Two refreshes and
  three edits let one overtake another, one be coalesced or lost, and a delete come last
  or late; what is owed may come again any number of times.
- `persisted`, group: three messages overflow a window of two and a scan of one, so
  trimming, duplicates and backfill all happen, and a budget may cut any of the oldest;
  `LongTurns = FALSE` states the assumption that no turn outlasts the reaper's threshold
  (see section 6).  Cron: an occurrence that fired twice would do so within its first,
  hence `MaxOcc = 1`; two owners are a change; one handler, which creates, edits or
  deletes, races the tick and the change; `MaxTasks = 1` lets a task take a deleted one's
  place (there are two ids), and the theorems hold for any number.  Plan: days of four
  minutes (two hours of two), weeks of three days, years of four half-months, one of which
  has a date only in leap years; at `Shift` an hour is repeated or left out; `MaxScan` is
  the length of a leap year, as the code's 366 days are.  The clock starts where a change
  or a leap day is within `Span`; ticks are as late as they like, since the scheduler may
  sleep for any time.
- `connector`: at `MaxKeys = 2` the least number of messages that evict is three, and
  two is the least for which the comment's argument holds (the code has 1000).  Segments
  of three hold a pair and one more unit, and five units make two cuts.
- `daemon`: two connections, one of which stalls while the other is served; a queue of
  one is full at once.  Two bots, since one's failure must not touch the other.  Two
  turns, one of which builds its arguments while the other one probes; the policies are
  none, a muzzle, a `null` in front of a list, and a malformed list in front of one
  partly malformed; one edit comes before a turn reads or after, and
  the theorem holds for any number.  The
  theorems remove the bounds of the invariants.
- `desktop`: a reconnect and a restart compete for one daemon, so two daemons and two
  connections are the old one and the new one.  One bot is enough in `ConfigStore`, whose
  hazards are stale views and half-done saves of one bot's data; tokens change only in
  the *keyring* part, which has one editor.  Editors are interchangeable, and so are ids
  and owners in `persisted`, and those runs use symmetry; where one also checks
  liveness there is none.

### Fairness

Liveness is claimed under weak fairness of goroutines (the Go scheduler runs what can
run), and:

- strong fairness of `e.mu.Lock()` in `RouterLocks`: a `sync.Mutex` passes to its
  oldest waiter in starvation mode;
- weak fairness of the end of a turn in `TurnQueue` and `Daemon`, which `Turn` justifies
  (`HungTurnEnds`): there only the goroutines of the turn and the pipes are fair, and
  the CLI may hang; the idle timer fires.  A driver that produces events for
  ever is not covered;
- weak fairness of time (`CooldownTick` in `Breaker`) and of `Run`'s timers in
  `Connection`, where network and server fail at most `MaxFaults` times and answer
  otherwise;
- none for the server's deliveries, cron, the operator, console commands, the peers of
  the bus, the desktop's user, or a new turn: no property assumes that somebody writes.

Two properties that are liveness in the code are invariants here, of what has come
to rest: `BusSettles` looks at the states in which no goroutine of the server can run
(`~BusCanRun`, the guards of the steps of `BusRuns`, where one that queues a line also
has to have an outcome of `enqueue`; lines and broadcasts are bounded, so every
behaviour comes to such a state),
`SomeoneReconnects` at those without a live connection, in which some goroutine must
be on its way to one or the failure be shown.

## 4. What is proved

Every invariant, action property and refinement that a passing run checks is also a
theorem, checked by TLAPS for arbitrary constants.  The proofs of a run's parts are in one
module and rest on the named assumptions of the modules (`LocksAssumption`,
`RateAssumption`, ...), which TLC evaluates in the runs.  They say what the code gives:
`QueueAssumption` that a turn has one session and that messages, fires and consoles are
different things; `TurnAssumption` that a CLI can always make an id not in use;
`PlanAssumption` that a clock change is an hour or more from the clock's beginning;
`NamesAssumption` that a thread has one group.

Five theorems have a hypothesis more, and it is the value the run gives the constant:
`~LongTurns` for `CursorNeverAhead` and `NoMessageSkipped` (section 6 says what happens
without), `MayPanic = FALSE` for `QueuesHaveTheirWorker` (a panic outside `runTurn`
leaves the flag set), `StoreMayFail = FALSE` for `NoMessageRunsTwice` (`turnFirstSeen`
fails open), `ConsolesApart` for `RepliesGoHome` (`queue_console` is what it excludes).

**RouterLocksProofs.**  `LockTableInvariant`: `IInv` is inductive.  Exclusion is not
inductive by itself: it needs that a goroutine's entry is the mapped one
(`EntryStaysMapped`), for which an entry in use must not be evictable, for which
`refs` must count exactly the goroutines between acquire and release (`RefsExact`), for
which in turn no two keys may share an entry (`OneKeyPerEntry`) and the mutex must be
held by whom it names (`MuExact`).  `TypeCorrect`, `MutualExclusion` follow, and
`LocksImplementSessions` maps every step to `SessionLock` or a stutter: `LockEntry` is
`Enter`, which `MutualExclusion`'s argument enables.

**GatewayProofs.**
- `BucketInvariant`, `BucketTypes`, `BucketsStaySane`: types and the stamping discipline.
  `EvictionInvisible`: the abstract level of a bucket is what `refill` would give now,
  so a `Tick` is the abstract refill; evicting changes nothing because an idle bucket is
  at its capacity by then (`EffectiveIdle > Window`) and its flag no longer matters.
- `BreakerTypes`, `NoWedgedProbe`: `BreakerSane` is inductive with the types, because
  each end of the probe, a panic too, leaves half-open.
- `ToolsAreScoped`: a turn's resolved list is that of a policy in its `inForce`
  (`Resolved` against `Ruling`: the lemmas `SanitizedRules`, `StartupRules` and
  `DefaultScoped` say that sanitising, falling back and resolving give what the operator
  meant), what a probe found is filtered, and a turn that probes has no list.
- `TurnsSettle`, `ResumesAreSafe`: `TurnInv` follows `runTurn` by its program counter.
  `EndInv` says what each place has still to do (answer, report, stop the heartbeat);
  `IdInv` that a row of the store, and the turn, hold an id of its driver that was not
  cleared or is `held`;
  `RunInv` that nothing of a first attempt was shown or done when there is a second
  one.  The lemmas on the parsers (`ParsedLines`, `StdoutTyped`) say which events a line
  of either CLI can become.
- `ClaudeIsHeard`: `VerdictInv` says that what has been heard of a run of claude's
  (`res`, `sawDone`) and what is still to be heard make up its verdict, whichever of
  stdout, stderr and the exit status comes first.  `ClaudeRuns` says it of the whole
  run, from what each of its lines is to the turn (`ClaudeLines`).  codex lacks it
  (section 5): its exit error is heard after its verdict and not as recoverable.

**TurnQueueProofs.**  `QInv` carries everything: a session has one worker at most and is
marked as running when it has one or turns pending (`Homes`), `wg` counts the workers, a
goroutine works on a turn of its own session (`Jobs`), and a session's lock is held by
one of that session that runs or replies (`Locks`).  `OneWorkerPerSession` is part of
it.  `NoMessageRunsTwice` adds that a message past dedup is in the store, and once;
`RepliesGoHome` that a reply target is the running turn's.  `TurnsAreServedInOrder`:
`SerialTurns`' waiting list is the queue behind the turn its worker holds but has not
begun, so taking a turn from the queue is a stutter and `Admit` is the abstract start.

**InboundProofs.**  `FramesEndWhereTheyMust`: what became of a frame is what its kind
and the setup allow (`FateOf`), and the classifier's answer is the first rule that is met
(`FirstRule`), which the properties' own terms are compared with (`Reasons`).
`GroupDocFollows`: when all notices are read and nothing is to blame, there is one
refresh at most, and what it will write is the server's document (`DocInv`).
`InboundIsSafe` is both in the run's composition.

**PersistedProofs.**
- `CursorNeverAhead`: the cursor, the value saved for a rewind and the id a turn is about
  to store are all at most `nextID`.  `NoMessageSkipped`: for each step of a turn
  `SkipInv` says up to which id the window is covered by prompts, by the turn's own delta
  and message with what its budget cut, and by the gap; that seeded history precedes live
  entries (`SeedFirst`) is what makes a push cover what it should.  `CutoffOnlyRises`
  needs no invariant but that backfilled entries never raise the row.
- `FiresAtMostOnce`: a task that is due, or held by a tick, has one occurrence that is not
  counted as fired, or that an edit has put back (`Shape`, `Once`).  `OwnerFires`: apart
  from tasks created late, what is stored under a known owner was created by it (`Owned`),
  because a prune precedes each swap.  `DrainLosesNoFire`: what each wait of the drain has
  seen end does not begin again (`Quiet`): no tick once the loop is gone, hence no fire,
  hence no turn.
- `TasksFireAsWritten`: `NextRun` is characterised by a lemma (the first minute of the
  horizon that is meant and was not just fired, or none there), and between two fires
  the task's next run is such a minute, so that no meant one lies before it.

**ConnectorProofs.**
- `RegistersWhenNeeded`: `~registered` implies that the token is not good, which an auth
  failure establishes and only a registration ends.  `FaultsAreReported`: a socket
  closed without a cause was closed by the watcher.  `EvictionSparesTheLeader`: with
  room for two counts or more, a third message is left after an eviction, and the
  victim was not ahead of it.
- `NamesAreTold`: a name that is there was told with every row that shows it, or a failed
  read is on record for that row, or it is on its way: in the hook, in a touch that has
  yet to read, or in one that has read it (`OnItsWay`).
- `RepliesStayIntact`: what the search for a cut returns is clean (`SplitIs`, `AdjustedIs`),
  by the least number of a set of positions; a message in the chat is behind what is
  consumed or is the segment at hand, whose number a second try repeats (`ReplyInv`).

**RuntimeProofs.**
- `StreamForEveryClient`: broadcasts are numbered and one at a time, so what is queued or
  written is below the one at hand, and at it only for those it has reached
  (`StreamInv`).  A connection is in a broadcast's audience if it was in the map at the
  start; what it has missed is behind `first`, and the flag is read when it is reached,
  so what lies in a queue from before the token was shown is answers only.
- `BusComesToRest`: `enqueue` always has an outcome, because a queue never exceeds its
  capacity; a connection that ended is out of the map, and closed unless it never had
  a writer; and a closed listener has nobody waiting (`EndsInv`).
- `NoTurnMeetsAClosedStore`: each kind of turn pins `runBot` before the wait that is there
  for it (`BotOK`, `FireOK`, `SendOK`).  A session.send reaches registered bots only, and
  a registered bot has left the steps whose failure closes the store without a drain.
  `FailedBotsAreListed` follows from the same invariant: while the daemon lives,
  `runBot` unwinds with an error or a panic.

**DesktopProofs.**
- `BridgesAreSafe`: whoever starts a daemon holds the supervisor's mutex and has stopped
  the last one (`MutexInv`), and a connection is one goroutine's until it is published
  (`ConnsInv`).  `SomeoneAlwaysReconnects`: `CoverInv` strengthens `SomeoneReconnects`,
  which is not inductive, since a call that is under way may have nothing left to do
  that helps: only a goroutine on its way to a published client counts, a reader of the
  published one, or a reconnect of the current epoch; and it has to hold from the
  moment the start of the app is about to declare the bus up.
- `SavesSpareTheRest`: what a save in progress has merged stays as it was until it is
  written (`CallInv`), and an override is on file as it was last set (`FileInv`).
- `InstallsAreSafe`: a job has something to put in place only when it was verified (or is
  a dev build's, `Unchecked`), and has recorded it before the stamp (`JobOK`); claude's
  jobs are one at a time, which is what keeps the cached surface behind the version it
  names.

*Induction over data.*  The library's induction theorems cannot be instantiated by these
provers, but `LeastNat` can be proved from the well-foundedness of `<` and says the same:
a set of naturals that is not empty has a least one.  The proofs about sequences built
element by element (deltas, event streams, segments, the minutes of a scan) take the
least index that fails.

Model-checked only: the liveness properties `NoTurnStarves`, `QueueServed`, `DaemonExits`,
`CooldownEnds`, `HungTurnEnds`, `ShutdownEnds` and `Recovers`, since their fairness is a
matter of ENABLED, which the prover does not have; and the four violations of section 5.

## 5. Where code and documentation disagree

Each is a run whose expected result is a violation.

1. `queue_console` - the reply target of a session is not protected by the session
   lock, although `connector_sink.go:111-114` says so: a console turn for an IM peer's
   uid replies into the IM conversation and deletes the target, and the IM turn's reply
   is lost.  It takes a `session.send` with such a uid; the desktop sends "gui-user".
2. `turn_codex` - `codex_parse.go:157-160` wants a terminal upstream failure told as
   busy.  In the run a fresh conversation ends with such a `turn.failed`; codex exits
   non-zero after it, the exit error is neither transient nor earlier, and
   `consumeAgentError` lets the later one win (`stream.go:67-68`).
3. `bridge_restart` - `reconnect` "bails the moment a newer one appears"
   (`octobuddyservice.go:187-189`); between its epoch check and the supervisor's lock a
   `RestartCore` may start a daemon, which `reconnect` then stops.
4. `secrets_stale` - `secrets.go:201-204` says a backend whose availability toggles
   cannot surface a stale copy; what was set or deleted while the keyring was away comes
   back with it.

## 6. Further observations

Found while modelling; no run of their own.  Some contradict a comment, and are named
first here because a property above leaves room for them.

- *The open stream.*  `SetAuth` (`server.go:56-58`) says that with an empty token every
  privileged command "and the broadcast event stream - is denied (fail closed)".
  Commands are; the stream is open: `Broadcast` (207-219, by its own comment too) gates it
  only when a token is set.  `ControlBus` has both cases, and `StreamHolds` says from
  where the stream runs in each.
- *An occurrence that an edit brings back.*  `Manager.Update` computes `NextRun`
  (`tasks.go:177,231-238`) before it has the store (184).  An occurrence that comes due
  and is fired in between is put back with the stale `NextRun`, and fires again, against
  the "at-most-once semantics" of `scheduler_loop.go:133`; `putBack` has exactly these.
- *A conversation that was reset.*  `session.reset` clears the resume ids without the
  session lock, and answers OK when the clearing failed.  The turn that was resuming one
  goes on with it and `SaveResume` puts it back (`held`); a fresh turn that began before
  the reset saves its own id after it.
- *Tools of an older policy.*  When `config.json` cannot be read, a turn gets the policy of
  the daemon's start, which may be wider than the live one, against `bot.go:431-433` ("so
  a transient mid-write read never widens the surface").  `"channel": null` lifts a
  restrictive default.  The fallback of a turn without a policy is `--tools default`
  after a failed probe, for less than a minute, and that has the interactive tools.
  `binPath` is asked twice (`claude.go:530`, 307), so the surface may be another
  binary's than the one spawned; a binary replaced in place keeps its cached surface
  until the restart; a probe that fails late overwrites a good entry.
- *What the budget cuts.*  A prompt keeps the newest lines that fit (`context.go:67-91`),
  the cursor passes all: what was cut is in no later prompt (`cut`).  Messages also count
  as used up by a turn that apologised or panicked after its answer, whether a CLI has
  read them or not.
- *GROUP.md.*  A deletion's notice that is read late removes a newer document; with the
  five other causes of `StaleHasCause`, `mirrorGroupDoc`'s "so it never goes stale after a
  server-side clear" does not hold.  The debounce is leading-edge only: the last change of
  a burst, or a delete, is dropped and never fetched; two refreshes may land in the other
  order; a failed fetch uses up the window; a notice is acked before it is handled.
- *Rows nobody sends.*  When `ListSessions` fails, both broadcasters return silently
  (`control_sessions.go:74-77,112-115`): the row keeps the bare id until something else
  sends it (`unread`).
- *Silent refusals.*  After the first notice of a block the rate limiter refuses frames
  without telling their senders (`gate.go:82-86`, `RateLimitedSilent`).

*Queue, gateway, agent.*

- A panic outside `runTurn` leaves `running` set with no worker (`connector_queue.go:98`):
  not one dropped turn, but a mute session until the restart.
- `breaker.go:24-25,42-43` promises a single probe.  `onResult` takes any report for the
  probe's (line 76), so a turn admitted before the breaker opened can close it
  while the probe runs, and a second turn spawns.  The breaker is opt-in and the daemon
  does not wire it.
- A deadline that ends exactly with the run can drop the error event and still let
  `TurnDone` through; a cancelled context can drop the exit error; the retry inherits
  `idle.markDone`.
- `failTurn` does not set `delivered`, so the cursor is rewound although an apology was
  shown; `completeSuccessfulTurn` sets it only after `OnReply`.
- `agent.go:155-163` says of a poisoned conversation that it is retried afresh
  and unseen; the code neither retries nor is silent.
- `cmd.Wait` follows both drains, and with no dispatch timeout a consumer that panicked
  leaves them blocked on the channel.
- A panic after `OnReply` and before `delivered` is set sends an apology after the answer
  (`OneReply` allows that pair); one inside the sink's own `OnReply` is not modelled.
- A line on stdout of more than 16 MiB ends the turn as an error; on stderr it only ends
  the reading of stderr (`stream.go:93-95,107-109`).
- An all-wildcard edit of the tools means the driver's defaults live and is refused at a
  restart; one invalid bot fails the roster.
- `progress[sessionKey]` is not deleted after a turn that timed out.

*Group context, GROUP.md, frames.*

- On a cold start the backfill puts the current message into its own background
  (`gateway_prompt.go:46` says the delta is built before it is cached).
- With `LongTurns = TRUE`, `CursorSane` fails: a turn that outlasts the reaper's
  threshold, whose channel is evicted under it, and that then fails, restores a cursor
  beyond the restarted ids.
- A message observed between a turn's delta and its `MaxID` is skipped by later deltas;
  `NothingSkipped` excuses exactly these (`gap`).
- `pushLocked` looks for duplicates among the newest 16 entries, a backfill adds up to
  20: frames delivered again after a restart can be cached twice.
- `router.Config` calls `BotBlocklist` DM-only; `groupBotGuards` applies it in groups.
  A peer bot that quotes the bot counts as addressing it.  `respond_as` is not
  compared with the grantor.

*Cron.*

- The connector's owner changes before the scheduler's tasks are pruned
  (`connector.go:167-177`): a tick in between hands the old owner's task to a connector
  that answers for the new one.  It takes a change of owner in a running process.
- If the first prune fails, the owner stays unknown to the scheduler until the next
  registration, which an established connection does not make.
- When the clock is set back only the minute that just fired is skipped: of two minutes
  in the repeated hour both fire again.  The key is that of the tick, so after a late one
  even a single minute may repeat.
- `0 9 29 2 *` is refused, or dropped after it fired, when its date is more than 366
  days away, although `ValidateSchedule` takes it and the comments speak of impossible
  schedules only; so is a yearly task 366 days and one hour away (a moved changeover).
- `*/1` counts as a restricted field, so `0 9 */1 * 1` fires daily.  A one-shot time in a
  repeated or skipped hour is read as `time.Date` reads it.

*Connection, replies, names.*

- Strikes for undecryptable messages are a connection's: a link that flaps between the
  deliveries of a poison message never drops it.  Ties between victims
  are broken by map order, so fairness alone does not drop it either.
- `Run` resets the backoff after each registration: while registration works and
  CONNACK fails authentication (two daemons with one bot), the wait stays at the base.
- `Run` calls `setStatus(true, "")` before it dials, so a bot is shown as connected
  while its server cannot be reached.
- Overlapping mention spans can still be cut.
- `LearnUser` never fires the hook; a fetch that comes back empty can overwrite a name
  that was learned meanwhile; the prewarm's limit is per call.

*Bus and daemon.*

- `Close` may leave a connection that was accepted late registered and open; a failed
  write does not close the connection; responses too are dropped when the queue is full.
- `session.send` adds to `turnsWG` without a closed flag (`control.go:147`): one
  that was resolved before and is counted after the drain meets a closed store (`late`).
- A bot that panicked stays "runtime" in the registry with a closed store; the daemon
  exits once every bot has failed; the REPL ignores Ctrl-C.
- The GUI ignores pushes: `session.upserted` and `name.resolved` go out as events
  (`server.go:225`), and `store.svelte.ts` handles them among the responses only.

*Desktop.*

- The reconnect race of `bridge_restart` can repeat without end; two clients of one
  daemon duplicate events; a redial after `ErrTooLong` leaves the old connection open;
  after a failed `RestartCore` nobody reconnects; a reconnect past its epoch check may
  start a daemon after `ServiceShutdown`.
- `configstore`: "a failed Save converges on retry" does not hold for the BOOTSTRAP
  scaffold nor for a removed bot's secrets and logout; the prune deletes the env secrets
  before it looks for `OCTO_BOT_ID` among them, and an app that ends in its middle leaves
  the tokens and the profile of a bot whose directory is gone, for good; duplicates held
  as secrets are not seen; a stale editor drops other bots from `config.json` (their data
  is kept) and adds a BOOTSTRAP again; a stale SOUL.md text wins; a plain value replaces a
  secret before the configuration is written.
- `octocli`: after a failed stamp `EnsureInstalled` may downgrade; upgrades are not
  serialised, so stamp and binary may be of different versions that were both installed; a
  dev build's bundle without a hash is installed unverified, with a warning.  `claudecli`:
  a failure after the rename leaves only `.prev`; `toolset.Refresh` reads path and version
  apart.

## 7. What is not modelled, and why

- Formatting, parsing, the packet format, encryption, HTTP, media: data with no state
  behind it.
- Config, persona, prompt, safety, sandbox, safepath, log: files and pure functions on
  strings and paths.  What the live configuration decides is in `ToolSurface`.
- The store's SQL beyond the monotone tables and the resume ids: single statements on
  one connection.
- The member maps of the group context (roster, mentions), its text; the rate
  of tool notices; the reaping of old dedup rows; setStatus, heartbeat and receipts.
- The daemon's flags and REPL; env values with secret refs,
  SOUL.md and AGENTS.md, and two bots with one `OCTO_BOT_ID` in `ConfigStore`.
- The desktop's workspace, skills, workflows, tray and windows: files within one
  directory, and presentation.
- Durations: timers fire in any order that the code's guards allow; the read deadline
  is assumed to exceed the silence of a live link.

## 8. Plan

What is left, in this order.

1. Proofs of what the abstract specifications below will say, and of `TurnQueue`'s
   seams: that a step of `Turn` is the step its place in the queue allows.
2. Abstract specifications for `Turn` (one outcome, and the next turn resumes what the
   user saw) and for `GroupDoc` (a copy that converges), as `SerialTurns` is for the queue.
3. `ConfigStore`: env values and their secret refs, with the identity of the robot
   (`OCTO_BOT_ID`) across removal and addition in one save.
4. `GroupContext`: the member maps behind mentions.
5. The composition of `GroupContext` and `TurnQueue` in one state: a console turn and an
   observed message about one channel while a worker retires.
