---------------------------- MODULE GroupContext ----------------------------
(***************************************************************************)
(* One group channel's rolling context (groupctx/groupctx.go, context.go), *)
(* as the gateway's turns use it (gateway_prompt.go, gateway.go,           *)
(* gateway_turn.go) while the connector's read loop pushes observed        *)
(* messages, the hourly reaper evicts quiet channels, and the daemon       *)
(* crashes.                                                                *)
(*                                                                         *)
(* Turns of the channel run one at a time (TurnQueue, RouterLocks); the    *)
(* read loop and the reaper hold only GroupContext.mu, so each section of  *)
(* that mutex is an action.  A message is its IM message_seq, a cron fire  *)
(* is 0.  Window ids are consecutive, so the entry at position i of the    *)
(* window has the id nextID - Len(window) + i.  Names and texts are left   *)
(* out: how much of a delta the character budget lets into the rendered    *)
(* block is any number of its newest messages.                             *)
(***************************************************************************)
EXTENDS Naturals, Sequences, FiniteSets

CONSTANTS MaxWindow,      (* maxWindowSize                                 *)
          DedupScan,      (* seqDedupScan                                  *)
          BackfillLimit,  (* GetChannelMessages' default limit             *)
          LongTurns,      (* whether a turn can outlast the reaper's hour  *)
          MaxLog,         (* bound: messages in the channel                *)
          MaxFires,       (* bound: cron fires                             *)
          MaxDeaths       (* bound: deaths of the daemon                   *)

ASSUME GroupAssumption ==
  /\ MaxWindow \in Nat \ {0} /\ DedupScan \in Nat \ {0} /\ BackfillLimit \in Nat
  /\ LongTurns \in BOOLEAN
  /\ MaxLog \in Nat /\ MaxFires \in Nat /\ MaxDeaths \in Nat

VARIABLES log,        (* the server's channel: "plain", "ask" or "bot"     *)
          read,       (* how much of it the read loop has received         *)
          asks,       (* turns waiting in the connector's queue            *)
          begun,      (* asks in the seen_messages table                   *)
          window,     (* GroupContext.windows[ch], oldest first            *)
          nextID,     (* GroupContext.nextID[ch]                           *)
          cursor,     (* GroupContext.cursors[ch]                          *)
          backfilled, (* GroupContext.backfilled[ch]                       *)
          stale,      (* lastTouch[ch] is older than the reap threshold    *)
          replySeq,   (* group_reply_cursors.last_seq                      *)
          pc,         (* where the turn is                                 *)
          cur,        (* its message                                       *)
          preCursor,  (* tc.preCursor                                      *)
          delta,      (* the messages in its background block              *)
          over,       (* those of the delta the budget left out of it      *)
          top,        (* what MaxID returned to it                         *)
          fires,      (* cron fires so far                                 *)
          deaths,     (* deaths so far                                    *)
          seeded,     (* history: ids that Backfill put into the window    *)
          offered,    (* history: messages in prompts of concluded turns   *)
          cut,        (* history: what the budget cut from those prompts   *)
          gap         (* history: pushed between the delta and MaxID       *)

input == <<log, read, asks, begun>>
channel == <<window, nextID, cursor, backfilled, stale>>
turn == <<cur, preCursor, delta, over, top>>
history == <<seeded, offered, cut, gap>>
counters == <<fires, deaths>>
groupVars == <<log, read, asks, begun, window, nextID, cursor, backfilled, stale, replySeq,
               pc, cur, preCursor, delta, over, top, fires, deaths, seeded, offered,
               cut, gap>>

GroupInit ==
  /\ log = <<>> /\ read = 0 /\ asks = <<>> /\ begun = {}
  /\ window = <<>> /\ nextID = 0 /\ cursor = 0 /\ backfilled = FALSE /\ stale = FALSE
  /\ replySeq = 0
  /\ pc = "idle" /\ cur = 0 /\ preCursor = 0 /\ delta = {} /\ over = {} /\ top = 0
  /\ fires = 0 /\ deaths = 0
  /\ seeded = {} /\ offered = {} /\ cut = {} /\ gap = {}

Places == {"idle", "claim", "fetching", "delta", "push", "maxid", "advance", "running", "saving"}

-----------------------------------------------------------------------------
Lower(m, n) == IF m < n THEN m ELSE n
Higher(m, n) == IF m > n THEN m ELSE n

(* The newest n of a sequence.                                             *)
Newest(s, n) == SubSeq(s, Len(s) - Lower(n, Len(s)) + 1, Len(s))

IdAt(i) == nextID - Len(window) + i

(* A real seq among the newest seqDedupScan entries.                       *)
Cached(win, m) ==
  m > 0 /\ \E i \in 1..Len(win) : i > Len(win) - DedupScan /\ win[i] = m

(* The window after pushLocked(m).                                         *)
Pushed(win, m) ==
  IF Cached(win, m) THEN win ELSE Newest(Append(win, m), MaxWindow)

(* pushLocked: a duplicate returns before it touches the channel.          *)
Push(m) ==
  /\ window' = Pushed(window, m)
  /\ IF Cached(window, m)
       THEN UNCHANGED <<nextID, stale>>
       ELSE nextID' = nextID + 1 /\ stale' = FALSE
  /\ UNCHANGED <<cursor, backfilled>>

-----------------------------------------------------------------------------
(* Somebody writes into the channel.                                       *)
Post(kind) ==
  /\ Len(log) < MaxLog
  /\ log' = Append(log, kind)
  /\ UNCHANGED <<read, asks, begun, channel, replySeq, pc, turn, counters, history>>

InGap == pc \in {"push", "maxid"}

(* The read loop takes the next frame: the bot's own is ignored, a plain   *)
(* message is observed, one that asks the bot is queued unless the         *)
(* seen_messages table has it.                                             *)
Receive ==
  /\ read < Len(log)
  /\ read' = read + 1
  /\ \/ log[read + 1] = "bot" /\ UNCHANGED <<asks, channel, gap>>
     \/ /\ log[read + 1] = "plain"
        /\ Push(read + 1)
        /\ gap' = IF InGap THEN gap \cup {read + 1} ELSE gap
        /\ UNCHANGED asks
     \/ /\ log[read + 1] = "ask"
        /\ asks' = IF read + 1 \in begun THEN asks ELSE Append(asks, read + 1)
        /\ UNCHANGED <<channel, gap>>
  /\ UNCHANGED <<log, begun, replySeq, pc, turn, counters, seeded, offered, cut>>

(* EnqueueCron.                                                            *)
CronFires ==
  /\ fires < MaxFires
  /\ fires' = fires + 1
  /\ asks' = Append(asks, 0)
  /\ UNCHANGED <<log, read, begun, channel, replySeq, pc, turn, deaths, history>>

(* The threshold passes without a touch.                                   *)
Age ==
  /\ pc = "idle" \/ (LongTurns /\ pc = "running")
  /\ ~stale /\ stale' = TRUE
  /\ UNCHANGED <<input, window, nextID, cursor, backfilled, replySeq, pc, turn, counters, history>>

(* The histories are about one life of the channel's window.               *)
Forget == seeded' = {} /\ offered' = {} /\ cut' = {} /\ gap' = {}

(* Deviation: ReapIdle leaves the cursor behind.                           *)
ReapKeepingCursor ==
  /\ stale
  /\ window' = <<>> /\ nextID' = 0 /\ backfilled' = FALSE /\ stale' = FALSE
  /\ Forget
  /\ UNCHANGED <<input, cursor, replySeq, pc, turn, counters>>

(* ReapIdle evicts the channel.                                            *)
Reap ==
  /\ stale
  /\ window' = <<>> /\ nextID' = 0 /\ cursor' = 0 /\ backfilled' = FALSE /\ stale' = FALSE
  /\ Forget
  /\ UNCHANGED <<input, replySeq, pc, turn, counters>>

-----------------------------------------------------------------------------
GoTo(place) == pc' = place

Touch == stale' = FALSE /\ UNCHANGED <<window, nextID, cursor, backfilled>>

(* The worker records the message and runs the turn; admitTurn captures    *)
(* the cursor.                                                             *)
TurnAdmitted ==
  /\ pc = "idle" /\ asks # <<>>
  /\ cur' = Head(asks) /\ asks' = Tail(asks)
  /\ begun' = IF Head(asks) > 0 THEN begun \cup {Head(asks)} ELSE begun
  /\ preCursor' = cursor
  /\ Touch
  /\ GoTo("claim")
  /\ UNCHANGED <<log, read, replySeq, delta, over, top, counters, history>>

(* Backfill, first section: the once-guard is claimed.                     *)
Claim ==
  /\ pc = "claim"
  /\ IF backfilled \/ window # <<>>
       THEN GoTo("delta") /\ UNCHANGED backfilled
       ELSE GoTo("fetching") /\ backfilled' = TRUE
  /\ UNCHANGED <<input, window, nextID, cursor, stale, replySeq, turn, counters, history>>

(* SaveBotReplySeq without its WHERE clause.                               *)
SavePlain(n) == replySeq' = n

(* SaveBotReplySeq is monotone.                                            *)
Save(n) == replySeq' = Higher(n, replySeq)

(* What the server may answer a fetch with: its newest messages as of an   *)
(* instant since the claim, or nothing (the request failed).               *)
Answers == {<<>>} \cup {Newest([i \in 1..n |-> i], BackfillLimit) : n \in read..Len(log)}

(* The messages of s that are not the bot's own.                           *)
Human(s) ==
  LET kept[i \in 0..Len(s)] ==
        IF i = 0 THEN <<>>
        ELSE IF log[s[i]] = "bot" THEN kept[i - 1] ELSE Append(kept[i - 1], s[i])
  IN  kept[Len(s)]

(* The highest seq of the bot's own messages, 0 if there is none.          *)
Inferred(s) ==
  LET own == {s[i] : i \in {j \in 1..Len(s) : log[s[j]] = "bot"}}
  IN  IF own = {} THEN 0 ELSE CHOOSE m \in own : \A n \in own : n <= m

(* The window is cut to MaxWindow, and the ids go on from nextID.          *)
Seed(s) ==
  /\ window' = Newest(window \o Human(s), MaxWindow)
  /\ nextID' = nextID + Len(Human(s))
  /\ seeded' = seeded \cup (nextID + 1)..(nextID + Len(Human(s)))
  /\ stale' = IF Human(s) = <<>> THEN stale ELSE FALSE
  /\ Save(Inferred(s))

(* Backfill, second section: history is dropped if a live message came     *)
(* first.  The seqs of an answer are distinct, so none is a duplicate.     *)
Land ==
  /\ pc = "fetching"
  /\ \/ window = <<>> /\ \E s \in Answers : Seed(s)
     \/ window # <<>> /\ UNCHANGED <<window, nextID, stale, replySeq, seeded>>
  /\ GoTo("delta")
  /\ UNCHANGED <<input, cursor, backfilled, turn, counters, offered, cut, gap>>

(* collectContextDelta: the positions of what is newer than the cursor.    *)
Newer == {i \in 1..Len(window) : IdAt(i) > cursor}

(* Cursor, then BuildContextSince.  Only a turn of this channel moves the  *)
(* cursor, so reading it and building the delta are one step.              *)
(* selectContextLines takes the newest that fit, perhaps none.             *)
Delta ==
  /\ pc = "delta"
  /\ \E fit \in 0..Len(window) :
       /\ delta' = {window[i] : i \in {j \in Newer : j > Len(window) - fit}}
       /\ over' = {window[i] : i \in {j \in Newer : j <= Len(window) - fit}}
  /\ Touch
  /\ GoTo("push")
  /\ UNCHANGED <<input, replySeq, cur, preCursor, top, counters, history>>

(* The current message is cached after the delta was read.                 *)
PushCurrent ==
  /\ pc = "push"
  /\ Push(cur)
  /\ GoTo("maxid")
  /\ UNCHANGED <<input, replySeq, turn, counters, history>>

MaxID ==
  /\ pc = "maxid"
  /\ top' = nextID
  /\ Touch
  /\ GoTo("advance")
  /\ UNCHANGED <<input, replySeq, cur, preCursor, delta, over, counters, history>>

SetCursor ==
  /\ pc = "advance"
  /\ cursor' = Higher(top, cursor)
  /\ stale' = FALSE
  /\ GoTo("running")
  /\ UNCHANGED <<input, window, nextID, backfilled, replySeq, turn, counters, history>>

Idle == /\ GoTo("idle")
        /\ cur' = 0 /\ preCursor' = 0 /\ delta' = {} /\ over' = {} /\ top' = 0

(* OnReply; the send may fail without the gateway knowing.                 *)
Say == /\ Len(log) < MaxLog /\ log' = Append(log, "bot")
       /\ UNCHANGED <<read, asks, begun>>

(* The turn counts as delivered, so finishCursor leaves the cursor where   *)
(* SetCursor put it.                                                       *)
Offer == /\ offered' = offered \cup delta \cup {cur}
         /\ cut' = cut \cup over
         /\ UNCHANGED <<seeded, gap>>

(* completeSuccessfulTurn answers with a text.                             *)
Reply ==
  /\ pc = "running"
  /\ Say \/ UNCHANGED input
  /\ Offer
  /\ GoTo("saving")
  /\ UNCHANGED <<channel, replySeq, turn, counters>>

SaveSeq ==
  /\ pc = "saving"
  /\ Save(cur)
  /\ Idle
  /\ UNCHANGED <<input, channel, counters, history>>

(* An empty answer, a timeout or a terminal error: a notice at most, and   *)
(* the turn counts as delivered.                                           *)
Apologize ==
  /\ pc = "running"
  /\ Say \/ UNCHANGED input
  /\ Offer
  /\ Idle
  /\ UNCHANGED <<channel, replySeq, counters>>

(* recoverTurn: a panic counts as delivered wherever it happens.  Before   *)
(* SetCursor the cursor has not moved; after it, it stays moved.           *)
Panic ==
  /\ pc # "idle"
  /\ Say \/ UNCHANGED input
  /\ IF pc = "running" THEN Offer ELSE UNCHANGED history
  /\ Idle
  /\ UNCHANGED <<channel, replySeq, counters>>

(* Deviation: a turn that failed does not roll the cursor back.            *)
FailKeeping ==
  /\ pc = "running"
  /\ Say \/ UNCHANGED input
  /\ Idle
  /\ UNCHANGED <<channel, replySeq, counters, history>>

(* failTurn (the store, the sandbox, the driver's start), then             *)
(* finishCursor's RewindCursor.                                            *)
Fail ==
  /\ pc = "running"
  /\ Say \/ UNCHANGED input
  /\ cursor' = preCursor /\ stale' = FALSE
  /\ Idle
  /\ UNCHANGED <<window, nextID, backfilled, replySeq, counters, history>>

(* The process starts again with nothing in memory; the frames it had not  *)
(* acknowledged come again.                                                *)
Crash ==
  /\ deaths < MaxDeaths
  /\ deaths' = deaths + 1
  /\ read' \in 0..read /\ asks' = <<>>
  /\ window' = <<>> /\ nextID' = 0 /\ cursor' = 0 /\ backfilled' = FALSE /\ stale' = FALSE
  /\ Idle
  /\ Forget
  /\ UNCHANGED <<log, begun, replySeq, fires>>

Turn == \/ TurnAdmitted \/ Claim \/ Land \/ Delta \/ PushCurrent \/ MaxID \/ SetCursor
        \/ Reply \/ SaveSeq \/ Apologize \/ Panic \/ Fail

GroupNext ==
  \/ \E kind \in {"plain", "ask"} : Post(kind)
  \/ Receive \/ CronFires \/ Age \/ Reap \/ Turn \/ Crash

GroupSpec == GroupInit /\ [][GroupNext]_groupVars

-----------------------------------------------------------------------------
Seqs == 0..MaxLog

(* Every variable keeps its type, counters within their named bounds.      *)
GroupTypeOK ==
  /\ log \in Seq({"plain", "ask", "bot"}) /\ Len(log) <= MaxLog /\ read \in 0..Len(log)
  /\ asks \in Seq(Seqs) /\ begun \subseteq Seqs
  /\ window \in Seq(Seqs) /\ Len(window) <= MaxWindow
  /\ nextID \in Nat /\ cursor \in Nat /\ backfilled \in BOOLEAN /\ stale \in BOOLEAN
  /\ replySeq \in Seqs
  /\ pc \in Places /\ cur \in Seqs /\ preCursor \in Nat /\ top \in Nat
  /\ delta \subseteq Seqs /\ over \subseteq Seqs
  /\ fires \in 0..MaxFires /\ deaths \in 0..MaxDeaths
  /\ seeded \subseteq Nat /\ offered \subseteq Seqs /\ cut \subseteq Seqs /\ gap \subseteq Seqs

(* A cursor beyond the ids handed out would hide the next messages of the  *)
(* channel from every turn (RewindCursor "unconditionally sets the         *)
(* cursor"; ReapIdle restarts the ids).                                    *)
CursorSane == cursor <= nextID

(* Backfill's re-check, "a live message may have landed while we were      *)
(* fetching": fetched history never follows a live message.                *)
SeedFirst == seeded = 1..Cardinality(seeded)

(* RewindCursor's reason: without it "the bumped cursor would silently     *)
(* exclude the un-persisted message from every subsequent delta".  Between *)
(* turns, a cached message at or below the cursor was in the prompt of a   *)
(* turn that answered or apologized, or the budget cut it, as one of the   *)
(* oldest, from such a prompt; the only exception is one that the read     *)
(* loop pushed after the turn's delta was built and before the turn read   *)
(* MaxID.  A turn that failed used up nothing, not even what its budget    *)
(* cut.  And what is cached is in the order in which it was said.          *)
NothingSkipped ==
  /\ GroupTypeOK /\ SeedFirst
  /\ pc = "idle" =>
       \A i \in 1..Len(window) : IdAt(i) <= cursor => window[i] \in offered \cup cut \cup gap

(* Messages the bot answered stay under [Previously answered], although    *)
(* turns and backfills write the cutoff with seqs of their own.            *)
CutoffNeverFalls == [][replySeq' >= replySeq]_groupVars
=============================================================================
