----------------------------- MODULE NameCache -----------------------------
(***********************************************************************)
(* Display names: core/im/octo/namecache.go and namecache_prewarm.go,   *)
(* the rows that carry them to the desktop                               *)
(* (cmd/octobuddy-daemon/control_sessions.go), and the desktop's list,    *)
(* which keeps a name that it was told when a later row lacks it          *)
(* (applySessionsList, store.svelte.ts).                                  *)
(*                                                                       *)
(* The names meet three kinds of goroutine: the fetches, the turns that  *)
(* touch a session, and the handler of sessions.list.  What matters of a *)
(* name is whether it is known.  The Console session has no name to look *)
(* up and is left out: dmPeerUID drops it.                                *)
(***********************************************************************)
EXTENDS Naturals, FiniteSets

CONSTANTS
  Users,        \* uids, each also the key of its DM session
  Groups,       \* groups that are no threads
  Threads,      \* threads
  ParentOf      \* [Threads -> Groups]

ASSUME NamesAssumption ==
  /\ ParentOf \in [Threads -> Groups]
  /\ Users \cap (Groups \cup Threads) = {} /\ Groups \cap Threads = {}
  /\ {"idle", "stored"} \cap (Users \cup Groups \cup Threads) = {}

Channels == Groups \cup Threads
Keys == Users \cup Channels

VARIABLES
  cache,        \* [Keys -> {"absent", "empty", "name"}]
  inflight,     \* the keys a goroutine fetches, or will
  fetches,      \* [Keys -> how many goroutines do so]
  sessions,     \* the keys of the sessions in the store
  touch,        \* [Keys -> a row on its way out of sessionTouchBroadcaster]
  due,          \* the keys whose hook has yet to read the store
  hook,         \* [Keys -> the sessions nameResolvedBroadcaster still has to send]
  told,         \* <<session, key>>: the desktop's row of session has the name of
                \* channel key
  unread        \* history: <<session, key>>: ListSessions failed when that row
                \* was to be sent

namesVars == <<cache, inflight, fetches, sessions, touch, due, hook, told, unread>>
fetchVars == <<cache, inflight, fetches>>
hookVars == <<due, hook>>

NamesTypeOK ==
  /\ cache \in [Keys -> {"absent", "empty", "name"}]
  /\ inflight \subseteq Keys /\ fetches \in [Keys -> 0..2]
  /\ sessions \subseteq Keys
  /\ \A s \in Keys : touch[s] \in {{"idle"}, {"stored"}} \/ touch[s] \subseteq Keys
  /\ hook \in [Keys -> SUBSET Keys]
  /\ due \subseteq Keys
  /\ told \subseteq Keys \X Channels /\ unread \subseteq Keys \X Channels

NamesInit ==
  /\ cache = [k \in Keys |-> "absent"]
  /\ inflight = {} /\ fetches = [k \in Keys |-> 0]
  /\ sessions \in SUBSET Keys
  /\ touch = [s \in Keys |-> {"idle"}]
  /\ due = {} /\ hook = [k \in Keys |-> {}]
  /\ told = {} /\ unread = {}

-----------------------------------------------------------------------------
(* The cache.                                                               *)

(* A name never expires; an empty entry does, and is then as good as absent. *)
Fresh(k) == cache[k] \in {"name", "empty"}

(* negativeTTL or errorTTL.                                                 *)
Expire(k) ==
  /\ cache[k] = "empty"
  /\ cache' = [cache EXCEPT ![k] = "absent"]
  /\ UNCHANGED <<inflight, fetches, sessions, touch, hookVars, told, unread>>

(* kickIfMissing and shouldPrewarmKey.                                      *)
MayFetch(ks) == {k \in ks : ~Fresh(k) /\ k \notin inflight}

(* One goroutine for each of them.  A prewarm's may have to wait for one of *)
(* prewarmConcurrency slots, which only delays it.                          *)
Kick(ks) ==
  /\ inflight' = inflight \cup MayFetch(ks)
  /\ fetches' = [k \in Keys |-> fetches[k] + (IF k \in MayFetch(ks) THEN 1 ELSE 0)]

(* ResolveChannel also asks for the parent of a thread.                     *)
Lookups(k) == IF k \in Threads THEN {k, ParentOf[k]} ELSE {k}

(* fetchUser, fetchGroup, fetchThread, prewarmOne, and storeName: a name, no *)
(* such name, or an error.  The hook fires on a name that is news.          *)
FetchLands(k) ==
  /\ fetches[k] > 0
  /\ fetches' = [fetches EXCEPT ![k] = @ - 1]
  /\ inflight' = inflight \ {k}
  /\ \E entry \in {"name", "empty"} :
       /\ cache' = [cache EXCEPT ![k] = entry]
       /\ due' = IF entry = "name" /\ cache[k] # "name" THEN due \cup {k} ELSE due
  /\ UNCHANGED <<sessions, touch, hook, told, unread>>

(* hydrateInboundNames: the sender's name comes with most messages and is   *)
(* learned without the hook; the channel's is asked for.                    *)
LearnUser(u, c) ==
  /\ cache' = [cache EXCEPT ![u] = "name"]
  /\ Kick({c} \cap Channels)
  /\ UNCHANGED <<sessions, touch, hookVars, told, unread>>

HydrateInboundNames(u, c) ==
  /\ Kick({u} \cup (Lookups(c) \cap Channels))
  /\ UNCHANGED <<cache, sessions, touch, hookVars, told, unread>>

-----------------------------------------------------------------------------
(* Rows.                                                                    *)

(* summaryRow: the names it finds; what it misses it asks for.              *)
SummaryRow(s) == {k \in Lookups(s) : cache[k] = "name"}

(* A row reaches the desktop, which forgets no name.                        *)
Send(s, names) == told' = told \cup {<<s, k>> : k \in names \cap Channels}

(* Rows of s with these names, which are not sent.                          *)
Misses(s, names) == unread' = unread \cup {<<s, k>> : k \in names \cap Channels}

(* A turn writes a message of session s, and then tells of it.              *)
StoreMessage(s) ==
  /\ touch[s] = {"idle"}
  /\ sessions' = sessions \cup {s}
  /\ touch' = [touch EXCEPT ![s] = {"stored"}]
  /\ UNCHANGED <<fetchVars, hookVars, told, unread>>

TouchReads(s) ==
  /\ touch[s] = {"stored"}
  /\ touch' = [touch EXCEPT ![s] = SummaryRow(s)]
  /\ unread' = {miss \in unread : miss[1] # s}
  /\ Kick(Lookups(s))
  /\ UNCHANGED <<cache, sessions, hookVars, told>>

TouchSends(s) ==
  /\ touch[s] \notin {{"idle"}, {"stored"}}
  /\ touch' = [touch EXCEPT ![s] = {"idle"}]
  /\ Send(s, touch[s])
  /\ UNCHANGED <<fetchVars, sessions, hookVars, unread>>

(* ListSessions fails: no row, and nobody is told.                          *)
TouchFails(s) ==
  /\ touch[s] = {"stored"}
  /\ touch' = [touch EXCEPT ![s] = {"idle"}]
  /\ Misses(s, SummaryRow(s))
  /\ UNCHANGED <<fetchVars, sessions, hookVars, told>>

(* Deviation: the parent's name does not reach the thread's row.            *)
RefersToOwnName(s, k) == s = k

(* sessionRefersToName.                                                     *)
SessionRefersToName(s, k) ==
  \/ k \in Users /\ s \in Users /\ s = k
  \/ k \in Channels /\ s \in Channels /\ (s = k \/ (s \in Threads /\ ParentOf[s] = k))

Referring(k) == {s \in sessions : SessionRefersToName(s, k)}

(* nameResolvedBroadcaster: one row after the other, each as of then.       *)
HookReads(k) ==
  /\ k \in due
  /\ due' = due \ {k} /\ hook' = [hook EXCEPT ![k] = Referring(k)]
  /\ UNCHANGED <<fetchVars, sessions, touch, told, unread>>

HookFails(k) ==
  /\ k \in due
  /\ due' = due \ {k}
  /\ unread' = unread \cup {miss \in Referring(k) \X Channels : miss[2] = k}
  /\ UNCHANGED <<fetchVars, sessions, touch, hook, told>>

HookSends(k, s) ==
  /\ s \in hook[k]
  /\ hook' = [hook EXCEPT ![k] = @ \ {s}]
  /\ Send(s, SummaryRow(s))
  /\ Kick(Lookups(s))
  /\ UNCHANGED <<cache, sessions, touch, due, unread>>

-----------------------------------------------------------------------------
(* sessions.list: any number of requests are under way at a time.           *)

(* PrewarmChannels and PrewarmUsers.                                        *)
ListPrewarms ==
  /\ Kick(UNION {Lookups(s) : s \in sessions})
  /\ UNCHANGED <<cache, sessions, touch, hookVars, told, unread>>

(* summariesFromSessions.  The wait is over, with all names there or        *)
(* without; the rows are of the sessions that there were before it.         *)
ListAnswers ==
  /\ \E listed \in SUBSET sessions :
       /\ told' = told \cup {row \in listed \X Channels : row[2] \in SummaryRow(row[1])}
       /\ Kick(UNION {Lookups(s) : s \in listed})
  /\ UNCHANGED <<cache, sessions, touch, hookVars, unread>>

NamesNext ==
  \/ ListPrewarms \/ ListAnswers
  \/ \E k \in Keys : Expire(k) \/ FetchLands(k) \/ HookReads(k) \/ HookFails(k)
  \/ \E u \in Users, c \in Keys : LearnUser(u, c) \/ HydrateInboundNames(u, c)
  \/ \E s \in Keys : StoreMessage(s) \/ TouchReads(s) \/ TouchSends(s) \/ TouchFails(s)
  \/ \E k, s \in Keys : HookSends(k, s)

NamesSpec == NamesInit /\ [][NamesNext]_namesVars

-----------------------------------------------------------------------------
(* "gated by a per-key singleflight so a burst doesn't multiply requests"   *)
(* (namecache.go:18-24), whoever asks: a read, an inbound message or a      *)
(* prewarm, in whatever order the entries expire and the fetches land.      *)
SingleFlight == \A k \in Keys : fetches[k] = (IF k \in inflight THEN 1 ELSE 0)

(* A channel's name that a fetch has landed is in the desktop's row of      *)
(* every session that shows it, its own and those of its threads, once the  *)
(* hook and the turn under way have run, although the session may have been *)
(* created while the hook walked the store's list; unless the list could    *)
(* not be read, by the hook or by the last turn, when that row was to be    *)
(* sent.  And no name is fetched twice at a time.                           *)
ChannelNamesAreTold ==
  /\ NamesTypeOK /\ SingleFlight
  /\ \A k \in Channels, s \in sessions :
       (cache[k] = "name" /\ k \in Lookups(s) /\ k \notin due /\ s \notin hook[k] /\ touch[s] = {"idle"})
         => <<s, k>> \in told \cup unread
=============================================================================
