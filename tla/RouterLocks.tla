----------------------------- MODULE RouterLocks -----------------------------
(***************************************************************************)
(* core/router's per-session lock table: acquire, release and Reap         *)
(* (locks.go), as RouteAndHandle (gate.go) uses them.                      *)
(*                                                                         *)
(* Router.locks maps a session key to a *lockEntry.  An entry is a heap    *)
(* object of its own: a goroutine that looked it up keeps using it even if *)
(* the map has dropped it since, which is exactly what would break         *)
(* serialisation.  Entries are therefore values here, and a fresh one is   *)
(* any entry nothing points to.                                            *)
(*                                                                         *)
(* Each mutex section is one action.  acquire is two (the locksMu section  *)
(* that counts the reference, then e.mu.Lock()), release is two (e.mu      *)
(* .Unlock(), then the locksMu section), and Reap reads the clock before   *)
(* it takes locksMu.  The bucket half of Reap is RateLimiter's.            *)
(***************************************************************************)
EXTENDS Naturals, FiniteSets

CONSTANTS Keys,     (* session keys                                        *)
          Turns,    (* goroutines that call RouteAndHandle                 *)
          Entries,  (* lockEntry objects                                   *)
          None,     (* nil: no entry, no key, no holder                    *)
          Idle,     (* Reap's idle threshold, in clock ticks               *)
          MaxTime   (* bound: the clock stops here                         *)

ASSUME LocksAssumption ==
  /\ IsFiniteSet(Turns)
  /\ None \notin Keys /\ None \notin Turns /\ None \notin Entries
  /\ Idle \in Nat /\ MaxTime \in Nat \ {0}

VARIABLES now,      (* r.now(); 0 is the zero time.Time                    *)
          reapNow,  (* the instant a Reap in progress read, 0 if none is   *)
          locks,    (* Router.locks                                        *)
          refs,     (* lockEntry.refs                                      *)
          lastUse,  (* lockEntry.lastUse                                   *)
          mu,       (* lockEntry.mu: the goroutine that holds it           *)
          pc,       (* where each goroutine is                             *)
          key,      (* the session key RouteAndHandle derived              *)
          entry     (* the *lockEntry in acquire's / release's frame       *)

vars == <<now, reapNow, locks, refs, lastUse, mu, pc, key, entry>>

Init ==
  /\ now = 1
  /\ reapNow = 0
  /\ locks = [k \in Keys |-> None]
  /\ refs = [e \in Entries |-> 0]
  /\ lastUse = [e \in Entries |-> 0]
  /\ mu = [e \in Entries |-> None]
  /\ pc = [t \in Turns |-> "idle"]
  /\ key = [t \in Turns |-> None]
  /\ entry = [t \in Turns |-> None]

-----------------------------------------------------------------------------
(* A message for session k has passed the gates of RouteAndHandle.         *)
Route(t, k) ==
  /\ pc[t] = "idle"
  /\ pc' = [pc EXCEPT ![t] = "acquire"]
  /\ key' = [key EXCEPT ![t] = k]
  /\ UNCHANGED <<now, reapNow, locks, refs, lastUse, mu, entry>>

(* An entry neither the map nor any goroutine points to.                   *)
Unreferenced(e) ==
  /\ \A k \in Keys : locks[k] # e
  /\ \A t \in Turns : entry[t] # e

(* acquire, locksMu section, when the key has an entry: share it.          *)
FindEntry(t) ==
  /\ pc[t] = "acquire"
  /\ locks[key[t]] # None
  /\ entry' = [entry EXCEPT ![t] = locks[key[t]]]
  /\ refs' = [refs EXCEPT ![locks[key[t]]] = @ + 1]
  /\ pc' = [pc EXCEPT ![t] = "blocked"]
  /\ UNCHANGED <<now, reapNow, locks, lastUse, mu, key>>

(* acquire, locksMu section, when it has none: install a new one.          *)
NewEntry(t, e) ==
  /\ pc[t] = "acquire"
  /\ locks[key[t]] = None
  /\ Unreferenced(e)
  /\ locks' = [locks EXCEPT ![key[t]] = e]
  /\ entry' = [entry EXCEPT ![t] = e]
  /\ refs' = [refs EXCEPT ![e] = 1]
  /\ lastUse' = [lastUse EXCEPT ![e] = 0]
  /\ mu' = [mu EXCEPT ![e] = None]
  /\ pc' = [pc EXCEPT ![t] = "blocked"]
  /\ UNCHANGED <<now, reapNow, key>>

(* acquire: e.mu.Lock() returns, and the handler starts.                   *)
LockEntry(t) ==
  /\ pc[t] = "blocked"
  /\ mu[entry[t]] = None
  /\ mu' = [mu EXCEPT ![entry[t]] = t]
  /\ pc' = [pc EXCEPT ![t] = "running"]
  /\ UNCHANGED <<now, reapNow, locks, refs, lastUse, key, entry>>

(* Deviation: a path that ends the turn without e.mu.Unlock().             *)
UnlockEntryForgotten(t) ==
  /\ pc[t] = "running"
  /\ pc' = [pc EXCEPT ![t] = "release"]
  /\ UNCHANGED <<now, reapNow, locks, refs, lastUse, mu, key, entry>>

(* The handler returned; release, deferred, unlocks the entry.             *)
UnlockEntry(t) ==
  /\ pc[t] = "running"
  /\ mu' = [mu EXCEPT ![entry[t]] = None]
  /\ pc' = [pc EXCEPT ![t] = "release"]
  /\ UNCHANGED <<now, reapNow, locks, refs, lastUse, key, entry>>

(* release, locksMu section: drop the reference and stamp the entry.       *)
DropRef(t) ==
  /\ pc[t] = "release"
  /\ refs' = [refs EXCEPT ![entry[t]] = @ - 1]
  /\ lastUse' = [lastUse EXCEPT ![entry[t]] = now]
  /\ entry' = [entry EXCEPT ![t] = None]
  /\ key' = [key EXCEPT ![t] = None]
  /\ pc' = [pc EXCEPT ![t] = "idle"]
  /\ UNCHANGED <<now, reapNow, locks, mu>>

(* Reap reads the clock, then waits for locksMu.                           *)
ReapBegin ==
  /\ reapNow = 0
  /\ reapNow' = now
  /\ UNCHANGED <<now, locks, refs, lastUse, mu, pc, key, entry>>

(* Deviation: Reap goes by idle time alone.                                *)
EvictableWhileUsed(e) ==
  /\ lastUse[e] # 0
  /\ reapNow > lastUse[e] + Idle

(* Reap's test on one entry: no holder or waiter, used once, idle since.   *)
Evictable(e) ==
  /\ refs[e] = 0
  /\ lastUse[e] # 0
  /\ reapNow > lastUse[e] + Idle

(* Reap, locksMu section: one pass over the map.                           *)
ReapLocks ==
  /\ reapNow # 0
  /\ locks' = [k \in Keys |->
                 IF locks[k] # None /\ Evictable(locks[k]) THEN None ELSE locks[k]]
  /\ reapNow' = 0
  /\ UNCHANGED <<now, refs, lastUse, mu, pc, key, entry>>

Tick ==
  /\ now < MaxTime
  /\ now' = now + 1
  /\ UNCHANGED <<reapNow, locks, refs, lastUse, mu, pc, key, entry>>

-----------------------------------------------------------------------------
Acquire(t) == FindEntry(t) \/ \E e \in Entries : NewEntry(t, e)

Step(t) == \/ \E k \in Keys : Route(t, k)
           \/ Acquire(t)
           \/ LockEntry(t)
           \/ UnlockEntry(t)
           \/ DropRef(t)

Next == (\E t \in Turns : Step(t)) \/ ReapBegin \/ ReapLocks \/ Tick

Spec == Init /\ [][Next]_vars

(* A goroutine that can run runs (WF); a Go mutex hands over to a waiter   *)
(* that has waited too long (starvation mode), hence SF on e.mu.Lock(); a  *)
(* turn ends because the gateway bounds it with an idle timer.             *)
Fairness ==
  \A t \in Turns : /\ WF_vars(Acquire(t))
                   /\ SF_vars(LockEntry(t))
                   /\ WF_vars(UnlockEntry(t))
                   /\ WF_vars(DropRef(t))

FairSpec == Spec /\ Fairness

-----------------------------------------------------------------------------
Referencing == {"blocked", "running", "release"}

(* Every variable keeps its type, counters within their named bounds.      *)
TypeOK ==
  /\ now \in 1..MaxTime
  /\ reapNow \in 0..MaxTime
  /\ locks \in [Keys -> Entries \cup {None}]
  /\ refs \in [Entries -> Nat]
  /\ lastUse \in [Entries -> 0..MaxTime]
  /\ mu \in [Entries -> Turns \cup {None}]
  /\ pc \in [Turns -> {"idle", "acquire"} \cup Referencing]
  /\ key \in [Turns -> Keys \cup {None}]
  /\ entry \in [Turns -> Entries \cup {None}]

(* Two turns of one session never run at once, whatever Reap evicts        *)
(* meanwhile (RouteAndHandle: "handler under lock").                       *)
SerialPerSession ==
  \A t, u \in Turns :
    pc[t] = "running" /\ pc[u] = "running" /\ key[t] = key[u] => t = u

(* A goroutine that holds, waits for or is still releasing an entry finds  *)
(* that very entry in the map: eviction never splits a session in two.     *)
EntryStaysMapped ==
  \A t \in Turns : pc[t] \in Referencing => locks[key[t]] = entry[t]

(* The goroutines acquire has counted on e.                                *)
Users(e) == {t \in Turns : pc[t] \in Referencing /\ entry[t] = e}

(* refs is exactly the number of goroutines between acquire's count and    *)
(* release's: what makes "refs == 0" mean that nobody needs the entry.     *)
RefsExact == \A e \in Entries : refs[e] = Cardinality(Users(e))

(* Two keys never share an entry (they would serialise against each other).*)
OneKeyPerEntry ==
  \A j, k \in Keys : locks[j] = locks[k] /\ locks[j] # None => j = k

(* The mutex of an entry is held by the goroutine running under it.        *)
MuExact ==
  /\ \A t \in Turns : pc[t] = "running" => mu[entry[t]] = t
  /\ \A e \in Entries : mu[e] # None => pc[mu[e]] = "running" /\ entry[mu[e]] = e

(* What a goroutine has in hand at each point of RouteAndHandle.           *)
FramesOK ==
  \A t \in Turns :
    /\ pc[t] = "idle" <=> key[t] = None
    /\ pc[t] \in Referencing <=> entry[t] # None

(* The inductive invariant: refcounts count, so mapped entries stay while  *)
(* somebody needs them, so one mutex guards each session.                  *)
IInv == TypeOK /\ FramesOK /\ EntryStaysMapped /\ RefsExact /\ OneKeyPerEntry /\ MuExact

(* Every turn that reaches the router gets to run.                         *)
NoTurnStarves == \A t \in Turns : (pc[t] = "acquire") ~> (pc[t] = "running")

(* The abstract view: who waits, who runs, for which session.              *)
SL == INSTANCE SessionLock WITH
        phase   <- [t \in Turns |->
                      IF pc[t] \in {"acquire", "blocked"} THEN "waiting"
                      ELSE IF pc[t] = "running" THEN "running" ELSE "idle"],
        session <- [t \in Turns |-> IF pc[t] = "release" THEN None ELSE key[t]]

(* RouteAndHandle's promise: the lock table, evictions included, behaves   *)
(* like the abstract per-session exclusion.                                *)
ImplementsSessionLock == SL!Spec
=============================================================================
