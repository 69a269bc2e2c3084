-------------------------- MODULE RouterLocksProofs --------------------------
(***************************************************************************)
(* For any number of sessions, goroutines and entries: the lock table      *)
(* keeps its inductive invariant, turns of one session never overlap, and  *)
(* the table with its reaper implements SessionLock.                       *)
(***************************************************************************)
EXTENDS RouterLocks, FiniteSetTheorems, TLAPS

(* The goroutines counted on an entry are finitely many, so refs counts.   *)
LEMMA UsersFinite == ASSUME NEW e PROVE IsFiniteSet(Users(e)) /\ Cardinality(Users(e)) \in Nat
  BY LocksAssumption, FS_Subset, FS_CardinalityType DEF Users

(* Primed version of the same fact, for the state after a step.            *)
LEMMA UsersFinitePrime == ASSUME NEW e PROVE IsFiniteSet(Users(e)') /\ Cardinality(Users(e)') \in Nat
  BY LocksAssumption, FS_Subset, FS_CardinalityType DEF Users

(* An empty table satisfies the invariant (newSessionLocks).                *)
THEOREM InitIInv == Init => IInv
<1> SUFFICES ASSUME Init PROVE IInv
  OBVIOUS
<1>1. TypeOK
  BY LocksAssumption DEF Init, TypeOK, Referencing
<1>2. RefsExact
  <2>1. \A e \in Entries : Users(e) = {}
    BY DEF Init, Users, Referencing
  <2> QED
    BY <2>1, FS_EmptySet DEF Init, RefsExact
<1>3. FramesOK /\ EntryStaysMapped /\ OneKeyPerEntry /\ MuExact
  BY DEF Init, FramesOK, EntryStaysMapped, OneKeyPerEntry, MuExact, Referencing
<1> QED
  BY <1>1, <1>2, <1>3 DEF IInv

(* A step that adds t to the users of e and changes no other entry.        *)
LEMMA CountUp ==
  ASSUME IInv, NEW t \in Turns, NEW e \in Entries,
         pc[t] = "acquire", pc' = [pc EXCEPT ![t] = "blocked"],
         entry' = [entry EXCEPT ![t] = e]
  PROVE  /\ Cardinality(Users(e)') = Cardinality(Users(e)) + 1
         /\ \A f \in Entries \ {e} : Users(f)' = Users(f)
<1>1. Users(e)' = Users(e) \cup {t}
  BY DEF IInv, TypeOK, Users, Referencing
<1>2. t \notin Users(e)
  BY DEF Users, Referencing
<1>3. Cardinality(Users(e)') = Cardinality(Users(e)) + 1
  BY <1>1, <1>2, UsersFinite, FS_AddElement
<1>4. \A f \in Entries \ {e} : Users(f)' = Users(f)
  BY DEF IInv, TypeOK, Users, Referencing
<1> QED
  BY <1>3, <1>4

(* A step that removes t from the users of its entry e.                    *)
LEMMA CountDown ==
  ASSUME IInv, NEW t \in Turns, NEW e \in Entries, e = entry[t],
         pc[t] = "release", pc' = [pc EXCEPT ![t] = "idle"],
         entry' = [entry EXCEPT ![t] = None]
  PROVE  /\ Cardinality(Users(e)') = Cardinality(Users(e)) - 1
         /\ \A f \in Entries \ {e} : Users(f)' = Users(f)
<1>1. Users(e)' = Users(e) \ {t}
  BY LocksAssumption DEF IInv, TypeOK, Users, Referencing
<1>2. t \in Users(e)
  BY DEF Users, Referencing
<1>3. Cardinality(Users(e)') = Cardinality(Users(e)) - 1
  BY <1>1, <1>2, UsersFinite, FS_RemoveElement
<1>4. \A f \in Entries \ {e} : Users(f)' = Users(f)
  BY LocksAssumption DEF IInv, TypeOK, Users, Referencing
<1> QED
  BY <1>3, <1>4

(* Nobody uses an entry that nothing points to.                            *)
LEMMA UnreferencedUnused ==
  ASSUME IInv, NEW e \in Entries, Unreferenced(e)
  PROVE  Users(e) = {}
  BY DEF Unreferenced, Users

(* An entry with a user is in the map, so a zero count means no user.      *)
LEMMA ZeroMeansUnused ==
  ASSUME IInv, NEW e \in Entries, refs[e] = 0
  PROVE  Users(e) = {}
<1>1. IsFiniteSet(Users(e)) /\ Cardinality(Users(e)) = 0
  BY UsersFinite DEF IInv, RefsExact
<1> QED
  BY <1>1, FS_EmptySet

-----------------------------------------------------------------------------
LEMMA RouteIInv == ASSUME IInv, NEW t \in Turns, NEW k \in Keys, Route(t, k) PROVE IInv'
<1> USE DEF Route, Referencing
<1>1. TypeOK'
  BY DEF IInv, TypeOK
<1>2. FramesOK' /\ EntryStaysMapped' /\ MuExact'
  BY LocksAssumption DEF IInv, TypeOK, FramesOK, EntryStaysMapped, MuExact
<1>3. OneKeyPerEntry'
  BY DEF IInv, OneKeyPerEntry
<1>4. RefsExact'
  <2>1. \A e \in Entries : Users(e)' = Users(e)
    BY DEF IInv, TypeOK, Users
  <2> QED
    BY <2>1 DEF IInv, RefsExact
<1> QED
  BY <1>1, <1>2, <1>3, <1>4 DEF IInv

LEMMA FindEntryIInv == ASSUME IInv, NEW t \in Turns, FindEntry(t) PROVE IInv'
<1> DEFINE e == locks[key[t]]
<1> USE DEF FindEntry
<1>0. key[t] \in Keys /\ e \in Entries
  BY DEF IInv, TypeOK, FramesOK
<1>1. TypeOK'
  BY <1>0 DEF IInv, TypeOK, Referencing
<1>2. FramesOK' /\ EntryStaysMapped' /\ MuExact'
  BY <1>0, LocksAssumption DEF IInv, TypeOK, FramesOK, EntryStaysMapped, MuExact, Referencing
<1>3. OneKeyPerEntry'
  BY DEF IInv, OneKeyPerEntry
<1>4. RefsExact'
  <2>1. /\ Cardinality(Users(e)') = Cardinality(Users(e)) + 1
        /\ \A f \in Entries \ {e} : Users(f)' = Users(f)
    BY <1>0, CountUp
  <2> QED
    BY <1>0, <2>1 DEF IInv, TypeOK, RefsExact
<1> QED
  BY <1>1, <1>2, <1>3, <1>4 DEF IInv

LEMMA NewEntryIInv ==
  ASSUME IInv, NEW t \in Turns, NEW e \in Entries, NewEntry(t, e) PROVE IInv'
<1> USE DEF NewEntry
<1>0. key[t] \in Keys
  BY DEF IInv, TypeOK, FramesOK
<1>1. TypeOK'
  BY <1>0, LocksAssumption DEF IInv, TypeOK, Referencing
<1>2. FramesOK'
  BY <1>0, LocksAssumption DEF IInv, TypeOK, FramesOK, Referencing
<1>3. EntryStaysMapped'
  <2>1. \A u \in Turns : pc[u] \in Referencing => key[u] # key[t]
    BY LocksAssumption DEF IInv, FramesOK, EntryStaysMapped
  <2> QED
    BY <1>0, <2>1 DEF IInv, TypeOK, FramesOK, EntryStaysMapped, Referencing
<1>4. MuExact'
  BY LocksAssumption DEF IInv, TypeOK, FramesOK, MuExact, Unreferenced, Referencing
<1>5. OneKeyPerEntry'
  BY <1>0, LocksAssumption DEF IInv, TypeOK, OneKeyPerEntry, Unreferenced
<1>6. RefsExact'
  <2>1. Users(e) = {} /\ Cardinality(Users(e)) = 0
    BY UnreferencedUnused, FS_EmptySet
  <2>2. /\ Cardinality(Users(e)') = Cardinality(Users(e)) + 1
        /\ \A f \in Entries \ {e} : Users(f)' = Users(f)
    BY CountUp
  <2> QED
    BY <2>1, <2>2 DEF IInv, TypeOK, RefsExact
<1> QED
  BY <1>1, <1>2, <1>3, <1>4, <1>5, <1>6 DEF IInv

LEMMA LockEntryIInv == ASSUME IInv, NEW t \in Turns, LockEntry(t) PROVE IInv'
<1> USE DEF LockEntry, Referencing
<1>1. TypeOK'
  BY DEF IInv, TypeOK
<1>2. FramesOK' /\ EntryStaysMapped' /\ OneKeyPerEntry'
  BY DEF IInv, TypeOK, FramesOK, EntryStaysMapped, OneKeyPerEntry
<1>3. MuExact'
  BY LocksAssumption DEF IInv, TypeOK, FramesOK, MuExact
<1>4. RefsExact'
  <2>1. \A f \in Entries : Users(f)' = Users(f)
    BY DEF IInv, TypeOK, Users
  <2> QED
    BY <2>1 DEF IInv, RefsExact
<1> QED
  BY <1>1, <1>2, <1>3, <1>4 DEF IInv

LEMMA UnlockEntryIInv == ASSUME IInv, NEW t \in Turns, UnlockEntry(t) PROVE IInv'
<1> USE DEF UnlockEntry, Referencing
<1>1. TypeOK'
  BY DEF IInv, TypeOK
<1>2. FramesOK' /\ EntryStaysMapped' /\ OneKeyPerEntry'
  BY DEF IInv, TypeOK, FramesOK, EntryStaysMapped, OneKeyPerEntry
<1>3. MuExact'
  BY LocksAssumption DEF IInv, TypeOK, FramesOK, MuExact
<1>4. RefsExact'
  <2>1. \A f \in Entries : Users(f)' = Users(f)
    BY DEF IInv, TypeOK, Users
  <2> QED
    BY <2>1 DEF IInv, RefsExact
<1> QED
  BY <1>1, <1>2, <1>3, <1>4 DEF IInv

LEMMA DropRefIInv == ASSUME IInv, NEW t \in Turns, DropRef(t) PROVE IInv'
<1> USE DEF DropRef
<1>0. PICK e \in Entries : e = entry[t]
  BY DEF IInv, TypeOK, FramesOK, Referencing
<1>1. /\ Cardinality(Users(e)') = Cardinality(Users(e)) - 1
      /\ \A f \in Entries \ {e} : Users(f)' = Users(f)
  BY <1>0, CountDown
<1>2. refs[e] - 1 \in Nat /\ Cardinality(Users(e)') = refs[e] - 1
  BY <1>0, <1>1, UsersFinitePrime DEF IInv, RefsExact
<1>3. TypeOK'
  BY <1>0, <1>2, LocksAssumption DEF IInv, TypeOK, Referencing
<1>4. FramesOK' /\ EntryStaysMapped' /\ OneKeyPerEntry' /\ MuExact'
  BY <1>0, LocksAssumption
     DEF IInv, TypeOK, FramesOK, EntryStaysMapped, OneKeyPerEntry, MuExact, Referencing
<1>5. RefsExact'
  BY <1>0, <1>1, <1>2 DEF IInv, TypeOK, RefsExact
<1> QED
  BY <1>3, <1>4, <1>5 DEF IInv

LEMMA ReapBeginIInv == ASSUME IInv, ReapBegin PROVE IInv'
<1>1. TypeOK' /\ FramesOK' /\ EntryStaysMapped' /\ OneKeyPerEntry' /\ MuExact'
  BY LocksAssumption
     DEF ReapBegin, IInv, TypeOK, FramesOK, EntryStaysMapped, OneKeyPerEntry, MuExact
<1>2. RefsExact'
  BY DEF ReapBegin, IInv, RefsExact, Users
<1> QED
  BY <1>1, <1>2 DEF IInv

(* Reap drops only entries without users: the heart of the argument.       *)
LEMMA ReapLocksIInv == ASSUME IInv, ReapLocks PROVE IInv'
<1> USE DEF ReapLocks
<1>1. TypeOK' /\ FramesOK' /\ MuExact' /\ OneKeyPerEntry'
  BY LocksAssumption DEF IInv, TypeOK, FramesOK, OneKeyPerEntry, MuExact
<1>2. EntryStaysMapped'
  <2> SUFFICES ASSUME NEW t \in Turns, pc[t] \in Referencing
               PROVE  ~Evictable(entry[t])
    BY DEF IInv, TypeOK, FramesOK, EntryStaysMapped, Referencing
  <2>1. entry[t] \in Entries /\ t \in Users(entry[t])
    BY DEF IInv, TypeOK, FramesOK, Users
  <2> QED
    BY <2>1, ZeroMeansUnused DEF Evictable
<1>3. RefsExact'
  BY DEF IInv, RefsExact, Users
<1> QED
  BY <1>1, <1>2, <1>3 DEF IInv

LEMMA TickIInv == ASSUME IInv, Tick PROVE IInv'
<1>1. TypeOK' /\ FramesOK' /\ EntryStaysMapped' /\ OneKeyPerEntry' /\ MuExact'
  BY LocksAssumption
     DEF Tick, IInv, TypeOK, FramesOK, EntryStaysMapped, OneKeyPerEntry, MuExact
<1>2. RefsExact'
  BY DEF Tick, IInv, RefsExact, Users
<1> QED
  BY <1>1, <1>2 DEF IInv

LEMMA StutterIInv == ASSUME IInv, UNCHANGED vars PROVE IInv'
  BY DEF vars, IInv, TypeOK, FramesOK, EntryStaysMapped, RefsExact, Users,
         OneKeyPerEntry, MuExact

(* No acquire, release or Reap of any goroutine breaks it (locks.go).       *)
THEOREM StepIInv == IInv /\ [Next]_vars => IInv'
<1> SUFFICES ASSUME IInv, [Next]_vars PROVE IInv'
  OBVIOUS
<1>1. ASSUME NEW t \in Turns, Step(t) PROVE IInv'
  BY <1>1, RouteIInv, FindEntryIInv, NewEntryIInv, LockEntryIInv, UnlockEntryIInv, DropRefIInv
     DEF Step, Acquire
<1> QED
  BY <1>1, ReapBeginIInv, ReapLocksIInv, TickIInv, StutterIInv DEF Next

(* The lock table's refcounts, mutexes and map agree in every reachable    *)
(* state.                                                                  *)
THEOREM LockTableInvariant == Spec => []IInv
  BY InitIInv, StepIInv, PTL DEF Spec

(* Types are part of the invariant.                                        *)
THEOREM TypeCorrect == Spec => []TypeOK
<1>1. IInv => TypeOK
  BY DEF IInv
<1> QED
  BY <1>1, LockTableInvariant, PTL

(* One mutex per session, one holder per mutex: two running turns of the   *)
(* same session are the same turn.                                         *)
LEMMA IInvSerial == IInv => SerialPerSession
  BY LocksAssumption DEF IInv, TypeOK, FramesOK, EntryStaysMapped, MuExact, SerialPerSession, Referencing

(* Two turns of one session never overlap, whatever Reap evicts while a     *)
(* goroutine waits (locks.go: the count of references).                    *)
THEOREM MutualExclusion == Spec => []SerialPerSession
  BY IInvSerial, LockTableInvariant, PTL

-----------------------------------------------------------------------------
(* Refinement: every step of the table is a step of SessionLock or a       *)
(* stutter.                                                                *)
LEMMA InitRefines == Init => SL!Init
  BY LocksAssumption DEF Init, SL!Init

LEMMA StepRefines == IInv /\ [Next]_vars => [SL!Next]_SL!vars
<1> SUFFICES ASSUME IInv, [Next]_vars PROVE [SL!Next]_SL!vars
  OBVIOUS
<1> USE DEF SL!vars, IInv, TypeOK, FramesOK, Referencing
<1>1. ASSUME NEW t \in Turns, NEW k \in Keys, Route(t, k) PROVE SL!Arrive(t, k)
  BY <1>1 DEF Route, SL!Arrive
<1>2. ASSUME NEW t \in Turns, Acquire(t) PROVE UNCHANGED SL!vars
  BY <1>2 DEF Acquire, FindEntry, NewEntry
<1>3. ASSUME NEW t \in Turns, LockEntry(t) PROVE SL!Enter(t)
  <2>1. \A u \in Turns : pc[u] = "running" => key[u] # key[t]
    BY <1>3, LocksAssumption DEF LockEntry, EntryStaysMapped, MuExact
  <2> QED
    BY <1>3, <2>1 DEF LockEntry, SL!Enter
<1>4. ASSUME NEW t \in Turns, UnlockEntry(t) PROVE SL!Leave(t)
  BY <1>4 DEF UnlockEntry, SL!Leave
<1>5. ASSUME NEW t \in Turns, DropRef(t) PROVE UNCHANGED SL!vars
  BY <1>5 DEF DropRef
<1>6. ASSUME ReapBegin \/ ReapLocks \/ Tick PROVE UNCHANGED SL!vars
  BY <1>6 DEF ReapBegin, ReapLocks, Tick
<1>7. CASE UNCHANGED vars
  BY <1>7 DEF vars
<1> QED
  BY <1>1, <1>2, <1>3, <1>4, <1>5, <1>6, <1>7 DEF Next, Step, SL!Next

(* The lock table, evictions included, implements per-session exclusion.   *)
THEOREM LocksImplementSessions == Spec => ImplementsSessionLock
  BY InitRefines, StepRefines, LockTableInvariant, PTL DEF Spec, SL!Spec, ImplementsSessionLock
=============================================================================
