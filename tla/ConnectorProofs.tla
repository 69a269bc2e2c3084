-------------------------- MODULE ConnectorProofs --------------------------
(***************************************************************************)
(* The connector's way out, for every value of the constants: the socket's *)
(* registrations, faults and acknowledgements; the names of its channels;  *)
(* and a reply in its segments.                                            *)
(***************************************************************************)
EXTENDS Connection, NameCache, ReplySend,
        FiniteSetTheorems, WellFoundedInduction, TLAPS

-----------------------------------------------------------------------------
(* Induction over the naturals, in the form the proofs below use.          *)
LEMMA LeastNat ==
  ASSUME NEW T, T \subseteq Nat, T # {}
  PROVE  \E n \in T : \A m \in T : n <= m
<1> DEFINE R == {ss \in Nat \X Nat : ss[1] < ss[2]}
<1>1. IsWellFoundedOn(R, Nat)
  BY NatLessThanWellFounded DEF OpToRel
<1> HIDE DEF R
<1>2. PICK n \in T : \A m \in T : ~ (<<m, n>> \in R)
  BY <1>1, WFMin
<1>3. ASSUME NEW m \in T PROVE n <= m
  <2>1. n \in Nat /\ m \in Nat /\ <<m, n>> \notin R
    BY <1>2
  <2>2. ~ (m < n)
    BY <2>1 DEF R
  <2>3. QED
    BY <2>1, <2>2
<1>4. QED
  BY <1>3

-----------------------------------------------------------------------------
(* The socket.                                                             *)
(*                                                                         *)
(* Proofs about Connection, for any messages, limits and bounds: a         *)
(* registration is never asked for while the token is good, a fault is     *)
(* never reported as a clean end, and an eviction never costs the leading  *)
(* message its strikes.                                                    *)

(* Run asks for a registration only without one, is without one only       *)
(* before the first and after an auth failure, and an auth failure means   *)
(* that the server's token is another; no socket is closed with one.       *)
RegisterInv ==
  /\ run \in {"registering", "waiting"} => ~registered
  /\ ~registered => ~valid
  /\ run \in {"lost", "sleeping"} /\ report = "auth" => ~valid
  /\ closeErr # "auth"

(* A socket is closed without a cause only by the watcher.                 *)
CauseInv ==
  /\ closed /\ closeErr = "none" => cancelled
  /\ run \in {"lost", "sleeping"} /\ report = "none" => cancelled

-----------------------------------------------------------------------------
(* Registrations: the first conjunct ties Run's place to its local, the    *)
(* others carry the auth failure from CONNACK over the sleep to Register.  *)
LEMMA RegisterInvariant == Spec => []RegisterInv
<1> USE DEF RegisterInv
<1>1. Init => RegisterInv
  BY DEF Init
<1>2. RegisterInv /\ [Next]_vars => RegisterInv'
  <2> SUFFICES ASSUME RegisterInv, [Next]_vars PROVE RegisterInv'
    OBVIOUS
  <2> USE DEF GoTo, Lose, Fault, local, world, socket, inbox, bounds
  <2>1. CASE Cancelled \/ LoopTop \/ RetryRegister
    BY <2>1 DEF Cancelled, LoopTop, RetryRegister
  <2>2. CASE RegisterOk
    BY <2>2 DEF RegisterOk
  <2>3. CASE RegisterFails
    BY <2>3 DEF RegisterFails
  <2>4. CASE DialOk \/ DialFails
    BY <2>4 DEF DialOk, DialFails
  <2>5. CASE ConnackOk \/ ConnackAuthFail \/ ConnackRefused \/ ConnackLost
    BY <2>5 DEF ConnackOk, ConnackAuthFail, ConnackRefused, ConnackLost
  <2>6. CASE Disconnected \/ ReadFails
    BY <2>6 DEF Disconnected, ReadFails
  <2>7. CASE ReadErr
    BY <2>7 DEF ReadErr
  <2>8. CASE NoteLoss
    BY <2>8 DEF NoteLoss
  <2>9. CASE Wake
    BY <2>9 DEF Wake
  <2>10. CASE Watch \/ PingFails
    BY <2>10 DEF Watch, PingFails, CloseWith
  <2>11. CASE \E m \in Messages : Accept(m) \/ Strike(m) \/ DropPoison(m)
    BY <2>11 DEF Accept, Strike, DropPoison
  <2>12. CASE LinkFails \/ Settle \/ Rotate \/ Inject \/ Cancel
    BY <2>12 DEF LinkFails, Settle, Rotate, Inject, Cancel
  <2>13. CASE UNCHANGED vars
    BY <2>13 DEF vars
  <2>14. QED
    BY <2>1, <2>2, <2>3, <2>4, <2>5, <2>6, <2>7, <2>8, <2>9, <2>10, <2>11, <2>12, <2>13
    DEF Next, Looping
<1>3. QED
  BY <1>1, <1>2, PTL DEF Spec

(* No registration is asked for while the token in hand is good, through   *)
(* lost answers, kicks and registrations by others (Run's last comment).   *)
THEOREM RegistersWhenNeeded == Spec => []NoNeedlessRegister
<1>1. RegisterInv => NoNeedlessRegister
  BY DEF RegisterInv, NoNeedlessRegister
<1>2. QED
  BY <1>1, RegisterInvariant, PTL

-----------------------------------------------------------------------------
(* The end of a connection: only the watcher closes without a cause, and   *)
(* it acts after the cancellation.                                         *)
LEMMA CauseInvariant == Spec => []CauseInv
<1> USE DEF CauseInv
<1>1. Init => CauseInv
  BY DEF Init
<1>2. CauseInv /\ [Next]_vars => CauseInv'
  <2> SUFFICES ASSUME CauseInv, [Next]_vars PROVE CauseInv'
    OBVIOUS
  <2> USE DEF GoTo, Lose, Fault, local, world, socket, inbox, bounds
  <2>1. CASE Cancelled \/ LoopTop \/ RetryRegister
    BY <2>1 DEF Cancelled, LoopTop, RetryRegister
  <2>2. CASE RegisterOk \/ RegisterFails
    <3>1. UNCHANGED <<cancelled, closed, closeErr, report>> /\ run' \notin {"lost", "sleeping"}
      BY <2>2 DEF RegisterOk, RegisterFails, local, socket
    <3>2. QED
      BY <3>1
  <2>3. CASE DialOk \/ DialFails
    BY <2>3 DEF DialOk, DialFails
  <2>4. CASE ConnackOk \/ ConnackAuthFail \/ ConnackRefused \/ ConnackLost
    BY <2>4 DEF ConnackOk, ConnackAuthFail, ConnackRefused, ConnackLost
  <2>5. CASE Disconnected \/ ReadFails
    BY <2>5 DEF Disconnected, ReadFails
  <2>6. CASE ReadErr
    BY <2>6 DEF ReadErr
  <2>7. CASE NoteLoss \/ Wake
    BY <2>7 DEF NoteLoss, Wake
  <2>8. CASE Watch
    BY <2>8 DEF Watch, CloseWith
  <2>9. CASE PingFails
    BY <2>9 DEF PingFails, CloseWith
  <2>10. CASE \E m \in Messages : Accept(m) \/ Strike(m) \/ DropPoison(m)
    BY <2>10 DEF Accept, Strike, DropPoison
  <2>11. CASE LinkFails \/ Settle \/ Rotate \/ Inject \/ Cancel
    BY <2>11 DEF LinkFails, Settle, Rotate, Inject, Cancel
  <2>12. CASE UNCHANGED vars
    BY <2>12 DEF vars
  <2>13. QED
    BY <2>1, <2>2, <2>3, <2>4, <2>5, <2>6, <2>7, <2>8, <2>9, <2>10, <2>11, <2>12
    DEF Next, Looping
<1>3. QED
  BY <1>1, <1>2, PTL DEF Spec

(* A connection that ends without an error was ended by a cancellation,    *)
(* whichever of reader, watcher and ping loop came first (readErr).        *)
THEOREM FaultsAreReported == Spec => []LossHasCause
<1>1. CauseInv => LossHasCause
  BY DEF CauseInv, LossHasCause
<1>2. QED
  BY <1>1, CauseInvariant, PTL

-----------------------------------------------------------------------------
StrikesOK == strikes \in [Messages -> Nat]

LEMMA StrikesInvariant == Spec => []StrikesOK
<1> USE DEF StrikesOK
<1>1. Init => StrikesOK
  BY DEF Init, Clean
<1>2. StrikesOK /\ [Next]_vars => StrikesOK'
  <2> SUFFICES ASSUME StrikesOK, [Next]_vars PROVE StrikesOK'
    OBVIOUS
  <2> USE DEF inbox, Lose, Clean
  <2>1. CASE Looping
    BY <2>1 DEF Looping, Cancelled, LoopTop, RegisterOk, RegisterFails, RetryRegister, DialOk,
                DialFails, ConnackOk, ConnackAuthFail, ConnackRefused, ConnackLost,
                Disconnected, ReadFails, ReadErr, NoteLoss, Wake
  <2>2. CASE Watch \/ PingFails
    BY <2>2 DEF Watch, PingFails, CloseWith
  <2>3. ASSUME NEW m \in Messages, Accept(m) \/ DropPoison(m) PROVE StrikesOK'
    BY <2>3 DEF Accept, DropPoison
  <2>4. ASSUME NEW m \in Messages, Strike(m) PROVE StrikesOK'
    BY <2>4 DEF Strike, Struck
  <2>5. CASE LinkFails \/ Settle \/ Rotate \/ Inject \/ Cancel
    BY <2>5 DEF LinkFails, Settle, Rotate, Inject, Cancel
  <2>6. CASE UNCHANGED vars
    BY <2>6 DEF vars
  <2>7. QED
    BY <2>1, <2>2, <2>3, <2>4, <2>5, <2>6 DEF Next
<1>3. QED
  BY <1>1, <1>2, PTL DEF Spec

(* A set of more than two elements has one besides any two.                *)
LEMMA ThirdElement ==
  ASSUME NEW S, IsFiniteSet(S), Cardinality(S) > 2, NEW a, NEW b
  PROVE  \E o \in S : o # a /\ o # b
<1>1. SUFFICES ASSUME S \subseteq {a, b} PROVE FALSE
  OBVIOUS
<1>2. IsFiniteSet({a}) /\ Cardinality({a}) = 1
  BY FS_Singleton
<1>3. IsFiniteSet({a} \cup {b}) /\ Cardinality({a} \cup {b}) \in {1, 2}
  <2>1. /\ IsFiniteSet({a} \cup {b})
        /\ Cardinality({a} \cup {b}) =
             IF b \in {a} THEN Cardinality({a}) ELSE Cardinality({a}) + 1
    BY <1>2, FS_AddElement, Zenon
  <2>2. QED
    BY <1>2, <2>1
<1>4. Cardinality(S) <= Cardinality({a} \cup {b})
  BY <1>1, <1>3, FS_Subset, {a, b} = {a} \cup {b}
<1>5. Cardinality(S) \in Nat
  BY FS_CardinalityType
<1>6. QED
  BY <1>3, <1>4, <1>5

Spares ==
  \A m, c \in Messages :
    strikes'[m] > strikes[m] /\ strikes[c] > 0 /\ strikes'[c] = 0
      => \E o \in Messages \ {c} : strikes'[o] >= strikes[c]

(* One strike: a count is evicted only when more than two are kept, so a   *)
(* third message is left, and the victim was not ahead of it.              *)
LEMMA StrikeSpares ==
  ASSUME StrikesOK, NEW x \in Messages, Strike(x)
  PROVE  Spares
<1> DEFINE S == Struck(x)
<1>1. S \in [Messages -> Nat] /\ S[x] = strikes[x] + 1 /\ S[x] > 0
      /\ \A m \in Messages \ {x} : S[m] = strikes[m]
  BY DEF StrikesOK, Struck
<1>2. CASE strikes' = S
  <2>1. \A m \in Messages : strikes'[m] >= strikes[m]
    BY <1>1, <1>2 DEF StrikesOK
  <2>2. QED
    BY <2>1, <1>1, <1>2 DEF Spares, StrikesOK
<1>3. CASE /\ Cardinality(Counted(S)) > MaxKeys
           /\ \E c \in Victims(x) : strikes' = [S EXCEPT ![c] = 0]
  <2>1. PICK c \in Victims(x) : strikes' = [S EXCEPT ![c] = 0]
    BY <1>3
  <2>2. c \in Messages /\ c # x /\ strikes[c] > 0
    BY DEF Victims, Counted
  <2>3. Counted(S) \subseteq Messages
    BY DEF Counted
  <2>4. IsFiniteSet(Counted(S)) /\ Cardinality(Counted(S)) \in Nat
    BY <2>3, FS_Subset, FS_CardinalityType, ConnectionAssumption DEF ConnectionAssumption
  <2>5. Cardinality(Counted(S)) > 2
    BY <1>3, <2>4, ConnectionAssumption DEF ConnectionAssumption
  <2>6. PICK o \in Counted(S) : o # x /\ o # c
    BY <2>4, <2>5, ThirdElement
  <2>7. o \in Messages /\ S[o] = strikes[o] /\ strikes[o] > 0
    BY <2>3, <2>6, <1>1 DEF Counted
  <2>8. strikes[c] <= strikes[o]
    BY <2>6, <2>7 DEF Victims, Counted
  <2>9. strikes'[o] = strikes[o]
    BY <2>1, <2>6, <2>7, <1>1
  <2>10. ASSUME NEW d \in Messages, strikes[d] > 0, strikes'[d] = 0 PROVE d = c
    BY <2>1, <2>10, <1>1, <2>2 DEF StrikesOK
  <2>11. QED
    BY <2>7, <2>8, <2>9, <2>10, <2>6 DEF Spares, StrikesOK
<1>4. QED
  BY <1>2, <1>3 DEF Strike

(* handleDecryptFailure: whatever message an eviction costs its count,     *)
(* another one is at least as close to being dropped.                      *)
THEOREM EvictionSparesTheLeader == Spec => EvictionSparesLeader
<1>1. StrikesOK /\ StrikesOK' /\ [Next]_vars => [Spares]_vars
  <2> SUFFICES ASSUME StrikesOK, StrikesOK', Next PROVE Spares
    BY DEF Spares
  <2> USE DEF inbox, Lose, Clean, StrikesOK
  <2>1. CASE \A m \in Messages : strikes'[m] <= strikes[m]
    <3>1. \A m \in Messages : strikes[m] \in Nat /\ strikes'[m] \in Nat
      OBVIOUS
    <3>2. ASSUME NEW m \in Messages, strikes'[m] > strikes[m] PROVE FALSE
      <4>1. strikes'[m] <= strikes[m] /\ strikes[m] \in Nat /\ strikes'[m] \in Nat
        BY <2>1, <3>1
      <4>2. QED
        BY <3>2, <4>1
    <3>3. QED
      BY <3>2 DEF Spares
  <2>2. CASE Looping
    <3>1. strikes' = strikes \/ strikes' = Clean
      BY <2>2 DEF Looping, Cancelled, LoopTop, RegisterOk, RegisterFails, RetryRegister, DialOk,
                  DialFails, ConnackOk, ConnackAuthFail, ConnackRefused, ConnackLost,
                  Disconnected, ReadFails, ReadErr, NoteLoss, Wake
    <3>2. QED
      BY <3>1, <2>1
  <2>3. CASE Watch \/ PingFails
    BY <2>3, <2>1 DEF Watch, PingFails, CloseWith
  <2>4. ASSUME NEW m \in Messages, Accept(m) \/ DropPoison(m) PROVE Spares
    BY <2>4, <2>1 DEF Accept, DropPoison
  <2>5. ASSUME NEW m \in Messages, Strike(m) PROVE Spares
    BY <2>5, StrikeSpares
  <2>6. CASE LinkFails \/ Settle \/ Rotate \/ Inject \/ Cancel
    BY <2>6, <2>1 DEF LinkFails, Settle, Rotate, Inject, Cancel
  <2>7. QED
    BY <2>2, <2>3, <2>4, <2>5, <2>6 DEF Next
<1>2. EvictionSparesLeader <=> [][Spares]_vars
  BY DEF EvictionSparesLeader, Spares
<1>3. QED
  BY <1>1, <1>2, StrikesInvariant, PTL DEF Spec

-----------------------------------------------------------------------------
(* The names of channels.                                                  *)
(* What is carried along: a name in flight is not there yet; a session     *)
(* that is being touched is in the store; and the name of a channel that   *)
(* is there has been sent with a row that shows it, or is still to be, by   *)
(* its hook, by a touch that has yet to read, or by one that has read; or   *)
(* its turn came and the list could not be read.                           *)
OnItsWay(s, k) ==
  \/ <<s, k>> \in told
  \/ <<s, k>> \in unread
  \/ k \in due
  \/ s \in hook[k]
  \/ touch[s] = {"stored"}
  \/ touch[s] # {"idle"} /\ touch[s] # {"stored"} /\ k \in touch[s]

NamesInv ==
  /\ NamesTypeOK /\ SingleFlight /\ DOMAIN touch = Keys
  /\ \A k \in Channels : k \in inflight => cache[k] # "name"
  /\ \A s \in Keys : touch[s] # {"idle"} => s \in sessions
  /\ \A k \in Channels, s \in sessions :
       cache[k] = "name" /\ k \in Lookups(s) => OnItsWay(s, k)

LEMMA LookupsAreKeys == ASSUME NEW s \in Keys PROVE Lookups(s) \subseteq Keys
  BY NamesAssumption DEF Lookups, Keys, Channels

(* What asking for names does.                                             *)
LEMMA Kicked ==
  ASSUME NamesInv, NEW ks, Kick(ks), ks \subseteq Keys
  PROVE  /\ inflight' \subseteq Keys /\ fetches' \in [Keys -> 0..2]
         /\ SingleFlight'
         /\ \A k \in Channels : k \in inflight' => cache[k] # "name"
<1>1. /\ inflight \subseteq Keys /\ fetches \in [Keys -> 0..2]
      /\ \A k \in Keys : fetches[k] = (IF k \in inflight THEN 1 ELSE 0)
      /\ \A k \in Channels : k \in inflight => cache[k] # "name"
  BY DEF NamesInv, NamesTypeOK, SingleFlight
<1>2. inflight' = inflight \cup MayFetch(ks) /\ MayFetch(ks) \subseteq Keys
  BY DEF Kick, MayFetch
<1>3. \A k \in MayFetch(ks) : k \notin inflight /\ cache[k] # "name"
  BY DEF MayFetch, Fresh
<1>4. fetches' = [k \in Keys |-> IF k \in inflight' THEN 1 ELSE 0]
  <2>1. fetches' = [k \in Keys |-> fetches[k] + (IF k \in MayFetch(ks) THEN 1 ELSE 0)]
    BY DEF Kick
  <2>2. \A k \in Keys : fetches[k] + (IF k \in MayFetch(ks) THEN 1 ELSE 0)
                         = IF k \in inflight' THEN 1 ELSE 0
    BY <1>1, <1>2, <1>3
  <2> QED
    BY <2>1, <2>2
<1> QED
  BY <1>1, <1>2, <1>3, <1>4 DEF SingleFlight

LEMMA NamesStep == NamesInv /\ [NamesNext]_namesVars => NamesInv'
<1> SUFFICES ASSUME NamesInv, [NamesNext]_namesVars PROVE NamesInv'
  OBVIOUS
<1>1. /\ cache \in [Keys -> {"absent", "empty", "name"}]
      /\ inflight \subseteq Keys /\ fetches \in [Keys -> 0..2]
      /\ sessions \subseteq Keys /\ DOMAIN touch = Keys
      /\ \A s \in Keys : touch[s] \in {{"idle"}, {"stored"}} \/ touch[s] \subseteq Keys
      /\ due \subseteq Keys /\ hook \in [Keys -> SUBSET Keys]
      /\ told \subseteq Keys \X Channels /\ unread \subseteq Keys \X Channels
  BY DEF NamesInv, NamesTypeOK
<1>2. /\ \A k \in Keys : fetches[k] = (IF k \in inflight THEN 1 ELSE 0)
      /\ \A k \in Channels : k \in inflight => cache[k] # "name"
      /\ \A s \in Keys : touch[s] # {"idle"} => s \in sessions
      /\ \A k \in Channels, s \in sessions :
           cache[k] = "name" /\ k \in Lookups(s) => OnItsWay(s, k)
  BY DEF NamesInv, SingleFlight
<1>3. Channels \subseteq Keys /\ Users \subseteq Keys /\ Users \cap Channels = {}
  BY NamesAssumption DEF Keys, Channels
<1>4. {"idle"} # {"stored"} /\ "idle" \notin Keys /\ "stored" \notin Keys
  BY NamesAssumption DEF Keys, Channels
<1>5. \A s \in Keys : Lookups(s) \subseteq Keys
  BY LookupsAreKeys
<1>6. \A ss \in SUBSET sessions : (UNION {Lookups(s) : s \in ss}) \subseteq Keys
  BY <1>1, <1>5
(* A step that changes no entry and leaves what is on its way there.       *)
<1>a. ASSUME NEW ks, ks \subseteq Keys, Kick(ks) \/ UNCHANGED <<inflight, fetches>>,
             \A k \in Channels : cache'[k] = cache[k],
             cache' \in [Keys -> {"absent", "empty", "name"}],
             sessions' \subseteq Keys, DOMAIN touch' = Keys,
             \A s \in Keys : touch'[s] \in {{"idle"}, {"stored"}} \/ touch'[s] \subseteq Keys,
             due' \subseteq Keys, hook' \in [Keys -> SUBSET Keys],
             told' \subseteq Keys \X Channels, unread' \subseteq Keys \X Channels,
             \A s \in Keys : touch'[s] # {"idle"} => s \in sessions',
             \A k \in Channels, s \in sessions' :
               cache[k] = "name" /\ k \in Lookups(s) => OnItsWay(s, k)'
      PROVE  NamesInv'
  <2>1. /\ inflight' \subseteq Keys /\ fetches' \in [Keys -> 0..2]
        /\ SingleFlight'
        /\ \A k \in Channels : k \in inflight' => cache[k] # "name"
    <3>1. CASE Kick(ks)
      BY <1>a, <3>1, Kicked
    <3>2. CASE UNCHANGED <<inflight, fetches>>
      BY <1>1, <1>2, <3>2 DEF SingleFlight
    <3> QED
      BY <1>a, <3>1, <3>2
  <2>2. NamesTypeOK'
    BY <1>a, <2>1 DEF NamesTypeOK
  <2>3. \A s : Lookups(s)' = Lookups(s)
    BY DEF Lookups
  <2> QED
    BY <1>a, <2>1, <2>2, <2>3 DEF NamesInv, Lookups
<1>7. \A s \in Keys : SummaryRow(s) \subseteq Keys
  BY <1>5 DEF SummaryRow
<1>8. ASSUME NEW s \in Keys, NEW names, NEW rows, rows = {<<s, k>> : k \in names \cap Channels}
      PROVE  rows \subseteq Keys \X Channels /\ \A k \in names \cap Channels : <<s, k>> \in rows
  BY <1>8
<1>9. ASSUME NEW k \in Keys, Expire(k) PROVE NamesInv'
  <2>1. cache[k] = "empty" /\ cache' = [cache EXCEPT ![k] = "absent"]
        /\ UNCHANGED <<inflight, fetches, due, hook, sessions, touch, told, unread>>
    BY <1>9 DEF Expire, hookVars
  <2>2. /\ cache' \in [Keys -> {"absent", "empty", "name"}]
        /\ \A c \in Keys : cache'[c] = "name" <=> cache[c] = "name"
    BY <1>1, <2>1
  <2>3. NamesTypeOK' /\ SingleFlight'
    BY <1>1, <1>2, <2>1, <2>2 DEF NamesTypeOK, SingleFlight
  <2> QED
    BY <1>1, <1>2, <1>3, <2>1, <2>2, <2>3 DEF NamesInv, Lookups, OnItsWay
<1>10. ASSUME NEW k \in Keys, FetchLands(k) PROVE NamesInv'
  <2>1. PICK entry \in {"name", "empty"} :
          /\ cache' = [cache EXCEPT ![k] = entry]
          /\ due' = IF entry = "name" /\ cache[k] # "name" THEN due \cup {k} ELSE due
    BY <1>10 DEF FetchLands
  <2>2. /\ fetches[k] > 0 /\ fetches' = [fetches EXCEPT ![k] = @ - 1]
        /\ inflight' = inflight \ {k} /\ UNCHANGED <<sessions, touch, hook, told, unread>>
    BY <1>10 DEF FetchLands
  <2>3. k \in inflight /\ fetches[k] = 1
    BY <1>2, <2>2
  <2>4. /\ inflight' \subseteq Keys /\ fetches' \in [Keys -> 0..2] /\ SingleFlight'
    <3>1. \A c \in Keys : fetches'[c] = IF c = k THEN 0 ELSE fetches[c]
      BY <1>1, <2>2, <2>3
    <3> QED
      BY <1>1, <1>2, <2>2, <3>1 DEF SingleFlight
  <2>5. cache' \in [Keys -> {"absent", "empty", "name"}] /\ due \subseteq due' /\ due' \subseteq Keys
    BY <1>1, <2>1
  <2>6. NamesTypeOK'
    BY <1>1, <2>2, <2>4, <2>5 DEF NamesTypeOK
  <2>7. \A c \in Channels : c \in inflight' => cache'[c] # "name"
    BY <1>1, <1>2, <1>3, <2>1, <2>2
  <2>8. ASSUME NEW c \in Channels, NEW s \in sessions, cache'[c] = "name", c \in Lookups(s)
        PROVE  OnItsWay(s, c)'
    <3>1. CASE c # k
      <4>1. cache[c] = "name"
        BY <1>1, <1>3, <2>1, <2>8, <3>1
      <4>2. OnItsWay(s, c)
        BY <1>2, <2>8, <4>1
      <4> QED
        BY <2>2, <2>5, <4>2 DEF OnItsWay
    <3>2. CASE c = k
      <4>1. cache[k] # "name" /\ entry = "name"
        BY <1>1, <1>2, <1>3, <2>1, <2>3, <2>8, <3>2
      <4> QED
        BY <2>1, <3>2, <4>1 DEF OnItsWay
    <3> QED
      BY <3>1, <3>2
  <2> QED
    BY <1>1, <1>2, <2>2, <2>4, <2>6, <2>7, <2>8 DEF NamesInv, Lookups
<1>11. ASSUME NEW u \in Users, NEW c \in Keys, LearnUser(u, c) PROVE NamesInv'
  <2>1. /\ cache' = [cache EXCEPT ![u] = "name"] /\ Kick({c} \cap Channels)
        /\ UNCHANGED <<due, hook, sessions, touch, told, unread>>
    BY <1>11 DEF LearnUser, hookVars
  <2>2. /\ cache' \in [Keys -> {"absent", "empty", "name"}]
        /\ \A k \in Channels : cache'[k] = cache[k]
    BY <1>1, <1>3, <2>1
  <2>3. {c} \cap Channels \subseteq Keys
    BY <1>3
  <2> QED
    BY <1>1, <1>2, <1>a, <2>1, <2>2, <2>3 DEF OnItsWay
<1>12. ASSUME NEW u \in Users, NEW c \in Keys, HydrateInboundNames(u, c) PROVE NamesInv'
  <2>1. /\ Kick({u} \cup (Lookups(c) \cap Channels))
        /\ UNCHANGED <<cache, due, hook, sessions, touch, told, unread>>
    BY <1>12 DEF HydrateInboundNames, hookVars
  <2>2. {u} \cup (Lookups(c) \cap Channels) \subseteq Keys
    BY <1>3
  <2> QED
    BY <1>1, <1>2, <1>a, <2>1, <2>2 DEF OnItsWay
<1>13. ASSUME NEW s \in Keys, StoreMessage(s) PROVE NamesInv'
  <2>1. /\ touch[s] = {"idle"} /\ sessions' = sessions \cup {s}
        /\ touch' = [touch EXCEPT ![s] = {"stored"}]
        /\ UNCHANGED <<cache, inflight, fetches, due, hook, told, unread>>
    BY <1>13 DEF StoreMessage, fetchVars, hookVars
  <2>2. \A k \in Channels, r \in sessions' :
          cache[k] = "name" /\ k \in Lookups(r) => OnItsWay(r, k)'
    <3>1. touch'[s] = {"stored"} /\ \A r \in Keys : r # s => touch'[r] = touch[r]
      BY <1>1, <2>1
    <3> QED
      BY <1>1, <1>2, <2>1, <3>1 DEF OnItsWay
  <2> QED
    BY <1>1, <1>2, <1>a, <2>1, <2>2
<1>14. ASSUME NEW s \in Keys, TouchReads(s) PROVE NamesInv'
  <2>1. /\ touch[s] = {"stored"} /\ touch' = [touch EXCEPT ![s] = SummaryRow(s)]
        /\ unread' = {miss \in unread : miss[1] # s}
        /\ Kick(Lookups(s)) /\ UNCHANGED <<cache, due, hook, sessions, told>>
    BY <1>14 DEF TouchReads, hookVars
  <2>2. touch'[s] = SummaryRow(s) /\ \A r \in Keys : r # s => touch'[r] = touch[r]
    BY <1>1, <2>1
  <2>3. touch'[s] # {"idle"} /\ touch'[s] # {"stored"} /\ touch'[s] \subseteq Keys
    BY <1>4, <1>7, <2>2
  <2>4. ASSUME NEW r, NEW k, r # s, <<r, k>> \in unread PROVE <<r, k>> \in unread'
    <3>1. <<r, k>>[1] = r
      OBVIOUS
    <3> QED
      BY <2>1, <2>4, <3>1
  <2>5. unread' \subseteq Keys \X Channels
    BY <1>1, <2>1
  <2>6. \A k \in Channels, r \in sessions' :
          cache[k] = "name" /\ k \in Lookups(r) => OnItsWay(r, k)'
    <3>1. ASSUME NEW r \in Keys, NEW k \in Channels, r # s, OnItsWay(r, k) PROVE OnItsWay(r, k)'
      BY <2>1, <2>2, <2>4, <3>1 DEF OnItsWay
    <3>2. ASSUME NEW k \in Channels, cache[k] = "name", k \in Lookups(s) PROVE OnItsWay(s, k)'
      BY <2>2, <2>3, <3>2 DEF OnItsWay, SummaryRow
    <3> QED
      BY <1>1, <1>2, <2>1, <3>1, <3>2
  <2> QED
    BY <1>1, <1>2, <1>4, <1>5, <1>a, <2>1, <2>2, <2>3, <2>5, <2>6
<1>15. ASSUME NEW s \in Keys, TouchSends(s) \/ TouchFails(s) PROVE NamesInv'
  <2>1. PICK names, rows :
          /\ rows = {<<s, k>> : k \in names \cap Channels}
          /\ touch[s] = {"stored"} => names = SummaryRow(s)
          /\ touch[s] # {"stored"} => names = touch[s]
          /\ \/ told' = told \cup rows /\ unread' = unread
             \/ told' = told /\ unread' = unread \cup rows
    <3>1. CASE TouchSends(s)
      BY <3>1 DEF TouchSends, Send
    <3>2. CASE TouchFails(s)
      BY <3>2 DEF TouchFails, Misses
    <3> QED
      BY <1>15, <3>1, <3>2
  <2>2. /\ touch' = [touch EXCEPT ![s] = {"idle"}]
        /\ UNCHANGED <<cache, inflight, fetches, due, hook, sessions>>
    BY <1>15 DEF TouchSends, TouchFails, fetchVars, hookVars
  <2>3. touch'[s] = {"idle"} /\ \A r \in Keys : r # s => touch'[r] = touch[r]
    BY <1>1, <2>2
  <2>4. rows \subseteq Keys \X Channels /\ \A k \in names \cap Channels : <<s, k>> \in rows
    BY <1>8, <2>1
  <2>5. told' \subseteq Keys \X Channels /\ unread' \subseteq Keys \X Channels
    BY <1>1, <2>1, <2>4
  <2>6. ASSUME NEW k \in Channels, cache[k] = "name", k \in Lookups(s), OnItsWay(s, k)
        PROVE  OnItsWay(s, k)'
    <3>1. CASE touch[s] = {"stored"}
      <4>1. <<s, k>> \in rows
        BY <2>1, <2>4, <2>6, <3>1 DEF SummaryRow
      <4> QED
        BY <2>1, <4>1 DEF OnItsWay
    <3>2. CASE touch[s] # {"stored"} /\ k \in touch[s]
      <4>1. <<s, k>> \in rows
        BY <2>1, <2>4, <3>2
      <4> QED
        BY <2>1, <4>1 DEF OnItsWay
    <3>3. CASE touch[s] # {"stored"} /\ k \notin touch[s]
      BY <2>1, <2>2, <2>6, <3>3 DEF OnItsWay
    <3> QED
      BY <3>1, <3>2, <3>3
  <2>7. ASSUME NEW r \in Keys, NEW k \in Channels, r # s, OnItsWay(r, k) PROVE OnItsWay(r, k)'
    BY <2>1, <2>2, <2>3, <2>7 DEF OnItsWay
  <2>8. \A k \in Channels, r \in sessions' :
          cache[k] = "name" /\ k \in Lookups(r) => OnItsWay(r, k)'
    BY <1>1, <1>2, <2>2, <2>6, <2>7
  <2> QED
    BY <1>1, <1>2, <1>a, <2>2, <2>3, <2>5, <2>8
<1>16. ASSUME NEW k \in Keys, NEW s \in Keys, HookSends(k, s) PROVE NamesInv'
  <2>1. /\ s \in hook[k] /\ hook' = [hook EXCEPT ![k] = @ \ {s}]
        /\ told' = told \cup {<<s, c>> : c \in SummaryRow(s) \cap Channels}
        /\ Kick(Lookups(s)) /\ UNCHANGED <<cache, due, sessions, touch, unread>>
    BY <1>16 DEF HookSends, Send
  <2>2. hook' \in [Keys -> SUBSET Keys] /\ \A c, r \in Keys : r \in hook[c] => r \in hook'[c] \/ r = s
    BY <1>1, <2>1
  <2>3. PICK rows : rows = {<<s, c>> : c \in SummaryRow(s) \cap Channels}
    OBVIOUS
  <2>4. rows \subseteq Keys \X Channels /\ \A c \in SummaryRow(s) \cap Channels : <<s, c>> \in rows
    BY <1>8, <2>3
  <2>5. told' = told \cup rows
    BY <2>1, <2>3
  <2>6. \A c \in Channels, r \in sessions' :
          cache[c] = "name" /\ c \in Lookups(r) => OnItsWay(r, c)'
    BY <1>1, <1>2, <1>3, <2>1, <2>2, <2>4, <2>5 DEF OnItsWay, SummaryRow
  <2> QED
    BY <1>1, <1>2, <1>5, <1>a, <2>1, <2>2, <2>4, <2>5, <2>6
(* The hook's turn at the store's list: the row of every session that      *)
(* shows the name is to be sent, or it is known that it is not.            *)
<1>17. ASSUME NEW k \in Keys, HookReads(k) \/ HookFails(k) PROVE NamesInv'
  <2>1. /\ k \in due /\ due' = due \ {k}
        /\ UNCHANGED <<cache, inflight, fetches, sessions, touch, told>>
        /\ \/ hook' = [hook EXCEPT ![k] = Referring(k)] /\ unread' = unread
           \/ hook' = hook /\ unread' = unread \cup {miss \in Referring(k) \X Channels : miss[2] = k}
    BY <1>17 DEF HookReads, HookFails, fetchVars
  <2>2. Referring(k) \subseteq sessions /\ sessions \subseteq Keys
    BY <1>1 DEF Referring
  <2>3. hook' \in [Keys -> SUBSET Keys] /\ unread' \subseteq Keys \X Channels /\ unread \subseteq unread'
    BY <1>1, <2>1, <2>2
  <2>4. ASSUME NEW c \in Channels, NEW s \in sessions, cache[c] = "name", c \in Lookups(s)
        PROVE  OnItsWay(s, c)'
    <3>0. OnItsWay(s, c)
      BY <1>2, <2>4
    <3>1. CASE c # k
      <4>1. hook'[c] = hook[c] /\ (c \in due => c \in due')
        BY <1>1, <1>3, <2>1, <3>1
      <4> QED
        BY <2>1, <2>3, <3>0, <4>1 DEF OnItsWay
    <3>2. CASE c = k
      <4>1. s \in Referring(k)
        BY <1>1, <2>4, <3>2 DEF Referring, SessionRefersToName, Lookups, Channels
      <4>2. s \in hook'[k] \/ <<s, c>> \in unread'
        BY <1>1, <2>1, <3>2, <4>1
      <4> QED
        BY <3>2, <4>2 DEF OnItsWay
    <3> QED
      BY <3>1, <3>2
  <2>5. sessions' = sessions /\ due' \subseteq Keys
    BY <1>1, <2>1
  <2> QED
    BY <1>1, <1>2, <1>a, <2>1, <2>3, <2>4, <2>5
<1>18. CASE ListPrewarms
  <2>1. /\ Kick(UNION {Lookups(s) : s \in sessions})
        /\ UNCHANGED <<cache, due, hook, sessions, touch, told, unread>>
    BY <1>18 DEF ListPrewarms, hookVars
  <2>2. (UNION {Lookups(s) : s \in sessions}) \subseteq Keys
    BY <1>6
  <2> QED
    BY <1>1, <1>2, <1>a, <2>1, <2>2 DEF OnItsWay
<1>19. CASE UNCHANGED namesVars
  <2>1. UNCHANGED <<cache, inflight, fetches, due, hook, sessions, touch, told, unread>>
    BY <1>19 DEF namesVars
  <2> QED
    BY <1>1, <1>2, <1>a, <2>1 DEF OnItsWay
<1>20. CASE ListAnswers
  <2>1. PICK listed \in SUBSET sessions :
          /\ told' = told \cup {row \in listed \X Channels : row[2] \in SummaryRow(row[1])}
          /\ Kick(UNION {Lookups(s) : s \in listed})
    BY <1>20 DEF ListAnswers
  <2>2. UNCHANGED <<cache, due, hook, sessions, touch, unread>>
    BY <1>20 DEF ListAnswers, hookVars
  <2>3. told' \subseteq Keys \X Channels /\ told \subseteq told'
    BY <1>1, <2>1
  <2>4. (UNION {Lookups(s) : s \in listed}) \subseteq Keys
    BY <1>6
  <2> QED
    BY <1>1, <1>2, <1>a, <2>1, <2>2, <2>3, <2>4 DEF OnItsWay
<1> QED
  BY <1>9, <1>10, <1>11, <1>12, <1>13, <1>14, <1>15, <1>16, <1>17, <1>18, <1>19, <1>20 DEF NamesNext

(* For any users, groups and threads: every name of a channel that a fetch *)
(* has landed comes to be in the row of every session that shows it, unless *)
(* the list of sessions could not be read when that row was to be sent, and *)
(* no name is fetched twice at a time (namecache.go:18-24, 182-214,        *)
(* control_sessions.go).                                                   *)
THEOREM NamesAreTold == NamesSpec => []ChannelNamesAreTold
<1>1. NamesInit => NamesInv
  <2> SUFFICES ASSUME NamesInit PROVE NamesInv
    OBVIOUS
  <2>1. NamesTypeOK /\ SingleFlight
    BY DEF NamesInit, NamesTypeOK, SingleFlight
  <2>2. Channels \subseteq Keys
    BY DEF Keys
  <2> QED
    BY <2>1, <2>2 DEF NamesInit, NamesInv
<1>2. NamesInv => ChannelNamesAreTold
  BY DEF NamesInv, NamesTypeOK, ChannelNamesAreTold, OnItsWay
<1> QED
  BY <1>1, <1>2, NamesStep, PTL DEF NamesSpec

-----------------------------------------------------------------------------
(* A reply in segments.                                                    *)
(* A text and its mentions, as OnReply has them.                           *)
TextOK ==
  /\ text \in Seq(Kinds) /\ Whole(text)
  /\ spans \subseteq SpansOf(text)
  /\ \A r, s \in spans : Disjoint(r, s)
  /\ mentionAll \in BOOLEAN

Sent == [no : {<<n>> : n \in Nat}, from : Nat, to : Nat, tags : SUBSET spans, all : BOOLEAN]

(* What is carried along: a message of the chat is behind what is consumed *)
(* or is the segment at hand; it carries the number of its segment, so a   *)
(* try that was shown is not shown again.                                  *)
ReplyInv ==
  /\ TextOK
  /\ consumed \in Nat /\ upTo \in Nat /\ consumed <= upTo /\ upTo <= Len(text)
  /\ at \in {"reply", "posting", "sent"}
  /\ at # "posting" => upTo = consumed
  /\ at = "reply" /\ text # <<>> => consumed < Len(text)
  /\ at = "reply" /\ text = <<>> => chat = <<>>
  /\ chat \in Seq(Sent)
  /\ \A i \in 1..Len(chat) :
       /\ chat[i].no = <<chat[i].from>>
       /\ text # <<>> => chat[i].from < chat[i].to
       /\ chat[i].to <= consumed \/ (at = "posting" /\ chat[i] = Message)
  /\ dropped \subseteq [from : Nat, to : Nat]
  /\ ReplyIntact

LEMMA LastIs ==
  ASSUME NEW a \in Nat, NEW b \in Nat, NEW P, P \subseteq a..b, P # {}
  PROVE  Last(P) \in P /\ \A q \in P : q <= Last(P)
<1> DEFINE T == {b - q : q \in P}
<1>1. T \subseteq Nat /\ T # {}
  OBVIOUS
<1> HIDE DEF T
<1>2. PICK n \in T : \A m \in T : n <= m
  BY <1>1, LeastNat
<1>3. PICK p \in P : n = b - p
  BY DEF T
<1>4. ASSUME NEW q \in P PROVE q <= p
  <2>1. n <= b - q
    BY <1>2 DEF T
  <2>2. q \in Int /\ p \in Int
    OBVIOUS
  <2> QED
    BY <1>3, <2>1, <2>2
<1> QED
  BY <1>4 DEF Last

(* The parts of a mention that the cuts depend on.                         *)
LEMMA SpanIs ==
  ASSUME TextOK, NEW s \in spans
  PROVE  /\ s.from \in Nat /\ s.to \in Nat /\ s.from < s.to /\ s.to <= Len(text)
         /\ s = [from |-> s.from, to |-> s.to]
         /\ text[s.from + 1] = "x" /\ text[s.to] # "high"
  BY ReplyAssumption DEF TextOK, SpansOf

(* Both ends of a mention are clean cuts.                                  *)
LEMMA EndsAreClean ==
  ASSUME TextOK, NEW s \in spans
  PROVE  CleanCut(s.from) /\ CleanCut(s.to)
<1>1. \A r \in spans : ~Inside(s.from, r) /\ ~Inside(s.to, r)
  <2> SUFFICES ASSUME NEW r \in spans PROVE ~Inside(s.from, r) /\ ~Inside(s.to, r)
    OBVIOUS
  <2>1. Disjoint(r, s)
    BY DEF TextOK
  <2>2. /\ s.from \in Nat /\ s.to \in Nat /\ s.from < s.to
        /\ r.from \in Nat /\ r.to \in Nat /\ r.from < r.to
    BY SpanIs
  <2> QED
    BY <2>1, <2>2 DEF Disjoint, Inside
<1>2. /\ s.from \in Nat /\ s.to \in Nat /\ s.from < s.to /\ s.to <= Len(text)
      /\ text[s.from + 1] = "x" /\ text[s.to] # "high"
  BY SpanIs
<1>3. Len(text) \in Nat /\ \A i \in 1..Len(text) : text[i] = "high" => text[i + 1] = "low"
  BY DEF TextOK, Whole
<1>4. s.from \in 1..Len(text) - 1 => text[s.from] # "high"
  BY <1>2, <1>3
<1> QED
  BY <1>1, <1>2, <1>4 DEF CleanCut

(* Wherever a cut falls, adjusted it is clean and gets on; it moves forth  *)
(* only behind a mention that begins the segment.                          *)
LEMMA AdjustedIs ==
  ASSUME TextOK, consumed \in Nat, CleanCut(consumed),
         NEW p \in Nat, consumed < p, p < Len(text), text[p] # "high"
  PROVE  /\ Adjusted(p) \in Nat /\ consumed < Adjusted(p) /\ Adjusted(p) <= Len(text)
         /\ CleanCut(Adjusted(p))
         /\ Adjusted(p) <= p \/ [from |-> consumed, to |-> Adjusted(p)] \in spans
<1>1. CASE ~ \E s \in spans : Inside(p, s)
  <2>1. Adjusted(p) = p
    BY <1>1 DEF Adjusted
  <2> QED
    BY <1>1, <2>1 DEF CleanCut, TextOK
<1>2. CASE \E s \in spans : Inside(p, s)
  <2>1. PICK s \in spans : Inside(p, s) /\ Adjusted(p) = IF s.from > consumed THEN s.from ELSE s.to
    BY <1>2 DEF Adjusted
  <2>2. /\ s.from \in Nat /\ s.to \in Nat /\ s.from < s.to /\ s.to <= Len(text)
        /\ s = [from |-> s.from, to |-> s.to]
    BY SpanIs
  <2>3. CleanCut(s.from) /\ CleanCut(s.to)
    BY EndsAreClean
  <2>4. ~Inside(consumed, s)
    BY DEF CleanCut
  <2>5. Len(text) \in Nat
    BY DEF TextOK
  <2>6. CASE s.from > consumed
    BY <2>1, <2>2, <2>3, <2>5, <2>6 DEF Inside
  <2>7. CASE ~(s.from > consumed)
    <3>1. Adjusted(p) = s.to /\ s.from = consumed /\ consumed < s.to
      BY <2>1, <2>2, <2>4, <2>7 DEF Inside
    <3> QED
      BY <2>2, <2>3, <3>1
  <2> QED
    BY <2>6, <2>7
<1> QED
  BY <1>1, <1>2

LEMMA SplitIs ==
  ASSUME TextOK, consumed \in Nat, CleanCut(consumed), consumed < Len(text)
  PROVE  /\ SplitAt \in Nat /\ consumed < SplitAt /\ SplitAt <= Len(text)
         /\ CleanCut(SplitAt)
         /\ Short([from |-> consumed, to |-> SplitAt])
<1>0. Len(text) \in Nat /\ MaxUnits \in Nat /\ MaxUnits >= 2
  BY ReplyAssumption DEF TextOK
<1> DEFINE short(p) == p - consumed <= MaxUnits \/ [from |-> consumed, to |-> p] \in spans
<1>1. \A p : short(p) => Short([from |-> consumed, to |-> p])
  BY DEF Short
<1> HIDE DEF short
<1>2. CASE Len(text) <= consumed + MaxUnits
  <2>1. SplitAt = Len(text)
    BY <1>2 DEF SplitAt
  <2>2. \A s \in spans : ~Inside(Len(text), s)
    BY <1>0, SpanIs DEF Inside
  <2>3. CleanCut(Len(text))
    BY <1>0, <2>2 DEF CleanCut
  <2>4. short(Len(text))
    BY <1>0, <1>2 DEF short
  <2> QED
    BY <1>0, <1>1, <2>1, <2>3, <2>4
<1>3. CASE ~(Len(text) <= consumed + MaxUnits)
  <2>1. ASSUME NEW P, P \subseteq (consumed + 1)..(consumed + MaxUnits), Fits(P),
               \A p \in P : text[p] # "high"
        PROVE  /\ Adjusted(Last(P)) \in Nat /\ consumed < Adjusted(Last(P))
               /\ Adjusted(Last(P)) <= Len(text) /\ CleanCut(Adjusted(Last(P)))
               /\ short(Adjusted(Last(P)))
    <3>1. P # {} /\ Adjusted(Last(P)) <= consumed + MaxUnits
      BY <2>1 DEF Fits
    <3>a. consumed + 1 \in Nat /\ consumed + MaxUnits \in Nat
      BY <1>0
    <3>2. Last(P) \in P
      BY <2>1, <3>1, <3>a, LastIs
    <3>b. Last(P) \in (consumed + 1)..(consumed + MaxUnits) /\ text[Last(P)] # "high"
      BY <2>1, <3>2
    <3>3. Last(P) \in Nat /\ consumed < Last(P) /\ Last(P) < Len(text) /\ text[Last(P)] # "high"
      BY <1>0, <1>3, <3>b
    <3>4. /\ Adjusted(Last(P)) \in Nat /\ consumed < Adjusted(Last(P))
          /\ Adjusted(Last(P)) <= Len(text) /\ CleanCut(Adjusted(Last(P)))
      BY <3>3, AdjustedIs
    <3> QED
      BY <1>0, <3>1, <3>4 DEF short
  <2>2. /\ Paragraphs \subseteq (consumed + 1)..(consumed + MaxUnits)
        /\ \A p \in Paragraphs : text[p] # "high"
    BY <1>0 DEF Paragraphs
  <2>3. \A kind : Behind(kind) \subseteq (consumed + 1)..(consumed + MaxUnits)
    BY <1>0 DEF Behind
  <2>4. \A kind : kind # "high" => \A p \in Behind(kind) : text[p] # "high"
    BY DEF Behind
  <2>5. CASE Fits(Paragraphs)
    <3>1. SplitAt = Adjusted(Last(Paragraphs))
      BY <1>3, <2>5 DEF SplitAt
    <3> QED
      BY <1>1, <2>1, <2>2, <2>5, <3>1
  <2>6. CASE ~Fits(Paragraphs) /\ Fits(Behind("newline"))
    <3>1. SplitAt = Adjusted(Last(Behind("newline")))
      BY <1>3, <2>6 DEF SplitAt
    <3> QED
      BY <1>1, <2>1, <2>3, <2>4, <2>6, <3>1
  <2>7. CASE ~Fits(Paragraphs) /\ ~Fits(Behind("newline")) /\ Fits(Behind("space"))
    <3>1. SplitAt = Adjusted(Last(Behind("space")))
      BY <1>3, <2>7 DEF SplitAt
    <3> QED
      BY <1>1, <2>1, <2>3, <2>4, <2>7, <3>1
  <2>8. CASE ~Fits(Paragraphs) /\ ~Fits(Behind("newline")) /\ ~Fits(Behind("space"))
    <3> DEFINE q == consumed + MaxUnits
               p == IF text[q] = "high" THEN q - 1 ELSE q
    <3>1. SplitAt = Adjusted(p)
      BY <1>3, <2>8 DEF SplitAt, HardSplit
    <3>2. q \in Nat /\ q >= consumed + 2 /\ q < Len(text) /\ q \in 1..Len(text)
      BY <1>0, <1>3
    <3>3. p \in Nat /\ consumed < p /\ p <= q /\ p < Len(text)
      BY <3>2
    <3>4. text[p] # "high"
      <4>1. q - 1 \in 1..Len(text) /\ (q - 1) + 1 = q
        BY <1>0, <3>2
      <4>2. text[q - 1] = "high" => text[q] = "low"
        BY <4>1 DEF TextOK, Whole
      <4> QED
        BY <4>2
    <3> HIDE DEF p
    <3>5. /\ Adjusted(p) \in Nat /\ consumed < Adjusted(p) /\ Adjusted(p) <= Len(text)
          /\ CleanCut(Adjusted(p))
          /\ Adjusted(p) <= p \/ [from |-> consumed, to |-> Adjusted(p)] \in spans
      BY <3>3, <3>4, AdjustedIs
    <3>6. short(Adjusted(p))
      BY <1>0, <3>3, <3>5 DEF short
    <3> QED
      BY <1>1, <3>1, <3>5, <3>6
  <2> QED
    BY <2>5, <2>6, <2>7, <2>8
<1> QED
  BY <1>2, <1>3

-----------------------------------------------------------------------------
(* The server.                                                             *)

(* What the chat shows after a post that reached it.                       *)
LEMMA ShownIs ==
  ASSUME ReplyInv, at = "posting"
  PROVE  /\ Shown(Message) \in Seq(Sent)
         /\ \A i \in 1..Len(Shown(Message)) :
              LET m == Shown(Message)[i]
              IN  /\ m.no = <<m.from>> /\ m.from < m.to
                  /\ m.to <= consumed \/ m = Message
                  /\ m.tags = {s \in spans : m.from <= s.from /\ s.to <= m.to}
         /\ \A i \in 1..Len(Shown(Message)) : \A j \in 1..Len(Shown(Message)) :
              i < j => Shown(Message)[i].to <= Shown(Message)[j].from /\ ~Shown(Message)[j].all
         /\ \A i \in 1..Len(chat) : \E j \in 1..Len(Shown(Message)) : Shown(Message)[j] = chat[i]
         /\ \E i \in 1..Len(Shown(Message)) : Shown(Message)[i] = Message
<1> DEFINE m == Message
<1>1. /\ chat \in Seq(Sent) /\ consumed \in Nat /\ upTo \in Nat /\ consumed < upTo /\ upTo <= Len(text)
      /\ mentionAll \in BOOLEAN /\ text \in Seq(Kinds)
  BY DEF ReplyInv, ReplyIntact, CutsAreClean, TextOK
<1>2. text # <<>>
  <2>1. text = <<>> => Len(text) = 0
    OBVIOUS
  <2> QED
    BY <1>1, <2>1
<1>3. /\ m.no = <<consumed>> /\ m.from = consumed /\ m.to = upTo /\ m.all = UseMentionAll
      /\ m.tags = {s \in spans : consumed <= s.from /\ s.to <= upTo}
  BY DEF Message, ClientMsgNo, Tagged
<1>4. m \in Sent
  <2>1. UseMentionAll \in BOOLEAN
    BY <1>1 DEF UseMentionAll
  <2> QED
    BY <1>1, <2>1 DEF Sent, Message, ClientMsgNo, Tagged
<1> HIDE DEF m
<1>5. \A i \in 1..Len(chat) :
        /\ chat[i].no = <<chat[i].from>> /\ chat[i].from < chat[i].to
        /\ chat[i].to <= consumed \/ chat[i] = m
        /\ chat[i].tags = {s \in spans : chat[i].from <= s.from /\ s.to <= chat[i].to}
  BY <1>2 DEF ReplyInv, ReplyIntact, m
<1>6. \A i \in 1..Len(chat) : \A j \in 1..Len(chat) :
        i < j => chat[i].to <= chat[j].from /\ ~chat[j].all
  BY DEF ReplyInv, ReplyIntact
<1>7. \A i \in 1..Len(chat) : chat[i].from \in Nat /\ chat[i].to \in Nat
  <2>1. \A i \in 1..Len(chat) : chat[i] \in Sent
    BY <1>1
  <2> QED
    BY <2>1 DEF Sent
<1>8. CASE \E i \in 1..Len(chat) : chat[i].no = m.no
  <2>1. PICK i \in 1..Len(chat) : chat[i].no = m.no
    BY <1>8
  <2>2. chat[i].from = consumed
    <3>1. <<chat[i].from>> = <<consumed>>
      BY <1>3, <1>5, <2>1
    <3> QED
      BY <3>1
  <2>3. chat[i] = m
    BY <1>1, <1>5, <1>7, <2>2
  <2>4. Shown(Message) = chat
    BY <1>8 DEF Shown, m
  <2> QED
    BY <1>1, <1>5, <1>6, <2>3, <2>4 DEF m
<1>9. CASE ~ \E i \in 1..Len(chat) : chat[i].no = m.no
  <2> DEFINE new == Append(chat, m)
  <2>1. Shown(Message) = new
    BY <1>9 DEF Shown, m
  <2>2. \A i \in 1..Len(chat) : chat[i].to <= consumed
    BY <1>3, <1>5, <1>9
  <2>3. /\ new \in Seq(Sent) /\ Len(new) = Len(chat) + 1 /\ Len(chat) \in Nat
        /\ new[Len(chat) + 1] = m /\ \A i \in 1..Len(chat) : new[i] = chat[i]
    BY <1>1, <1>4
  <2>4. Len(chat) # 0 => m.all = FALSE
    <3>1. Len(chat) # 0 => chat[1].to <= consumed /\ chat[1].from < chat[1].to
      BY <1>5, <2>2, <2>3
    <3>2. Len(chat) # 0 => consumed # 0
      BY <1>1, <1>7, <2>3, <3>1
    <3> QED
      BY <1>3, <3>2 DEF UseMentionAll
  <2> HIDE DEF new
  <2>5. \A i \in 1..Len(new) : i \in 1..Len(chat) \/ i = Len(chat) + 1
    BY <2>3
  <2>6. \A i \in 1..Len(new) :
          /\ new[i].no = <<new[i].from>> /\ new[i].from < new[i].to
          /\ new[i].to <= consumed \/ new[i] = m
          /\ new[i].tags = {s \in spans : new[i].from <= s.from /\ s.to <= new[i].to}
    BY <1>1, <1>3, <1>5, <2>3, <2>5
  <2>7. \A i \in 1..Len(new) : \A j \in 1..Len(new) :
          i < j => new[i].to <= new[j].from /\ ~new[j].all
    <3> SUFFICES ASSUME NEW i \in 1..Len(new), NEW j \in 1..Len(new), i < j
                 PROVE  new[i].to <= new[j].from /\ ~new[j].all
      OBVIOUS
    <3>1. i \in 1..Len(chat) /\ Len(chat) # 0
      BY <2>3
    <3>2. CASE j \in 1..Len(chat)
      BY <1>6, <2>3, <3>1, <3>2
    <3>3. CASE j = Len(chat) + 1
      BY <1>3, <2>2, <2>3, <2>4, <3>1, <3>3
    <3> QED
      BY <2>5, <3>2, <3>3
  <2>8. /\ \A i \in 1..Len(chat) : \E j \in 1..Len(new) : new[j] = chat[i]
        /\ \E i \in 1..Len(new) : new[i] = m
    <3>1. \A i \in 1..Len(chat) : i \in 1..Len(new)
      BY <2>3
    <3>2. Len(chat) + 1 \in 1..Len(new)
      BY <2>3
    <3> QED
      BY <2>3, <3>1, <3>2
  <2> QED
    BY <2>1, <2>3, <2>6, <2>7, <2>8 DEF m
<1> QED
  BY <1>8, <1>9

(* A segment is shown, or noted as dropped, and the next begins.           *)
LEMMA DoneInv ==
  ASSUME ReplyInv, at = "posting", SegmentDone,
         \/ chat' = Shown(Message) /\ dropped' = dropped
         \/ chat' = chat /\ dropped' = dropped \cup {[from |-> consumed, to |-> upTo]}
  PROVE  ReplyInv'
<1>1. /\ consumed \in Nat /\ upTo \in Nat /\ consumed < upTo /\ upTo <= Len(text)
      /\ text \in Seq(Kinds) /\ Len(text) \in Nat
      /\ chat \in Seq(Sent) /\ dropped \subseteq [from : Nat, to : Nat]
  BY DEF ReplyInv, ReplyIntact, CutsAreClean, TextOK
<1>2. /\ consumed' = upTo /\ upTo' = upTo /\ UNCHANGED <<text, spans, mentionAll>>
      /\ at' = IF upTo = Len(text) THEN "sent" ELSE "reply"
  BY DEF SegmentDone, reply
<1>3. text # <<>>
  <2>1. text = <<>> => Len(text) = 0
    OBVIOUS
  <2> QED
    BY <1>1, <2>1
<1>4. TextOK'
  BY <1>2 DEF ReplyInv, TextOK, SpansOf
<1>5. /\ chat' \in Seq(Sent)
      /\ \A i \in 1..Len(chat') :
           /\ chat'[i].no = <<chat'[i].from>> /\ chat'[i].from < chat'[i].to
           /\ chat'[i].to <= consumed \/ chat'[i] = Message
           /\ chat'[i].tags = {s \in spans : chat'[i].from <= s.from /\ s.to <= chat'[i].to}
      /\ \A i \in 1..Len(chat') : \A j \in 1..Len(chat') :
           i < j => chat'[i].to <= chat'[j].from /\ ~chat'[j].all
      /\ \A i \in 1..Len(chat) : \E j \in 1..Len(chat') : chat'[j] = chat[i]
  <2>1. CASE chat' = Shown(Message)
    BY <2>1, ShownIs
  <2>2. CASE chat' = chat
    BY <1>3, <2>2 DEF ReplyInv, ReplyIntact
  <2> QED
    BY <2>1, <2>2
<1>6. \A i \in 1..Len(chat') : chat'[i].from \in Nat /\ chat'[i].to \in Nat /\ chat'[i].to <= upTo
  <2>1. Message.to = upTo
    BY DEF Message
  <2>2. \A i \in 1..Len(chat') : chat'[i] \in Sent
    BY <1>5
  <2>3. \A i \in 1..Len(chat') : chat'[i].from \in Nat /\ chat'[i].to \in Nat
    BY <2>2 DEF Sent
  <2>4. \A i \in 1..Len(chat') : chat'[i].to <= consumed \/ chat'[i].to = upTo
    BY <1>5, <2>1
  <2> QED
    BY <1>1, <2>3, <2>4
<1>7. dropped' \subseteq [from : Nat, to : Nat] /\ dropped \subseteq dropped'
  BY <1>1
<1>8. \A p \in 0..(Len(text) - 1) : p < upTo =>
        \/ \E i \in 1..Len(chat') : chat'[i].from <= p /\ p < chat'[i].to
        \/ \E d \in dropped' : d.from <= p /\ p < d.to
  <2> SUFFICES ASSUME NEW p \in 0..(Len(text) - 1), p < upTo
               PROVE  \/ \E i \in 1..Len(chat') : chat'[i].from <= p /\ p < chat'[i].to
                      \/ \E d \in dropped' : d.from <= p /\ p < d.to
    OBVIOUS
  <2>1. CASE p < consumed
    BY <1>5, <1>7, <2>1 DEF ReplyInv, ReplyIntact
  <2>2. CASE ~(p < consumed)
    <3>1. consumed <= p
      BY <1>1, <2>2
    <3>2. CASE chat' = Shown(Message)
      <4>1. \E i \in 1..Len(chat') : chat'[i] = Message
        BY <3>2, ShownIs
      <4>2. Message.from = consumed /\ Message.to = upTo
        BY DEF Message
      <4> QED
        BY <3>1, <4>1, <4>2
    <3>3. CASE [from |-> consumed, to |-> upTo] \in dropped'
      BY <3>1, <3>3
    <3> QED
      BY <3>2, <3>3
  <2> QED
    BY <2>1, <2>2
<1>9. Sent' = Sent
  BY <1>2 DEF Sent
<1>10. CutsAreClean'
  <2>1. CleanCut(upTo)
    BY DEF ReplyInv, ReplyIntact, CutsAreClean
  <2>2. CleanCut(upTo)'
    BY <1>2, <2>1 DEF CleanCut, Inside
  <2> QED
    BY <1>2, <2>2 DEF CutsAreClean, CleanCut
<1>11. ReplyIntact'
  BY <1>2, <1>5, <1>8, <1>10 DEF ReplyIntact
<1> QED
  BY <1>1, <1>2, <1>3, <1>4, <1>5, <1>6, <1>7, <1>9, <1>11 DEF ReplyInv

LEMMA ReplyStep == ReplyInv /\ [ReplyNext]_replyVars => ReplyInv'
<1> SUFFICES ASSUME ReplyInv, [ReplyNext]_replyVars PROVE ReplyInv'
  OBVIOUS
<1>1. /\ TextOK /\ consumed \in Nat /\ upTo \in Nat /\ consumed <= upTo /\ upTo <= Len(text)
      /\ chat \in Seq(Sent) /\ text \in Seq(Kinds) /\ Len(text) \in Nat /\ CleanCut(consumed)
  BY DEF ReplyInv, ReplyIntact, CutsAreClean, TextOK
<1>2. CASE OnEmptyReply
  <2>1. /\ at = "reply" /\ text = <<>> /\ at' = "sent" /\ chat' \in {chat, Shown(Message)}
        /\ UNCHANGED <<text, spans, mentionAll, consumed, upTo, dropped>>
    BY <1>2 DEF OnEmptyReply, reply
  <2>2. chat = <<>> /\ consumed = 0 /\ upTo = 0 /\ Len(text) = 0
    <3>1. Len(text) = 0
      BY <2>1
    <3> QED
      BY <1>1, <2>1, <3>1 DEF ReplyInv
  <2>3. spans = {}
    <3>1. \A s \in spans : s.from \in Nat /\ s.from < s.to /\ s.to <= Len(text) /\ s.to \in Nat
      BY <1>1, SpanIs
    <3> QED
      BY <2>2, <3>1
  <2>4. /\ Message \in Sent /\ Message.no = <<Message.from>> /\ Message.from = 0
        /\ Message.to = 0 /\ Message.tags = {}
    BY <1>1, <2>2, <2>3 DEF Message, Sent, ClientMsgNo, Tagged, UseMentionAll, TextOK
  <2>5. Shown(Message) = Append(<<>>, Message)
    <3>1. ~ \E i \in 1..Len(chat) : chat[i].no = Message.no
      BY <2>2
    <3> QED
      BY <2>2, <3>1 DEF Shown
  <2> DEFINE m == Message
  <2> HIDE DEF m
  <2>6. m \in Sent => /\ Append(<<>>, m) \in Seq(Sent) /\ Len(Append(<<>>, m)) = 1
                          /\ Append(<<>>, m)[1] = m
    OBVIOUS
  <2>7. /\ chat' \in Seq(Sent)
        /\ Len(chat') \in 0..1 /\ \A i \in 1..Len(chat') : i = 1 /\ chat'[i] = m
    <3>1. CASE chat' = chat
      BY <1>1, <2>2, <3>1
    <3>2. CASE chat' = Shown(Message)
      BY <2>4, <2>5, <2>6, <3>2 DEF m
    <3> QED
      BY <2>1, <3>1, <3>2
  <2>8. m.no = <<m.from>> /\ m.from = 0 /\ m.to = 0 /\ m.tags = {}
    BY <2>4 DEF m
  <2>9. Sent' = Sent /\ TextOK'
    BY <1>1, <2>1 DEF Sent, TextOK, SpansOf
  <2>10. CutsAreClean'
    BY <1>1, <2>1, <2>2 DEF CutsAreClean, CleanCut, Inside
  <2>11. ReplyIntact'
    <3>1. \A i \in 1..Len(chat') : \A j \in 1..Len(chat') : ~(i < j)
      BY <2>7
    <3>2. \A i \in 1..Len(chat') : chat'[i].tags = {s \in spans' : chat'[i].from <= s.from /\ s.to <= chat'[i].to}
      BY <2>1, <2>3, <2>7, <2>8
    <3> QED
      BY <2>1, <2>2, <2>10, <3>1, <3>2 DEF ReplyIntact
  <2> QED
    BY <1>1, <2>1, <2>2, <2>7, <2>8, <2>9, <2>11 DEF ReplyInv
<1>3. CASE NextSegment
  <2>1. /\ at = "reply" /\ text # <<>> /\ upTo' = SplitAt /\ at' = "posting"
        /\ UNCHANGED <<text, spans, mentionAll, consumed, chat, dropped>>
    BY <1>3 DEF NextSegment, reply
  <2>2. /\ SplitAt \in Nat /\ consumed < SplitAt /\ SplitAt <= Len(text)
        /\ CleanCut(SplitAt) /\ Short([from |-> consumed, to |-> SplitAt])
    BY <1>1, <2>1, SplitIs DEF ReplyInv
  <2>3. CutsAreClean'
    <3>1. CleanCut(consumed)' /\ CleanCut(upTo)'
      BY <1>1, <2>1, <2>2 DEF CleanCut, Inside
    <3>2. Short([from |-> consumed, to |-> upTo])'
      BY <2>1, <2>2 DEF Short
    <3> QED
      BY <2>1, <2>2, <3>1, <3>2 DEF CutsAreClean
  <2>4. Sent' = Sent /\ TextOK'
    BY <1>1, <2>1 DEF Sent, TextOK, SpansOf
  <2>5. ReplyIntact'
    BY <2>1, <2>3 DEF ReplyInv, ReplyIntact
  <2>6. \A i \in 1..Len(chat) : chat[i].no = <<chat[i].from>> /\ chat[i].from < chat[i].to /\ chat[i].to <= consumed
    BY <2>1 DEF ReplyInv
  <2> QED
    BY <1>1, <2>1, <2>2, <2>4, <2>5, <2>6 DEF ReplyInv
<1>4. CASE PostSucceeds
  BY <1>4, DoneInv DEF PostSucceeds
<1>5. CASE GiveUp
  BY <1>5, DoneInv DEF GiveUp
<1>6. CASE PostFails
  <2>1. /\ at = "posting" /\ chat' \in {chat, Shown(Message)}
        /\ UNCHANGED <<text, spans, mentionAll, consumed, upTo, at, dropped>>
    BY <1>6 DEF PostFails, reply
  <2>2. Message' = Message /\ Sent' = Sent /\ TextOK'
    BY <1>1, <2>1 DEF Sent, Message, ClientMsgNo, Tagged, UseMentionAll, TextOK, SpansOf
  <2>3. CutsAreClean'
    BY <2>1 DEF ReplyInv, ReplyIntact, CutsAreClean, CleanCut, Inside, Short
  <2>4. CASE chat' = chat
    BY <2>1, <2>2, <2>3, <2>4 DEF ReplyInv, ReplyIntact
  <2>5. CASE chat' = Shown(Message)
    <3>1. /\ chat' \in Seq(Sent)
          /\ \A i \in 1..Len(chat') :
               /\ chat'[i].no = <<chat'[i].from>> /\ chat'[i].from < chat'[i].to
               /\ chat'[i].to <= consumed \/ chat'[i] = Message
               /\ chat'[i].tags = {s \in spans : chat'[i].from <= s.from /\ s.to <= chat'[i].to}
          /\ \A i \in 1..Len(chat') : \A j \in 1..Len(chat') :
               i < j => chat'[i].to <= chat'[j].from /\ ~chat'[j].all
          /\ \A i \in 1..Len(chat) : \E j \in 1..Len(chat') : chat'[j] = chat[i]
      BY <2>1, <2>5, ShownIs
    <3>2. ReplyIntact'
      BY <2>1, <2>3, <3>1 DEF ReplyInv, ReplyIntact
    <3> QED
      BY <1>1, <2>1, <2>2, <3>1, <3>2 DEF ReplyInv
  <2> QED
    BY <2>1, <2>4, <2>5
<1>7. CASE ConnectorStops \/ UNCHANGED replyVars
  <2>1. UNCHANGED <<text, spans, mentionAll, consumed, upTo, at, chat, dropped>>
    BY <1>7 DEF ConnectorStops, replyVars, reply
  <2>2. Message' = Message /\ Sent' = Sent /\ TextOK'
    BY <1>1, <2>1 DEF Sent, Message, ClientMsgNo, Tagged, UseMentionAll, TextOK, SpansOf
  <2>3. CutsAreClean'
    BY <2>1 DEF ReplyInv, ReplyIntact, CutsAreClean, CleanCut, Inside, Short
  <2> QED
    BY <2>1, <2>2, <2>3 DEF ReplyInv, ReplyIntact
<1> QED
  BY <1>2, <1>3, <1>4, <1>5, <1>6, <1>7 DEF ReplyNext

(* For any text, segment size and mentions that do not overlap: the        *)
(* channel shows the reply in order, each part once, and misses only what  *)
(* was logged as dropped; no cut goes through a mention or a surrogate     *)
(* pair (mention_split.go:45-187, connector_sink.go:83-146, rest_send.go). *)
THEOREM RepliesStayIntact == ReplySpec => []ReplyIntact
<1>1. ReplyInit => ReplyInv
  <2> SUFFICES ASSUME ReplyInit PROVE ReplyInv
    OBVIOUS
  <2>1. text \in Seq(Kinds) /\ Whole(text) /\ Len(text) \in Nat
    <3>1. PICK n \in 0..MaxLength : text \in [1..n -> Kinds]
      BY DEF ReplyInit, Texts
    <3>2. n \in Nat
      BY ReplyAssumption
    <3>3. \A S : [1..n -> S] \subseteq Seq(S)
      BY <3>2
    <3>4. text \in Seq(Kinds)
      BY <3>1, <3>3
    <3> QED
      BY <3>4 DEF ReplyInit, Texts
  <2>2. PICK r, s \in SpansOf(text) \cup {[from |-> 0, to |-> 0]} :
          Disjoint(r, s) /\ spans = {q \in {r, s} : q.from < q.to}
    BY DEF ReplyInit
  <2>3. TextOK
    <3>1. spans \subseteq SpansOf(text)
      BY <2>2
    <3>2. \A p, q \in spans : Disjoint(p, q)
      BY <2>2 DEF Disjoint
    <3> QED
      BY <2>1, <3>1, <3>2 DEF TextOK, ReplyInit
  <2>4. text # <<>> => Len(text) > 0
    BY <2>1
  <2>5. CutsAreClean
    <3>1. \A q \in spans : q.from \in Nat
      BY <2>3, SpanIs
    <3> QED
      BY <3>1 DEF ReplyInit, CutsAreClean, CleanCut, Inside
  <2>6. \A S : <<>> \in Seq(S) /\ Len(<<>>) = 0
    OBVIOUS
  <2>7. ReplyIntact
    BY <2>5, <2>6 DEF ReplyInit, ReplyIntact
  <2> QED
    BY <2>1, <2>3, <2>4, <2>6, <2>7 DEF ReplyInit, ReplyInv
<1>2. ReplyInv => ReplyIntact
  BY DEF ReplyInv
<1> QED
  BY <1>1, <1>2, ReplyStep, PTL DEF ReplySpec
=============================================================================
