---------------------------- MODULE InboundProofs ----------------------------
(***************************************************************************)
(* The connector's way in: where a frame may end, under any policy, and    *)
(* what the cached GROUP.md can be, for any number of edits and refreshes; *)
(* and both for the composition with the turn queue.                       *)
(*                                                                         *)
(* A frame is one step's, so its invariant says which fate it has from its *)
(* own data and the policy; what the fates mean is a matter of the         *)
(* classifier's rules, whose order FirstRule settles.                      *)
(***************************************************************************)
EXTENDS MCInbound, TLAPS

Fits(r) ==
  \/ r.at = "off" /\ r.doc = 0
  \/ r.at = "fetch" /\ r.doc = 0
  \/ r.at = "write" /\ r.doc \in 0..MaxEdits
  \/ r.at = "delete" /\ r.doc = 0

DocTasks == {r \in [at : {"off", "fetch", "write", "delete"}, doc : 0..MaxEdits] : Fits(r)}

DocTypes ==
  /\ MaxEdits \in Nat
  /\ server \in 0..MaxEdits /\ local \in 0..MaxEdits /\ edits \in 0..MaxEdits
  /\ recent \in BOOLEAN /\ blame \subseteq Causes
  /\ notices \in Seq(Notices) /\ owed \subseteq Notices
  /\ refresh \in [Refreshes -> DocTasks]

(* What a refresh will leave is the server's document.                     *)
Right(r) ==
  \/ r.at = "fetch"
  \/ r.at = "write" /\ r.doc = server
  \/ r.at = "delete" /\ server = 0

(* A notice of the last edit tells what the server has, and so do the read *)
(* ones together when nothing is to blame: one refresh at most runs then,  *)
(* the last notice's.                                                      *)
DocInv ==
  /\ DocTypes
  /\ \A n \in Notices : n \in owed \/ (\E i \in 1..Len(notices) : n = notices[i]) =>
       n.edit <= edits /\ (n.kind = "deleted" /\ n.edit = edits => server = 0)
  /\ notices = <<>> /\ blame = {} =>
       \/ local = server /\ \A r \in Refreshes : refresh[r].at = "off"
       \/ \E r \in Refreshes :
            Right(refresh[r]) /\ \A o \in Refreshes : o # r => refresh[o].at = "off"

LEMMA DocTaskFacts ==
  ASSUME DocTypes
  PROVE  /\ Off \in DocTasks /\ Off.at = "off" /\ Off.doc = 0
         /\ \A r \in Refreshes : refresh[r] \in DocTasks
         /\ \A r \in Refreshes : refresh[r].at = "off" <=> refresh[r] = Off
<1>1. MaxEdits \in Nat /\ 0 \in 0..MaxEdits
  BY DEF DocTypes
<1>2. Off \in DocTasks /\ Off.at = "off" /\ Off.doc = 0
  BY <1>1 DEF Off, DocTasks, Fits
<1>3. \A r \in Refreshes : refresh[r] \in DocTasks
  BY DEF DocTypes
<1>4. \A t \in DocTasks : t.at = "off" => t = Off
  BY DEF DocTasks, Fits, Off
<1> QED
  BY <1>2, <1>3, <1>4

LEMMA DocImplies == DocInv => DocTypeOK /\ StaleHasCause
<1> SUFFICES ASSUME DocInv PROVE DocTypeOK /\ StaleHasCause
  OBVIOUS
<1>1. DocTypeOK
  BY DEF DocInv, DocTypes, DocTypeOK
<1>2. StaleHasCause
  <2> SUFFICES ASSUME notices = <<>>, Running(Refreshes) = {}, blame = {} PROVE local = server
    BY DEF StaleHasCause
  <2>1. \A r \in Refreshes : refresh[r].at = "off"
    BY DocTaskFacts DEF DocInv, Running
  <2>2. \A r \in Refreshes : ~Right(refresh[r])
    BY <2>1 DEF Right
  <2> QED
    BY <2>2 DEF DocInv
<1> QED
  BY <1>1, <1>2

LEMMA InitDoc == DocInit => DocInv
<1> SUFFICES ASSUME DocInit PROVE DocInv
  OBVIOUS
<1>1. MaxEdits \in Nat /\ 0 \in 0..MaxEdits
  BY DocAssumption
<1>2. Off \in DocTasks /\ Off.at = "off"
  BY <1>1 DEF Off, DocTasks, Fits
<1>3. <<>> \in Seq(Notices) /\ Len(<<>>) = 0
  OBVIOUS
<1>4. DocTypes
  <2>1. recent \in BOOLEAN /\ blame \subseteq Causes /\ owed \subseteq Notices
    BY DEF DocInit
  <2>2. refresh \in [Refreshes -> DocTasks]
    BY <1>2 DEF DocInit
  <2>3. notices \in Seq(Notices)
    BY <1>3 DEF DocInit
  <2> QED
    BY <1>1, <2>1, <2>2, <2>3 DEF DocInit, DocTypes
<1>5. ~\E i \in 1..Len(notices) : TRUE
  <2>1. Len(notices) = 0 /\ 1..0 = {}
    BY <1>3 DEF DocInit
  <2> QED
    BY <2>1
<1> QED
  BY <1>2, <1>4, <1>5 DEF DocInit, DocInv

(* What is on its way, after one more and after one less.                  *)
LEMMA MoreNotices ==
  ASSUME DocTypes, NEW n \in Notices, notices' = Append(notices, n)
  PROVE  /\ notices' \in Seq(Notices) /\ notices' # <<>>
         /\ \A i \in 1..Len(notices') :
              notices'[i] = n \/ \E j \in 1..Len(notices) : notices'[i] = notices[j]
<1>1. notices \in Seq(Notices) /\ Len(notices) \in Nat
  BY DEF DocTypes
<1>2. /\ Append(notices, n) \in Seq(Notices) /\ Len(Append(notices, n)) = Len(notices) + 1
      /\ Append(notices, n)[Len(notices) + 1] = n
      /\ \A i \in 1..Len(notices) : Append(notices, n)[i] = notices[i]
  BY <1>1
<1>3. notices' # <<>>
  <2>1. Len(notices') # 0
    BY <1>1, <1>2
  <2>2. Len(<<>>) = 0
    OBVIOUS
  <2> QED
    BY <2>1, <2>2
<1>4. \A i \in 1..Len(notices') : i = Len(notices) + 1 \/ i \in 1..Len(notices)
  BY <1>1, <1>2
<1> QED
  BY <1>2, <1>3, <1>4

LEMMA FewerNotices ==
  ASSUME DocTypes, Takes
  PROVE  /\ notices' \in Seq(Notices) /\ Head(notices) \in Notices
         /\ \E j \in 1..Len(notices) : Head(notices) = notices[j]
         /\ \A i \in 1..Len(notices') : \E j \in 1..Len(notices) : notices'[i] = notices[j]
<1>1. notices \in Seq(Notices) /\ notices # <<>> /\ notices' = Tail(notices) /\ Len(notices) \in Nat
  BY DEF DocTypes, Takes
<1>2. /\ Head(notices) \in Notices /\ Head(notices) = notices[1] /\ 1 \in 1..Len(notices)
      /\ Tail(notices) \in Seq(Notices) /\ Len(Tail(notices)) = Len(notices) - 1
  BY <1>1
<1>3. ASSUME NEW i \in 1..Len(Tail(notices))
      PROVE  i + 1 \in 1..Len(notices) /\ Tail(notices)[i] = notices[i + 1]
  BY <1>1, <1>2
<1> QED
  BY <1>1, <1>2, <1>3

LEMMA EditStep ==
  ASSUME DocInv, ServerWrites \/ ServerClears \/ ServerDeletes
  PROVE  DocInv'
<1>1. edits < MaxEdits /\ edits' = edits + 1 /\ UNCHANGED <<local, owed, recent, refresh, blame>>
  BY DEF ServerWrites, ServerClears, ServerDeletes, Edits
<1>2. PICK kind \in {"updated", "deleted"} :
        /\ notices' = Append(notices, [edit |-> edits + 1, kind |-> kind])
        /\ server' = edits + 1 \/ server' = 0
        /\ kind = "deleted" => server' = 0
  BY DEF ServerWrites, ServerClears, ServerDeletes, Edits
<1>3. DocTypes /\ edits \in 0..MaxEdits /\ MaxEdits \in Nat
  BY DEF DocInv, DocTypes
<1>4. edits' \in 1..MaxEdits /\ edits' \in 0..MaxEdits /\ server' \in 0..MaxEdits
  BY <1>1, <1>2, <1>3
<1>5. PICK n \in Notices : n = [edit |-> edits + 1, kind |-> kind]
  BY <1>1, <1>4 DEF Notices
<1>6. /\ notices' \in Seq(Notices) /\ notices' # <<>>
      /\ \A i \in 1..Len(notices') :
           notices'[i] = n \/ \E j \in 1..Len(notices) : notices'[i] = notices[j]
  BY <1>2, <1>3, <1>5, MoreNotices
<1>7. DocTypes'
  BY <1>1, <1>4, <1>6 DEF DocInv, DocTypes
<1>8. ASSUME NEW o \in Notices, o \in owed \/ \E j \in 1..Len(notices) : o = notices[j]
      PROVE  o.edit <= edits' /\ o.edit # edits'
  <2>1. o.edit <= edits /\ o.edit \in Nat
    BY <1>8 DEF DocInv, Notices
  <2> QED
    BY <1>1, <1>3, <2>1
<1>9. n.edit = edits' /\ n.kind = kind /\ n.edit <= edits'
  BY <1>1, <1>3, <1>5
<1>10. ASSUME NEW o \in Notices, o \in owed' \/ \E i \in 1..Len(notices') : o = notices'[i]
       PROVE  o.edit <= edits' /\ (o.kind = "deleted" /\ o.edit = edits' => server' = 0)
  <2>1. o = n \/ o \in owed \/ \E j \in 1..Len(notices) : o = notices[j]
    BY <1>1, <1>6, <1>10
  <2> QED
    BY <1>2, <1>8, <1>9, <2>1
<1> QED
  BY <1>6, <1>7, <1>10 DEF DocInv

LEMMA RedeliverStep ==
  ASSUME DocInv, NEW n \in owed, Redelivers(n)
  PROVE  DocInv'
<1>1. /\ owed' = owed \ {n} /\ notices' = Append(notices, n)
      /\ UNCHANGED <<server, local, edits, recent, refresh, blame>>
  BY DEF Redelivers
<1>2. DocTypes /\ n \in Notices
  BY DEF DocInv, DocTypes
<1>3. /\ notices' \in Seq(Notices) /\ notices' # <<>>
      /\ \A i \in 1..Len(notices') :
           notices'[i] = n \/ \E j \in 1..Len(notices) : notices'[i] = notices[j]
  BY <1>1, <1>2, MoreNotices
<1>4. DocTypes'
  BY <1>1, <1>2, <1>3 DEF DocTypes
<1>5. ASSUME NEW o \in Notices, o \in owed' \/ \E i \in 1..Len(notices') : o = notices'[i]
      PROVE  o.edit <= edits /\ (o.kind = "deleted" /\ o.edit = edits => server = 0)
  <2>1. o \in owed \/ \E j \in 1..Len(notices) : o = notices[j]
    BY <1>1, <1>3, <1>5
  <2> QED
    BY <2>1 DEF DocInv
<1> QED
  BY <1>1, <1>3, <1>4, <1>5 DEF DocInv

(* A notice that is read, whatever becomes of it, leaves no more of them.  *)
LEMMA TakeStep ==
  ASSUME DocInv, Takes, owed' = owed \/ owed' = owed \cup {Head(notices)},
         UNCHANGED <<server, local, edits>>, recent' \in BOOLEAN, blame' \subseteq Causes
  PROVE  /\ notices' \in Seq(Notices) /\ owed' \subseteq Notices
         /\ \A n \in Notices : n \in owed' \/ (\E i \in 1..Len(notices') : n = notices'[i]) =>
              n.edit <= edits' /\ (n.kind = "deleted" /\ n.edit = edits' => server' = 0)
         /\ refresh' \in [Refreshes -> DocTasks] => DocTypes'
<1>1. DocTypes
  BY DEF DocInv
<1>2. /\ notices' \in Seq(Notices) /\ Head(notices) \in Notices
      /\ \E j \in 1..Len(notices) : Head(notices) = notices[j]
      /\ \A i \in 1..Len(notices') : \E j \in 1..Len(notices) : notices'[i] = notices[j]
  BY <1>1, FewerNotices
<1>3. owed' \subseteq Notices
  BY <1>1, <1>2 DEF DocTypes
<1>4. ASSUME NEW n \in Notices, n \in owed' \/ \E i \in 1..Len(notices') : n = notices'[i]
      PROVE  n.edit <= edits' /\ (n.kind = "deleted" /\ n.edit = edits' => server' = 0)
  <2>1. n \in owed \/ \E j \in 1..Len(notices) : n = notices[j]
    BY <1>2, <1>4
  <2> QED
    BY <2>1 DEF DocInv
<1>5. refresh' \in [Refreshes -> DocTasks] => DocTypes'
  BY <1>1, <1>2, <1>3 DEF DocTypes
<1> QED
  BY <1>2, <1>3, <1>4, <1>5

LEMMA ClaimStep ==
  ASSUME DocInv, Claimed
  PROVE  DocInv'
<1>1. /\ Takes /\ Acks /\ recent' = TRUE /\ UNCHANGED <<server, local, edits>>
      /\ blame' = (IF Running(Refreshes) = {} THEN {} ELSE {"overlap"})
                     \cup (IF Outdated(Head(notices)) THEN {"outdated"} ELSE {})
  BY DEF Claimed
<1>2. PICK r \in Refreshes \ Running(Refreshes) : refresh' = [refresh EXCEPT ![r] = StartsWith(Head(notices).kind)]
  BY DEF Claimed
<1>3. DocTypes /\ refresh \in [Refreshes -> DocTasks] /\ MaxEdits \in Nat
  BY DEF DocInv, DocTypes
<1>4. PICK n \in Notices : n = Head(notices) /\ \E j \in 1..Len(notices) : n = notices[j]
  BY <1>1, <1>3, FewerNotices
<1>5. n.kind \in {"updated", "deleted"} /\ (n.kind = "deleted" /\ n.edit = edits => server = 0)
  BY <1>4 DEF DocInv, Notices
<1>6. PICK t : t = StartsWith(n.kind)
  OBVIOUS
<1>7. /\ t \in DocTasks
      /\ t.at = IF n.kind = "deleted" THEN "delete" ELSE "fetch"
  BY <1>3, <1>6 DEF StartsWith, DocTasks, Fits
<1>8. /\ refresh' \in [Refreshes -> DocTasks] /\ refresh'[r] = t
      /\ \A o \in Refreshes : o # r => refresh'[o] = refresh[o]
  BY <1>2, <1>3, <1>4, <1>6, <1>7
<1>9. recent' \in BOOLEAN /\ blame' \subseteq Causes
  BY <1>1 DEF Causes
<1>10. ASSUME notices' = <<>>, blame' = {}
       PROVE  \E x \in Refreshes :
                Right(refresh[x])' /\ \A o \in Refreshes : o # x => refresh'[o].at = "off"
  <2>1. Running(Refreshes) = {} /\ ~Outdated(n)
    BY <1>1, <1>4, <1>10
  <2>2. \A o \in Refreshes : o # r => refresh'[o].at = "off"
    BY <1>3, <1>8, <2>1, DocTaskFacts DEF Running
  <2>3. n.kind = "deleted" => server' = 0
    BY <1>1, <1>5, <2>1 DEF Outdated
  <2>4. Right(refresh[r])'
    BY <1>5, <1>7, <1>8, <2>3 DEF Right
  <2> QED
    BY <2>2, <2>4
<1>11. owed' = owed \/ owed' = owed \cup {Head(notices)}
  BY <1>1 DEF Acks
<1> QED
  BY <1>1, <1>8, <1>9, <1>10, <1>11, TakeStep DEF DocInv

(* Read and not acted upon: there is something to blame.                   *)
LEMMA UnheardStep ==
  ASSUME DocInv, Coalesced \/ Undecrypted \/ Loses
  PROVE  DocInv'
<1>1. /\ Takes
      /\ owed' = owed \/ owed' = owed \cup {Head(notices)}
      /\ UNCHANGED <<server, local, edits, recent, refresh>>
  BY DEF Coalesced, Undecrypted, Loses, Acks
<1>2. PICK c \in {"coalesced", "unread", "lost"} : blame' = blame \cup {c}
  BY DEF Coalesced, Undecrypted, Loses
<1>3. blame' \subseteq Causes /\ blame' # {} /\ recent' \in BOOLEAN
  BY <1>1, <1>2 DEF DocInv, DocTypes, Causes
<1>4. refresh' \in [Refreshes -> DocTasks]
  BY <1>1 DEF DocInv, DocTypes
<1>5. /\ DocTypes'
      /\ \A n \in Notices : n \in owed' \/ (\E i \in 1..Len(notices') : n = notices'[i]) =>
           n.edit <= edits' /\ (n.kind = "deleted" /\ n.edit = edits' => server' = 0)
  BY <1>1, <1>3, <1>4, TakeStep
<1> QED
  BY <1>3, <1>5 DEF DocInv

LEMMA DocCrashStep ==
  ASSUME DocInv, DaemonCrashes
  PROVE  DocInv'
<1>1. /\ recent' = FALSE /\ refresh' = [r \in Refreshes |-> Off]
      /\ blame' = blame \cup (IF Running(Refreshes) = {} THEN {} ELSE {"failed"})
      /\ UNCHANGED <<server, local, edits, notices, owed>>
  BY DEF DaemonCrashes
<1>2. DocTypes
  BY DEF DocInv
<1>3. refresh' \in [Refreshes -> DocTasks] /\ \A r \in Refreshes : refresh'[r].at = "off"
  BY <1>1, <1>2, DocTaskFacts
<1>4. blame' \subseteq Causes /\ recent' \in BOOLEAN
  BY <1>1, <1>2 DEF DocTypes, Causes
<1>5. DocTypes'
  BY <1>1, <1>2, <1>3, <1>4 DEF DocTypes
<1>6. ASSUME notices = <<>>, blame' = {} PROVE local = server
  <2>1. Running(Refreshes) = {} /\ blame = {}
    BY <1>1, <1>6
  <2>2. \A r \in Refreshes : refresh[r].at = "off"
    BY <1>2, <2>1, DocTaskFacts DEF Running
  <2>3. \A r \in Refreshes : ~Right(refresh[r])
    BY <2>2 DEF Right
  <2> QED
    BY <1>6, <2>1, <2>3 DEF DocInv
<1> QED
  BY <1>1, <1>3, <1>5, <1>6 DEF DocInv

LEMMA RefreshStep ==
  ASSUME DocInv, NEW r \in Refreshes, Fetches(r) \/ Writes(r) \/ Fails(r)
  PROVE  DocInv'
<1>1. /\ refresh \in [Refreshes -> DocTasks] /\ refresh[r] \in DocTasks /\ DocTypes /\ MaxEdits \in Nat
      /\ server \in 0..MaxEdits
  BY DEF DocInv, DocTypes
<1>2. UNCHANGED <<server, edits, notices, owed, recent>>
  BY DEF Fetches, Writes, Fails
<1>3. CASE Fetches(r)
  <2>1. /\ refresh[r].at = "fetch" /\ UNCHANGED <<local, blame>>
        /\ refresh' = [refresh EXCEPT ![r] = [at |-> "write", doc |-> server]]
    BY <1>3 DEF Fetches
  <2>2. PICK t : t = [at |-> "write", doc |-> server]
    OBVIOUS
  <2>3. t \in DocTasks /\ t.at = "write" /\ t.doc = server
    BY <1>1, <2>2 DEF DocTasks, Fits
  <2>4. /\ refresh' \in [Refreshes -> DocTasks] /\ refresh'[r] = t
        /\ \A o \in Refreshes : o # r => refresh'[o] = refresh[o]
    BY <1>1, <2>1, <2>2, <2>3
  <2>5. DocTypes'
    BY <1>1, <1>2, <2>1, <2>4 DEF DocTypes
  <2>6. ASSUME notices = <<>>, blame = {} PROVE \A o \in Refreshes : o # r => refresh[o].at = "off"
    BY <2>1, <2>6 DEF DocInv
  <2>7. Right(refresh[r])'
    BY <1>2, <2>3, <2>4 DEF Right
  <2> QED
    BY <1>2, <2>1, <2>4, <2>5, <2>6, <2>7 DEF DocInv
<1>4. CASE Writes(r)
  <2>1. /\ refresh[r].at \in {"write", "delete"} /\ local' = refresh[r].doc /\ blame' = blame
        /\ refresh' = [refresh EXCEPT ![r] = Off]
    BY <1>4 DEF Writes
  <2>2. /\ refresh' \in [Refreshes -> DocTasks] /\ refresh'[r].at = "off"
        /\ \A o \in Refreshes : o # r => refresh'[o] = refresh[o]
    BY <1>1, <2>1, DocTaskFacts
  <2>3. local' \in 0..MaxEdits
    BY <1>1, <2>1 DEF DocTasks
  <2>4. DocTypes'
    BY <1>1, <1>2, <2>1, <2>2, <2>3 DEF DocTypes
  <2>5. ASSUME notices = <<>>, blame = {}
        PROVE  Right(refresh[r]) /\ \A o \in Refreshes : o # r => refresh[o].at = "off"
    BY <2>1, <2>5 DEF DocInv
  <2>6. Right(refresh[r]) => local' = server
    BY <1>1, <2>1 DEF Right, DocTasks, Fits
  <2>7. ASSUME notices' = <<>>, blame' = {}
        PROVE  local' = server' /\ \A o \in Refreshes : refresh'[o].at = "off"
    BY <1>2, <2>1, <2>2, <2>5, <2>6, <2>7
  <2> QED
    BY <1>2, <2>4, <2>7 DEF DocInv
<1>5. CASE Fails(r)
  <2>1. /\ refresh' = [refresh EXCEPT ![r] = Off] /\ blame' = blame \cup {"failed"} /\ local' = local
    BY <1>5 DEF Fails
  <2>2. refresh' \in [Refreshes -> DocTasks] /\ blame' # {} /\ blame' \subseteq Causes
    BY <1>1, <2>1, DocTaskFacts DEF DocTypes, Causes
  <2>3. DocTypes'
    BY <1>1, <1>2, <2>1, <2>2 DEF DocTypes
  <2> QED
    BY <1>2, <2>2, <2>3 DEF DocInv
<1> QED
  BY <1>3, <1>4, <1>5

LEMMA DocStep == DocInv /\ [DocNext]_docVars => DocInv'
<1> SUFFICES ASSUME DocInv, [DocNext]_docVars PROVE DocInv'
  OBVIOUS
<1>1. CASE UNCHANGED docVars
  BY <1>1 DEF docVars, DocInv, DocTypes, Right
<1>2. CASE WindowEnds
  <2>1. recent' \in BOOLEAN /\ UNCHANGED <<server, local, edits, notices, owed, refresh, blame>>
    BY <1>2 DEF WindowEnds
  <2> QED
    BY <2>1 DEF DocInv, DocTypes, Right
<1> QED
  BY <1>1, <1>2, EditStep, RedeliverStep, ClaimStep, UnheardStep, DocCrashStep, RefreshStep DEF DocNext

-----------------------------------------------------------------------------
(* The rules that a frame meets, one by one, and the first of them.        *)
LEMMA MetRules ==
  ASSUME NEW f
  PROVE  /\ Met(f) \subseteq 1..7
         /\ 1 \in Met(f) <=> f.channel = "dm"
         /\ 2 \in Met(f) <=> Self \in f.mention.uids
         /\ 3 \in Met(f) <=> Persona /\ f.mention.humans
         /\ 4 \in Met(f) <=> Persona /\ setup.grantor \in f.mention.uids
         /\ 5 \in Met(f) <=> QuoteAddresses(f)
         /\ 6 \in Met(f) <=> f.mention.ais /\ ~f.mention.humans /\ AcceptsAI(f)
         /\ 7 \in Met(f) <=> f.channel \in setup.free
<1>1. DOMAIN Rules = 1..7
  BY DEF Rules
<1>2. /\ Rules[1] = "dm" /\ Rules[2] = "explicit_bot" /\ Rules[3] = "persona_humans"
      /\ Rules[4] = "persona_grantor" /\ Rules[5] = "reply_to_bot" /\ Rules[6] = "ai_broadcast"
      /\ Rules[7] = "mention_free_group"
  BY DEF Rules
<1>3. Met(f) \subseteq 1..7
  BY <1>1 DEF Met
<1>4. \A i \in 1..7 : i \in Met(f) <=> Meets(f)[Rules[i]]
  BY <1>1 DEF Met
<1>5. /\ Meets(f)["dm"] <=> f.channel = "dm"
      /\ Meets(f)["explicit_bot"] <=> Self \in f.mention.uids
      /\ Meets(f)["persona_humans"] <=> Persona /\ f.mention.humans
      /\ Meets(f)["persona_grantor"] <=> Persona /\ setup.grantor \in f.mention.uids
      /\ Meets(f)["reply_to_bot"] <=> QuoteAddresses(f)
      /\ Meets(f)["ai_broadcast"] <=> f.mention.ais /\ ~f.mention.humans /\ AcceptsAI(f)
      /\ Meets(f)["mention_free_group"] <=> f.channel \in setup.free
  BY DEF Meets
<1>6. {1, 2, 3, 4, 5, 6, 7} = 1..7
  OBVIOUS
<1> QED
  BY <1>2, <1>3, <1>4, <1>5, <1>6

LEMMA AddressedMeets ==
  ASSUME NEW f
  PROVE  Addressed(f) <=> \E i \in 1..6 : i \in Met(f)
<1>1. {1, 2, 3, 4, 5, 6} = 1..6
  OBVIOUS
<1>2. Addressed(f) <=> 1 \in Met(f) \/ 2 \in Met(f) \/ 5 \in Met(f) \/ 3 \in Met(f) \/ 4 \in Met(f) \/ 6 \in Met(f)
  BY MetRules DEF Addressed
<1> QED
  BY <1>1, <1>2

LEMMA FirstRule ==
  ASSUME NEW f, Met(f) # {}
  PROVE  LET first == CHOOSE i \in Met(f) : \A j \in Met(f) : i <= j
         IN  first \in Met(f) /\ \A j \in Met(f) : first <= j
<1>1. Met(f) \subseteq {1, 2, 3, 4, 5, 6, 7}
  BY MetRules
<1>2. \E i \in Met(f) : \A j \in Met(f) : i <= j
  <2>1. CASE 1 \in Met(f)
    BY <1>1, <2>1
  <2>2. CASE 1 \notin Met(f) /\ 2 \in Met(f)
    BY <1>1, <2>2
  <2>3. CASE 1 \notin Met(f) /\ 2 \notin Met(f) /\ 3 \in Met(f)
    BY <1>1, <2>3
  <2>4. CASE 1 \notin Met(f) /\ 2 \notin Met(f) /\ 3 \notin Met(f) /\ 4 \in Met(f)
    BY <1>1, <2>4
  <2>5. CASE 1 \notin Met(f) /\ 2 \notin Met(f) /\ 3 \notin Met(f) /\ 4 \notin Met(f) /\ 5 \in Met(f)
    BY <1>1, <2>5
  <2>6. CASE Met(f) \subseteq {6, 7}
    BY <2>6
  <2> QED
    BY <1>1, <2>1, <2>2, <2>3, <2>4, <2>5, <2>6
<1> QED
  BY <1>2

(* Why a message of the IM is answered, or not.                            *)
LEMMA Reasons ==
  ASSUME NEW f, f.source = "user"
  PROVE  /\ Irrelevant(f) => Classify(f) = "obo_irrelevant"
         /\ ~Irrelevant(f) => Classify(f) # "obo_irrelevant"
         /\ ~Irrelevant(f) => (Classify(f) = "observation" <=> Met(f) = {})
         /\ ~Irrelevant(f) /\ Met(f) # {} => (IsAmbiguous(Classify(f)) <=> ~Addressed(f))
<1> DEFINE first == CHOOSE i \in Met(f) : \A j \in Met(f) : i <= j
<1>1. CASE Irrelevant(f)
  BY <1>1 DEF Classify
<1>2. CASE ~Irrelevant(f) /\ Met(f) = {}
  <2>1. Classify(f) = "observation"
    BY <1>2 DEF Classify
  <2> QED
    BY <1>2, <2>1
<1>3. CASE ~Irrelevant(f) /\ Met(f) # {}
  <2>1. Classify(f) = Rules[first]
    BY <1>3 DEF Classify
  <2>2. first \in Met(f) /\ \A j \in Met(f) : first <= j
    BY <1>3, FirstRule
  <2> HIDE DEF first
  <2>3. first \in 1..7
    BY <2>2, MetRules
  <2>4. /\ Rules[1] = "dm" /\ Rules[2] = "explicit_bot" /\ Rules[3] = "persona_humans"
        /\ Rules[4] = "persona_grantor" /\ Rules[5] = "reply_to_bot" /\ Rules[6] = "ai_broadcast"
        /\ Rules[7] = "mention_free_group"
    BY DEF Rules
  <2>5. first = 1 \/ first = 2 \/ first = 3 \/ first = 4 \/ first = 5 \/ first = 6 \/ first = 7
    BY <2>3
  <2>6. Classify(f) # "obo_irrelevant" /\ Classify(f) # "observation"
    BY <2>1, <2>4, <2>5
  <2>7. Classify(f) = "mention_free_group" <=> first = 7
    BY <2>1, <2>4, <2>5
  <2>8. first = 7 <=> ~\E i \in 1..6 : i \in Met(f)
    <3>1. first # 7 => first \in 1..6
      BY <2>3
    <3>2. \A i \in 1..6 : ~(7 <= i)
      OBVIOUS
    <3> QED
      BY <2>2, <3>1, <3>2
  <2> QED
    BY <1>3, <2>6, <2>7, <2>8, AddressedMeets DEF IsAmbiguous
<1> QED
  BY <1>1, <1>2, <1>3

-----------------------------------------------------------------------------
(* The frames there are.                                                   *)
Received == Frames \cup Noise
Fired == Synthetic("cron") \cup Synthetic("console")

LEMMA FrameFacts ==
  /\ \A f \in Received : /\ f.source = "user" /\ f.shape \in {"chat", "stream", "control", "blank"}
                         /\ f.from \in {Self, Person, Peer, Grantor, Absent}
                         /\ f.channel \in {"dm", Absent, "group", "thread"}
                         /\ f.origin.id # Absent => f.shape = "chat" /\ f.from \notin {Self, Absent}
  /\ \A f \in Fired : /\ f.source \in {"cron", "console"} /\ f.origin.id = Absent
<1>1. NoOrigin.id = Absent
  BY DEF NoOrigin, Origin
<1>2. \A f \in Received : /\ f.source = "user" /\ f.shape \in {"chat", "stream", "control", "blank"}
                         /\ f.from \in {Self, Person, Peer, Grantor, Absent}
                         /\ f.channel \in {"dm", Absent, "group", "thread"}
  BY DEF Received, Frames, Noise, Groups
<1>3. \A f \in Frames : f.shape = "chat" /\ f.from \notin {Self, Absent}
  BY DEF Frames, Self, Person, Peer, Grantor, Absent
<1>4. \A f \in Noise : f.origin.id = Absent
  BY <1>1 DEF Noise
<1>5. \A f \in Fired : f.source \in {"cron", "console"} /\ f.origin.id = Absent
  BY <1>1 DEF Fired, Synthetic
<1> QED
  BY <1>2, <1>3, <1>4, <1>5 DEF Received

LEMMA Fates ==
  ASSUME NEW f \in Received
  PROVE  /\ Fate(f) \in {"dropped", "control", "observed", "queued"}
         /\ Fate(f) = "queued" <=>
              /\ f.shape = "chat" /\ f.from \notin {Self, Absent} /\ ~Irrelevant(f)
              /\ Met(f) # {} /\ Session(f) # Absent
         /\ f.shape = "chat" /\ Irrelevant(f) => Fate(f) = "dropped"
<1>1. f.source = "user" /\ f.shape \in {"chat", "stream", "control", "blank"}
  BY FrameFacts
<1>2. CASE f.from \in {Self, Absent} \/ f.shape = "stream"
  <2>1. Fate(f) = "dropped"
    BY <1>2 DEF Fate
  <2> QED
    BY <1>2, <2>1
<1>3. CASE f.from \notin {Self, Absent} /\ f.shape = "control"
  <2>1. Fate(f) = "control"
    BY <1>3 DEF Fate
  <2> QED
    BY <1>3, <2>1
<1>4. CASE f.from \notin {Self, Absent} /\ f.shape = "blank"
  <2>1. Fate(f) = "dropped"
    BY <1>4 DEF Fate
  <2> QED
    BY <1>4, <2>1
<1>5. CASE f.from \notin {Self, Absent} /\ f.shape = "chat"
  <2>1. Fate(f) = IF Classify(f) = "obo_irrelevant" \/ Session(f) = Absent THEN "dropped"
                  ELSE IF Classify(f) = "observation" THEN "observed" ELSE "queued"
    BY <1>5 DEF Fate
  <2> QED
    BY <1>1, <1>5, <2>1, Reasons
<1> QED
  BY <1>1, <1>2, <1>3, <1>4, <1>5

(* Nobody but the grantor moves a reply.                                   *)
LEMMA Routes ==
  ASSUME NEW f
  PROVE  /\ Target(f) # f.channel => f.from = setup.grantor
         /\ Voice(f) \in {Absent, setup.grantor}
<1>1. CASE Trusted(f)
  BY <1>1 DEF Trusted, Voice
<1>2. CASE ~Trusted(f)
  <2>1. Target(f) = f.channel
    <3>1. Session(f) = "thread" => f.channel \in {"dm", "thread"}
      BY DEF Session
    <3>2. ~(Session(f) = "thread" /\ f.channel = "group")
      BY <3>1
    <3> QED
      BY <1>2, <3>2 DEF Target
  <2> QED
    BY <2>1 DEF Voice
<1> QED
  BY <1>1, <1>2

-----------------------------------------------------------------------------
(* What became of f: what the connector made of it, and the router then.   *)
FateOf(f) ==
  \/ fate = "none" /\ f \in Fired
  \/ f \in Fired /\ fate \in {"queued", "dropped", "told", "silenced", "turn"}
  \/ f \in Received /\ fate = Fate(f)
  \/ f \in Received /\ Fate(f) = "queued" /\ fate = "dropped" /\ ~Passes(f)
  \/ f \in Received /\ Fate(f) = "queued" /\ fate \in {"told", "silenced", "turn"} /\ Passes(f)

FrameInv == setup \in Setups /\ \E f : frame = f /\ FateOf(f)

(* What a setup is.                                                        *)
LEMMA SetupFacts ==
  ASSUME setup \in Setups
  PROVE  /\ setup.grantor \in {Absent, Grantor}
         /\ blocked \subseteq {Person, Peer} /\ Absent \notin blocked /\ Self \notin blocked
         /\ Persona <=> setup.grantor = Grantor
<1>1. setup.grantor \in {Absent, Grantor}
  BY DEF Setups
<1>2. Persona <=> setup.grantor = Grantor
  BY <1>1 DEF Persona, Absent, Grantor
<1> QED
  BY <1>1, <1>2 DEF blocked, Person, Peer, Absent, Self

LEMMA FrameImplies == FrameInv => FateFits
<1> SUFFICES ASSUME FrameInv PROVE FateFits
  OBVIOUS
<1>1. setup \in Setups
  BY DEF FrameInv
<1>2. FateOf(frame)
  BY DEF FrameInv
<1>3. frame \in Received \/ frame \in Fired
  BY <1>2 DEF FateOf
<1>4. frame.source = "user" <=> frame \in Received
  BY <1>3, FrameFacts
<1>5. InboundTypeOK
  BY <1>1, <1>2, Fates DEF FateOf, InboundTypeOK
<1>6. OnlyTheirTurn
  <2> SUFFICES ASSUME Answered
               PROVE  /\ frame.shape = "chat" /\ frame.from \notin {Self, Absent} \cup blocked
                      /\ frame.from = Peer /\ (frame.channel = "dm" \/ ~Addressed(frame)) => Peer \in allowed
    BY DEF OnlyTheirTurn
  <2>1. frame \in Received /\ fate \in {"told", "turn"}
    BY <1>4 DEF Answered
  <2>2. Fate(frame) = "queued" /\ Passes(frame)
    BY <1>2, <2>1, FrameFacts, Fates DEF FateOf
  <2>3. /\ frame.shape = "chat" /\ frame.from \notin {Self, Absent} /\ ~Irrelevant(frame)
        /\ Met(frame) # {} /\ Session(frame) # Absent
    BY <2>1, <2>2, Fates
  <2>4. frame.source = "user" /\ frame.channel \in {"dm", "group", "thread"}
    BY <2>1, <2>3, FrameFacts DEF Session
  <2>5. frame.from \notin blocked
    BY <2>2, <2>4 DEF Passes, DmGate, GroupBotGuards, Groups
  <2>6. ASSUME frame.from = Peer, frame.channel = "dm" PROVE Peer \in allowed
    BY <2>2, <2>4, <2>6 DEF Passes, DmGate, BotLoop, LooksLikeBot
  <2>7. ASSUME frame.from = Peer, frame.channel # "dm", ~Addressed(frame) PROVE Peer \in allowed
    <3>1. IsAmbiguous(Classify(frame))
      BY <2>3, <2>4, <2>7, Reasons
    <3> QED
      BY <2>2, <2>4, <2>7, <3>1 DEF Passes, GroupBotGuards, BotLoop, LooksLikeBot, Groups
  <2> QED
    BY <2>3, <2>5, <2>6, <2>7
<1>7. NoForgedRoute
  BY Routes DEF NoForgedRoute
<1>8. NoLeak
  <2> SUFFICES ASSUME Persona, frame.from = Grantor, frame.origin.id # Absent, frame.origin.as # Absent,
                      ~frame.mention.humans, Grantor \notin frame.mention.uids,
                      frame.mention.ais \/ frame.mention.uids # {},
                      ~(frame.quotesBot /\ setup.quotes)
               PROVE  fate \in {"none", "dropped"}
    BY DEF NoLeak
  <2>1. frame \in Received /\ frame.shape = "chat"
    BY <1>3, FrameFacts
  <2>2. setup.grantor = Grantor
    BY <1>1, SetupFacts
  <2>3. Irrelevant(frame)
    BY <2>2 DEF Irrelevant, Trusted, PersonaRelevant, QuoteAddresses
  <2>4. Fate(frame) = "dropped" /\ Fate(frame) # "queued"
    BY <2>1, <2>3, Fates
  <2>5. frame \notin Fired
    BY <2>1, FrameFacts
  <2> QED
    BY <1>2, <2>4, <2>5 DEF FateOf
<1>9. NobodyIgnored
  <2> SUFFICES ASSUME frame.source = "user", frame.shape = "chat", Addressed(frame),
                      frame.from \in {Person, Grantor} \ blocked, frame.channel # Absent, ~Irrelevant(frame)
               PROVE  fate \in {"none", "queued", "told", "silenced", "turn"}
    BY DEF NobodyIgnored
  <2>1. frame \in Received /\ frame.from \notin {Self, Absent}
    BY <1>4 DEF Person, Grantor, Self, Absent
  <2>2. Met(frame) # {}
    BY AddressedMeets
  <2>3. Session(frame) # Absent
    BY <2>1 DEF Session
  <2>4. Fate(frame) = "queued"
    BY <2>1, <2>2, <2>3, Fates
  <2>5. Passes(frame)
    <3>1. ~BotLoop(frame)
      BY DEF BotLoop, LooksLikeBot, Person, Grantor, Peer, Self
    <3> QED
      BY <3>1 DEF Passes, DmGate, GroupBotGuards
  <2>6. frame \notin Fired
    BY <2>1, FrameFacts
  <2> QED
    BY <1>2, <2>4, <2>5, <2>6 DEF FateOf
<1> QED
  BY <1>5, <1>6, <1>7, <1>8, <1>9 DEF FateFits

LEMMA InitFrame == InboundInit => FrameInv
<1> SUFFICES ASSUME InboundInit PROVE FrameInv
  OBVIOUS
<1>1. \E f \in Synthetic("cron") : TRUE
  <2> DEFINE f == [source |-> "cron", shape |-> "chat", from |-> Person, channel |-> "dm",
                   mention |-> NoMention, quotesBot |-> FALSE, origin |-> NoOrigin]
  <2>1. "dm" \in (IF "cron" = "cron" THEN {"dm"} \cup Groups ELSE {"dm"}) /\ Person \in {Person, Peer, Grantor}
    OBVIOUS
  <2>2. f \in Synthetic("cron")
    BY <2>1 DEF Synthetic
  <2> QED
    BY <2>2
<1>2. NoFrame \in Fired
  BY <1>1 DEF NoFrame, Fired
<1> QED
  BY <1>2 DEF InboundInit, FrameInv, FateOf

(* The setup does not change, nor what it makes of a frame.                *)
LEMMA SetupStays ==
  ASSUME NEW f, UNCHANGED setup
  PROVE  Fate(f)' = Fate(f) /\ (Passes(f)' <=> Passes(f))
<1>1. blocked' = blocked /\ allowed' = allowed
  BY DEF blocked, allowed
<1>2. Irrelevant(f)' <=> Irrelevant(f)
  BY DEF Irrelevant, PersonaRelevant, Trusted, Persona, QuoteAddresses
<1>3. setup' = setup
  OBVIOUS
<1>4. Meets(f)' = Meets(f)
  BY <1>3 DEF Meets, Persona, QuoteAddresses, AcceptsAI
<1>5. Met(f)' = Met(f)
  BY <1>4 DEF Met
<1>6. Classify(f)' = Classify(f)
  BY <1>2, <1>5 DEF Classify
<1>7. Fate(f)' = Fate(f)
  BY <1>6 DEF Fate
<1>8. BotLoop(f)' <=> BotLoop(f)
  BY <1>1 DEF BotLoop
<1>9. Passes(f)' <=> Passes(f)
  BY <1>1, <1>6, <1>8 DEF Passes, DmGate, GroupBotGuards
<1> QED
  BY <1>7, <1>9

LEMMA FrameStep == FrameInv /\ [InboundNext]_inboundVars => FrameInv'
<1> SUFFICES ASSUME FrameInv, [InboundNext]_inboundVars PROVE FrameInv'
  OBVIOUS
<1>1. PICK f : frame = f /\ FateOf(f)
  BY DEF FrameInv
<1>2. CASE UNCHANGED inboundVars
  <2>1. setup' = setup /\ frame' = f /\ fate' = fate
    BY <1>1, <1>2 DEF inboundVars
  <2>2. FateOf(f)'
    BY <1>1, <2>1, SetupStays DEF FateOf
  <2> QED
    BY <2>1, <2>2 DEF FrameInv
<1>3. CASE OnInbound
  <2>1. PICK g \in Received : frame' = g /\ fate' = Fate(g)
    BY <1>3 DEF OnInbound, Received
  <2>2. setup' = setup
    BY <1>3 DEF OnInbound
  <2>3. FateOf(g)'
    BY <2>1, <2>2, SetupStays DEF FateOf
  <2> QED
    BY <2>1, <2>2, <2>3 DEF FrameInv
<1>4. CASE Synthesizes
  <2>1. PICK g \in Fired : frame' = g /\ fate' = "queued"
    BY <1>4 DEF Synthesizes, Fired
  <2>2. setup' = setup
    BY <1>4 DEF Synthesizes
  <2>3. FateOf(g)'
    BY <2>1 DEF FateOf
  <2> QED
    BY <2>1, <2>2, <2>3 DEF FrameInv
<1>5. CASE DroppedBot \/ DroppedTooLong \/ RateLimited \/ RateLimitedSilent \/ Accepted
  <2>1. /\ fate = "queued" /\ setup' = setup /\ frame' = f
        /\ \/ ~Passes(f) /\ fate' = "dropped"
           \/ Passes(f) /\ fate' \in {"told", "silenced", "turn"}
    BY <1>1, <1>5 DEF DroppedBot, DroppedTooLong, RateLimited, RateLimitedSilent, Accepted, RouteAndHandle
  <2>2. FateOf(f)'
    BY <1>1, <2>1, SetupStays DEF FateOf
  <2> QED
    BY <2>1, <2>2 DEF FrameInv
<1> QED
  BY <1>2, <1>3, <1>4, <1>5 DEF InboundNext

-----------------------------------------------------------------------------
(* Under any policy, whatever was received or fired: who gets an answer,   *)
(* where a reply goes and in whose voice, what is no business of the bot's *)
(* and what is not ignored (sysmsg.go, trigger.go, obo.go and gate.go).    *)
THEOREM FramesEndWhereTheyMust == InboundSpec => []FateFits
  BY FrameImplies, InitFrame, FrameStep, PTL DEF InboundSpec

(* However many edits, notices and refreshes overlap, and whatever notices *)
(* are lost or repeated: once all is read and done, GROUP.md is the        *)
(* server's, unless one of the six causes since the last lone refresh is   *)
(* to blame (sysmsg.go, socket_recv.go).                                   *)
THEOREM GroupDocFollows == DocSpec => [](DocTypeOK /\ StaleHasCause)
  BY DocImplies, InitDoc, DocStep, PTL DEF DocSpec

(* The two of them in the run that checks them beside the turn queue.      *)
THEOREM InboundIsSafe == MCSpec => []InboundSafe
<1>1. MCInit => FrameInv /\ DocInv
  BY InitFrame, InitDoc DEF MCInit
<1>2. FrameInv /\ DocInv /\ [MCNext]_allVars => (FrameInv /\ DocInv)'
  <2>1. [MCNext]_allVars => [InboundNext]_inboundVars /\ [DocNext]_docVars
    BY DEF MCNext, OfFrame, OfQueue, OfDoc, allVars
  <2> QED
    BY <2>1, FrameStep, DocStep
<1>3. FrameInv /\ DocInv => InboundSafe
  BY FrameImplies, DocImplies DEF InboundSafe
<1> QED
  BY <1>1, <1>2, <1>3, PTL DEF MCSpec
=============================================================================
