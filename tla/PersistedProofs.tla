-------------------------- MODULE PersistedProofs --------------------------
(***************************************************************************)
(* What is kept in the store and in the cron file, for every value of the  *)
(* constants: the cursor of a group's context, the tasks of the scheduler, *)
(* and what a task's line of five fields makes of them over any time.      *)
(***************************************************************************)
EXTENDS CronTasks, GroupContext, Schedule,
        FiniteSetTheorems, WellFoundedInduction, TLAPS

-----------------------------------------------------------------------------
(* Induction over the naturals, in the form the proofs below use.          *)
LEMMA LeastNat ==
  ASSUME NEW T, T \subseteq Nat, T # {}
  PROVE  \E n \in T : \A m \in T : n <= m
<1> DEFINE R == {ss \in Nat \X Nat : ss[1] < ss[2]}
<1>1. IsWellFoundedOn(R, Nat)
  BY NatLessThanWellFounded DEF OpToRel
<1> HIDE DEF R
<1>2. PICK n \in T : \A m \in T : ~ (<<m, n>> \in R)
  BY <1>1, WFMin
<1>3. ASSUME NEW m \in T PROVE n <= m
  <2>1. n \in Nat /\ m \in Nat /\ <<m, n>> \notin R
    BY <1>2
  <2>2. ~ (m < n)
    BY <2>1 DEF R
  <2>3. QED
    BY <2>1, <2>2
<1>4. QED
  BY <1>3

-----------------------------------------------------------------------------
(* The group context.                                                      *)
(*                                                                         *)
(* The group context never skips a message, and its cursor and cutoff      *)
(* behave, for every bound and window size.                                *)
(*                                                                         *)
(* The cursor is moved by SetCursor, to an id read earlier, and by Fail,   *)
(* to a cursor read earlier; the ids restart when the channel is reaped.   *)
(* CursorInv says that the values a turn carries are at most nextID, and   *)
(* that the channel cannot be reaped while a turn carries them.  SkipInv   *)
(* follows the messages a turn takes on itself: which ids of the window    *)
(* its block, its own message and the gap cover at each of its steps.      *)

-----------------------------------------------------------------------------
(* The newest n of a sequence are its last ones, and as many as there are. *)
LEMMA NewestIs ==
  ASSUME NEW S, NEW t \in Seq(S), NEW n \in Nat
  PROVE  /\ Newest(t, n) \in Seq(S)
         /\ Len(Newest(t, n)) = Lower(n, Len(t))
         /\ Lower(n, Len(t)) \in 0..Len(t)
         /\ \A i \in 1..Lower(n, Len(t)) : Newest(t, n)[i] = t[Len(t) - Lower(n, Len(t)) + i]
<1> DEFINE k == Lower(n, Len(t))
<1>1. k \in 0..Len(t)
  BY DEF Lower
<1> HIDE DEF k
<1>2. Newest(t, n) = SubSeq(t, Len(t) - k + 1, Len(t))
  BY DEF Newest, k
<1>3. /\ SubSeq(t, Len(t) - k + 1, Len(t)) \in Seq(S)
      /\ Len(SubSeq(t, Len(t) - k + 1, Len(t))) = k
  BY <1>1
<1>4. \A i \in 1..k : SubSeq(t, Len(t) - k + 1, Len(t))[i] = t[Len(t) - k + i]
  BY <1>1
<1>5. QED
  BY <1>1, <1>2, <1>3, <1>4 DEF k

(* What a fetch may yield is a sequence of the channel's messages.         *)
LEMMA AnswersAreSeqs ==
  ASSUME GroupTypeOK, NEW s \in Answers
  PROVE  s \in Seq(Seqs)
<1>1. CASE s = <<>>
  BY <1>1
<1>2. CASE s # <<>>
  <2>1. PICK n \in read..Len(log) : s = Newest([i \in 1..n |-> i], BackfillLimit)
    BY <1>2 DEF Answers
  <2>2. n \in Nat /\ n <= MaxLog
    BY <2>1, GroupAssumption DEF GroupTypeOK
  <2> DEFINE t == [i \in 1..n |-> i]
  <2>3. t \in Seq(Seqs)
    <3>1. \A i \in 1..n : i \in Seqs
      BY <2>2, GroupAssumption DEF Seqs
    <3>2. QED
      BY <2>2, <3>1
  <2> HIDE DEF t
  <2>4. QED
    BY <2>1, <2>3, GroupAssumption, NewestIs DEF t
<1>3. QED
  BY <1>1, <1>2

(* So is what Backfill keeps of it: by the least prefix for which the      *)
(* recursion that filters it would have no value, or a wrong one.          *)
LEMMA HumanTyped ==
  ASSUME GroupTypeOK, NEW s \in Answers
  PROVE  Human(s) \in Seq(Seqs)
<1> DEFINE S == Seqs
           K == Len(s)
           Longer(f, i) == IF log[s[i]] = "bot" THEN f[i - 1] ELSE Append(f[i - 1], s[i])
           Rec(f, n) == f = [i \in 0..n |-> IF i = 0 THEN <<>> ELSE Longer(f, i)]
           kept == CHOOSE f : Rec(f, K)
<1>0. s \in Seq(Seqs)
  BY AnswersAreSeqs
<1> HIDE DEF S
<1>1. s \in Seq(S) /\ K \in Nat /\ \A i \in 1..K : s[i] \in S
  BY <1>0 DEF S
<1>2. Human(s) = kept[K]
  BY DEF Human
<1>3. \A n \in 0..K : \E f \in [0..n -> Seq(S)] : Rec(f, n)
  <2> DEFINE T == {n \in 0..K : ~ \E f \in [0..n -> Seq(S)] : Rec(f, n)}
  <2>1. SUFFICES ASSUME T # {} PROVE FALSE
    OBVIOUS
  <2>2. PICK n \in T : \A m \in T : n <= m
    <3>1. T \subseteq Nat
      BY <1>1
    <3> HIDE DEF T
    <3>2. QED
      BY <2>1, <3>1, LeastNat
  <2>3. n \in 0..K /\ n \in Nat
    BY <1>1
  <2>4. CASE n = 0
    <3> DEFINE f == [i \in 0..0 |-> <<>>]
    <3>1. f \in [0..0 -> Seq(S)] /\ Rec(f, 0)
      BY <1>1
    <3>2. QED
      BY <2>2, <2>4, <3>1
  <2>5. CASE n # 0
    <3>1. n - 1 \in 0..K /\ n - 1 \notin T
      <4> HIDE DEF T
      <4>1. QED
        BY <1>1, <2>2, <2>3, <2>5
    <3>2. PICK f \in [0..(n - 1) -> Seq(S)] : Rec(f, n - 1)
      BY <3>1
    <3> DEFINE g == [i \in 0..n |-> IF i = n THEN Longer(f, n) ELSE f[i]]
    <3>3. Longer(f, n) \in Seq(S)
      BY <1>1, <2>3, <2>5, <3>2
    <3>4. g \in [0..n -> Seq(S)]
      BY <2>3, <2>5, <3>2, <3>3
    <3>5. ASSUME NEW i \in 0..n
          PROVE  g[i] = IF i = 0 THEN <<>> ELSE Longer(g, i)
      <4>1. CASE i = n
        BY <2>3, <2>5, <3>2, <4>1
      <4>2. CASE i # n
        <5>1. i \in 0..(n - 1) /\ g[i] = f[i]
          BY <2>3, <4>2
        <5>2. f[i] = IF i = 0 THEN <<>> ELSE Longer(f, i)
          BY <3>2, <5>1
        <5>3. i # 0 => g[i - 1] = f[i - 1]
          BY <2>3, <4>2
        <5>4. QED
          BY <5>1, <5>2, <5>3
      <4>3. QED
        BY <4>1, <4>2
    <3>6. Rec(g, n)
      BY <3>5
    <3>7. QED
      BY <2>2, <3>4, <3>6
  <2>6. QED
    BY <2>4, <2>5
<1>4. Rec(kept, K)
  <2>1. \E f : Rec(f, K)
    <3>1. K \in 0..K
      BY <1>1
    <3>2. QED
      BY <1>3, <3>1
  <2>2. QED
    BY <2>1
<1> HIDE DEF kept
<1>5. \A i \in 0..K : kept[i] \in Seq(S)
  <2> DEFINE T == {i \in 0..K : kept[i] \notin Seq(S)}
  <2>1. SUFFICES ASSUME T # {} PROVE FALSE
    OBVIOUS
  <2>2. PICK i \in T : \A m \in T : i <= m
    <3>1. T \subseteq Nat
      BY <1>1
    <3> HIDE DEF T
    <3>2. QED
      BY <2>1, <3>1, LeastNat
  <2>3. kept[i] = IF i = 0 THEN <<>> ELSE Longer(kept, i)
    BY <1>4
  <2>4. CASE i = 0
    <3>1. kept[i] = <<>>
      BY <2>3, <2>4
    <3>2. <<>> \in Seq(S)
      OBVIOUS
    <3>3. QED
      BY <3>1, <3>2
  <2>5. CASE i # 0
    <3>1. i - 1 \in 0..K /\ i - 1 \notin T
      <4>1. i \in Nat /\ i <= K
        BY <1>1
      <4> HIDE DEF T
      <4>2. QED
        BY <1>1, <2>2, <2>5, <4>1
    <3>2. kept[i - 1] \in Seq(S)
      BY <3>1
    <3>3. i \in 1..K /\ s[i] \in S
      BY <1>1, <2>5
    <3>4. kept[i] \in Seq(S)
      BY <2>3, <2>5, <3>2, <3>3
    <3>5. QED
      BY <3>4
  <2>6. QED
    BY <2>4, <2>5
<1>6. QED
  BY <1>1, <1>2, <1>5 DEF S

(* The cutoff inferred from the bot's own messages is one of theirs, or 0. *)
LEMMA InferredTyped ==
  ASSUME GroupTypeOK, NEW s \in Answers
  PROVE  Inferred(s) \in Seqs
<1> DEFINE own == {s[i] : i \in {j \in 1..Len(s) : log[s[j]] = "bot"}}
           T == {MaxLog - m : m \in own}
<1>1. own \subseteq Seqs
  <2>1. s \in Seq(Seqs)
    BY AnswersAreSeqs
  <2>2. QED
    BY <2>1
<1>2. CASE own = {}
  BY <1>2, GroupAssumption DEF Inferred, Seqs
<1>3. CASE own # {}
  <2> HIDE DEF own
  <2>1. T \subseteq Nat /\ T # {}
    <3>1. \A m \in own : m \in Nat /\ m <= MaxLog /\ MaxLog - m \in Nat
      BY <1>1, GroupAssumption DEF Seqs
    <3>2. QED
      BY <1>3, <3>1
  <2>2. PICK t \in T : \A u \in T : t <= u
    BY <2>1, LeastNat
  <2>3. PICK m \in own : t = MaxLog - m
    OBVIOUS
  <2>4. \A n \in own : n <= m
    <3>1. ASSUME NEW n \in own PROVE n <= m
      <4>1. n \in Nat /\ m \in Nat /\ MaxLog \in Nat
        BY <1>1, GroupAssumption DEF Seqs
      <4>2. MaxLog - m <= MaxLog - n
        BY <2>2, <2>3
      <4>3. QED
        BY <4>1, <4>2
    <3>2. QED
      BY <3>1
  <2>5. (CHOOSE x \in own : \A n \in own : n <= x) \in own
    BY <2>3, <2>4
  <2>6. Inferred(s) = CHOOSE x \in own : \A n \in own : n <= x
    BY <1>3 DEF Inferred, own
  <2>7. QED
    BY <1>1, <2>5, <2>6, GroupAssumption DEF Seqs
<1>4. QED
  BY <1>2, <1>3

-----------------------------------------------------------------------------
(* A push changes nothing, or it adds one entry with the next id and keeps *)
(* some of the older ones with theirs.                                     *)
LEMMA PushIs ==
  ASSUME GroupTypeOK, NEW m \in Seqs, Push(m)
  PROVE  /\ cursor' = cursor /\ backfilled' = backfilled
         /\ \/ window' = window /\ nextID' = nextID /\ stale' = stale
            \/ /\ nextID' = nextID + 1 /\ stale' = FALSE
               /\ window' \in Seq(Seqs) /\ window' # <<>> /\ Len(window') <= MaxWindow
               /\ Len(window') <= Len(window) + 1
               /\ \A i \in 1..Len(window') :
                     \/ i = Len(window') /\ window'[i] = m
                     \/ \E j \in 1..Len(window) :
                           /\ window[j] = window'[i]
                           /\ Len(window) - j + 1 = Len(window') - i
<1>1. CASE Cached(window, m)
  BY <1>1 DEF Push, Pushed
<1>2. CASE ~Cached(window, m)
  <2> DEFINE w == Append(window, m)
             k == Lower(MaxWindow, Len(w))
  <2>1. /\ window' = Newest(w, MaxWindow) /\ nextID' = nextID + 1 /\ stale' = FALSE
        /\ cursor' = cursor /\ backfilled' = backfilled
    BY <1>2 DEF Push, Pushed
  <2>2. window \in Seq(Seqs) /\ MaxWindow \in Nat /\ MaxWindow >= 1
    BY GroupAssumption DEF GroupTypeOK
  <2>3. /\ w \in Seq(Seqs) /\ Len(w) = Len(window) + 1 /\ w[Len(window) + 1] = m
        /\ \A j \in 1..Len(window) : w[j] = window[j]
    BY <2>2
  <2> HIDE DEF w
  <2>4. /\ window' \in Seq(Seqs) /\ Len(window') = k /\ k \in 0..Len(w)
        /\ \A i \in 1..k : window'[i] = w[Len(w) - k + i]
    BY <2>1, <2>2, <2>3, NewestIs
  <2>5. k >= 1 /\ k <= MaxWindow /\ k \in Nat /\ k <= Len(window) + 1
    BY <2>2, <2>3, <2>4 DEF Lower
  <2> HIDE DEF k
  <2>6. ASSUME NEW i \in 1..Len(window')
        PROVE  \/ i = Len(window') /\ window'[i] = m
               \/ \E j \in 1..Len(window) :
                     /\ window[j] = window'[i]
                     /\ Len(window) - j + 1 = Len(window') - i
    <3>1. CASE i = k
      BY <2>2, <2>3, <2>4, <2>5, <3>1
    <3>2. CASE i # k
      <4> DEFINE j == Len(window) + 1 - k + i
      <4>1. j \in 1..Len(window) /\ window'[i] = w[j]
        BY <2>2, <2>3, <2>4, <2>5, <3>2
      <4>2. Len(window) - j + 1 = Len(window') - i
        BY <2>2, <2>4, <2>5
      <4>3. QED
        BY <2>3, <4>1, <4>2
    <3>3. QED
      BY <3>1, <3>2
  <2>7. window' # <<>>
    BY <2>4, <2>5
  <2>8. QED
    BY <2>1, <2>4, <2>5, <2>6, <2>7
<1>3. QED
  BY <1>1, <1>2

(* The same, for what only the types of the channel's parts need.          *)
LEMMA PushTyped ==
  ASSUME GroupTypeOK, NEW m \in Seqs, Push(m)
  PROVE  /\ window' \in Seq(Seqs) /\ Len(window') <= MaxWindow
         /\ nextID' \in Nat /\ nextID' >= nextID
         /\ stale' \in BOOLEAN /\ (stale = FALSE => stale' = FALSE)
         /\ cursor' = cursor /\ backfilled' = backfilled
<1>1. /\ window \in Seq(Seqs) /\ Len(window) <= MaxWindow
      /\ nextID \in Nat /\ stale \in BOOLEAN
  BY DEF GroupTypeOK
<1>2. cursor' = cursor /\ backfilled' = backfilled
  BY PushIs
<1>3. CASE window' = window /\ nextID' = nextID /\ stale' = stale
  BY <1>1, <1>2, <1>3
<1>4. CASE /\ nextID' = nextID + 1 /\ stale' = FALSE
           /\ window' \in Seq(Seqs) /\ Len(window') <= MaxWindow
  <2>1. nextID' \in Nat /\ nextID' >= nextID
    BY <1>1, <1>4
  <2>2. stale' = FALSE /\ stale' \in BOOLEAN
    BY <1>4
  <2>3. QED
    BY <1>2, <1>4, <2>1, <2>2
<1>5. QED
  BY <1>3, <1>4, PushIs

(* What Seed leaves behind.                                                *)
LEMMA SeedIs ==
  ASSUME GroupTypeOK, NEW s \in Answers, Seed(s)
  PROVE  /\ window' \in Seq(Seqs) /\ Len(window') <= MaxWindow
         /\ nextID' \in Nat /\ nextID' >= nextID
         /\ stale' \in BOOLEAN /\ (stale = FALSE => stale' = FALSE)
         /\ seeded' \subseteq Nat
         /\ replySeq' \in Seqs /\ replySeq' >= replySeq
         /\ Human(s) \in Seq(Seqs)
<1>1. Human(s) \in Seq(Seqs) /\ Inferred(s) \in Seqs
  BY HumanTyped, InferredTyped
<1>2. window \o Human(s) \in Seq(Seqs) /\ MaxWindow \in Nat
  BY <1>1, GroupAssumption DEF GroupTypeOK
<1>3. window' \in Seq(Seqs) /\ Len(window') <= MaxWindow
  <2>1. /\ window' \in Seq(Seqs)
        /\ Len(window') = Lower(MaxWindow, Len(window \o Human(s)))
    BY <1>2, NewestIs DEF Seed
  <2>2. Len(window \o Human(s)) \in Nat
    BY <1>2
  <2>3. QED
    BY <1>2, <2>1, <2>2 DEF Lower
<1>4. Len(Human(s)) \in Nat
  BY <1>1
<1>5. nextID' \in Nat /\ nextID' >= nextID /\ seeded' \subseteq Nat
  <2>1. /\ nextID \in Nat /\ seeded \subseteq Nat /\ nextID' = nextID + Len(Human(s))
        /\ seeded' = seeded \cup (nextID + 1)..(nextID + Len(Human(s)))
    BY DEF Seed, GroupTypeOK
  <2>2. ASSUME NEW k \in Nat
        PROVE  nextID + k \in Nat /\ nextID + k >= nextID /\ (nextID + 1)..(nextID + k) \subseteq Nat
    BY <2>1
  <2>3. QED
    BY <1>4, <2>1, <2>2
<1>6. stale' \in BOOLEAN /\ (stale = FALSE => stale' = FALSE)
  BY DEF Seed, GroupTypeOK
<1>7. replySeq' \in Seqs /\ replySeq' >= replySeq
  BY <1>1, GroupAssumption DEF Seed, Save, Higher, GroupTypeOK, Seqs
<1>8. QED
  BY <1>1, <1>3, <1>5, <1>6, <1>7

-----------------------------------------------------------------------------
LEMMA InitType == GroupInit => GroupTypeOK
<1>1. /\ <<>> \in Seq(Seqs) /\ <<>> \in Seq({"plain", "ask", "bot"}) /\ Len(<<>>) = 0
  OBVIOUS
<1>2. 0 \in Seqs /\ MaxWindow \in Nat /\ 0 \in 0..MaxFires /\ 0 \in 0..MaxDeaths /\ MaxLog \in Nat
  BY GroupAssumption DEF Seqs
<1>3. SUFFICES ASSUME GroupInit PROVE GroupTypeOK
  OBVIOUS
<1>4. backfilled \in BOOLEAN /\ stale \in BOOLEAN /\ pc \in Places
  BY <1>3 DEF GroupInit, Places
<1>5. /\ log \in Seq({"plain", "ask", "bot"}) /\ Len(log) <= MaxLog /\ read \in 0..Len(log)
      /\ asks \in Seq(Seqs) /\ window \in Seq(Seqs) /\ Len(window) <= MaxWindow
  BY <1>1, <1>2, <1>3 DEF GroupInit
<1>6. QED
  BY <1>2, <1>3, <1>4, <1>5 DEF GroupInit, GroupTypeOK

(* Every step keeps the types, and writes no cutoff below the last one.    *)
LEMMA StepType ==
  ASSUME GroupTypeOK, [GroupNext]_groupVars
  PROVE  GroupTypeOK' /\ replySeq' >= replySeq
<1>1. /\ log \in Seq({"plain", "ask", "bot"}) /\ Len(log) <= MaxLog /\ read \in 0..Len(log)
      /\ Len(log) \in Nat /\ MaxLog \in Nat
      /\ asks \in Seq(Seqs) /\ begun \subseteq Seqs
      /\ window \in Seq(Seqs) /\ Len(window) <= MaxWindow
      /\ nextID \in Nat /\ cursor \in Nat /\ backfilled \in BOOLEAN /\ stale \in BOOLEAN
      /\ replySeq \in Seqs /\ replySeq >= replySeq
      /\ pc \in Places /\ cur \in Seqs /\ preCursor \in Nat /\ delta \subseteq Seqs /\ over \subseteq Seqs /\ top \in Nat
      /\ fires \in 0..MaxFires /\ deaths \in 0..MaxDeaths
      /\ seeded \subseteq Nat /\ offered \subseteq Seqs /\ cut \subseteq Seqs /\ gap \subseteq Seqs
      /\ 0 \in Seqs /\ <<>> \in Seq(Seqs) /\ Len(<<>>) = 0
      /\ MaxWindow \in Nat
  BY GroupAssumption DEF GroupTypeOK, Seqs
<1>2. ASSUME NEW kind \in {"plain", "ask", "bot"}, Len(log) < MaxLog, log' = Append(log, kind)
      PROVE  log' \in Seq({"plain", "ask", "bot"}) /\ Len(log') <= MaxLog /\ read \in 0..Len(log')
  BY <1>1, <1>2
<1>3. ASSUME NEW kind \in {"plain", "ask"}, Post(kind)
      PROVE  GroupTypeOK' /\ replySeq' >= replySeq
  BY <1>1, <1>2, <1>3 DEF Post, GroupTypeOK, channel, turn, counters, history
<1>4. CASE Receive
  <2> DEFINE m == read + 1
  <2>1. m \in Seqs /\ m \in 0..Len(log) /\ read < Len(log)
    BY <1>1, <1>4 DEF Receive, Seqs
  <2>2. /\ log' = log /\ read' = m /\ begun' = begun /\ replySeq' = replySeq /\ pc' = pc
        /\ cur' = cur /\ preCursor' = preCursor /\ delta' = delta /\ top' = top
        /\ fires' = fires /\ deaths' = deaths /\ seeded' = seeded /\ offered' = offered
        /\ over' = over /\ cut' = cut
    BY <1>4 DEF Receive, turn, counters
  <2>3. asks' \in Seq(Seqs)
    <3>1. Append(asks, m) \in Seq(Seqs)
      BY <1>1, <2>1
    <3>2. asks' \in {asks, Append(asks, m)}
      BY <1>4 DEF Receive
    <3>3. QED
      BY <1>1, <3>1, <3>2
  <2>4. gap' \subseteq Seqs
    BY <1>1, <1>4, <2>1 DEF Receive
  <2>5. /\ window' \in Seq(Seqs) /\ Len(window') <= MaxWindow
        /\ nextID' \in Nat /\ cursor' \in Nat /\ backfilled' \in BOOLEAN /\ stale' \in BOOLEAN
    <3>1. CASE UNCHANGED channel
      BY <1>1, <3>1 DEF channel
    <3>2. CASE Push(m)
      BY <1>1, <2>1, <3>2, PushTyped
    <3>3. QED
      BY <1>4, <3>1, <3>2 DEF Receive
  <2> HIDE DEF m
  <2>6. QED
    BY <1>1, <2>1, <2>2, <2>3, <2>4, <2>5 DEF GroupTypeOK
<1>5. CASE CronFires
  BY <1>1, <1>5, GroupAssumption DEF CronFires, GroupTypeOK, channel, turn, history
<1>6. CASE Age
  BY <1>1, <1>6 DEF Age, GroupTypeOK, input, turn, counters, history
<1>7. CASE Reap
  <2>1. /\ window' \in Seq(Seqs) /\ Len(window') <= MaxWindow /\ nextID' \in Nat /\ cursor' \in Nat
    BY <1>1, <1>7 DEF Reap
  <2>2. /\ backfilled' \in BOOLEAN /\ stale' \in BOOLEAN
        /\ seeded' \subseteq Nat /\ offered' \subseteq Seqs /\ cut' \subseteq Seqs /\ gap' \subseteq Seqs
    BY <1>7 DEF Reap, Forget
  <2>3. QED
   BY <2>1, <2>2, <1>1, <1>7, GroupAssumption DEF Reap, Forget, GroupTypeOK, input, turn, counters
<1>8. CASE TurnAdmitted
  <2>1. Head(asks) \in Seqs /\ Tail(asks) \in Seq(Seqs)
    BY <1>1, <1>8 DEF TurnAdmitted
  <2>2. QED
    BY <1>1, <1>8, <2>1 DEF TurnAdmitted, Touch, GoTo, GroupTypeOK, Places, counters, history
<1>9. CASE Claim
  BY <1>1, <1>9 DEF Claim, GoTo, GroupTypeOK, Places, input, turn, counters, history
<1>10. CASE Land
  <2>1. /\ UNCHANGED <<input, cursor, backfilled, turn, counters, offered, cut, gap>>
        /\ pc' = "delta"
    BY <1>10 DEF Land, GoTo
  <2>2. /\ window' \in Seq(Seqs) /\ Len(window') <= MaxWindow
        /\ nextID' \in Nat /\ stale' \in BOOLEAN /\ seeded' \subseteq Nat
        /\ replySeq' \in Seqs /\ replySeq' >= replySeq
    <3>1. CASE UNCHANGED <<window, nextID, stale, replySeq, seeded>>
      BY <1>1, <3>1
    <3>2. ASSUME NEW s \in Answers, Seed(s)
          PROVE  /\ window' \in Seq(Seqs) /\ Len(window') <= MaxWindow
                 /\ nextID' \in Nat /\ stale' \in BOOLEAN /\ seeded' \subseteq Nat
                 /\ replySeq' \in Seqs /\ replySeq' >= replySeq
      BY <3>2, SeedIs
    <3>3. QED
      BY <1>10, <3>1, <3>2 DEF Land
  <2>3. QED
    BY <1>1, <2>1, <2>2 DEF GroupTypeOK, Places, input, turn, counters
<1>11. CASE Delta
  <2>1. delta' \subseteq Seqs /\ over' \subseteq Seqs
    <3>1. \A i \in 1..Len(window) : window[i] \in Seqs
      BY <1>1
    <3>2. QED
      BY <3>1, <1>11 DEF Delta, Newer
  <2>2. QED
    BY <1>1, <1>11, <2>1 DEF Delta, Touch, GoTo, GroupTypeOK, Places, input, counters, history
<1>12. CASE PushCurrent
  <2>1. Push(cur) /\ UNCHANGED <<input, replySeq, turn, counters, history>> /\ pc' = "maxid"
    BY <1>12 DEF PushCurrent, GoTo
  <2>2. /\ window' \in Seq(Seqs) /\ Len(window') <= MaxWindow
        /\ nextID' \in Nat /\ cursor' \in Nat /\ backfilled' \in BOOLEAN /\ stale' \in BOOLEAN
    BY <1>1, <2>1, PushTyped
  <2>3. QED
    BY <1>1, <2>1, <2>2 DEF GroupTypeOK, Places, input, turn, counters, history
<1>13. CASE MaxID
  BY <1>1, <1>13 DEF MaxID, Touch, GoTo, GroupTypeOK, Places, input, counters, history
<1>14. CASE SetCursor
  BY <1>1, <1>14 DEF SetCursor, Higher, GoTo, GroupTypeOK, Places, input, turn, counters, history
<1>15. ASSUME Say \/ UNCHANGED input
       PROVE  /\ log' \in Seq({"plain", "ask", "bot"}) /\ Len(log') <= MaxLog
              /\ read' \in 0..Len(log') /\ asks' \in Seq(Seqs) /\ begun' \subseteq Seqs
  <2>1. CASE Say
    BY <1>1, <1>2, <2>1 DEF Say
  <2>2. CASE UNCHANGED input
    BY <1>1, <2>2 DEF input
  <2>3. QED
    BY <1>15, <2>1, <2>2
<1>16. CASE Reply
  BY <1>1, <1>15, <1>16 DEF Reply, Offer, GoTo, GroupTypeOK, Places, channel, turn, counters
<1>17. CASE SaveSeq
  BY <1>1, <1>17 DEF SaveSeq, Save, Higher, Idle, GoTo, GroupTypeOK, Places, Seqs, input, channel,
                     counters, history
<1>18. CASE Apologize
  BY <1>1, <1>15, <1>18 DEF Apologize, Offer, Idle, GoTo, GroupTypeOK, Places, channel, counters
<1>19. CASE Panic
  BY <1>1, <1>15, <1>19 DEF Panic, Offer, Idle, GoTo, GroupTypeOK, Places, channel, counters, history
<1>20. CASE Fail
  BY <1>1, <1>15, <1>20 DEF Fail, Idle, GoTo, GroupTypeOK, Places, counters, history
<1>21. CASE Crash
  <2>1. /\ window' \in Seq(Seqs) /\ Len(window') <= MaxWindow /\ nextID' \in Nat /\ cursor' \in Nat
        /\ asks' \in Seq(Seqs) /\ log' = log /\ read' \in 0..Len(log)
    BY <1>1, <1>21 DEF Crash
  <2>2. /\ backfilled' \in BOOLEAN /\ stale' \in BOOLEAN
        /\ seeded' \subseteq Nat /\ offered' \subseteq Seqs /\ cut' \subseteq Seqs /\ gap' \subseteq Seqs
    BY <1>21 DEF Crash, Forget
  <2>3. deaths' \in 0..MaxDeaths /\ UNCHANGED <<begun, replySeq, fires>>
    BY <1>1, <1>21, GroupAssumption DEF Crash
  <2>4. /\ pc' = "idle" /\ cur' = 0 /\ preCursor' = 0 /\ delta' = {} /\ over' = {} /\ top' = 0
    BY <1>21 DEF Crash, Idle, GoTo
  <2>5. QED
   BY <2>1, <2>2, <2>3, <2>4, <1>1, <1>21, GroupAssumption DEF Crash, Idle, GoTo, Forget, GroupTypeOK, Places
<1>22. CASE UNCHANGED groupVars
  BY <1>1, <1>22 DEF groupVars, GroupTypeOK
<1>23. QED
  BY <1>3, <1>4, <1>5, <1>6, <1>7, <1>8, <1>9, <1>10, <1>11, <1>12, <1>13, <1>14, <1>16, <1>17,
     <1>18, <1>19, <1>20, <1>21, <1>22 DEF GroupNext, Turn

(* The cutoff of answered messages only rises, whatever turns, backfills   *)
(* and crashes do, also when turns outlast the reaper's threshold.         *)
THEOREM CutoffOnlyRises == GroupSpec => CutoffNeverFalls
<1>1. GroupInit => GroupTypeOK
  BY InitType
<1>2. GroupTypeOK /\ [GroupNext]_groupVars => GroupTypeOK'
  BY StepType
<1>3. GroupTypeOK /\ [GroupNext]_groupVars => [replySeq' >= replySeq]_groupVars
  BY StepType
<1>4. QED
  BY <1>1, <1>2, <1>3, PTL DEF GroupSpec, CutoffNeverFalls

-----------------------------------------------------------------------------
(* What the cursor needs: the values a turn carries are ids handed out in  *)
(* this life of the channel.                                               *)
CursorInv ==
  /\ cursor \in 0..nextID
  /\ preCursor \in 0..nextID /\ top \in 0..nextID
  /\ pc = "idle" => preCursor = 0 /\ top = 0
  /\ pc # "idle" => stale = FALSE

LEMMA InitCursor == GroupInit => CursorInv
BY DEF GroupInit, CursorInv

LEMMA StepCursor ==
  ASSUME GroupTypeOK, CursorInv, ~LongTurns, [GroupNext]_groupVars
  PROVE  CursorInv'
<1>1. nextID \in Nat /\ nextID' \in Nat
  BY StepType DEF GroupTypeOK
<1>2. ASSUME NEW kind \in {"plain", "ask"}, Post(kind)
      PROVE  CursorInv'
  BY <1>1, <1>2 DEF Post, CursorInv, channel, turn
<1>3. CASE Receive
  <2>1. pc' = pc /\ preCursor' = preCursor /\ top' = top
    BY <1>3 DEF Receive, turn
  <2>2. nextID' >= nextID /\ cursor' = cursor /\ (stale = FALSE => stale' = FALSE)
    <3>1. CASE UNCHANGED channel
      BY <1>1, <3>1 DEF channel
    <3>2. CASE read < Len(log) /\ Push(read + 1)
      <4>1. read + 1 \in Seqs
        BY <3>2, GroupAssumption DEF GroupTypeOK, Seqs
      <4>2. QED
        BY <3>2, <4>1, PushTyped
    <3>3. QED
      BY <1>3, <3>1, <3>2 DEF Receive
  <2>3. QED
    BY <1>1, <2>1, <2>2 DEF CursorInv
<1>4. CASE CronFires
  BY <1>1, <1>4 DEF CronFires, CursorInv, channel, turn
<1>5. CASE Age
  BY <1>1, <1>5, ~LongTurns DEF Age, CursorInv, turn
<1>6. CASE Reap
  BY <1>1, <1>6 DEF Reap, CursorInv, turn
<1>7. CASE TurnAdmitted
  BY <1>1, <1>7 DEF TurnAdmitted, Touch, GoTo, CursorInv
<1>8. CASE Claim
  BY <1>1, <1>8 DEF Claim, GoTo, CursorInv, turn
<1>9. CASE Land
  <2>1. /\ cursor' = cursor /\ pc' = "delta" /\ pc = "fetching"
        /\ preCursor' = preCursor /\ top' = top
    BY <1>9 DEF Land, GoTo, turn
  <2>2. nextID' >= nextID /\ (stale = FALSE => stale' = FALSE)
    <3>1. ASSUME NEW s \in Answers, Seed(s)
          PROVE  nextID' >= nextID /\ (stale = FALSE => stale' = FALSE)
      BY <3>1, SeedIs
    <3>2. CASE UNCHANGED <<nextID, stale>>
      BY <1>1, <3>2
    <3>3. QED
      BY <1>9, <3>1, <3>2 DEF Land
  <2>3. QED
    BY <1>1, <2>1, <2>2 DEF CursorInv
<1>10. CASE Delta
  BY <1>1, <1>10 DEF Delta, Touch, GoTo, CursorInv
<1>11. CASE PushCurrent
  <2>1. /\ Push(cur) /\ pc = "push" /\ pc' = "maxid"
        /\ preCursor' = preCursor /\ top' = top
    BY <1>11 DEF PushCurrent, GoTo, turn
  <2>2. nextID' >= nextID /\ cursor' = cursor /\ (stale = FALSE => stale' = FALSE)
    <3>1. cur \in Seqs
      BY DEF GroupTypeOK
    <3>2. QED
      BY <2>1, <3>1, PushTyped
  <2>3. QED
    BY <1>1, <2>1, <2>2 DEF CursorInv
<1>12. CASE MaxID
  BY <1>1, <1>12 DEF MaxID, Touch, GoTo, CursorInv
<1>13. CASE SetCursor
  BY <1>1, <1>13 DEF SetCursor, Higher, GoTo, CursorInv, turn
<1>14. CASE Reply
  BY <1>1, <1>14 DEF Reply, GoTo, CursorInv, channel, turn
<1>15. CASE SaveSeq
  BY <1>1, <1>15 DEF SaveSeq, Idle, GoTo, CursorInv, channel
<1>16. CASE Apologize
  BY <1>1, <1>16 DEF Apologize, Idle, GoTo, CursorInv, channel
<1>17. CASE Panic
  BY <1>1, <1>17 DEF Panic, Idle, GoTo, CursorInv, channel
<1>18. CASE Fail
  BY <1>1, <1>18 DEF Fail, Idle, GoTo, CursorInv
<1>19. CASE Crash
  BY <1>1, <1>19 DEF Crash, Idle, GoTo, CursorInv
<1>20. CASE UNCHANGED groupVars
  BY <1>20 DEF groupVars, CursorInv
<1>21. QED
  BY <1>2, <1>3, <1>4, <1>5, <1>6, <1>7, <1>8, <1>9, <1>10, <1>11, <1>12, <1>13, <1>14,
     <1>15, <1>16, <1>17, <1>18, <1>19, <1>20 DEF GroupNext, Turn

(* The cursor never hides a message that is still to come.                 *)
THEOREM CursorNeverAhead == ASSUME ~LongTurns PROVE GroupSpec => []CursorSane
<1> DEFINE IInv == GroupTypeOK /\ CursorInv
<1>1. GroupInit => IInv
  BY InitType, InitCursor
<1>2. IInv /\ [GroupNext]_groupVars => IInv'
  BY StepType, StepCursor
<1>3. IInv => CursorSane
  BY DEF CursorInv, CursorSane, GroupTypeOK
<1>4. QED
  BY <1>1, <1>2, <1>3, PTL DEF GroupSpec

-----------------------------------------------------------------------------
(* The entries of a window up to the id c are in E.                        *)
Covered(win, id, c, E) == \A i \in 1..Len(win) : id - Len(win) + i <= c => win[i] \in E

(* Those up to the id c are in a prompt, in the gap, or in extra.          *)
Told(c, extra) == Covered(window, nextID, c, offered \cup cut \cup gap \cup extra)

SkipInv ==
  /\ Len(window) <= nextID
  /\ window = <<>> => nextID = 0
  /\ nextID = 0 => seeded = {}
  /\ SeedFirst
  /\ pc \in {"claim", "fetching", "delta", "push", "maxid", "advance"} => preCursor = cursor
  /\ pc # "running" => Told(cursor, {})
  /\ pc = "push" => Told(nextID, delta \cup over)
  /\ pc = "maxid" => Told(nextID, delta \cup over \cup {cur})
  /\ pc = "advance" => Told(top, delta \cup over \cup {cur})
  /\ pc = "running" => Told(cursor, delta \cup over \cup {cur}) /\ Told(preCursor, {})

(* Ids end at nextID, so what is covered up to it is covered altogether.   *)
LEMMA CoversAll ==
  ASSUME GroupTypeOK, NEW E, Covered(window, nextID, nextID, E), NEW c
  PROVE  Covered(window, nextID, c, E)
<1>1. Len(window) \in Nat /\ nextID \in Nat
  BY DEF GroupTypeOK
<1>2. \A i \in 1..Len(window) : nextID - Len(window) + i <= nextID
  BY <1>1
<1>3. QED
  BY <1>2 DEF Covered

(* A push leaves covered what was; its own entry is above the old ids.     *)
LEMMA PushCovers ==
  ASSUME GroupTypeOK, NEW m \in Seqs, Push(m), NEW c \in Nat, NEW E, NEW F,
         Covered(window, nextID, c, E), E \subseteq F, c <= nextID \/ m \in F
  PROVE  Covered(window', nextID', c, F)
<1>1. window \in Seq(Seqs) /\ nextID \in Nat /\ Len(window) \in Nat
  BY DEF GroupTypeOK
<1>2. CASE window' = window /\ nextID' = nextID
  BY <1>1, <1>2 DEF Covered
<1>3. CASE /\ nextID' = nextID + 1 /\ window' \in Seq(Seqs)
           /\ \A i \in 1..Len(window') :
                 \/ i = Len(window') /\ window'[i] = m
                 \/ \E j \in 1..Len(window) :
                       /\ window[j] = window'[i]
                       /\ Len(window) - j + 1 = Len(window') - i
  <2>1. SUFFICES ASSUME NEW i \in 1..Len(window'), nextID' - Len(window') + i <= c
                 PROVE  window'[i] \in F
    BY DEF Covered
  <2>2. Len(window') \in Nat /\ i \in Int
    BY <1>3
  <2>3. CASE i = Len(window') /\ window'[i] = m
    BY <1>1, <1>3, <2>1, <2>2, <2>3
  <2>4. ASSUME NEW j \in 1..Len(window), window[j] = window'[i],
               Len(window) - j + 1 = Len(window') - i
        PROVE  window'[i] \in F
    <3>1. ASSUME NEW p \in Nat, NEW q \in Nat, p - j + 1 = q - i
          PROVE  nextID - p + j = (nextID + 1) - q + i
      BY <1>1, <2>2, <3>1
    <3>2. nextID - Len(window) + j = nextID' - Len(window') + i
      BY <1>1, <1>3, <2>2, <2>4, <3>1
    <3>3. QED
      BY <2>1, <2>4, <3>2 DEF Covered
  <2>5. QED
    BY <1>3, <2>3, <2>4
<1>4. QED
  BY <1>2, <1>3, PushIs

LEMMA InitSkip == GroupInit => SkipInv
<1>1. SUFFICES ASSUME GroupInit PROVE SkipInv
  OBVIOUS
<1>2. seeded = {} /\ Cardinality({}) = 0 /\ {} = 1..0
  BY <1>1, FS_EmptySet DEF GroupInit
<1>3. SeedFirst
  BY <1>2 DEF SeedFirst
<1>4. window = <<>> /\ Len(window) = 0 /\ nextID = 0 /\ pc = "idle"
  BY <1>1 DEF GroupInit
<1>5. Told(cursor, {})
  BY <1>4 DEF Told, Covered
<1>6. QED
  BY <1>2, <1>3, <1>4, <1>5 DEF SkipInv

LEMMA StepSkip ==
  ASSUME GroupTypeOK, CursorInv, SkipInv, ~LongTurns, [GroupNext]_groupVars
  PROVE  SkipInv'
<1>1. /\ GroupTypeOK' /\ CursorInv'
      /\ window \in Seq(Seqs) /\ Len(window) \in Nat /\ nextID \in Nat /\ cursor \in Nat
      /\ top \in Nat /\ preCursor \in Nat
      /\ cursor <= nextID /\ preCursor <= nextID /\ top <= nextID
  <2>1. GroupTypeOK' /\ CursorInv'
    BY StepType, StepCursor
  <2>2. /\ window \in Seq(Seqs) /\ nextID \in Nat /\ cursor \in Nat
        /\ top \in Nat /\ preCursor \in Nat
    BY DEF GroupTypeOK
  <2>3. cursor <= nextID /\ preCursor <= nextID /\ top <= nextID
    BY DEF CursorInv
  <2>4. QED
    BY <2>1, <2>2, <2>3
(* The channel as it was, and no entry is told less than before.           *)
<1>2. ASSUME UNCHANGED <<window, nextID, cursor, seeded, offered, cut, gap, pc, preCursor, delta, over,
                          top, cur>>
      PROVE  SkipInv'
  BY <1>2 DEF SkipInv, SeedFirst, Told, Covered
(* The channel starts over.                                                *)
<1>3. ASSUME window' = <<>>, nextID' = 0, Forget, pc' = "idle"
      PROVE  SkipInv'
  <2>1. seeded' = {} /\ Cardinality({}) = 0 /\ {} = 1..0
    BY <1>3, FS_EmptySet DEF Forget
  <2>2. SeedFirst'
    BY <2>1 DEF SeedFirst
  <2>3. Len(window') = 0
    BY <1>3
  <2>4. Told(cursor, {})'
    BY <2>3 DEF Told, Covered
  <2>5. QED
    BY <1>3, <2>1, <2>2, <2>3, <2>4 DEF SkipInv
(* The turn moves on, the channel stays.                                   *)
<1>4. ASSUME UNCHANGED <<window, nextID, seeded>>
      PROVE  /\ Len(window') <= nextID'
             /\ window' = <<>> => nextID' = 0
             /\ nextID' = 0 => seeded' = {}
             /\ SeedFirst'
  BY <1>4 DEF SkipInv, SeedFirst
<1>5. ASSUME NEW c, NEW E, NEW F, Covered(window, nextID, c, E), E \subseteq F,
             UNCHANGED <<window, nextID>>
      PROVE  Covered(window', nextID', c, F)
  BY <1>5 DEF Covered
<1>6. ASSUME NEW kind \in {"plain", "ask"}, Post(kind)
      PROVE  SkipInv'
  BY <1>2, <1>6 DEF Post, channel, turn, history
(* A push hands out ids in order, and the seeded ones are the first.       *)
<1>7. ASSUME NEW m \in Seqs, Push(m), seeded' = seeded
      PROVE  /\ Len(window') <= nextID'
             /\ window' = <<>> => nextID' = 0
             /\ nextID' = 0 => seeded' = {}
             /\ SeedFirst'
  <2>1. SeedFirst'
    BY <1>7 DEF SkipInv, SeedFirst
  <2>2. CASE window' = window /\ nextID' = nextID
    BY <1>7, <2>1, <2>2 DEF SkipInv
  <2>3. CASE /\ nextID' = nextID + 1 /\ window' # <<>> /\ Len(window') <= Len(window) + 1
             /\ window' \in Seq(Seqs)
    BY <1>1, <2>1, <2>3 DEF SkipInv
  <2>4. QED
    BY <1>7, <2>2, <2>3, PushIs
<1>8. CASE Receive
  <2> DEFINE m == read + 1
  <2>1. /\ pc' = pc /\ cur' = cur /\ preCursor' = preCursor /\ delta' = delta /\ over' = over
        /\ top' = top /\ seeded' = seeded /\ offered' = offered /\ cut' = cut /\ m \in Seqs
    BY <1>8, GroupAssumption DEF Receive, turn, Seqs, GroupTypeOK
  <2>2. CASE UNCHANGED <<channel, gap>>
    BY <1>2, <2>1, <2>2 DEF channel
  <2>3. CASE Push(m) /\ gap' = IF InGap THEN gap \cup {m} ELSE gap
    <3> HIDE DEF m
    <3>1. gap \subseteq gap' /\ (InGap => m \in gap') /\ cursor' = cursor
      BY <2>1, <2>3, PushTyped
    <3>2. ASSUME NEW c \in Nat, NEW E, Told(c, E), c <= nextID \/ InGap
          PROVE  Covered(window', nextID', c, offered' \cup cut' \cup gap' \cup E)
      <4> DEFINE A == offered \cup cut \cup gap \cup E
                 B == offered' \cup cut' \cup gap' \cup E
      <4>1. A \subseteq B /\ (InGap => m \in B)
        BY <2>1, <3>1
      <4>2. Covered(window, nextID, c, A)
        BY <3>2 DEF Told
      <4> HIDE DEF A, B
      <4>3. Covered(window', nextID', c, B)
        BY <2>1, <2>3, <3>2, <4>1, <4>2, PushCovers
      <4>4. QED
        BY <4>3 DEF B
    <3>3. ASSUME InGap, NEW E, Told(nextID, E)
          PROVE  Covered(window', nextID', nextID', offered' \cup cut' \cup gap' \cup E)
      <4>1. Told(nextID', E)
        BY <3>3, CoversAll DEF Told
      <4>2. nextID' \in Nat
        BY <1>1 DEF GroupTypeOK
      <4>3. QED
        BY <3>2, <3>3, <4>1, <4>2
    <3>4. pc' # "running" => Told(cursor, {})'
      BY <1>1, <2>1, <3>1, <3>2 DEF SkipInv, Told
    <3>5. pc' = "push" => Told(nextID, delta \cup over)'
      BY <2>1, <3>3 DEF SkipInv, Told, InGap
    <3>6. pc' = "maxid" => Told(nextID, delta \cup over \cup {cur})'
      BY <2>1, <3>3 DEF SkipInv, Told, InGap
    <3>7. pc' = "advance" => Told(top, delta \cup over \cup {cur})'
      BY <1>1, <2>1, <3>2 DEF SkipInv, Told
    <3>8. pc' = "running" => Told(cursor, delta \cup over \cup {cur})' /\ Told(preCursor, {})'
      BY <1>1, <2>1, <3>1, <3>2 DEF SkipInv, Told
    <3>9. QED
      BY <1>7, <2>1, <2>3, <3>1, <3>4, <3>5, <3>6, <3>7, <3>8 DEF SkipInv
  <2>4. QED
    BY <1>8, <2>2, <2>3 DEF Receive
<1>9. CASE CronFires
  BY <1>2, <1>9 DEF CronFires, channel, turn, history
<1>10. CASE Age
  BY <1>2, <1>10 DEF Age, turn, history
<1>11. CASE Reap
  <2>1. pc' = "idle"
    BY <1>11 DEF Reap, CursorInv
  <2>2. QED
    BY <1>3, <1>11, <2>1 DEF Reap
<1>12. CASE Crash
  BY <1>3, <1>12 DEF Crash, Idle, GoTo
<1>13. ASSUME UNCHANGED <<window, nextID, cursor, seeded, offered, cut, gap>>,
              pc # "running",
              pc' \in {"claim", "fetching", "delta"}, preCursor' = cursor'
       PROVE  SkipInv'
  <2>1. Told(cursor, {})'
    BY <1>5, <1>13 DEF SkipInv, Told
  <2>2. QED
    BY <1>4, <1>13, <2>1 DEF SkipInv
<1>14. CASE TurnAdmitted
  BY <1>13, <1>14 DEF TurnAdmitted, Touch, GoTo, history
<1>15. CASE Claim
  <2>1. pc = "claim" /\ preCursor' = preCursor /\ preCursor = cursor
    BY <1>15 DEF Claim, turn, SkipInv
  <2>2. QED
    BY <1>13, <1>15, <2>1 DEF Claim, GoTo, history
<1>16. CASE Land
  <2>1. /\ pc = "fetching" /\ pc' = "delta" /\ preCursor' = preCursor /\ cursor' = cursor
        /\ offered' = offered /\ cut' = cut /\ gap' = gap /\ preCursor = cursor
    BY <1>16 DEF Land, GoTo, turn, SkipInv
  <2>2. CASE UNCHANGED <<window, nextID, seeded>>
    BY <1>13, <2>1, <2>2
  <2>3. ASSUME window = <<>>, NEW s \in Answers, Seed(s)
        PROVE  SkipInv'
    <3> DEFINE h == Human(s)
               n == Len(h)
    <3>1. h \in Seq(Seqs) /\ n \in Nat /\ <<>> \o h = h
      BY HumanTyped
    <3>2. /\ window' = Newest(h, MaxWindow) /\ nextID = 0 /\ cursor = 0
          /\ nextID' = nextID + n /\ seeded = {}
          /\ seeded' = seeded \cup (nextID + 1)..(nextID + n)
      BY <1>1, <2>3, <3>1 DEF Seed, SkipInv
    <3>3. nextID' = n /\ seeded' = 1..n
      BY <3>1, <3>2
    <3> HIDE DEF h, n
    <3>4. /\ MaxWindow \in Nat \ {0} /\ window' \in Seq(Seqs)
          /\ Len(window') = Lower(MaxWindow, Len(h)) /\ Len(h) = n
      <4>1. MaxWindow \in Nat \ {0}
        BY GroupAssumption
      <4>2. QED
        BY <3>1, <3>2, <4>1, NewestIs DEF n
    <3>5. /\ Len(window') \in Nat /\ Len(window') <= n
          /\ (Len(window') = 0 => n = 0)
      BY <3>1, <3>4 DEF Lower
    <3>6. SeedFirst'
      <4>1. Cardinality(1..n) = n
        BY <3>1, FS_Interval
      <4>2. QED
        BY <3>3, <4>1 DEF SeedFirst
    <3>7. window' = <<>> => nextID' = 0
      BY <3>3, <3>4, <3>5
    <3>8. nextID' = 0 => seeded' = {}
      BY <3>3
    <3>9. Told(cursor, {})'
      <4>1. \A i \in 1..Len(window') : ~ (nextID' - Len(window') + i <= 0)
        BY <3>1, <3>3, <3>5
      <4>2. cursor' = 0
        BY <2>1, <3>2
      <4>3. QED
        BY <4>1, <4>2 DEF Told, Covered
    <3>10. QED
      BY <2>1, <3>3, <3>5, <3>6, <3>7, <3>8, <3>9 DEF SkipInv
  <2>4. QED
    BY <1>16, <2>2, <2>3 DEF Land
<1>17. CASE Delta
  <2>1. /\ pc = "delta" /\ pc' = "push" /\ UNCHANGED <<window, nextID, cursor, preCursor, history>>
        /\ \E fit \in 0..Len(window) :
              /\ delta' = {window[i] : i \in {j \in Newer : j > Len(window) - fit}}
              /\ over' = {window[i] : i \in {j \in Newer : j <= Len(window) - fit}}
    BY <1>17 DEF Delta, Touch, GoTo
  <2>2. seeded' = seeded /\ offered' = offered /\ cut' = cut /\ gap' = gap
    BY <2>1 DEF history
  <2>3. Told(cursor, {})
    BY <2>1 DEF SkipInv
  <2>4. Told(cursor, {})'
    BY <1>5, <2>1, <2>2, <2>3 DEF Told
  <2>5. ASSUME NEW i \in 1..Len(window)
        PROVE  window[i] \in offered \cup cut \cup gap \cup (delta' \cup over')
    <3>1. CASE IdAt(i) > cursor
      <4>1. PICK fit \in 0..Len(window) :
              /\ delta' = {window[k] : k \in {j \in Newer : j > Len(window) - fit}}
              /\ over' = {window[k] : k \in {j \in Newer : j <= Len(window) - fit}}
        BY <2>1
      <4>2. i \in Newer /\ (i > Len(window) - fit \/ i <= Len(window) - fit)
        BY <1>1, <3>1 DEF Newer
      <4>3. QED
        BY <4>1, <4>2
    <3>2. CASE ~ (IdAt(i) > cursor)
      <4>1. nextID - Len(window) + i <= cursor
        BY <1>1, <3>2 DEF IdAt
      <4>2. QED
        BY <2>3, <4>1 DEF Told, Covered
    <3>3. QED
      BY <3>1, <3>2
  <2>6. Told(nextID, delta \cup over)'
    BY <2>1, <2>2, <2>5 DEF Told, Covered
  <2>7. preCursor' = cursor'
    BY <2>1 DEF SkipInv
  <2>8. QED
    BY <1>4, <2>1, <2>2, <2>4, <2>6, <2>7 DEF SkipInv
<1>18. CASE PushCurrent
  <2>1. /\ pc = "push" /\ pc' = "maxid" /\ Push(cur) /\ cur \in Seqs
        /\ cur' = cur /\ preCursor' = preCursor /\ delta' = delta /\ over' = over
        /\ seeded' = seeded /\ offered' = offered /\ cut' = cut /\ gap' = gap
    BY <1>18 DEF PushCurrent, GoTo, turn, history, GroupTypeOK
  <2>2. cursor' = cursor /\ nextID' \in Nat
    BY <2>1, PushTyped
  <2>3. Told(cursor, {})'
    <3> DEFINE A == offered \cup cut \cup gap \cup {}
    <3>1. Covered(window, nextID, cursor, A)
      BY <2>1 DEF SkipInv, Told
    <3> HIDE DEF A
    <3>2. Covered(window', nextID', cursor, A)
      BY <1>1, <2>1, <3>1, PushCovers
    <3>3. QED
      BY <2>1, <2>2, <3>2 DEF Told, A
  <2>4. Told(nextID, delta \cup over \cup {cur})'
    <3> DEFINE A == offered \cup cut \cup gap \cup (delta \cup over)
               B == offered \cup cut \cup gap \cup (delta \cup over \cup {cur})
    <3>1. Covered(window, nextID, nextID, A) /\ A \subseteq B /\ cur \in B
      BY <2>1 DEF SkipInv, Told
    <3> HIDE DEF A, B
    <3>2. Covered(window, nextID, nextID', A)
      BY <3>1, CoversAll
    <3>3. Covered(window', nextID', nextID', B)
      BY <2>1, <2>2, <3>1, <3>2, PushCovers
    <3>4. QED
      BY <2>1, <3>3 DEF Told, B
  <2>5. preCursor' = cursor'
    BY <2>1, <2>2 DEF SkipInv
  <2>6. QED
    BY <1>7, <2>1, <2>3, <2>4, <2>5 DEF SkipInv
<1>19. CASE MaxID
  <2>1. /\ pc = "maxid" /\ pc' = "advance" /\ top' = nextID
        /\ UNCHANGED <<window, nextID, cursor, cur, preCursor, delta, over, seeded, offered, cut, gap>>
    BY <1>19 DEF MaxID, Touch, GoTo, history
  <2>2. Told(cursor, {})' /\ Told(top, delta \cup over \cup {cur})'
    BY <1>5, <2>1 DEF SkipInv, Told
  <2>3. preCursor' = cursor'
    BY <2>1 DEF SkipInv
  <2>4. QED
    BY <1>4, <2>1, <2>2, <2>3 DEF SkipInv
<1>20. CASE SetCursor
  <2>1. /\ pc = "advance" /\ pc' = "running" /\ cursor' = Higher(top, cursor)
        /\ UNCHANGED <<window, nextID, cur, preCursor, delta, over, seeded, offered, cut, gap>>
    BY <1>20 DEF SetCursor, GoTo, turn, history
  <2>2. cursor' \in {top, cursor}
    BY <2>1 DEF Higher
  <2>3. Told(cursor, {}) /\ Told(top, delta \cup over \cup {cur}) /\ preCursor = cursor
    BY <2>1 DEF SkipInv
  <2>4. Told(preCursor, {})'
    BY <1>5, <2>1, <2>3 DEF Told
  <2>5. Told(cursor, delta \cup over \cup {cur})'
    <3>1. Told(cursor, delta \cup over \cup {cur})
      BY <2>3 DEF Told, Covered
    <3>2. QED
      BY <1>5, <2>1, <2>2, <2>3, <3>1 DEF Told
  <2>6. QED
    BY <1>4, <2>1, <2>4, <2>5 DEF SkipInv
(* The turn ends, and what it took on is told.                             *)
<1>21. ASSUME UNCHANGED <<window, nextID, cursor, seeded, gap>>, pc = "running",
              offered' = offered \cup delta \cup {cur}, cut' = cut \cup over, pc' \in {"saving", "idle"}
       PROVE  SkipInv'
  <2>1. Told(cursor, delta \cup over \cup {cur})
    BY <1>21 DEF SkipInv
  <2>2. Told(cursor, {})'
    BY <1>21, <2>1 DEF Told, Covered
  <2>3. QED
    BY <1>4, <1>21, <2>2 DEF SkipInv
<1>22. CASE Reply
  BY <1>21, <1>22 DEF Reply, Offer, GoTo, channel
<1>23. CASE Apologize
  BY <1>21, <1>23 DEF Apologize, Offer, Idle, GoTo, channel
(* The turn ends, and the cursor is where it was when the turn began.      *)
<1>24. ASSUME UNCHANGED <<window, nextID, cursor, seeded, offered, cut, gap>>, pc # "running",
              pc' = "idle"
       PROVE  SkipInv'
  <2>1. Told(cursor, {})'
    BY <1>5, <1>24 DEF SkipInv, Told
  <2>2. QED
    BY <1>4, <1>24, <2>1 DEF SkipInv
<1>25. CASE SaveSeq
  BY <1>24, <1>25 DEF SaveSeq, Idle, GoTo, channel, history
<1>26. CASE Panic
  <2>1. CASE pc = "running"
    BY <1>21, <1>26, <2>1 DEF Panic, Offer, Idle, GoTo, channel
  <2>2. CASE pc # "running"
    BY <1>24, <1>26, <2>2 DEF Panic, Idle, GoTo, channel, history
  <2>3. QED
    BY <2>1, <2>2
<1>27. CASE Fail
  <2>1. /\ pc = "running" /\ pc' = "idle" /\ cursor' = preCursor
        /\ UNCHANGED <<window, nextID, seeded, offered, cut, gap>>
    BY <1>27 DEF Fail, Idle, GoTo, history
  <2>2. Told(cursor, {})'
    BY <1>5, <2>1 DEF SkipInv, Told
  <2>3. QED
    BY <1>4, <2>1, <2>2 DEF SkipInv
<1>28. CASE UNCHANGED groupVars
  BY <1>2, <1>28 DEF groupVars
<1>29. QED
  BY <1>6, <1>8, <1>9, <1>10, <1>11, <1>12, <1>14, <1>15, <1>16, <1>17, <1>18, <1>19, <1>20,
     <1>22, <1>23, <1>25, <1>26, <1>27, <1>28 DEF GroupNext, Turn

(* No cached message goes by without a turn having had it in its prompt,   *)
(* or having cut it for its budget and concluded nevertheless,             *)
(* whatever pushes, fetches, failures, panics, reaps and crashes happen    *)
(* between a turn's steps, as long as no turn outlasts the threshold.      *)
THEOREM NoMessageSkipped == ASSUME ~LongTurns PROVE GroupSpec => []NothingSkipped
<1> DEFINE IInv == GroupTypeOK /\ CursorInv /\ SkipInv
<1>1. GroupInit => IInv
  BY InitType, InitCursor, InitSkip
<1>2. IInv /\ [GroupNext]_groupVars => IInv'
  BY StepType, StepCursor, StepSkip
<1>3. IInv => NothingSkipped
  <2>1. SUFFICES ASSUME IInv PROVE NothingSkipped
    OBVIOUS
  <2>2. pc = "idle" => Told(cursor, {})
    BY <2>1 DEF SkipInv
  <2>3. QED
    BY <2>1, <2>2 DEF NothingSkipped, SkipInv, Told, Covered, IdAt
<1>4. QED
  BY <1>1, <1>2, <1>3, PTL DEF GroupSpec

-----------------------------------------------------------------------------
(* The scheduler's tasks.                                                  *)
(*                                                                         *)
(* Three promises of the scheduler, for any number of tasks, owners and    *)
(* requests, any cap, any number of restarts and store failures.           *)
(*                                                                         *)
(* Once: an occurrence that is due in the store or in the hands of a tick  *)
(* has not been taken before, unless an edit put it back.                  *)
(*                                                                         *)
(* Owned: once an owner is resolved the store holds that owner's tasks,    *)
(* but for late ones; between prune and swap it holds the coming owner's.  *)
(*                                                                         *)
(* Quiet: what each wait of the drain has seen end does not begin again.   *)

(* The part of the types both arguments need.                              *)
Shape ==
  /\ stored \in [Ids -> Task \cup {None}]
  /\ owner \in Owners \cup {None} /\ connOwner \in Owners \cup {None}
  /\ req \in [Clients -> Owners \cup {None}]
  /\ edits \in [Clients -> Edit \cup {None}]
  /\ occ \in [Ids -> 0 .. MaxOcc]

Once ==
  /\ tick # "dispatch" => pending = {}
  /\ \A i \in Ids : \A n \in fired[i] : n \in Nat /\ n <= occ[i]
  /\ \A f \in pending : /\ f.id \in Ids /\ f.nth \in Nat /\ f.nth <= occ[f.id]
                        /\ f.nth \in fired[f.id] => <<f.id, f.nth>> \in putBack
  /\ \A i \in Ids : stored[i] # None =>
        /\ stored[i].due <= occ[i]
        /\ stored[i].due > 0 /\ Taken(i, stored[i].due) => <<i, stored[i].due>> \in putBack
  /\ \A c \in Clients : edits[c] # None => edits[c].due <= occ[edits[c].id]
  /\ twice \subseteq putBack

Owned ==
  /\ owner # None => \A i \in Stored : stored[i].by = owner \/ i \in late
  /\ reg = "swap" => \A i \in Stored : stored[i].by = connOwner \/ i \in late
  /\ reg # "idle" => connOwner # None
  /\ tick = "collect" => owner # None
  /\ FiresUnderOwner

-----------------------------------------------------------------------------
LEMMA InitShape == Init => Shape
  BY CronAssumption DEF Init, Shape

LEMMA UpdatedTask ==
  ASSUME Shape, NEW c \in Clients, UpdateTask(c)
  PROVE  \E i \in Stored, t \in Task :
           /\ stored' = [stored EXCEPT ![i] = t]
           /\ stored[i] \in Task /\ stored[i].by = req[c]
           /\ t.by = stored[i].by
           /\ \/ t.due = stored[i].due /\ putBack' = putBack
              \/ /\ edits[c] # None /\ edits[c].id = i /\ t.due = edits[c].due
                 /\ putBack \subseteq putBack'
                 /\ Taken(i, t.due) => <<i, t.due>> \in putBack'
<1>1. PICK i \in Stored, v \in BOOLEAN :
        /\ stored[i].by = req[c]
        /\ \/ /\ edits[c] = None
              /\ stored' = [stored EXCEPT ![i].on = v]
              /\ UNCHANGED putBack
           \/ /\ edits[c] # None /\ edits[c].id = i
              /\ stored' = [stored EXCEPT ![i].on = v, ![i].due = edits[c].due]
              /\ putBack' = IF Taken(i, edits[c].due) THEN putBack \cup {<<i, edits[c].due>>}
                                                     ELSE putBack
  BY DEF UpdateTask
<1>2. i \in Ids /\ stored[i] \in Task
  BY DEF Stored, Shape
<1>3. CASE edits[c] = None
  <2>1. [stored[i] EXCEPT !.on = v] \in Task
    BY <1>2 DEF Task
  <2>2. stored' = [stored EXCEPT ![i] = [stored[i] EXCEPT !.on = v]]
    BY <1>1, <1>2, <1>3 DEF Shape
  <2>3. [stored[i] EXCEPT !.on = v].by = stored[i].by
        /\ [stored[i] EXCEPT !.on = v].due = stored[i].due
    BY <1>2 DEF Task
  <2>4. QED
    BY <1>1, <1>2, <1>3, <2>1, <2>2, <2>3
<1>4. CASE edits[c] # None
  <2> DEFINE d == edits[c].due
             t == [stored[i] EXCEPT !.on = v, !.due = d]
  <2>1. d \in 0 .. MaxOcc
    BY <1>4 DEF Shape, Edit
  <2> HIDE DEF d
  <2>2. t \in Task /\ t.by = stored[i].by /\ t.due = d
    BY <1>2, <2>1 DEF Task
  <2>3. stored' = [stored EXCEPT ![i] = t]
    BY <1>1, <1>2, <1>4 DEF Shape, d
  <2>4. putBack' = IF Taken(i, d) THEN putBack \cup {<<i, d>>} ELSE putBack
    BY <1>1, <1>4 DEF d
  <2>5. putBack \subseteq putBack' /\ (Taken(i, d) => <<i, d>> \in putBack')
    BY <2>4
  <2>6. edits[c].id = i /\ t.due = edits[c].due /\ (Taken(i, t.due) => <<i, t.due>> \in putBack')
    BY <1>1, <1>4, <2>2, <2>5 DEF d
  <2> HIDE DEF t
  <2>7. QED
    BY <1>1, <1>2, <1>4, <2>2, <2>3, <2>5, <2>6
<1>5. QED
  BY <1>3, <1>4

(* What a tick leaves of each task.                                        *)
LEMMA CollectedTasks ==
  ASSUME Shape, Collect
  PROVE  /\ stored' \in [Ids -> Task \cup {None}]
         /\ \A i \in Due : /\ i \in Ids /\ stored[i] \in Task /\ stored[i] # None
                           /\ stored[i].due > 0
                           /\ \/ stored'[i] = None
                              \/ stored'[i].due = 0 /\ stored'[i].by = stored[i].by
         /\ \A i \in Ids \ Due : stored'[i] = stored[i]
<1>1. PICK again \in SUBSET Due : Advance(again)
  BY DEF Collect
<1>2. \A i \in Due : i \in Ids /\ stored[i] \in Task /\ stored[i] # None /\ stored[i].due > 0
  BY DEF Due, Stored, Shape, Task
<1>3. ASSUME NEW i \in Due
      PROVE  /\ [stored[i] EXCEPT !.due = 0] \in Task
             /\ [stored[i] EXCEPT !.due = 0].due = 0
             /\ [stored[i] EXCEPT !.due = 0].by = stored[i].by
  BY <1>2, CronAssumption DEF Task
<1>4. \A i \in Due : stored'[i] = None \/ stored'[i] = [stored[i] EXCEPT !.due = 0]
  BY <1>1, <1>2 DEF Advance
<1>5. \A i \in Ids \ Due : stored'[i] = stored[i]
  BY <1>1 DEF Advance
<1>6. \A i \in Ids : stored'[i] \in Task \cup {None}
  BY <1>3, <1>4, <1>5 DEF Shape
<1>7. stored' \in [Ids -> Task \cup {None}]
  BY <1>1, <1>6 DEF Advance
<1>8. QED
  BY <1>2, <1>3, <1>4, <1>5, <1>7

(* What an occurrence of i reaches: the task, if it lies ahead, and edits. *)
LEMMA ComesDueIs ==
  ASSUME Shape, NEW i \in Ids, ComesDue(i)
  PROVE  /\ stored' \in [Ids -> Task \cup {None}] /\ edits' \in [Clients -> Edit \cup {None}]
         /\ \A j \in Ids : stored'[j] # None =>
               /\ stored[j] # None /\ stored'[j].by = stored[j].by
               /\ stored'[j].due = stored[j].due \/ (j = i /\ stored'[j].due = occ[i] + 1)
         /\ \A c \in Clients : edits'[c] # None =>
               /\ edits[c] # None /\ edits'[c].id = edits[c].id
               /\ edits'[c].due = edits[c].due \/ (edits[c].id = i /\ edits'[c].due = occ[i] + 1)
<1>1. occ[i] + 1 \in 0 .. MaxOcc
  BY CronAssumption DEF ComesDue, Shape
<1>2. PICK C \in SUBSET Ahead(i) :
        /\ edits' = [c \in Clients |-> IF c \in C THEN [edits[c] EXCEPT !.due = occ[i] + 1]
                                                  ELSE edits[c]]
        /\ \/ /\ stored[i] # None /\ stored[i].due = 0
              /\ stored' = [stored EXCEPT ![i].due = occ[i] + 1]
           \/ C # {} /\ UNCHANGED stored
  BY DEF ComesDue
<1>3. ASSUME NEW c \in Clients
      PROVE  /\ edits'[c] \in Edit \cup {None}
             /\ edits'[c] # None =>
                  /\ edits[c] # None /\ edits'[c].id = edits[c].id
                  /\ edits'[c].due = edits[c].due \/ (edits[c].id = i /\ edits'[c].due = occ[i] + 1)
  <2>1. CASE c \in C
    <3>1. edits[c] \in Edit /\ edits[c] # None /\ edits[c].id = i
      BY <2>1, <1>2 DEF Ahead, Shape
    <3>2. edits'[c] = [edits[c] EXCEPT !.due = occ[i] + 1]
      BY <1>2, <2>1
    <3>3. QED
      BY <1>1, <3>1, <3>2 DEF Edit
  <2>2. CASE c \notin C
    <3>1. edits'[c] = edits[c] /\ edits[c] \in Edit \cup {None}
      BY <1>2, <2>2 DEF Shape
    <3>2. QED
      BY <3>1
  <2>3. QED
    BY <2>1, <2>2
<1>4. edits' \in [Clients -> Edit \cup {None}]
  BY <1>2, <1>3
<1>5. CASE stored' = stored
  BY <1>3, <1>4, <1>5 DEF Shape
<1>6. CASE stored[i] # None /\ stored' = [stored EXCEPT ![i].due = occ[i] + 1]
  <2>1. stored[i] \in Task
    BY <1>6 DEF Shape
  <2>2. /\ [stored[i] EXCEPT !.due = occ[i] + 1] \in Task
        /\ [stored[i] EXCEPT !.due = occ[i] + 1].by = stored[i].by
        /\ [stored[i] EXCEPT !.due = occ[i] + 1].due = occ[i] + 1
    BY <1>1, <2>1 DEF Task
  <2>3. stored' = [stored EXCEPT ![i] = [stored[i] EXCEPT !.due = occ[i] + 1]]
    BY <1>6 DEF Shape
  <2>4. QED
    BY <1>3, <1>4, <1>6, <2>2, <2>3 DEF Shape
<1>7. QED
  BY <1>2, <1>5, <1>6

LEMMA StepShape ==
  ASSUME Shape, [Next]_vars
  PROVE  Shape'
<1> USE DEF owning, ticking, running, asking, past
<1>1. ASSUME UNCHANGED <<stored, owner, connOwner, req, edits, occ>>
      PROVE  Shape'
  BY <1>1 DEF Shape
<1>2. ASSUME NEW o \in Owners, Register(o)
      PROVE  Shape'
  BY <1>2 DEF Register, Shape
<1>3. CASE Prune
  BY <1>3 DEF Prune, StoreFails, Shape
<1>4. ASSUME NEW c \in Clients, CreateTask(c)
      PROVE  Shape'
  <2>1. CASE stored' = stored
    BY <1>4, <2>1 DEF CreateTask, Answered, Shape
  <2>2. ASSUME NEW i \in Ids,
               stored' = [stored EXCEPT ![i] = [by |-> req[c], on |-> TRUE, due |-> 0]]
        PROVE  Shape'
    <3>1. [by |-> req[c], on |-> TRUE, due |-> 0] \in Task
      BY <1>4, CronAssumption DEF CreateTask, Task, Shape
    <3>2. stored' \in [Ids -> Task \cup {None}]
      BY <2>2, <3>1 DEF Shape
    <3>3. QED
      BY <1>4, <3>2 DEF CreateTask, Answered, Shape
  <2>3. QED
    BY <1>4, <2>1, <2>2 DEF CreateTask
<1>5. ASSUME NEW i \in Ids, ComesDue(i)
      PROVE  Shape'
  <2>1. /\ occ[i] + 1 \in 0 .. MaxOcc /\ occ' = [occ EXCEPT ![i] = @ + 1]
        /\ UNCHANGED <<owner, connOwner, req>>
    BY <1>5, CronAssumption DEF ComesDue, Shape
  <2>2. occ' \in [Ids -> 0 .. MaxOcc]
    BY <2>1 DEF Shape
  <2>3. stored' \in [Ids -> Task \cup {None}] /\ edits' \in [Clients -> Edit \cup {None}]
    BY <1>5, <2>1, ComesDueIs
  <2>4. QED
    BY <2>1, <2>2, <2>3 DEF Shape
<1>6. CASE TickStart \/ CollectFails
  BY <1>1, <1>6 DEF TickStart, CollectFails, StoreFails
<1>7. CASE Collect
  BY <1>7, CollectedTasks DEF Collect, Shape
<1>8. CASE Dispatch
  BY <1>8 DEF Dispatch, Shape
<1>9. ASSUME NEW f \in flying, DeliverIM(f) \/ DeliverConsole(f) \/ FireFails(f)
      PROVE  Shape'
  BY <1>1, <1>9 DEF DeliverIM, DeliverConsole, FireFails
<1>10. ASSUME NEW c \in Clients, Admit(c) \/ Refuse(c) \/ DeleteTask(c)
       PROVE  Shape'
  BY <1>10 DEF Admit, Refuse, DeleteTask, Answered, Shape
<1>17. ASSUME NEW c \in Clients, PrepareUpdate(c)
       PROVE  Shape'
  <2>1. PICK i \in Stored : edits' = [edits EXCEPT ![c] = [id |-> i, due |-> 0]]
    BY <1>17 DEF PrepareUpdate
  <2>2. [id |-> i, due |-> 0] \in Edit
    BY CronAssumption DEF Edit, Stored
  <2>3. edits' \in [Clients -> Edit \cup {None}]
    BY <2>1, <2>2 DEF Shape
  <2>4. QED
    BY <1>17, <2>3 DEF PrepareUpdate, Shape
<1>11. ASSUME NEW c \in Clients, UpdateTask(c)
       PROVE  Shape'
  <2>1. stored' \in [Ids -> Task \cup {None}]
    BY <1>11, UpdatedTask DEF Shape
  <2>2. QED
    BY <1>11, <2>1 DEF UpdateTask, Answered, Shape
<1>12. CASE TurnEnds \/ Stop \/ StopReturns \/ CloseConnector \/ Drained
  BY <1>1, <1>12 DEF TurnEnds, Stop, StopReturns, CloseConnector, Drained
<1>13. CASE Restart
  BY <1>13 DEF Restart, Fresh, Shape
<1>14. CASE Swap
  BY <1>14 DEF Swap, Shape
<1>15. CASE UNCHANGED vars
  BY <1>1, <1>15 DEF vars
<1>16. QED
  BY <1>2, <1>3, <1>4, <1>5, <1>6, <1>7, <1>8, <1>9, <1>10, <1>11, <1>12, <1>13,
     <1>14, <1>15, <1>17 DEF Next

-----------------------------------------------------------------------------
(* A step that hands no occurrence out and puts none into the store.       *)
LEMMA FewerDue ==
  ASSUME Shape, Shape', Once,
         \A i \in Ids : stored'[i] # None =>
           stored'[i].due = 0 \/ (stored[i] # None /\ stored'[i].due = stored[i].due),
         \A c \in Clients : edits'[c] # None =>
           edits'[c].due = 0 \/ (edits[c] # None /\ edits'[c] = edits[c]),
         pending' = pending \/ pending' = {},
         tick' # "dispatch" => pending' = {},
         UNCHANGED <<occ, fired, twice, putBack>>
  PROVE  Once'
<1>1. \A i, n : Taken(i, n)' => Taken(i, n)
  BY DEF Taken
<1>2. ASSUME NEW i \in Ids, stored'[i] # None
      PROVE  /\ stored'[i].due <= occ'[i]
             /\ stored'[i].due > 0 /\ Taken(i, stored[i].due)' => <<i, stored'[i].due>> \in putBack'
  <2>1. occ[i] \in Nat /\ occ' = occ /\ putBack' = putBack
    BY CronAssumption DEF Shape
  <2>2. CASE stored'[i].due = 0
    BY <2>1, <2>2
  <2>3. CASE stored[i] # None /\ stored'[i].due = stored[i].due
    BY <1>1, <2>1, <2>3 DEF Once, Taken
  <2>4. QED
    BY <1>2, <2>2, <2>3
<1>3. ASSUME NEW c \in Clients, edits'[c] # None
      PROVE  edits'[c].due <= occ'[edits'[c].id]
  <2>1. CASE edits[c] # None /\ edits'[c] = edits[c]
    BY <1>3, <2>1 DEF Once
  <2>2. CASE edits'[c].due = 0
    <3>1. edits'[c].id \in Ids
      BY <1>3 DEF Shape, Edit
    <3>2. occ[edits'[c].id] \in Nat /\ occ' = occ
      BY <3>1, CronAssumption DEF Shape
    <3>3. QED
      BY <2>2, <3>2
  <2>3. QED
    BY <1>3, <2>1, <2>2
<1>4. QED
  BY <1>2, <1>3 DEF Once

LEMMA InitOnce == Init => Once
  BY CronAssumption DEF Init, Once, Stored, Taken

(* An occurrence that comes is a new one.                                  *)
LEMMA ComesDueOnce ==
  ASSUME Shape, Once, NEW i \in Ids, ComesDue(i)
  PROVE  Once'
<1>1. /\ occ' = [occ EXCEPT ![i] = @ + 1] /\ \A j \in Ids : occ[j] \in Nat
      /\ UNCHANGED <<tick, pending, fired, twice, putBack>>
  BY CronAssumption DEF ComesDue, ticking, Shape
<1>2. \A j \in Ids : occ'[j] \in Nat /\ occ[j] <= occ'[j]
  BY <1>1 DEF Shape
<1>3. occ'[i] = occ[i] + 1
  BY <1>1 DEF Shape
<1>5. ~Taken(i, occ[i] + 1)
  <2>1. occ[i] \in Nat /\ \A n \in Nat : n <= occ[i] => n # occ[i] + 1
    BY <1>1
  <2>2. \A n \in fired[i] : n # occ[i] + 1
    BY <2>1 DEF Once
  <2>3. \A f \in pending : f.id = i => f.nth # occ[i] + 1
    BY <2>1 DEF Once
  <2>4. QED
    BY <2>2, <2>3 DEF Taken
<1>6. ASSUME NEW j \in Ids, stored'[j] # None
      PROVE  /\ stored'[j].due <= occ'[j]
             /\ stored'[j].due > 0 /\ Taken(j, stored[j].due)' => <<j, stored'[j].due>> \in putBack'
  <2>1. stored[j] # None /\ stored'[j].by = stored[j].by /\ stored[j] \in Task
        /\ (stored'[j].due = stored[j].due \/ (j = i /\ stored'[j].due = occ[i] + 1))
    BY <1>6, ComesDueIs DEF Shape
  <2>2. CASE stored'[j].due = stored[j].due
    <3>1. stored[j].due \in Nat
      BY <2>1, CronAssumption DEF Task
    <3>2. stored[j].due <= occ[j]
      BY <2>1 DEF Once
    <3>3. stored[j].due > 0 /\ Taken(j, stored[j].due) => <<j, stored[j].due>> \in putBack
      BY <2>1 DEF Once
    <3>4. stored'[j].due <= occ'[j]
      BY <1>1, <1>2, <2>2, <3>1, <3>2
    <3>5. QED
      BY <1>1, <2>2, <3>3, <3>4 DEF Taken
  <2>3. CASE j = i /\ stored'[j].due = occ[i] + 1
    <3>1. occ'[j] \in Nat /\ stored'[j].due <= occ'[j]
      BY <1>2, <1>3, <2>3
    <3>2. ~Taken(j, stored[j].due)'
      BY <1>1, <1>5, <2>3 DEF Taken
    <3>3. QED
      BY <3>1, <3>2
  <2>4. QED
    BY <2>1, <2>2, <2>3
<1>7. ASSUME NEW c \in Clients, edits'[c] # None
      PROVE  edits'[c].due <= occ'[edits'[c].id]
  <2>1. edits[c] # None /\ edits'[c].id = edits[c].id /\ edits[c] \in Edit
        /\ (edits'[c].due = edits[c].due \/ (edits[c].id = i /\ edits'[c].due = occ[i] + 1))
    BY <1>7, ComesDueIs DEF Shape
  <2>2. edits[c].id \in Ids /\ edits[c].due \in Nat /\ edits[c].due <= occ[edits[c].id]
    BY <2>1, CronAssumption DEF Edit, Once
  <2>3. CASE edits'[c].due = edits[c].due
    BY <1>1, <1>2, <2>1, <2>2, <2>3
  <2>4. CASE edits[c].id = i /\ edits'[c].due = occ[i] + 1
    BY <1>1, <1>3, <2>1, <2>4
  <2>5. QED
    BY <2>1, <2>3, <2>4
<1>8. ASSUME NEW f \in pending
      PROVE  f.nth <= occ'[f.id]
  <2>1. f.id \in Ids /\ f.nth \in Nat /\ f.nth <= occ[f.id]
    BY DEF Once
  <2>2. occ[f.id] \in Nat /\ occ'[f.id] \in Nat /\ occ[f.id] <= occ'[f.id]
    BY <1>1, <1>2, <2>1
  <2>3. QED
    BY <2>1, <2>2
<1>9. \A j \in Ids : \A n \in fired[j] : n \in Nat /\ n <= occ'[j]
  BY <1>1, <1>2 DEF Once
<1>10. QED
  BY <1>1, <1>6, <1>7, <1>8, <1>9 DEF Once

(* A tick takes exactly the due, enabled tasks, and none of them is due in *)
(* the store it leaves behind.                                             *)
LEMMA CollectOnce ==
  ASSUME Shape, Once, Collect
  PROVE  Once'
<1>1. /\ pending = {} /\ pending' = DueFires /\ tick' = "dispatch"
      /\ UNCHANGED <<occ, fired, twice, putBack, edits>>
  BY DEF Collect, Once, past, asking
<1>2. \A f \in DueFires : f.id \in Due /\ f.nth = stored[f.id].due
  BY DEF DueFires
<1>3. ASSUME NEW f \in DueFires
      PROVE  /\ f.id \in Ids /\ f.nth \in Nat /\ f.nth <= occ[f.id]
             /\ f.nth \in fired[f.id] => <<f.id, f.nth>> \in putBack
  <2>1. f.id \in Ids /\ stored[f.id] # None /\ stored[f.id] \in Task /\ stored[f.id].due > 0
        /\ f.nth = stored[f.id].due
    BY <1>2, CollectedTasks
  <2>2. stored[f.id].due \in Nat
    BY <2>1, CronAssumption DEF Task
  <2>3. f.nth \in fired[f.id] => Taken(f.id, f.nth)
    BY DEF Taken
  <2>4. QED
    BY <2>1, <2>2, <2>3 DEF Once
<1>4. ASSUME NEW i \in Ids, stored'[i] # None
      PROVE  /\ stored'[i].due <= occ'[i]
             /\ stored'[i].due > 0 /\ Taken(i, stored[i].due)' => <<i, stored'[i].due>> \in putBack'
  <2>1. CASE i \in Due
    <3>1. stored'[i].due = 0
      BY <1>4, <2>1, CollectedTasks
    <3>2. occ[i] \in Nat
      BY CronAssumption DEF Shape
    <3>3. QED
      BY <1>1, <3>1, <3>2
  <2>2. CASE i \notin Due
    <3>1. stored'[i] = stored[i]
      BY <2>2, CollectedTasks
    <3>3. stored[i].due <= occ'[i]
      BY <1>1, <1>4, <3>1 DEF Once
    <3>4. stored[i].due > 0 /\ Taken(i, stored[i].due) => <<i, stored[i].due>> \in putBack'
      BY <1>1, <1>4, <3>1 DEF Once
    <3>5. Taken(i, stored[i].due)' => Taken(i, stored[i].due)
      BY <1>1, <1>2, <2>2, <3>1 DEF Taken
    <3>6. QED
      BY <3>1, <3>3, <3>4, <3>5
  <2>3. QED
    BY <2>1, <2>2
<1>5. QED
  BY <1>1, <1>3, <1>4 DEF Once

LEMMA DispatchOnce ==
  ASSUME Shape, Once, Dispatch
  PROVE  Once'
<1>1. /\ UNCHANGED <<stored, occ, putBack, edits>> /\ pending' = {}
      /\ fired' = [i \in Ids |-> fired[i] \cup {f.nth : f \in {g \in pending : g.id = i}}]
      /\ twice' = twice \cup {<<f.id, f.nth>> : f \in {g \in pending : g.nth \in fired[g.id]}}
  BY DEF Dispatch, asking
<1>2. \A i \in Ids : \A n : Taken(i, n)' => Taken(i, n)
  BY <1>1 DEF Taken
<1>3. \A i \in Ids : \A n \in fired'[i] : n \in Nat /\ n <= occ[i]
  BY <1>1 DEF Once
<1>4. twice' \subseteq putBack
  BY <1>1 DEF Once
<1>5. QED
  BY <1>1, <1>2, <1>3, <1>4 DEF Once

(* An edit writes an occurrence that came, and says so if it was taken.    *)
LEMMA UpdateOnce ==
  ASSUME Shape, Once, NEW c \in Clients, UpdateTask(c)
  PROVE  Once'
<1>1. /\ UNCHANGED <<tick, pending, occ, fired, twice>>
      /\ edits' = [edits EXCEPT ![c] = None]
  BY DEF UpdateTask, Answered, ticking
<1>2. PICK i \in Stored, t \in Task :
        /\ stored' = [stored EXCEPT ![i] = t]
        /\ stored[i] \in Task
        /\ \/ t.due = stored[i].due /\ putBack' = putBack
           \/ /\ edits[c] # None /\ edits[c].id = i /\ t.due = edits[c].due
              /\ putBack \subseteq putBack'
              /\ Taken(i, t.due) => <<i, t.due>> \in putBack'
  BY UpdatedTask
<1>3. putBack \subseteq putBack' /\ i \in Ids /\ stored[i] # None
  BY <1>2 DEF Stored
<1>5. t.due <= occ[i] /\ (t.due > 0 /\ Taken(i, t.due) => <<i, t.due>> \in putBack')
  BY <1>2, <1>3 DEF Once
<1>6. ASSUME NEW j \in Ids, stored'[j] # None
      PROVE  /\ stored'[j].due <= occ'[j]
             /\ stored'[j].due > 0 /\ Taken(j, stored[j].due)' => <<j, stored'[j].due>> \in putBack'
  <2>1. CASE j = i
    <3>1. stored'[j] = t
      BY <1>2, <1>3, <2>1 DEF Shape
    <3>2. Taken(j, stored[j].due)' => Taken(i, t.due)
      BY <1>1, <2>1, <3>1 DEF Taken
    <3>3. QED
      BY <1>1, <1>5, <2>1, <3>1, <3>2
  <2>2. CASE j # i
    <3>1. stored'[j] = stored[j]
      BY <1>2, <1>3, <2>2 DEF Shape
    <3>2. Taken(j, stored[j].due)' => Taken(j, stored[j].due)
      BY <1>1, <3>1 DEF Taken
    <3>3. QED
      BY <1>1, <1>3, <1>6, <3>1, <3>2 DEF Once
  <2>3. QED
    BY <2>1, <2>2
<1>7. \A d \in Clients : edits'[d] # None => edits'[d] = edits[d]
  BY <1>1 DEF Shape
<1>8. QED
  BY <1>1, <1>3, <1>6, <1>7 DEF Once

LEMMA StepOnce ==
  ASSUME Shape, Once, [Next]_vars
  PROVE  Once'
<1> USE DEF owning, ticking, running, asking, past
<1>1. ASSUME UNCHANGED <<stored, tick, pending, edits, occ, fired, twice, putBack>>
      PROVE  Once'
  BY <1>1 DEF Once, Taken
(* The store, the edits and the tick's fires only lose.                    *)
<1>2. ASSUME \A i \in Ids : stored'[i] # None =>
               stored'[i].due = 0 \/ (stored[i] # None /\ stored'[i].due = stored[i].due),
             \A c \in Clients : edits'[c] # None =>
               edits[c] # None /\ edits'[c] = edits[c],
             pending' = pending, tick' = tick,
             UNCHANGED <<occ, fired, twice, putBack>>, Shape'
      PROVE  Once'
  <2>1. tick' # "dispatch" => pending' = {}
    BY <1>2 DEF Once
  <2>2. QED
    BY <1>2, <2>1, FewerDue
<1>3. ASSUME NEW o \in Owners, Register(o)
      PROVE  Once'
  BY <1>1, <1>3 DEF Register
<1>4. CASE Prune
  <2>1. \A i \in Ids : stored'[i] # None => stored[i] # None /\ stored'[i].due = stored[i].due
    BY <1>4 DEF Prune, StoreFails
  <2>2. QED
    BY <1>2, <1>4, <2>1, StepShape DEF Prune
<1>5. CASE Swap
  BY <1>1, <1>5 DEF Swap
<1>6. ASSUME NEW i \in Ids, ComesDue(i)
      PROVE  Once'
  BY <1>6, ComesDueOnce
<1>7. CASE TickStart
  BY <1>7 DEF TickStart, Once, Taken
<1>8. CASE Collect
  BY <1>8, CollectOnce
<1>9. CASE CollectFails
  BY <1>9 DEF CollectFails, StoreFails, Once, Taken
<1>10. CASE Dispatch
  BY <1>10, DispatchOnce
<1>11. ASSUME NEW f \in flying, DeliverIM(f) \/ DeliverConsole(f) \/ FireFails(f)
       PROVE  Once'
  BY <1>1, <1>11 DEF DeliverIM, DeliverConsole, FireFails
<1>12. CASE TurnEnds \/ Stop \/ StopReturns \/ CloseConnector \/ Drained
  BY <1>1, <1>12 DEF TurnEnds, Stop, StopReturns, CloseConnector, Drained
<1>13. ASSUME NEW c \in Clients, Admit(c)
       PROVE  Once'
  BY <1>1, <1>13 DEF Admit
<1>14. ASSUME NEW c \in Clients, PrepareUpdate(c)
       PROVE  Once'
  <2>1. \A d \in Clients : edits'[d] # None =>
           edits'[d].due = 0 \/ (edits[d] # None /\ edits'[d] = edits[d])
    BY <1>14 DEF PrepareUpdate, Shape
  <2>2. UNCHANGED <<stored, tick, pending, occ, fired, twice, putBack>>
    BY <1>14 DEF PrepareUpdate
  <2>3. tick' # "dispatch" => pending' = {}
    BY <2>2 DEF Once
  <2>4. \A i \in Ids : stored'[i] # None => stored[i] # None /\ stored'[i].due = stored[i].due
    BY <2>2
  <2>5. QED
    BY <2>1, <2>2, <2>3, <2>4, StepShape, FewerDue
<1>15. ASSUME NEW c \in Clients, Answered(c)
       PROVE  \A d \in Clients : edits'[d] # None => edits[d] # None /\ edits'[d] = edits[d]
  BY <1>15 DEF Answered, Shape
<1>16. ASSUME NEW c \in Clients, CreateTask(c)
       PROVE  Once'
  <2>1. \A j \in Ids : stored'[j] # None =>
           stored'[j].due = 0 \/ (stored[j] # None /\ stored'[j].due = stored[j].due)
    BY <1>16 DEF CreateTask, Shape
  <2>2. QED
    BY <1>2, <1>15, <1>16, <2>1, StepShape DEF CreateTask
<1>17. ASSUME NEW c \in Clients, DeleteTask(c) \/ Refuse(c)
       PROVE  Once'
  <2>1. \A j \in Ids : stored'[j] # None => stored[j] # None /\ stored'[j].due = stored[j].due
    BY <1>17 DEF DeleteTask, Refuse, Shape
  <2>2. QED
    BY <1>2, <1>15, <1>17, <2>1, StepShape DEF DeleteTask, Refuse
<1>18. ASSUME NEW c \in Clients, UpdateTask(c)
       PROVE  Once'
  BY <1>18, UpdateOnce
<1>19. CASE Restart
  <2>1. /\ pending' = {} /\ UNCHANGED <<stored, occ, fired, twice, putBack>>
        /\ \A c \in Clients : edits'[c] = None
    BY <1>19 DEF Restart, Fresh
  <2>2. QED
    BY <1>19, <2>1, StepShape, FewerDue
<1>20. CASE UNCHANGED vars
  BY <1>1, <1>20 DEF vars
<1>21. QED
  BY <1>3, <1>4, <1>5, <1>6, <1>7, <1>8, <1>9, <1>10, <1>11, <1>12, <1>13,
     <1>14, <1>16, <1>17, <1>18, <1>19, <1>20 DEF Next

(* An occurrence of a task fires at most once, through failed saves,       *)
(* restarts, and owner changes (Tick: the store is advanced, then fired);  *)
(* only an edit whose NextRun was computed before a tick took that same    *)
(* occurrence, and stored after, makes it fire again.                      *)
THEOREM FiresAtMostOnce == Spec => []AtMostOncePerOccurrence
<1>1. Init => Shape /\ Once
  BY InitShape, InitOnce
<1>2. Shape /\ Once /\ [Next]_vars => Shape' /\ Once'
  BY StepShape, StepOnce
<1>3. Once => AtMostOncePerOccurrence
  BY DEF Once, AtMostOncePerOccurrence
<1>4. QED
  BY <1>1, <1>2, <1>3, PTL DEF Spec

-----------------------------------------------------------------------------
LEMMA InitOwned == Init => Owned
  BY DEF Init, Owned, FiresUnderOwner

(* The fires in hand stay as they are or leave.                            *)
LEMMA FewerFires ==
  ASSUME FiresUnderOwner, pending' \cup flying' \subseteq pending \cup flying, late \subseteq late'
  PROVE  FiresUnderOwner'
  BY DEF FiresUnderOwner

(* The tasks stay as they are or leave, and nobody's owner changes.        *)
LEMMA FewerTasks ==
  ASSUME Owned, Shape,
         \A i \in Ids : stored'[i] # None => stored[i] # None /\ stored'[i].by = stored[i].by,
         UNCHANGED <<owner, connOwner, reg, tick, late>>,
         pending' \cup flying' \subseteq pending \cup flying
  PROVE  Owned'
<1>1. FiresUnderOwner'
  BY FewerFires DEF Owned
<1>2. \A i \in Stored' : i \in Stored /\ stored'[i].by = stored[i].by
  BY DEF Stored
<1>3. QED
  BY <1>1, <1>2 DEF Owned

LEMMA StepOwned ==
  ASSUME Shape, Owned, [Next]_vars
  PROVE  Owned'
<1> USE DEF owning, ticking, running, asking, past
<1>1. ASSUME UNCHANGED <<stored, owner, connOwner, reg, tick, late>>,
             pending' \cup flying' \subseteq pending \cup flying
      PROVE  Owned'
  BY <1>1, FewerTasks
<1>2. ASSUME NEW o \in Owners, Register(o)
      PROVE  Owned'
  BY <1>2, CronAssumption DEF Register, Owned, Stored, FiresUnderOwner
<1>3. CASE Prune
  <2>1. CASE UNCHANGED stored /\ reg' = "idle"
    BY <1>3, <2>1 DEF Prune, Owned, Stored, FiresUnderOwner
  <2>2. CASE reg' = "swap" /\ stored' = [i \in Ids |->
                                 IF stored[i] # None /\ Keeps(i) THEN stored[i] ELSE None]
    <3>1. \A i \in Stored' : i \in Stored /\ stored'[i] = stored[i] /\ stored[i].by = connOwner
      BY <2>2 DEF Stored, Keeps
    <3>2. QED
      BY <1>3, <2>2, <3>1 DEF Prune, Owned, FiresUnderOwner
  <2>3. QED
    BY <1>3, <2>1, <2>2 DEF Prune, StoreFails
<1>4. CASE Swap
  <2>1. reg = "swap" /\ reg' = "idle" /\ owner' = connOwner
    BY <1>4 DEF Swap
  <2>2. connOwner # None
    BY <2>1 DEF Owned
  <2>3. QED
    BY <1>4, <2>1, <2>2 DEF Swap, Owned, Stored, FiresUnderOwner
<1>5. ASSUME NEW i \in Ids, ComesDue(i)
      PROVE  Owned'
  BY <1>5, ComesDueIs, FewerTasks DEF ComesDue
<1>6. CASE TickStart
  BY <1>6 DEF TickStart, Owned, Stored, FiresUnderOwner
<1>7. CASE Collect
  <2>1. \A i \in Stored' : i \in Stored /\ stored'[i].by = stored[i].by
    BY CollectedTasks, <1>7 DEF Stored
  <2>2. \A f \in DueFires : f.under = owner /\ (f.by = owner \/ f.id \in late)
    <3>1. owner # None
      BY <1>7 DEF Collect, Owned
    <3>2. QED
      BY <3>1 DEF DueFires, Due, Owned
  <2>3. FiresUnderOwner'
    BY <1>7, <2>2 DEF Collect, Owned, FiresUnderOwner
  <2>4. QED
    BY <1>7, <2>1, <2>3 DEF Collect, Owned
<1>8. CASE CollectFails
  BY <1>8 DEF CollectFails, StoreFails, Owned, Stored, FiresUnderOwner
<1>9. CASE Dispatch
  BY <1>9 DEF Dispatch, Owned, Stored, FiresUnderOwner
<1>10. ASSUME NEW f \in flying, DeliverIM(f) \/ DeliverConsole(f) \/ FireFails(f)
       PROVE  Owned'
  BY <1>1, <1>10 DEF DeliverIM, DeliverConsole, FireFails
<1>11. CASE TurnEnds \/ Stop \/ StopReturns \/ CloseConnector \/ Drained
  BY <1>1, <1>11 DEF TurnEnds, Stop, StopReturns, CloseConnector, Drained
<1>12. ASSUME NEW c \in Clients, Admit(c) \/ PrepareUpdate(c) \/ Refuse(c)
       PROVE  Owned'
  BY <1>1, <1>12 DEF Admit, PrepareUpdate, Refuse
<1>13. ASSUME NEW c \in Clients, CreateTask(c)
       PROVE  Owned'
  <2>1. CASE UNCHANGED <<stored, late>>
    BY <1>1, <1>13, <2>1 DEF CreateTask
  <2>2. ASSUME NEW i \in Ids,
               stored' = [stored EXCEPT ![i] = [by |-> req[c], on |-> TRUE, due |-> 0]],
               late' = IF req[c] # owner \/ reg = "swap" THEN late \cup {i} ELSE late
        PROVE  Owned'
    <3>1. \A j \in Stored' : j # i => j \in Stored /\ stored'[j] = stored[j]
      BY <2>2 DEF Stored, Shape
    <3>2. stored'[i].by = req[c]
      BY <2>2 DEF Shape
    <3>3. late \subseteq late' /\ ((req[c] # owner \/ reg = "swap") => i \in late')
      BY <2>2
    <3>4. UNCHANGED <<owner, connOwner, reg, tick, pending, flying>>
      BY <1>13 DEF CreateTask
    <3>5. FiresUnderOwner'
      BY <3>3, <3>4, FewerFires DEF Owned
    <3>6. QED
      BY <3>1, <3>2, <3>3, <3>4, <3>5 DEF Owned
  <2>3. QED
    BY <1>13, <2>1, <2>2 DEF CreateTask
<1>14. ASSUME NEW c \in Clients, DeleteTask(c)
       PROVE  Owned'
  <2>1. \A j \in Ids : stored'[j] # None => stored[j] # None /\ stored'[j].by = stored[j].by
    BY <1>14 DEF DeleteTask, Shape
  <2>2. QED
    BY <1>14, <2>1, FewerTasks DEF DeleteTask
<1>15. ASSUME NEW c \in Clients, UpdateTask(c)
       PROVE  Owned'
  <2>1. PICK i \in Stored, t \in Task :
          /\ stored' = [stored EXCEPT ![i] = t]
          /\ stored[i] \in Task /\ stored[i].by = req[c]
          /\ t.by = stored[i].by
          /\ \/ t.due = stored[i].due /\ putBack' = putBack
             \/ /\ edits[c] # None /\ edits[c].id = i /\ t.due = edits[c].due
                /\ putBack \subseteq putBack'
                /\ Taken(i, t.due) => <<i, t.due>> \in putBack'
    BY <1>15, UpdatedTask
  <2>2. \A j \in Ids : stored'[j] # None => stored[j] # None /\ stored'[j].by = stored[j].by
    BY <2>1 DEF Stored, Shape
  <2>3. QED
    BY <1>15, <2>2, FewerTasks DEF UpdateTask
<1>16. CASE Restart
  BY <1>16 DEF Restart, Fresh, Owned, FiresUnderOwner
<1>17. CASE UNCHANGED vars
  BY <1>1, <1>17 DEF vars
<1>18. QED
  BY <1>2, <1>3, <1>4, <1>5, <1>6, <1>7, <1>8, <1>9, <1>10, <1>11, <1>12, <1>13,
     <1>14, <1>15, <1>16, <1>17 DEF Next

(* Whatever a tick hands out belongs to the owner it runs under, also in a *)
(* store written for an earlier owner before a restart (SetOwnerUID's two  *)
(* scenarios); only a Create that was let through before the swap and      *)
(* stored after the prune escapes.                                         *)
THEOREM OwnerFires == Spec => []FiresUnderOwner
<1>1. Init => Shape /\ Owned
  BY InitShape, InitOwned
<1>2. Shape /\ Owned /\ [Next]_vars => Shape' /\ Owned'
  BY StepShape, StepOwned
<1>3. Owned => FiresUnderOwner
  BY DEF Owned
<1>4. QED
  BY <1>1, <1>2, <1>3, PTL DEF Spec

-----------------------------------------------------------------------------
(* The drain: each of its waits ends what could still fire after it, and   *)
(* what is left at the last one starts nothing.                            *)
Quiet ==
  /\ stage \in {"waiting", "closing", "closed"} => tick = "idle"
  /\ stage \in {"closing", "closed"} => flying = {}
  /\ stage = "closed" => turns = 0

LEMMA StepQuiet ==
  ASSUME Quiet, [Next]_vars
  PROVE  Quiet'
<1> USE DEF owning, ticking, running, asking, past
<1>1. ASSUME UNCHANGED <<stage, tick, flying, turns>>
      PROVE  Quiet'
  BY <1>1 DEF Quiet
<1>2. ASSUME NEW o \in Owners, Register(o)
      PROVE  Quiet'
  BY <1>1, <1>2 DEF Register
<1>3. CASE Prune \/ Swap
  BY <1>1, <1>3 DEF Prune, Swap
<1>4. ASSUME NEW i \in Ids, ComesDue(i)
      PROVE  Quiet'
  BY <1>1, <1>4 DEF ComesDue
<1>5. CASE TickStart
  BY <1>5 DEF TickStart, Quiet
<1>6. CASE Collect \/ CollectFails \/ Dispatch
  BY <1>6 DEF Collect, CollectFails, Dispatch, Quiet
<1>7. ASSUME NEW f \in flying, DeliverIM(f) \/ DeliverConsole(f) \/ FireFails(f)
      PROVE  Quiet'
  BY <1>7 DEF DeliverIM, DeliverConsole, FireFails, Quiet
<1>8. CASE TurnEnds
  BY <1>8 DEF TurnEnds, Quiet
<1>9. ASSUME NEW c \in Clients,
             \/ Admit(c) \/ PrepareUpdate(c) \/ CreateTask(c) \/ DeleteTask(c)
             \/ UpdateTask(c) \/ Refuse(c)
      PROVE  Quiet'
  BY <1>1, <1>9 DEF Admit, PrepareUpdate, CreateTask, DeleteTask, UpdateTask, Refuse
<1>10. CASE Stop \/ StopReturns \/ CloseConnector \/ Drained
  BY <1>10 DEF Stop, StopReturns, LoopGone, CloseConnector, Drained, Quiet
<1>11. CASE Restart
  BY <1>11 DEF Restart, Fresh, Quiet
<1>12. CASE UNCHANGED vars
  BY <1>1, <1>12 DEF vars
<1>13. QED
  BY <1>2, <1>3, <1>4, <1>5, <1>6, <1>7, <1>8, <1>9, <1>10, <1>11, <1>12 DEF Next

(* drainBotRuntime: when the connector is closed no tick and no fire is    *)
(* under way, and when the store may be closed no turn is.                 *)
THEOREM DrainLosesNoFire == Spec => []ShutdownLosesNoFire
<1>1. Init => Quiet
  BY DEF Init, Quiet
<1>2. Quiet /\ [Next]_vars => Quiet'
  BY StepQuiet
<1>3. Quiet => ShutdownLosesNoFire
  BY DEF Quiet, ShutdownLosesNoFire
<1>4. QED
  BY <1>1, <1>2, <1>3, PTL DEF Spec

-----------------------------------------------------------------------------
(* When a task is due.                                                     *)
(* What is carried along: a task's schedule can be read, its next run is   *)
(* one it means, and after a fire it is not what the clock just showed.    *)
Rows == [schedule : Schedules, recurring : BOOLEAN, nextRun : Nat]

PlanTypeOK ==
  /\ zone \in [shift : {-PerHour, PerHour}, late : BOOLEAN]
  /\ clock \in Nat /\ looked \in Nat
  /\ task \in Rows \cup {NoTask}
  /\ served \in Seq([due : Nat, at : Nat, row : Rows])

PlanInv ==
  /\ PlanTypeOK
  /\ task # NoTask /\ ~task.schedule.oneShot => ExpressionValid(task.schedule.fields)
  /\ task # NoTask /\ served # <<>> => FireKey(task.nextRun) # FireKey(LastFire.at)
  /\ FiresAsWritten

LEMMA SchedulesTyped ==
  ASSUME NEW s \in Schedules
  PROVE  s.oneShot \in BOOLEAN /\ s.when.at \in Int
<1>1. CASE s \in [oneShot : {FALSE}, when : {[form |-> "none", at |-> 0]},
                  fields : UNION {Expressions(f) : f \in Fields}]
  <2>1. s.oneShot = FALSE
    BY <1>1
  <2>2. s.when.at = 0
    BY <1>1
  <2>3. s.when.at \in Int
    BY <2>2
  <2> QED
    BY <2>1, <2>3
<1>2. CASE s \in [oneShot : {TRUE}, when : OneShots, fields : {Everything}]
  <2>1. s.oneShot = TRUE /\ s.when \in OneShots
    BY <1>2
  <2>2. s.when.at \in Shift - PerHour .. Shift + PerHour
    BY <2>1 DEF OneShots
  <2>3. s.when.at \in Int
    BY <2>2, PlanAssumption
  <2> QED
    BY <2>1, <2>3
<1> QED
  BY <1>1, <1>2 DEF Schedules

(* The wall clock never shows a minute before the epoch.                   *)
LEMMA KeysAreNats ==
  ASSUME zone \in [shift : {-PerHour, PerHour}, late : BOOLEAN], NEW t \in Nat
  PROVE  FireKey(t) \in Nat
<1>1. zone.shift \in {-PerHour, PerHour}
  OBVIOUS
<1> QED
  BY <1>1, PlanAssumption DEF FireKey

LEMMA ParseIs ==
  ASSUME zone \in [shift : {-PerHour, PerHour}, late : BOOLEAN],
         NEW o, o.at \in Int
  PROVE  ParseOneShot(o) \in Int
<1>1. zone.shift \in {-PerHour, PerHour} /\ zone.shift \in Int
  BY PlanAssumption
<1>2. o.at - zone.shift \in Int
  BY <1>1
<1> QED
  BY <1>2 DEF ParseOneShot, Never

(* What computeNextRunSkipping answers: the first minute that the schedule *)
(* means and that does not show skip, or that there is none to be found.   *)
LEMMA NextRunIs ==
  ASSUME zone \in [shift : {-PerHour, PerHour}, late : BOOLEAN],
         NEW s \in Schedules, NEW from \in Nat, NEW skip,
         NEW n, n = NextRun(s, from, skip)
  PROVE  \/ /\ n \in Nat /\ n # Never /\ from < n /\ Means(s, n)
            /\ ~s.oneShot => FireKey(n) # skip /\ ExpressionValid(s.fields)
            /\ \A t \in from + 1 .. n - 1 : Means(s, t) => ~s.oneShot /\ FireKey(t) = skip
         \/ /\ n = Never
            /\ ~s.oneShot /\ ExpressionValid(s.fields) =>
                 \A t \in Scan(from) : Means(s, t) => FireKey(t) = skip
            /\ s.oneShot => \A t \in Scan(from) : ~Means(s, t)
<1>1. s.oneShot \in BOOLEAN /\ s.when.at \in Int
  BY SchedulesTyped
<1>2. CASE s.oneShot
  <2>1. ParseOneShot(s.when) \in Int
    BY <1>1, ParseIs
  <2>2. n = IF ParseOneShot(s.when) > from THEN ParseOneShot(s.when) ELSE Never
    BY <1>2 DEF NextRun
  <2>3. \A t : Means(s, t) <=> t = ParseOneShot(s.when)
    BY <1>2 DEF Means
  <2>4. CASE ParseOneShot(s.when) > from
    <3>1. n = ParseOneShot(s.when) /\ n \in Nat /\ from < n /\ n # Never
      BY <2>1, <2>2, <2>4 DEF Never
    <3>2. \A t \in from + 1 .. n - 1 : t # n
      BY <3>1
    <3> QED
      BY <1>2, <2>3, <3>1, <3>2
  <2>5. CASE ~(ParseOneShot(s.when) > from)
    <3>1. n = Never
      BY <2>2, <2>5
    <3>2. \A t \in Scan(from) : t # ParseOneShot(s.when)
      BY <2>1, <2>5, PlanAssumption DEF Scan
    <3> QED
      BY <1>2, <2>3, <3>1, <3>2
  <2> QED
    BY <2>4, <2>5
<1>3. CASE ~s.oneShot
  <2> DEFINE ts == IF ExpressionValid(s.fields) THEN Occurrences(s.fields, from, skip) ELSE {}
  <2>1. n = IF ts = {} THEN Never ELSE CHOOSE t \in ts : \A u \in ts : t <= u
    BY <1>3 DEF NextRun
  <2>2. ts \subseteq Scan(from) /\ Scan(from) \subseteq Nat
    BY PlanAssumption DEF Occurrences, Scan
  <2>3. \A t : Means(s, t) <=> Matches(s.fields, t)
    BY <1>3 DEF Means
  <2>4. ExpressionValid(s.fields) =>
          \A t \in Scan(from) : t \in ts <=> Means(s, t) /\ FireKey(t) # skip
    BY <2>3 DEF Occurrences
  <2>5. ~ExpressionValid(s.fields) => ts = {}
    OBVIOUS
  <2> HIDE DEF ts
  <2>6. CASE ts = {}
    BY <1>3, <2>1, <2>4, <2>6
  <2>7. CASE ts # {}
    <3>1. \E t \in ts : \A u \in ts : t <= u
      BY <2>2, <2>7, LeastNat
    <3>2. n \in ts /\ \A u \in ts : n <= u
      BY <2>1, <2>7, <3>1
    <3>3. n \in from + 1 .. from + MaxScan
      BY <2>2, <3>2 DEF Scan
    <3>4. n \in Nat /\ n # Never /\ from < n
      BY <3>3, PlanAssumption DEF Never
    <3>5. ExpressionValid(s.fields) /\ Means(s, n) /\ FireKey(n) # skip
      BY <2>2, <2>4, <2>5, <2>7, <3>2
    <3>6. ASSUME NEW t \in from + 1 .. n - 1, Means(s, t) PROVE FireKey(t) = skip
      <4>1. t \in Scan(from) /\ ~(n <= t)
        BY <3>3, PlanAssumption DEF Scan
      <4> QED
        BY <2>4, <3>2, <3>5, <3>6, <4>1
    <3> QED
      BY <1>3, <3>4, <3>5, <3>6
  <2> QED
    BY <2>6, <2>7
<1> QED
  BY <1>2, <1>3

(* A task as Create or a full Update leaves it.                            *)
LEMMA PlannedInv ==
  ASSUME PlanInv, NEW s \in Schedules, NEW again \in BOOLEAN, NEW n,
         n = NextRun(s, clock, NoKey), n # Never,
         task' = Row(s, again, n), served' = <<>>, looked' = clock,
         UNCHANGED <<zone, clock>>
  PROVE  PlanInv'
<1>1. PlanTypeOK
  BY DEF PlanInv
<1>2. /\ n \in Nat /\ Means(s, n)
      /\ ~s.oneShot => ExpressionValid(s.fields)
      /\ \A t \in clock + 1 .. n - 1 : Means(s, t) => FireKey(t) = NoKey
  BY <1>1, NextRunIs DEF PlanTypeOK
<1>3. \A t \in clock + 1 .. n - 1 : ~Means(s, t)
  <2>1. \A t \in clock + 1 .. n - 1 : t \in Nat
    BY <1>1, <1>2 DEF PlanTypeOK
  <2>2. \A t \in clock + 1 .. n - 1 : FireKey(t) \in Nat
    BY <1>1, <2>1, KeysAreNats DEF PlanTypeOK
  <2>3. NoKey \notin Nat
    BY DEF NoKey
  <2> QED
    BY <1>2, <2>2, <2>3
<1>4. /\ task' \in Rows /\ task'.schedule = s /\ task'.nextRun = n
  BY <1>2 DEF Row, Rows
<1>5. task' # NoTask
  BY <1>4 DEF NoTask
<1>6. PlanTypeOK'
  BY <1>1, <1>4 DEF PlanTypeOK
<1>7. \A t : Means(s, t)' <=> Means(s, t)
  BY DEF Means, Matches, Civil, FireKey, ParseOneShot
<1>8. Means(task.schedule, task.nextRun)'
  BY <1>2, <1>4, <1>7 DEF Means, Matches, Civil, FireKey, ParseOneShot
<1>9. NothingPassedOver'
  <2>1. \A t \in looked' + 1 .. task'.nextRun - 1 : ~Means(task'.schedule, t)
    BY <1>3, <1>4
  <2>2. \A t : Means(task.schedule, t)' <=> Means(task'.schedule, t)
    BY <1>4, <1>7 DEF Means, Matches, Civil, FireKey, ParseOneShot
  <2> QED
    BY <1>8, <2>1, <2>2 DEF NothingPassedOver
<1>10. FiresAsWritten'
  BY <1>5, <1>9 DEF FiresAsWritten, NoEchoInARow, GoneForCause
<1> QED
  BY <1>2, <1>4, <1>6, <1>10 DEF PlanInv

LEMMA FiredInv == ASSUME PlanInv, FireDue PROVE PlanInv'
<1> DEFINE s == task.schedule
           n == NextRun(s, clock, FireKey(clock))
           fire == [due |-> task.nextRun, at |-> clock, row |-> task]
<1>1. /\ PlanTypeOK /\ NothingPassedOver /\ GoneForCause
      /\ \A i \in DOMAIN served : served[i].due <= served[i].at
  BY DEF PlanInv, FiresAsWritten
<1>2. /\ task # NoTask /\ task \in Rows /\ task.nextRun <= clock
      /\ UNCHANGED <<zone, clock>> /\ looked' = clock
  BY <1>1 DEF FireDue, IsDue, PlanTypeOK
<1>3. s \in Schedules /\ task.nextRun \in Nat /\ task.recurring \in BOOLEAN /\ clock \in Nat
  BY <1>1, <1>2 DEF Rows, PlanTypeOK
<1>4. fire \in [due : Nat, at : Nat, row : Rows]
  BY <1>2, <1>3
<1>5. /\ fire.due = task.nextRun /\ fire.at = clock /\ fire.row = task
      /\ fire.due <= fire.at
  BY <1>2
<1>6. task' = IF task.recurring /\ n # Never THEN [task EXCEPT !.nextRun = n] ELSE NoTask
  BY DEF FireDue, Advanced
<1>7. Means(s, task.nextRun) /\ (~s.oneShot => ExpressionValid(s.fields))
  BY <1>1, <1>2 DEF NothingPassedOver, PlanInv
<1>8. \/ /\ n \in Nat /\ n # Never /\ clock < n /\ Means(s, n)
         /\ ~s.oneShot => FireKey(n) # FireKey(clock) /\ ExpressionValid(s.fields)
         /\ \A t \in clock + 1 .. n - 1 : Means(s, t) => ~s.oneShot /\ FireKey(t) = FireKey(clock)
      \/ /\ n = Never
         /\ ~s.oneShot /\ ExpressionValid(s.fields) =>
              \A t \in Scan(clock) : Means(s, t) => FireKey(t) = FireKey(clock)
         /\ s.oneShot => \A t \in Scan(clock) : ~Means(s, t)
  <2>1. zone \in [shift : {-PerHour, PerHour}, late : BOOLEAN]
    BY <1>1 DEF PlanTypeOK
  <2> DEFINE key == FireKey(clock)
  <2>2. n = NextRun(s, clock, key) /\ key = FireKey(clock)
    OBVIOUS
  <2> HIDE DEF s, key, n
  <2> QED
    BY <1>3, <2>1, <2>2, NextRunIs
<1>9. s.oneShot => n = Never
  <2>1. s.oneShot => ParseOneShot(s.when) = task.nextRun
    BY <1>7 DEF Means
  <2> QED
    BY <1>2, <1>3, <2>1 DEF NextRun
<1>10. PICK last \in Seq([due : Nat, at : Nat, row : Rows]) :
         /\ served' = last \o <<fire>>
         /\ Len(last) = 0 \/ (served # <<>> /\ Len(last) = 1 /\ last[1] = LastFire)
  <2>1. CASE served = <<>>
    <3>1. <<>> \in Seq([due : Nat, at : Nat, row : Rows]) /\ Len(<<>>) = 0
      OBVIOUS
    <3>2. served' = <<>> \o <<fire>>
      BY <2>1 DEF FireDue
    <3> QED
      BY <3>1, <3>2
  <2>2. CASE served # <<>>
    <3>1. LastFire \in [due : Nat, at : Nat, row : Rows]
      <4>1. \A S : served \in Seq(S) => served[Len(served)] \in S
        BY <2>2
      <4> QED
        BY <1>1, <4>1 DEF PlanTypeOK, LastFire
    <3>2. served' = <<LastFire>> \o <<fire>>
      BY <2>2 DEF FireDue, LastFire
    <3> HIDE DEF fire
    <3>3. \A S, x : x \in S => <<x>> \in Seq(S) /\ Len(<<x>>) = 1 /\ <<x>>[1] = x
      OBVIOUS
    <3>4. /\ <<LastFire>> \in Seq([due : Nat, at : Nat, row : Rows])
          /\ Len(<<LastFire>>) = 1 /\ <<LastFire>>[1] = LastFire
      BY <3>1, <3>3
    <3> QED
      BY <2>2, <3>2, <3>4
  <2> QED
    BY <2>1, <2>2
<1> DEFINE Fires == [due : Nat, at : Nat, row : Rows]
<1> HIDE DEF fire, Fires
<1>11. /\ served' \in Seq(Fires) /\ Len(served') = Len(last) + 1
       /\ served'[Len(served')] = fire
       /\ \A i \in 1..Len(last) : served'[i] = last[i]
       /\ served' # <<>>
  <2>1. fire \in Fires /\ last \in Seq(Fires)
    BY <1>4, <1>10 DEF Fires
  <2> QED
    BY <1>10, <2>1
<1>12. LastFire' = fire
  BY <1>11 DEF LastFire
<1> DEFINE mean(t) == Means(s, t)
<1>13. /\ \A t : FireKey(t)' = FireKey(t)
       /\ \A r, t : Means(r, t)' <=> Means(r', t)
       /\ \A t : Echoes(t)' <=> FireKey(t) = FireKey(clock)
  <2>1. \A t : FireKey(t)' = FireKey(t)
    BY <1>2 DEF FireKey
  <2>2. \A r, t : Means(r, t)' <=> Means(r', t)
    BY <1>2 DEF Means, Matches, Civil, FireKey, ParseOneShot
  <2>3. \A t : Echoes(t)' <=> FireKey(t) = FireKey(clock)
    BY <1>2, <1>5, <1>11, <1>12, <2>1 DEF Echoes, FireKey
  <2> QED
    BY <2>1, <2>2, <2>3
<1>14. \A i \in DOMAIN served' : served'[i].due <= served'[i].at
  <2>1. \A i \in 1..Len(last) : last[i].due <= last[i].at
    <3>1. served # <<>> => LastFire.due <= LastFire.at
      BY <1>1 DEF PlanTypeOK, LastFire
    <3> QED
      BY <1>10, <3>1
  <2>2. \A i \in DOMAIN served' : i \in 1..Len(last) \/ i = Len(served')
    BY <1>10, <1>11
  <2> QED
    BY <1>5, <1>11, <2>1, <2>2
<1>15. NoEchoInARow'
  <2>1. Len(served') = 2 => Len(last) = 1 /\ served'[1] = LastFire /\ served'[2] = fire /\ served # <<>>
    BY <1>10, <1>11
  <2>2. served # <<>> => FireKey(task.nextRun) # FireKey(LastFire.at)
    BY <1>2 DEF PlanInv
  <2> QED
    BY <1>5, <1>13, <2>1, <2>2 DEF NoEchoInARow
<1> HIDE DEF s, n
<1>16. CASE task.recurring /\ n # Never
  <2>1. task' = [task EXCEPT !.nextRun = n]
    BY <1>6, <1>16
  <2>2. task' \in Rows /\ task'.nextRun = n /\ task'.schedule = s /\ task' # NoTask
    BY <1>2, <1>8, <1>16, <2>1 DEF Rows, NoTask, s
  <2>3. PlanTypeOK'
    BY <1>1, <1>2, <1>3, <1>11, <2>2 DEF PlanTypeOK, Fires
  <2>4. NothingPassedOver'
    <3>1. Means(task.schedule, task.nextRun)'
      BY <1>8, <1>13, <1>16, <2>2
    <3>2. \A t \in (looked + 1 .. task.nextRun - 1)' : Means(task'.schedule, t) => Echoes(t)'
      BY <1>2, <1>8, <1>13, <1>16, <2>2
    <3> QED
      BY <1>13, <3>1, <3>2 DEF NothingPassedOver
  <2>5. FireKey(task.nextRun)' # FireKey(LastFire.at)'
    BY <1>2, <1>5, <1>8, <1>9, <1>12, <1>13, <1>16, <2>2 DEF FireKey
  <2>6. FiresAsWritten'
    BY <1>14, <1>15, <2>2, <2>4 DEF FiresAsWritten, GoneForCause
  <2> QED
    BY <1>7, <2>2, <2>3, <2>5, <2>6 DEF PlanInv
<1>17. CASE ~(task.recurring /\ n # Never)
  <2>1. task' = NoTask
    BY <1>6, <1>17
  <2>2. PlanTypeOK'
    BY <1>1, <1>2, <1>3, <1>11, <2>1 DEF PlanTypeOK, Fires
  <2>3. GoneForCause'
    <3>1. LastFire'.at = clock /\ LastFire'.row = task
      BY <1>5, <1>12
    <3>2. n = Never => \A t \in Scan(clock) : Means(s, t) => FireKey(t) = FireKey(clock)
      BY <1>7, <1>8
    <3>3. task.recurring => \A t \in Scan(LastFire.at)' : Means(LastFire.row.schedule, t)' => Echoes(t)'
      BY <1>13, <1>17, <3>1, <3>2 DEF Scan, s
    <3> QED
      BY <3>1, <3>3 DEF GoneForCause
  <2>4. FiresAsWritten'
    BY <1>14, <1>15, <2>1, <2>3 DEF FiresAsWritten, NothingPassedOver
  <2> QED
    BY <2>1, <2>2, <2>4 DEF PlanInv
<1> QED
  BY <1>16, <1>17

LEMMA PlanStep == PlanInv /\ [PlanNext]_planVars => PlanInv'
<1> SUFFICES ASSUME PlanInv, [PlanNext]_planVars PROVE PlanInv'
  OBVIOUS
<1>1. CASE Accept
  <2>1. PICK s \in Schedules, again \in BOOLEAN :
          /\ NextRun(s, clock, NoKey) # Never
          /\ task' = Row(s, again, NextRun(s, clock, NoKey))
    BY <1>1 DEF Accept
  <2>2. served' = <<>> /\ looked' = clock /\ UNCHANGED <<zone, clock>>
    BY <1>1 DEF Accept
  <2> QED
    BY <2>1, <2>2, PlannedInv
<1>2. CASE Rewrite
  <2> DEFINE n == NextRun(task.schedule, clock, NoKey)
  <2>1. task # NoTask /\ n # Never /\ task' = [task EXCEPT !.nextRun = n]
    BY <1>2 DEF Rewrite
  <2>2. task \in Rows
    BY <2>1 DEF PlanInv, PlanTypeOK
  <2>3. task' = Row(task.schedule, task.recurring, n)
    BY <2>1, <2>2 DEF Row, Rows
  <2>4. task.schedule \in Schedules /\ task.recurring \in BOOLEAN
    BY <2>2 DEF Rows
  <2>5. served' = <<>> /\ looked' = clock /\ UNCHANGED <<zone, clock>>
    BY <1>2 DEF Rewrite
  <2> QED
    BY <2>1, <2>3, <2>4, <2>5, PlannedInv
<1>3. CASE FireDue
  BY <1>3, FiredInv
<1>4. CASE MinutePasses \/ UNCHANGED planVars
  <2>1. UNCHANGED <<zone, task, looked, served>> /\ clock' \in Nat
    BY <1>4 DEF MinutePasses, planVars, PlanInv, PlanTypeOK
  <2>2. PlanTypeOK'
    BY <2>1 DEF PlanInv, PlanTypeOK
  <2>3. FiresAsWritten => FiresAsWritten'
    <3>a. \A t : /\ Means(task.schedule, t)' <=> Means(task.schedule, t)
                 /\ Echoes(t)' <=> Echoes(t)
      BY <2>1 DEF LastFire, Means, Matches, Civil, FireKey, ParseOneShot, Echoes
    <3>b. \A t : Means(LastFire.row.schedule, t)' <=> Means(LastFire.row.schedule, t)
      BY <2>1 DEF LastFire, Means, Matches, Civil, FireKey, ParseOneShot
    <3>c. Means(task.schedule, task.nextRun)' <=> Means(task.schedule, task.nextRun)
      BY <2>1, <3>a DEF Means, Matches, Civil, FireKey, ParseOneShot
    <3>1. NothingPassedOver => NothingPassedOver'
      BY <2>1, <3>a, <3>c DEF NothingPassedOver
    <3>2. NoEchoInARow => NoEchoInARow'
      BY <2>1 DEF NoEchoInARow, FireKey
    <3>3. GoneForCause => GoneForCause'
      BY <2>1, <3>a, <3>b DEF GoneForCause, LastFire, Scan
    <3> QED
      BY <2>1, <3>1, <3>2, <3>3 DEF FiresAsWritten
  <2> QED
    BY <2>1, <2>2, <2>3 DEF PlanInv, FireKey, LastFire
<1> QED
  BY <1>1, <1>2, <1>3, <1>4 DEF PlanNext

(* For any calendar, clock change and horizon of the scan: a task fires at *)
(* the times its schedule means and at no other, and is gone only when its *)
(* schedule has run out (evaluator.go:63-123, scheduler_loop.go:164-187).  *)
THEOREM TasksFireAsWritten == PlanSpec => []FiresAsWritten
<1>1. PlanInit => PlanInv
  <2> SUFFICES ASSUME PlanInit PROVE PlanInv
    OBVIOUS
  <2>1. \A S : <<>> \in Seq(S) /\ Len(<<>>) = 0
    OBVIOUS
  <2>2. PlanTypeOK
    BY <2>1, PlanAssumption DEF PlanInit, PlanTypeOK
  <2>3. FiresAsWritten
    BY DEF PlanInit, FiresAsWritten, NothingPassedOver, NoEchoInARow, GoneForCause
  <2> QED
    BY <2>2, <2>3 DEF PlanInit, PlanInv
<1>2. PlanInv => FiresAsWritten
  BY DEF PlanInv
<1> QED
  BY <1>1, <1>2, PlanStep, PTL DEF PlanSpec
=============================================================================
