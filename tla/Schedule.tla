------------------------------- MODULE Schedule -------------------------------
(***************************************************************************)
(* When a scheduled task fires: the five-field expressions and one-shot    *)
(* times of core/cron (evaluator.go, oneshot.go), what Create and Update   *)
(* accept (tasks.go), and the scheduler's step from one occurrence to the  *)
(* next (scheduler_loop.go), for one task.                                 *)
(*                                                                         *)
(* Instants are minutes of absolute time.  The calendar is a small one     *)
(* that keeps what makes the real one hard: days of the month and of the   *)
(* week, a date only leap years have, a clock change that repeats or skips *)
(* an hour.  An expression is its parts, not its text.  Between two ticks  *)
(* time passes as it likes: the machine may sleep, the daemon be down.     *)
(***************************************************************************)
EXTENDS Integers, Sequences

CONSTANTS PerHour, HoursPerDay, DaysPerWeek,   (* the small calendar       *)
          MaxScan,   (* maxScanMinutes: the length of a leap year          *)
          Shift,     (* when the clocks change                             *)
          Beginnings,(* bound: instants at which a behaviour may begin     *)
          Span       (* bound: the minutes it lasts                        *)

ASSUME PlanAssumption ==
  /\ PerHour \in Nat /\ MaxScan \in Nat /\ Shift \in Nat /\ PerHour <= Shift
  /\ Beginnings \subseteq Nat

Never == -1

VARIABLES zone,      (* by how much the clocks change, and which of the    *)
                     (* two readings time.Date gives an ambiguous hour     *)
          clock,     (* Manager.now                                        *)
          task,      (* the task's row in cron.json                        *)
          looked,    (* history: when NextRun was computed                 *)
          served      (* history: its last two fires since it was written   *)

planVars == <<zone, clock, task, looked, served>>

-----------------------------------------------------------------------------
(* Local time: a cycle of two years of two months, the second with a day   *)
(* more at its end.                                                        *)

MonthStarts == <<0, 2, 4, 6, 9>>
PerDay == PerHour * HoursPerDay

(* fireKey: what the clock on the wall shows.                              *)
FireKey(t) == IF t < Shift THEN t ELSE t + zone.shift

Civil(t) ==
  LET days == FireKey(t) \div PerDay
      day == days % MonthStarts[5]
      m == CHOOSE k \in 1..4 : MonthStarts[k] <= day /\ day < MonthStarts[k + 1]
  IN  [minute |-> FireKey(t) % PerHour,
       hour   |-> (FireKey(t) \div PerHour) % HoursPerDay,
       dom    |-> day - MonthStarts[m] + 1,
       month  |-> ((m - 1) % 2) + 1,
       dow    |-> days % DaysPerWeek]

-----------------------------------------------------------------------------
(* Expressions: to each field a set of parts "*", "a" or "a-b", each with  *)
(* or without a "/step".                                                   *)

Fields == {"minute", "hour", "dom", "month", "dow"}
Least == [minute |-> 0, hour |-> 0, dom |-> 1, month |-> 1, dow |-> 0]
Greatest == [minute |-> PerHour - 1, hour |-> HoursPerDay - 1, dom |-> 3,
             month |-> 2, dow |-> DaysPerWeek - 1]

NoStep == 0
Star == [form |-> "*", a |-> 0, b |-> 0, step |-> NoStep]
Value(a) == [form |-> "a", a |-> a, b |-> 0, step |-> NoStep]

(* parseFieldRange: "a/step" goes on to the greatest value.                *)
Low(p, f) == IF p.form = "*" THEN Least[f] ELSE p.a
High(p, f) == CASE p.form = "a-b" -> p.b
                [] p.form = "a" /\ p.step = NoStep -> p.a
                [] OTHER -> Greatest[f]

(* parseField, for one part.                                               *)
PartValid(p, f) ==
  /\ Least[f] <= Low(p, f) /\ Low(p, f) <= High(p, f) /\ High(p, f) <= Greatest[f]

InPart(v, p, f) ==
  /\ Low(p, f) <= v /\ v <= High(p, f)
  /\ p.step = NoStep \/ (v - Low(p, f)) % p.step = 0

ExpressionValid(e) == \A f \in Fields : \A p \in e[f] : PartValid(p, f)

(* A star with a step of one is everything, and yet restricts.             *)
Restricts(e, f) == e[f] # {Star}

Matches(e, t) ==
  LET now == Civil(t)
      Ok(f) == \E p \in e[f] : InPart(now[f], p, f)
  IN  /\ Ok("minute") /\ Ok("hour") /\ Ok("month")
      /\ Ok("dom") \/ Ok("dow")
      /\ (Ok("dom") /\ Ok("dow")) \/ (Restricts(e, "dom") /\ Restricts(e, "dow"))

-----------------------------------------------------------------------------
(* One-shot times: an instant, or a local time.  The clock change gives    *)
(* some local times two instants and others none.                          *)

ParseOneShot(o) ==
  LET first == IF zone.late THEN o.at - zone.shift ELSE o.at
      other == IF zone.late THEN o.at ELSE o.at - zone.shift
  IN  CASE o.form = "instant" -> o.at
        [] o.form = "local" -> IF FireKey(first) # o.at /\ FireKey(other) = o.at
                               THEN other ELSE first
        [] OTHER -> Never

-----------------------------------------------------------------------------
(* computeNextRunSkipping.                                                 *)

NoKey == -100

Scan(from) == from + 1 .. from + MaxScan

Occurrences(e, from, skip) == {t \in Scan(from) : Matches(e, t) /\ FireKey(t) # skip}

NextRun(s, from, skip) ==
  IF s.oneShot
  THEN IF ParseOneShot(s.when) > from THEN ParseOneShot(s.when) ELSE Never
  ELSE LET ts == IF ExpressionValid(s.fields) THEN Occurrences(s.fields, from, skip) ELSE {}
       IN  IF ts = {} THEN Never ELSE CHOOSE t \in ts : \A u \in ts : t <= u

-----------------------------------------------------------------------------
(* What may be asked for: one field in any form, one more at its least    *)
(* value or "*", the others "*"; or a one-shot time around the change.     *)

Parts(f) ==
  LET values == Least[f] .. Greatest[f] + 1
  IN  [form : {"*"}, a : {0}, b : {0}, step : 0..2]
        \cup [form : {"a"}, a : values, b : {0}, step : {NoStep, 2}]
        \cup [form : {"a-b"}, a : values, b : values, step : {NoStep, 2}]

Lists(f) == {{p} : p \in Parts(f)} \cup {{Value(Least[f]), Value(Greatest[f])}}

Partner == [minute |-> "hour", hour |-> "minute", dom |-> "dow", dow |-> "dom", month |-> "dom"]

Everything == [f \in Fields |-> {Star}]

Expressions(f) ==
  {[Everything EXCEPT ![f] = x, ![Partner[f]] = y] :
      x \in Lists(f), y \in {{Star}, {Value(Least[Partner[f]])}}}

OneShots == [form : {"instant", "local", "bad"}, at : Shift - PerHour .. Shift + PerHour]

Schedules ==
  [oneShot : {FALSE}, when : {[form |-> "none", at |-> 0]}, fields : UNION {Expressions(f) : f \in Fields}]
    \cup [oneShot : {TRUE}, when : OneShots, fields : {Everything}]

-----------------------------------------------------------------------------
NoTask == [nextRun |-> Never]

PlanInit ==
  /\ zone \in [shift : {-PerHour, PerHour}, late : BOOLEAN]
  /\ clock \in Beginnings
  /\ task = NoTask
  /\ looked = clock /\ served = <<>>

Row(s, again, next) == [schedule |-> s, recurring |-> again, nextRun |-> next]

(* prepareCronCreate: the caller may say of any schedule that it recurs or *)
(* not.  What never comes is refused.                                      *)
Accept ==
  /\ task = NoTask /\ served = <<>>
  /\ \E s \in Schedules, again \in BOOLEAN :
       /\ NextRun(s, clock, NoKey) # Never
       /\ task' = Row(s, again, NextRun(s, clock, NoKey))
  /\ looked' = clock
  /\ UNCHANGED <<zone, clock, served>>

(* A full update; with another schedule it is as if created anew.          *)
Rewrite ==
  /\ task # NoTask
  /\ \E next \in {NextRun(task.schedule, clock, NoKey)} :
       next # Never /\ task' = [task EXCEPT !.nextRun = next]
  /\ looked' = clock /\ served' = <<>>
  /\ UNCHANGED <<zone, clock>>

(* Between two ticks, or while the task is disabled.                      *)
MinutePasses ==
  /\ \E b \in Beginnings : clock \in b .. b + Span - 1
  /\ clock' = clock + 1
  /\ UNCHANGED <<zone, task, looked, served>>

(* isCronTaskDue                                                           *)
IsDue == task # NoTask /\ task.nextRun <= clock

(* Deviation: the minute that just fired is not skipped.                   *)
AdvancedTwice(row, now) ==
  LET next == NextRun(row.schedule, now, NoKey)
  IN  IF row.recurring /\ next # Never THEN [row EXCEPT !.nextRun = next] ELSE NoTask

(* advanceFiredCronTask: what is skipped is the minute of now.             *)
Advanced(row, now) ==
  LET next == NextRun(row.schedule, now, FireKey(now))
  IN  IF row.recurring /\ next # Never THEN [row EXCEPT !.nextRun = next] ELSE NoTask

FireDue ==
  /\ IsDue
  /\ task' = Advanced(task, clock)
  /\ served' = (IF served = <<>> THEN <<>> ELSE <<served[Len(served)]>>)
                \o <<[due |-> task.nextRun, at |-> clock, row |-> task]>>
  /\ looked' = clock
  /\ UNCHANGED <<zone, clock>>

PlanNext == Accept \/ Rewrite \/ MinutePasses \/ FireDue

PlanSpec == PlanInit /\ [][PlanNext]_planVars

-----------------------------------------------------------------------------
(* Properties.                                                             *)

LastFire == served[Len(served)]
Means(s, t) == IF s.oneShot THEN t = ParseOneShot(s.when) ELSE Matches(s.fields, t)

(* The one minute that may be left out: what the clock showed at the fire. *)
Echoes(t) == served # <<>> /\ FireKey(t) = FireKey(LastFire.at)

(* No minute the schedule means lies between two of its occurrences.       *)
NothingPassedOver ==
  task # NoTask =>
    /\ Means(task.schedule, task.nextRun)
    /\ \A t \in looked + 1 .. task.nextRun - 1 : Means(task.schedule, t) => Echoes(t)

(* Of a task that fires in the minute it is due, the hour that comes twice *)
(* does not give the same minute twice in a row.                           *)
NoEchoInARow ==
  Len(served) = 2 =>
    \/ served[1].at # served[1].due
    \/ FireKey(served[1].due) # FireKey(served[2].due)

(* A task is gone only when it fired for the last time: it was to fire     *)
(* once, or what it means does not come within a leap year.                *)
GoneForCause ==
  task = NoTask /\ served # <<>> =>
    \/ ~LastFire.row.recurring
    \/ \A t \in Scan(LastFire.at) : Means(LastFire.row.schedule, t) => Echoes(t)

(* A task fires at the times its schedule means, on the clock people read, *)
(* however late the ticks come and whatever the clock does: no occurrence  *)
(* is early, passed over or repeated at once, and no task lost before its  *)
(* schedule has run out.                                                   *)
FiresAsWritten ==
  /\ \A i \in DOMAIN served : served[i].due <= served[i].at
  /\ NothingPassedOver /\ NoEchoInARow /\ GoneForCause
=============================================================================
