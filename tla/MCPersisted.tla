----------------------------- MODULE MCPersisted -----------------------------
(***********************************************************************)
(* What a bot keeps from one run of the daemon to the next, in one run:   *)
(* its groups' contexts, its scheduled tasks, and the times of one task.  *)
(* A fire comes into a context as a turn, and a NextRun that has come is  *)
(* a due task, each modelled from its own side; so part says which one a  *)
(* behaviour is about, and the others stay where they began.              *)
(***********************************************************************)
EXTENDS CronTasks, GroupContext, Schedule, TLC

VARIABLE part

allVars == <<part, vars, groupVars, planVars>>

MCInit ==
  /\ part \in {"group", "cron", "plan"}
  /\ Init /\ GroupInit /\ PlanInit
  /\ part # "plan" => zone = [shift |-> PerHour, late |-> TRUE]
  /\ part # "plan" => \A b \in Beginnings : clock <= b

OfGroup(A) == part = "group" /\ A /\ UNCHANGED <<part, vars, planVars>>
OfCron(A) == part = "cron" /\ A /\ UNCHANGED <<part, groupVars, planVars>>
OfPlan(A) == part = "plan" /\ A /\ UNCHANGED <<part, vars, groupVars>>

MCNext == OfGroup(GroupNext) \/ OfCron(Next) \/ OfPlan(PlanNext)

MCSpec == MCInit /\ [][MCNext]_allVars

(* Nothing tells two task ids or two owners apart.                         *)
Alike == Permutations(Ids) \cup Permutations(Owners)
=============================================================================
