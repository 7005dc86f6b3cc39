----------------------------- MODULE GoalQueue -----------------------------
(***************************************************************************)
(* Who is served: the queue of pending goals behind one process that ticks *)
(* for ever, and the position of one watched goal in it.                   *)
(*                                                                         *)
(* Metacycle keeps every row and so has to bound their number, which cuts  *)
(* short what keeps a goal waiting: the goals that ticks create themselves *)
(* (metacycle/standing.py, metacycle/reflect.py) and that tick.py takes    *)
(* first.  Here a settled goal is forgotten, but for what the policies     *)
(* still ask about it, and goals may be created without end; only the      *)
(* number that waits at one time is bounded.                               *)
(***************************************************************************)
EXTENDS Integers, SequencesExt

CONSTANTS
  Standing,        \* the policies of the standing goals that are ACTIVE
  Alerts,          \* as in Metacycle: may a tick find an alert?
  Priorities,      \* priorities of goals that operators enter
  MaxDiagnoses,    \* metadata max_diagnoses_per_target
  MaxWaiting,      \* bound: goals that wait when one more is entered or
                   \* proposed by reflection; standing goals are not held back
  MaxDue           \* bound: diagnoses that are due at one time

Policies == {"on_alert_observation", "on_prev_verify_failure"}

ASSUME QueueAssumption ==
  /\ Standing \subseteq Policies /\ Alerts \subseteq BOOLEAN /\ Priorities \subseteq Nat
  /\ MaxDiagnoses \in Nat /\ MaxWaiting \in Nat /\ MaxDue \in Nat

VARIABLES
  waiting,         \* the PENDING goals, in row order
  open,            \* open[p]: the standing goal of policy p has an open child
  due,             \* diagnoses that failed goals may still be given
  pc,              \* the stage of the tick
  alerted,         \* the focus frame of the tick holds an alert
  todo,            \* standing goals the tick has still to check
  held,            \* the goal the tick works on; outside, the last one
  rank             \* history: the priority of the watched goal

vars == <<waiting, open, due, pc, alerted, todo, held, rank>>

(* parent is the policy whose child a goal is.                             *)
Row(prio, parent) == [prio |-> prio, parent |-> parent, watched |-> FALSE]
ChildPriority == 3
DiagnosisPriority == 2
InquiryPriority == 1
PriorityThreshold == 2

(* The watched goal is any: a task, an inquiry, or a child of a policy.    *)
Init ==
  /\ \E row \in {Row(prio, "none") : prio \in 0..ChildPriority}
                  \cup {Row(ChildPriority, "on_alert_observation"),
                        Row(DiagnosisPriority, "on_prev_verify_failure")} :
       /\ waiting = <<[row EXCEPT !.watched = TRUE]>>
       /\ open = [p \in Policies |-> p = row.parent]
       /\ held = row
       /\ rank = row.prio
  /\ due \in 0..MaxDue
  /\ pc = "idle" /\ alerted = FALSE /\ todo = {}

-----------------------------------------------------------------------------
(* Standing goals.                                                         *)

StartTick ==
  /\ pc = "idle"
  /\ alerted' \in Alerts
  /\ todo' = Standing
  /\ pc' = "standing"
  /\ UNCHANGED <<waiting, open, due, held, rank>>

(* Does the policy return a goal?                                          *)
Fires(p) ==
  CASE p = "on_alert_observation" -> alerted
    [] p = "on_prev_verify_failure" -> due > 0

Checks(p) == pc = "standing" /\ p \in todo /\ todo' = todo \ {p}

SkipStanding(p) ==
  /\ Checks(p)
  /\ open[p] \/ ~Fires(p)
  /\ UNCHANGED <<waiting, open, due, pc, alerted, held, rank>>

PolicyRaises(p) ==
  /\ Checks(p)
  /\ ~open[p]
  /\ UNCHANGED <<waiting, open, due, pc, alerted, held, rank>>

Spawns(p, prio) ==
  /\ Checks(p)
  /\ ~open[p] /\ Fires(p)
  /\ waiting' = Append(waiting, Row(prio, p))
  /\ open' = [open EXCEPT ![p] = TRUE]
  /\ UNCHANGED <<pc, alerted, held, rank>>

SpawnOnAlert ==
  /\ Spawns("on_alert_observation", ChildPriority)
  /\ UNCHANGED due

(* What is due once a diagnosis was spawned: its target has had it, also   *)
(* when the diagnosis is closed and the target is still FAILED.            *)
DueForever(d) == d

DueAfter(d) == d - 1

SpawnDiagnosis ==
  /\ Spawns("on_prev_verify_failure", DiagnosisPriority)
  /\ due' = DueAfter(due)

-----------------------------------------------------------------------------
(* Arbitration, and what becomes of the goal.                              *)

(* max(pending, key=priority): the first of the highest, in row order.     *)
IsTop(i) ==
  \A j \in 1..Len(waiting) :
    \/ waiting[j].prio < waiting[i].prio
    \/ waiting[j].prio = waiting[i].prio /\ i <= j

IdleTick ==
  /\ pc = "standing" /\ todo = {} /\ waiting = <<>>
  /\ pc' = "idle"
  /\ UNCHANGED <<waiting, open, due, alerted, todo, held, rank>>

(* The read of the board and the write of ACTIVE are one step: what others *)
(* enter between the two could as well have come after it.                 *)
TakeGoal ==
  /\ pc = "standing" /\ todo = {}
  /\ \E i \in 1..Len(waiting) :
       /\ IsTop(i)
       /\ held' = waiting[i]
       /\ waiting' = RemoveAt(waiting, i)
  /\ pc' = "run"
  /\ UNCHANGED <<open, due, alerted, todo, rank>>

(* A settled child is not open any more; an undetermined one stays ACTIVE. *)
Closed(p) == [q \in Policies |-> open[q] /\ q # p]

(* A FAILED goal that is important enough is due for diagnosis, unless it  *)
(* is a diagnosis itself.                                                  *)
IsRelevant(row) == row.prio >= PriorityThreshold /\ row.parent # "on_prev_verify_failure"

Settle ==
  /\ pc = "run"
  /\ \/ pc' = "idle" /\ open' = Closed(held.parent) /\ UNCHANGED due
     \/ pc' = "idle" /\ UNCHANGED <<open, due>>
     \/ /\ pc' = "reflect" /\ open' = Closed(held.parent)
        /\ due' = IF IsRelevant(held) THEN Min({due + MaxDiagnoses, MaxDue}) ELSE due
  /\ UNCHANGED <<waiting, alerted, todo, held, rank>>

ReflectQuietly ==
  /\ pc = "reflect"
  /\ pc' = "idle"
  /\ UNCHANGED <<waiting, open, due, alerted, todo, held, rank>>

ReflectInquiry ==
  /\ pc = "reflect"
  /\ Len(waiting) < MaxWaiting
  /\ waiting' = Append(waiting, Row(InquiryPriority, "none"))
  /\ pc' = "idle"
  /\ UNCHANGED <<open, due, alerted, todo, held, rank>>

(* An exception leaves run_tick.  The goal, if one was taken, stays ACTIVE *)
(* for ever, and open if it is a child.                                    *)
TickAborts ==
  /\ pc # "idle"
  /\ pc' = "idle" /\ todo' = {}
  /\ UNCHANGED <<waiting, open, due, alerted, held, rank>>

-----------------------------------------------------------------------------
(* Operators.                                                              *)

(* enter-goal, POST /goals: the newest row.                                *)
EnterGoal ==
  /\ Len(waiting) < MaxWaiting
  /\ \E prio \in Priorities : waiting' = Append(waiting, Row(prio, "none"))
  /\ UNCHANGED <<open, due, pc, alerted, todo, held, rank>>

(* approve, or a stale copy of a pending goal written back by an edit: a   *)
(* row that is pending again, ahead of one that was created later.         *)
ReturnGoal ==
  /\ Len(waiting) < MaxWaiting
  /\ \E prio \in Priorities, i \in 1..Len(waiting) :
       waiting' = InsertAt(waiting, i, Row(prio, "none"))
  /\ UNCHANGED <<open, due, pc, alerted, todo, held, rank>>

(* abandon, of a goal that waits or of a child that was left ACTIVE.       *)
AbandonWaiting ==
  /\ \E i \in 1..Len(waiting) :
       waiting' = RemoveAt(waiting, i) /\ open' = Closed(waiting[i].parent)
  /\ UNCHANGED <<due, pc, alerted, todo, held, rank>>

AbandonOrphan ==
  /\ \E p \in Policies :
       /\ open[p] /\ ~(pc = "run" /\ held.parent = p)
       /\ \A i \in 1..Len(waiting) : waiting[i].parent # p
       /\ open' = Closed(p)
  /\ UNCHANGED <<waiting, due, pc, alerted, todo, held, rank>>

-----------------------------------------------------------------------------

(* The steps a tick takes by itself; WF as for Metacycle.                  *)
TickStep ==
  \/ StartTick \/ (\E p \in Policies : SkipStanding(p))
  \/ SpawnOnAlert \/ SpawnDiagnosis \/ IdleTick \/ TakeGoal \/ Settle
  \/ ReflectQuietly \/ ReflectInquiry

Next ==
  \/ TickStep \/ (\E p \in Policies : PolicyRaises(p)) \/ TickAborts
  \/ EnterGoal \/ ReturnGoal \/ AbandonWaiting \/ AbandonOrphan

FairSpec == Init /\ [][Next]_vars /\ WF_vars(TickStep)
-----------------------------------------------------------------------------
(* Properties.                                                             *)

Waits == \E i \in 1..Len(waiting) : waiting[i].watched

(* A pending goal waits for ever only if it is overtaken without end, and  *)
(* this is all that may overtake it: inquiries of reflection if its own    *)
(* priority is 0, alerts if it is below 3, goals that operators enter      *)
(* above it or return to the queue; or if tick after tick is cut short.    *)
(* Diagnoses of failures do not keep a goal waiting by themselves.         *)
PendingServed ==
  \/ <>~Waits
  \/ rank < InquiryPriority /\ []<><<ReflectInquiry>>_vars
  \/ rank < ChildPriority /\ []<><<SpawnOnAlert>>_vars
  \/ (\E prio \in Priorities : prio > rank) /\ []<><<EnterGoal>>_vars
  \/ (\E prio \in Priorities : prio >= rank) /\ []<><<ReturnGoal>>_vars
  \/ []<><<TickAborts>>_vars
=============================================================================
