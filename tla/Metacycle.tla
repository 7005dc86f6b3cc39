----------------------------- MODULE Metacycle -----------------------------
(***************************************************************************)
(* The metacycle tick (metacycle/tick.py, metacycle/standing.py) of one or *)
(* more agent processes, and the operators (operator/cli.py and            *)
(* webui/routers/api_goals.py), all working on one goal repository.        *)
(*                                                                         *)
(* A tick reads the board, keeps a goal object in memory while the ReAct   *)
(* loop runs, and writes the whole object back at the end; an operator     *)
(* handler reads a goal, checks its status and writes the whole object     *)
(* back.  Nothing locks the board between a read and the write that        *)
(* follows, so each of those is an action of its own.                      *)
(***************************************************************************)
EXTENDS GoalStore

CONSTANTS
  Agents,          \* processes that run ticks: run-loop, and run-tick beside it
  Operators,       \* CLI commands and console requests being served
  None,            \* the absence of a goal object
  Boards,          \* the boards a run may start from
  Operations,      \* what operators do, a subset of OperationKind
  Alerts,          \* whether a tick's event queue holds an alert: the CLI's
                   \* loops pass an empty queue ({FALSE}), an embedder may not
  Priorities,      \* priorities given to new goals by operators
  Predicates,      \* predicates given to them, a subset of PredicateKind
  MaxDiagnoses,    \* metadata max_diagnoses_per_target (1 by default)
  MaxGoals,        \* bound: rows of the board
  MaxEdits,        \* bound: budget edits of one goal
  MaxAborts        \* bound: ticks that end in an exception or a crash

OperationKind == {"approve", "reject", "abandon", "budget", "create", "bootstrap"}

(* The boards a run may start from: no trajectories yet, nothing picked up *)
(* (only a standing goal is ACTIVE), no children and no edits.             *)
FreshRow(row) ==
  /\ \/ row.status \in {"pending", "pending_approval"}
     \/ row.class = "standing" /\ row.status = "active"
  /\ row.parent = 0 /\ row.target = 0 /\ row.edits = 0

ASSUME BoardsAssumption ==
  /\ Boards \subseteq Seq(Goal)
  /\ \A b \in Boards : Len(b) <= MaxGoals /\ \A g \in 1..Len(b) : FreshRow(b[g])

ASSUME ConstantsAssumption ==
  /\ IsFiniteSet(Agents)
  /\ Operations \subseteq OperationKind
  /\ Alerts \subseteq BOOLEAN
  /\ Priorities \subseteq Nat /\ Predicates \subseteq PredicateKind
  /\ MaxDiagnoses \in Nat /\ MaxGoals \in Nat /\ MaxEdits \in Nat /\ MaxAborts \in Nat

VARIABLES
  goals,           \* the board
  runs,            \* runs[g]: trajectories of goal g in the episodic store
  pc,              \* pc[a]: the stage agent a's tick has reached
  alert,           \* alert[a]: the focus frame holds an item of urgency >= 0.9
  todo,            \* todo[a]: standing goals this tick has still to check
  held,            \* held[a]: the goal object of the tick, None outside
  verdict,         \* verdict[a]: what verify_stage concluded
  op,              \* op[u]: the goal object of operator u's handler
  boot,            \* boot[u]: standing policies bootstrap has still to create
  aborts,          \* ticks that have ended in an exception so far
  gated,           \* history: goals that started as PENDING_APPROVAL
  approved         \* history: goals on which some approve() was written

boardVars == <<goals, runs>>
agentVars == <<pc, alert, todo, held, verdict>>
operatorVars == <<op, boot>>
historyVars == <<gated, approved>>
vars == <<goals, runs, pc, alert, todo, held, verdict, op, boot, aborts, gated, approved>>

GoalIds == 1..MaxGoals
Stage == {"idle", "standing", "spawn", "activate", "run", "record", "settle", "reflect"}
VerdictStatus == {"none", "success", "fail", "undetermined"}
Held == [id : Nat, row : Goal]
Request == [kind : OperationKind, id : Nat, row : Goal]

ASSUME NoneAssumption == None \notin Held \cup Request

Init ==
  /\ goals \in Boards
  /\ runs = [g \in GoalIds |-> 0]
  /\ pc = [a \in Agents |-> "idle"]
  /\ alert = [a \in Agents |-> FALSE]
  /\ todo = [a \in Agents |-> {}]
  /\ held = [a \in Agents |-> None]
  /\ verdict = [a \in Agents |-> "none"]
  /\ op = [u \in Operators |-> None]
  /\ boot = [u \in Operators |-> {}]
  /\ aborts = 0
  /\ gated = ListByStatus(goals, "pending_approval")
  /\ approved = {}

(* Room for one more row, counting the ones that agents have decided on.   *)
(* This bound is for the safety properties: it cuts short what ticks spawn *)
(* without end, and GoalQueue says what that means for who is served.      *)
Room == Len(goals) + Cardinality({a \in Agents : pc[a] = "spawn"}) < MaxGoals

-----------------------------------------------------------------------------
(* Standing goals: reactive policies checked at the head of every tick.    *)

OpenStatus == {"pending", "active", "pending_approval"}

HasOpenChildIgnoringActive(board, sg) ==
  \E c \in ListChildren(board, sg) : board[c].status \in OpenStatus \ {"active"}

HasOpenChild(board, sg) ==
  \E c \in ListChildren(board, sg) : board[c].status \in OpenStatus

ActiveStanding(board) ==
  {g \in ListByClass(board, "standing") :
     board[g].status = "active" /\ board[g].policy # "none"}

(* Starter metadata: priority_threshold 2, child_priority 3.               *)
PriorityThreshold == 2
ChildPriority == 3

DiagnosesStillOpen(board, sg, f) ==
  {c \in ListChildren(board, sg) : board[c].target = f /\ board[c].status \notin Terminal}

Diagnoses(board, sg, f) ==
  {c \in ListChildren(board, sg) : board[c].target = f}

UndiagnosedBesidesOpen(board, sg) ==
  {f \in ListByStatus(board, "failed") :
     /\ board[f].prio >= PriorityThreshold
     /\ board[f].parent # sg
     /\ Cardinality(DiagnosesStillOpen(board, sg, f)) < MaxDiagnoses}

(* FAILED goals the policy would diagnose.  The code takes the one written *)
(* last (max by updated_at); which one comes first is left open here, as   *)
(* no property depends on it.                                              *)
Undiagnosed(board, sg) ==
  {f \in ListByStatus(board, "failed") :
     /\ board[f].prio >= PriorityThreshold
     /\ board[f].parent # sg
     /\ Cardinality(Diagnoses(board, sg, f)) < MaxDiagnoses}

SpawnedRow(sg, prio, target) ==
  [NewGoal("inquiry", prio, "judge") EXCEPT !.parent = sg, !.target = target]

(* The goals the policy of sg may return, {} when it returns None.         *)
Proposals(board, sg, alerted) ==
  CASE board[sg].policy = "on_alert_observation" ->
         IF alerted THEN {SpawnedRow(sg, ChildPriority, 0)} ELSE {}
    [] board[sg].policy = "on_prev_verify_failure" ->
         {SpawnedRow(sg, 2, f) : f \in Undiagnosed(board, sg)}
    [] OTHER -> {}

(* What the tick may create for sg now: nothing while a child is open.     *)
Wanted(a, sg) ==
  IF HasOpenChild(goals, sg) \/ ~Room THEN {} ELSE Proposals(goals, sg, alert[a])

IsFirst(g, S) == g \in S /\ \A h \in S : g <= h

(* The tick is over, or was cut short: its TickState is dropped.           *)
EndTick(a) ==
  /\ pc' = [pc EXCEPT ![a] = "idle"]
  /\ alert' = [alert EXCEPT ![a] = FALSE]
  /\ todo' = [todo EXCEPT ![a] = {}]
  /\ held' = [held EXCEPT ![a] = None]
  /\ verdict' = [verdict EXCEPT ![a] = "none"]

(* sense, attend, and list_by_class(STANDING).                             *)
StartTick(a) ==
  /\ pc[a] = "idle"
  /\ \E alerted \in Alerts : alert' = [alert EXCEPT ![a] = alerted]
  /\ todo' = [todo EXCEPT ![a] = ActiveStanding(goals)]
  /\ pc' = [pc EXCEPT ![a] = "standing"]
  /\ UNCHANGED <<boardVars, held, verdict, operatorVars, aborts, historyVars>>

(* A child is open, or the policy returns None.                            *)
SkipStanding(a) ==
  /\ pc[a] = "standing"
  /\ \E sg \in todo[a] :
       /\ IsFirst(sg, todo[a])
       /\ Wanted(a, sg) = {}
       /\ todo' = [todo EXCEPT ![a] = @ \ {sg}]
  /\ UNCHANGED <<boardVars, pc, alert, held, verdict, operatorVars, aborts, historyVars>>

(* The policy raises: check_standing_goals logs it and goes on.            *)
PolicyRaises(a) ==
  /\ pc[a] = "standing"
  /\ \E sg \in todo[a] :
       /\ IsFirst(sg, todo[a])
       /\ ~HasOpenChild(goals, sg)
       /\ todo' = [todo EXCEPT ![a] = @ \ {sg}]
  /\ UNCHANGED <<boardVars, pc, alert, held, verdict, operatorVars, aborts, historyVars>>

(* The policy returns a goal; it is created in a transaction of its own.   *)
DecideSpawn(a) ==
  /\ pc[a] = "standing"
  /\ \E sg \in todo[a] :
       /\ IsFirst(sg, todo[a])
       /\ \E row \in Wanted(a, sg) :
            held' = [held EXCEPT ![a] = [id |-> 0, row |-> row]]
       /\ todo' = [todo EXCEPT ![a] = @ \ {sg}]
  /\ pc' = [pc EXCEPT ![a] = "spawn"]
  /\ UNCHANGED <<boardVars, alert, verdict, operatorVars, aborts, historyVars>>

CreateSpawned(a) ==
  /\ pc[a] = "spawn"
  /\ Len(goals) < MaxGoals
  /\ goals' = Create(goals, held[a].row)
  /\ held' = [held EXCEPT ![a] = None]
  /\ pc' = [pc EXCEPT ![a] = "standing"]
  /\ UNCHANGED <<runs, alert, todo, verdict, operatorVars, aborts, historyVars>>

-----------------------------------------------------------------------------
(* goal_arbitration ... store.                                             *)

PickableUnapproved(board) ==
  ListByStatus(board, "pending") \cup ListByStatus(board, "pending_approval")

Pickable(board) == ListByStatus(board, "pending")

(* max(pending, key=priority): the first of the highest, in row order.     *)
IsTopGoal(board, g) ==
  /\ g \in Pickable(board)
  /\ \A h \in Pickable(board) :
       \/ board[h].prio < board[g].prio
       \/ board[h].prio = board[g].prio /\ g <= h

IdleTick(a) ==
  /\ pc[a] = "standing" /\ todo[a] = {}
  /\ Pickable(goals) = {}
  /\ EndTick(a)
  /\ UNCHANGED <<boardVars, operatorVars, aborts, historyVars>>

PickGoal(a) ==
  /\ pc[a] = "standing" /\ todo[a] = {}
  /\ \E g \in Pickable(goals) :
       /\ IsTopGoal(goals, g)
       /\ held' = [held EXCEPT ![a] =
                     [id |-> g, row |-> [goals[g] EXCEPT !.status = "active"]]]
  /\ pc' = [pc EXCEPT ![a] = "activate"]
  /\ alert' = [alert EXCEPT ![a] = FALSE]     \* the standing context is gone
  /\ UNCHANGED <<boardVars, todo, verdict, operatorVars, aborts, historyVars>>

Activate(a) ==
  /\ pc[a] = "activate"
  /\ goals' = Update(goals, held[a].id, held[a].row)
  /\ pc' = [pc EXCEPT ![a] = "run"]
  /\ UNCHANGED <<runs, alert, todo, held, verdict, operatorVars, aborts, historyVars>>

(* What verify() may conclude.  A judge answers, or fails to; a structural *)
(* predicate asks for a final state; the state_change predicate that the   *)
(* CLI and the console build names no tool, and so is never determined.    *)
VerdictsOf(pred, finalState) ==
  CASE pred = "judge" -> {"success", "fail", "undetermined"}
    [] pred = "structural" -> IF finalState THEN {"success"} ELSE {"fail"}
    [] pred = "state_change" -> {"undetermined"}

(* recall, react_loop, verify, world_update: none of them writes the board *)
(* or reads it again.                                                      *)
Execute(a) ==
  /\ pc[a] = "run"
  /\ \E finalState \in BOOLEAN :
       \E v \in VerdictsOf(held[a].row.pred, finalState) :
         verdict' = [verdict EXCEPT ![a] = v]
  /\ pc' = [pc EXCEPT ![a] = "record"]
  /\ UNCHANGED <<boardVars, alert, todo, held, operatorVars, aborts, historyVars>>

(* store_stage writes the trajectory to the episodic store ...             *)
RecordedNothing(r, g) == r

Recorded(r, g) == [r EXCEPT ![g] = @ + 1]

RecordTrajectory(a) ==
  /\ pc[a] = "record"
  /\ runs' = Recorded(runs, held[a].id)
  /\ pc' = [pc EXCEPT ![a] = "settle"]
  /\ UNCHANGED <<goals, alert, todo, held, verdict, operatorVars, aborts, historyVars>>

(* ... and then the goal, which an undetermined verdict leaves ACTIVE.     *)
StatusAfterRaw(v, status) == IF v = "undetermined" THEN v ELSE status

StatusAfterRetry(v, status) ==
  CASE v = "success" -> "done" [] v = "fail" -> "pending" [] OTHER -> status

StatusAfter(v, status) ==
  CASE v = "success" -> "done" [] v = "fail" -> "failed" [] OTHER -> status

Settle(a) ==
  /\ pc[a] = "settle"
  /\ goals' = Update(goals, held[a].id,
                     [held[a].row EXCEPT !.status = StatusAfter(verdict[a], @)])
  /\ IF verdict[a] = "fail"
       THEN /\ pc' = [pc EXCEPT ![a] = "reflect"]
            /\ UNCHANGED <<alert, todo, held, verdict>>
       ELSE EndTick(a)
  /\ UNCHANGED <<runs, operatorVars, aborts, historyVars>>

(* Reflection on a failure: it may propose an inquiry about the goal, or   *)
(* propose nothing, or fail in the language model or in the repository.    *)
InquiryRow(g) == [NewGoal("inquiry", 1, "judge") EXCEPT !.parent = g]

ReflectQuietly(a) ==
  /\ pc[a] = "reflect"
  /\ EndTick(a)
  /\ UNCHANGED <<boardVars, operatorVars, aborts, historyVars>>

ReflectInquiry(a) ==
  /\ pc[a] = "reflect"
  /\ Room
  /\ goals' = Create(goals, InquiryRow(held[a].id))
  /\ EndTick(a)
  /\ UNCHANGED <<runs, operatorVars, aborts, historyVars>>

(* An exception of the repository, of recall, of the episodic store or of  *)
(* the skill registry leaves run_tick; run-loop counts it and goes on.  A  *)
(* killed process that is started again looks the same from the board.     *)
TickAborts(a) ==
  /\ pc[a] # "idle"
  /\ aborts < MaxAborts
  /\ aborts' = aborts + 1
  /\ EndTick(a)
  /\ UNCHANGED <<boardVars, operatorVars, historyVars>>

-----------------------------------------------------------------------------
(* Operators.                                                              *)

OperatorFree(u) == op[u] = None /\ boot[u] = {}

ApprovableUnlessDone(row) == row.status # "done"

Approvable(row) == row.status = "pending_approval"

(* The status check of each handler ...                                    *)
Accepts(kind, row) ==
  CASE kind \in {"approve", "reject"} -> Approvable(row)
    [] kind = "abandon" -> row.status \notin Terminal
    [] kind = "budget" -> row.status \notin Terminal /\ row.edits < MaxEdits

(* ... and what it makes of its copy of the goal.                          *)
Edited(kind, row) ==
  CASE kind = "approve" -> [row EXCEPT !.status = "pending"]
    [] kind \in {"reject", "abandon"} -> [row EXCEPT !.status = "abandoned"]
    [] kind = "budget" -> [row EXCEPT !.edits = @ + 1]

(* repo.get(), the check, the edit in memory.  A bulk request is a series  *)
(* of these, one goal after another.                                       *)
ReadGoal(u) ==
  /\ OperatorFree(u)
  /\ \E kind \in Operations \ {"create", "bootstrap"}, g \in 1..Len(goals) :
       /\ Accepts(kind, goals[g])
       /\ op' = [op EXCEPT ![u] =
                   [kind |-> kind, id |-> g, row |-> Edited(kind, goals[g])]]
  /\ UNCHANGED <<boardVars, agentVars, boot, aborts, historyVars>>

(* repo.update().                                                          *)
WriteGoal(u) ==
  /\ op[u] # None
  /\ goals' = Update(goals, op[u].id, op[u].row)
  /\ approved' = IF op[u].kind = "approve" THEN approved \cup {op[u].id} ELSE approved
  /\ op' = [op EXCEPT ![u] = None]
  /\ UNCHANGED <<runs, agentVars, boot, aborts, gated>>

(* enter-goal and POST /goals: any class, always PENDING.                  *)
EnterGoal(u) ==
  /\ OperatorFree(u)
  /\ "create" \in Operations
  /\ Room
  /\ \E class \in {"task", "standing"}, prio \in Priorities, pred \in Predicates :
       goals' = Create(goals, NewGoal(class, prio, pred))
  /\ UNCHANGED <<runs, agentVars, operatorVars, aborts, historyVars>>

(* bootstrap-standing: the policies that no standing goal names yet ...    *)
PoliciesPresent(board) == {board[g].policy : g \in ListByClass(board, "standing")}

PoliciesActive(board) == {board[g].policy : g \in ActiveStanding(board)}

MissingPoliciesIfDropped(board) == Policies \ PoliciesActive(board)

MissingPolicies(board) == Policies \ PoliciesPresent(board)

ReadPolicies(u) ==
  /\ OperatorFree(u)
  /\ "bootstrap" \in Operations
  /\ boot' = [boot EXCEPT ![u] = MissingPolicies(goals)]
  /\ UNCHANGED <<boardVars, agentVars, op, aborts, historyVars>>

(* ... are created one by one, in the order of the starter list.           *)
StandingRow(policy) ==
  [NewGoal("standing", 0, "judge") EXCEPT !.status = "active", !.policy = policy]

CreateStanding(u) ==
  /\ Room
  /\ \E policy \in boot[u] :
       /\ policy = "on_prev_verify_failure" => "on_alert_observation" \notin boot[u]
       /\ goals' = Create(goals, StandingRow(policy))
       /\ boot' = [boot EXCEPT ![u] = @ \ {policy}]
  /\ UNCHANGED <<runs, agentVars, op, aborts, historyVars>>

(* The command or the console dies between its read and its write.         *)
OperatorStops(u) ==
  /\ ~OperatorFree(u)
  /\ op' = [op EXCEPT ![u] = None]
  /\ boot' = [boot EXCEPT ![u] = {}]
  /\ UNCHANGED <<boardVars, agentVars, aborts, historyVars>>

-----------------------------------------------------------------------------

(* The steps of a tick that the process takes by itself, as opposed to the *)
(* faults that strike it.                                                  *)
TickStep(a) ==
  \/ StartTick(a) \/ SkipStanding(a) \/ DecideSpawn(a) \/ CreateSpawned(a)
  \/ IdleTick(a) \/ PickGoal(a) \/ Activate(a) \/ Execute(a)
  \/ RecordTrajectory(a) \/ Settle(a) \/ ReflectQuietly(a) \/ ReflectInquiry(a)

AgentStep(a) == TickStep(a) \/ PolicyRaises(a) \/ TickAborts(a)

OperatorStep(u) ==
  \/ ReadGoal(u) \/ WriteGoal(u) \/ EnterGoal(u)
  \/ ReadPolicies(u) \/ CreateStanding(u) \/ OperatorStops(u)

Next == (\E a \in Agents : AgentStep(a)) \/ (\E u \in Operators : OperatorStep(u))

Spec == Init /\ [][Next]_vars

(* run-loop never stops ticking of its own accord.  Operators owe nothing. *)
Fairness == \A a \in Agents : WF_vars(TickStep(a))

FairSpec == Spec /\ Fairness
-----------------------------------------------------------------------------
(* Properties.                                                             *)

(* Types.  A goal object in memory names an existing row, or is about to   *)
(* become one (id 0, stage "spawn").                                       *)
TypeOK ==
  /\ goals \in Seq(Goal) /\ Len(goals) <= MaxGoals
  /\ runs \in [GoalIds -> Nat]
  /\ pc \in [Agents -> Stage]
  /\ alert \in [Agents -> BOOLEAN]
  /\ todo \in [Agents -> SUBSET (1..Len(goals))]
  /\ verdict \in [Agents -> VerdictStatus]
  /\ DOMAIN held = Agents
  /\ \A a \in Agents :
       /\ pc[a] \in {"idle", "standing"} => held[a] = None
       /\ pc[a] \notin {"idle", "standing"} => held[a] \in Held
       /\ pc[a] \notin {"idle", "standing", "spawn"} => held[a].id \in 1..Len(goals)
  /\ DOMAIN op = Operators
  /\ \A u \in Operators :
       op[u] # None => op[u] \in Request /\ op[u].id \in 1..Len(goals)
  /\ boot \in [Operators -> SUBSET Policies]
  /\ aborts \in 0..MaxAborts
  /\ gated \subseteq 1..Len(goals)
  /\ approved \subseteq 1..Len(goals)

(* A goal that was entered as PENDING_APPROVAL is not picked up, run or    *)
(* settled before some approve() has been written for it, however the      *)
(* requests of operators and the ticks interleave.                         *)
ApprovalGate ==
  \A g \in gated \ approved :
    /\ goals[g].status \in {"pending_approval", "abandoned"}
    /\ runs[g] = 0
    /\ \A a \in Agents : held[a] # None => held[a].id # g

(* store_stage writes the trajectory first: no goal is DONE or FAILED      *)
(* without a trajectory in the episodic store, even after a crash between  *)
(* the two writes or a write of an operator.                               *)
SettledHasTrajectory ==
  \A g \in 1..Len(goals) : goals[g].status \in {"done", "failed"} => runs[g] > 0

(* on_prev_verify_failure spawns at most max_diagnoses_per_target          *)
(* inquiries for one failed goal, and one more for each further process    *)
(* that runs ticks, as the count and the creation are two transactions.    *)
DiagnosisBound ==
  \A sg \in ListByClass(goals, "standing"), f \in 1..Len(goals) :
    Cardinality(Diagnoses(goals, sg, f)) <= MaxDiagnoses + Cardinality(Agents) - 1

(* Deduplication: a standing goal has at most one open child for each      *)
(* process that runs ticks, one where only one does.                       *)
OneOpenChild ==
  \A sg \in ListByClass(goals, "standing") :
    goals[sg].policy # "none" =>
      Cardinality({c \in ListChildren(goals, sg) : goals[c].status \in OpenStatus}) <= Cardinality(Agents)

(* bootstrap-standing is idempotent: one standing goal per policy, also    *)
(* after one was abandoned and after a bootstrap that died half way.       *)
OneStandingPerPolicy ==
  \A p \in Policies :
    Cardinality({g \in ListByClass(goals, "standing") : goals[g].policy = p}) <= 1

(* Each goal goes through what GoalLifecycle allows: it is worked on once, *)
(* settled after its trajectory is stored, and never pending again.        *)
StatusOf(g) == IF g <= Len(goals) THEN goals[g].status ELSE "absent"

Lifecycle == INSTANCE GoalLifecycle WITH
  Ids <- GoalIds,
  status <- [g \in GoalIds |-> StatusOf(g)],
  trajectories <- runs

FollowsLifecycle == Lifecycle!Spec

-----------------------------------------------------------------------------
(* What the repository's texts say and the code does not do.               *)

(* api_goals.py, abandon: a manual stop of an active or pending goal puts  *)
(* it into ABANDONED.  A goal that was ACTIVE should stay there, though    *)
(* the tick that works on it goes on.  (An abandon between the two halves  *)
(* of goal_arbitration, with the goal still PENDING on the board, is       *)
(* overwritten as well; that is left aside here.)                          *)
TakenBy(a, g) == held[a] # None /\ held[a].id = g

AbandonIsFinal ==
  [][\A g \in 1..Len(goals) :
       /\ goals[g].status = "abandoned"
       /\ \A a \in Agents : TakenBy(a, g) => pc[a] # "activate"
       => goals'[g].status = "abandoned"]_vars

(* tick.py, store_stage: a goal whose verdict is undetermined is left      *)
(* ACTIVE for the next tick, so a later tick should take it up again.      *)
Orphan(g) ==
  /\ StatusOf(g) = "active" /\ goals[g].class # "standing"
  /\ \A a \in Agents : held[a] # None => held[a].id # g

UndeterminedRetried == \A g \in GoalIds : Orphan(g) ~> ~Orphan(g)
=============================================================================
