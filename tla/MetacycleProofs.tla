-------------------------- MODULE MetacycleProofs --------------------------
(***************************************************************************)
(* Proofs about Metacycle that hold for any number of agent processes,     *)
(* operators, goals and edits.                                             *)
(***************************************************************************)
EXTENDS Metacycle, SequenceTheorems, FiniteSetTheorems, TLAPS

-----------------------------------------------------------------------------
(* The repository.                                                         *)

(* A new row goes to the end of the board and leaves the others alone.     *)
LEMMA CreateType ==
  ASSUME NEW board \in Seq(Goal), NEW row \in Goal
  PROVE  /\ Create(board, row) \in Seq(Goal)
         /\ Len(Create(board, row)) = Len(board) + 1
         /\ \A g \in 1..Len(board) : Create(board, row)[g] = board[g]
         /\ Create(board, row)[Len(board) + 1] = row
BY AppendProperties DEF Create

(* An update keeps the rows that exist and changes one of them.            *)
LEMMA UpdateType ==
  ASSUME NEW board \in Seq(Goal), NEW g \in 1..Len(board), NEW row \in Goal
  PROVE  /\ Update(board, g, row) \in Seq(Goal)
         /\ Len(Update(board, g, row)) = Len(board)
         /\ \A h \in 1..Len(board) :
              Update(board, g, row)[h] = IF h = g THEN row ELSE board[h]
BY ExceptSeq DEF Update

(* Rows are goals, and so is each copy with another status.                *)
LEMMA RowType ==
  ASSUME NEW board \in Seq(Goal), NEW g \in 1..Len(board)
  PROVE  board[g] \in Goal
BY ElementOfSeq

LEMMA NewGoalType ==
  ASSUME NEW class \in GoalClass, NEW prio \in Nat, NEW pred \in PredicateKind
  PROVE  NewGoal(class, prio, pred) \in Goal
BY DEF NewGoal, Goal, GoalStatus, Policies

LEMMA WithStatusType ==
  ASSUME NEW row \in Goal, NEW s \in GoalStatus
  PROVE  /\ [row EXCEPT !.status = s] \in Goal
         /\ [row EXCEPT !.status = s].status = s
BY DEF Goal

-----------------------------------------------------------------------------
(* Type correctness.                                                       *)

LEMMA InitType == Init => TypeOK
<1> SUFFICES ASSUME Init PROVE TypeOK
  OBVIOUS
<1>1. goals \in Seq(Goal) /\ Len(goals) <= MaxGoals
  BY BoardsAssumption DEF Init
<1>2. gated \subseteq 1..Len(goals) /\ approved \subseteq 1..Len(goals)
  BY DEF Init, ListByStatus
<1>3. aborts \in 0..MaxAborts
  BY ConstantsAssumption DEF Init
<1>4. runs \in [GoalIds -> Nat]
  BY DEF Init
<1>5. /\ pc \in [Agents -> Stage] /\ alert \in [Agents -> BOOLEAN]
      /\ todo \in [Agents -> SUBSET (1..Len(goals))]
      /\ verdict \in [Agents -> VerdictStatus]
  BY DEF Init, Stage, VerdictStatus
<1>6. /\ DOMAIN held = Agents /\ DOMAIN op = Operators
      /\ \A a \in Agents : pc[a] = "idle" /\ held[a] = None
      /\ \A u \in Operators : op[u] = None
      /\ boot \in [Operators -> SUBSET Policies]
  BY DEF Init
<1> QED
  BY <1>1, <1>2, <1>3, <1>4, <1>5, <1>6 DEF TypeOK

(* A write that keeps or extends the board leaves the operators' part of   *)
(* the type invariant alone, and a step of an operator the agents' part.   *)
LEMMA EndTickType ==
  ASSUME TypeOK, NEW a \in Agents, EndTick(a)
  PROVE  /\ pc' \in [Agents -> Stage]
         /\ alert' \in [Agents -> BOOLEAN]
         /\ todo' \in [Agents -> SUBSET (1..Len(goals))]
         /\ verdict' \in [Agents -> VerdictStatus]
         /\ DOMAIN held' = Agents
         /\ pc'[a] = "idle" /\ held'[a] = None
         /\ \A b \in Agents \ {a} : pc'[b] = pc[b] /\ held'[b] = held[b]
<1>1. pc' \in [Agents -> Stage] /\ pc'[a] = "idle"
  BY DEF TypeOK, EndTick, Stage
<1>2. DOMAIN held' = Agents /\ held'[a] = None
  BY DEF TypeOK, EndTick
<1>3. \A b \in Agents \ {a} : pc'[b] = pc[b] /\ held'[b] = held[b]
  BY DEF TypeOK, EndTick
<1>4. alert' \in [Agents -> BOOLEAN] /\ verdict' \in [Agents -> VerdictStatus]
  BY DEF TypeOK, EndTick, VerdictStatus
<1>5. todo' \in [Agents -> SUBSET (1..Len(goals))]
  BY DEF TypeOK, EndTick
<1> QED
  BY <1>1, <1>2, <1>3, <1>4, <1>5

LEMMA StartTickType ==
  ASSUME TypeOK, NEW a \in Agents, StartTick(a)
  PROVE  TypeOK'
<1>1. alert' \in [Agents -> BOOLEAN]
  BY ConstantsAssumption DEF TypeOK, StartTick
<1>2. todo' \in [Agents -> SUBSET (1..Len(goals))]
  BY DEF TypeOK, StartTick, ActiveStanding, ListByClass
<1>3. /\ pc' \in [Agents -> Stage] /\ pc'[a] = "standing" /\ pc[a] = "idle"
      /\ \A b \in Agents \ {a} : pc'[b] = pc[b]
  BY DEF TypeOK, StartTick, Stage
<1>4. \A b \in Agents :
        /\ pc'[b] \in {"idle", "standing"} => held[b] = None
        /\ pc'[b] \notin {"idle", "standing"} => held[b] \in Held
        /\ pc'[b] \notin {"idle", "standing", "spawn"} => held[b].id \in 1..Len(goals)
  BY <1>3 DEF TypeOK
<1> QED
  BY <1>1, <1>2, <1>3, <1>4
     DEF TypeOK, StartTick, boardVars, operatorVars, historyVars

LEMMA TodoType ==
  ASSUME TypeOK, NEW a \in Agents, SkipStanding(a) \/ PolicyRaises(a)
  PROVE  TypeOK'
<1>1. todo' \in [Agents -> SUBSET (1..Len(goals))]
  BY DEF TypeOK, SkipStanding, PolicyRaises
<1> QED
  BY <1>1 DEF TypeOK, SkipStanding, PolicyRaises, boardVars, operatorVars, historyVars

(* What a policy returns is a pending goal.                                *)
LEMMA ProposalType ==
  ASSUME NEW board \in Seq(Goal), NEW sg \in 1..Len(board), NEW alerted \in BOOLEAN,
         NEW row \in Proposals(board, sg, alerted)
  PROVE  row \in Goal /\ row.status = "pending"
<1>1. ASSUME NEW prio \in Nat, NEW target \in Nat
      PROVE  /\ SpawnedRow(sg, prio, target) \in Goal
             /\ SpawnedRow(sg, prio, target).status = "pending"
  <2>1. NewGoal("inquiry", prio, "judge") \in Goal
    BY NewGoalType DEF GoalClass, PredicateKind
  <2>2. NewGoal("inquiry", prio, "judge").status = "pending"
    BY DEF NewGoal
  <2>3. sg \in Nat
    BY LenProperties
  <2> DEFINE new == NewGoal("inquiry", prio, "judge")
  <2>4. new \in Goal /\ new.status = "pending"
    BY <2>1, <2>2
  <2>5. [new EXCEPT !.parent = sg, !.target = target] \in Goal
    <3> HIDE DEF new
    <3> QED BY <2>3, <2>4 DEF Goal
  <2>6. [new EXCEPT !.parent = sg, !.target = target].status = "pending"
    <3> HIDE DEF new
    <3> QED BY <2>4 DEF Goal
  <2> QED
    BY <2>5, <2>6 DEF SpawnedRow
<1>2. Undiagnosed(board, sg) \subseteq Nat
  BY DEF Undiagnosed, ListByStatus
<1>3. board[sg].policy \in Policies \cup {"none"}
  BY RowType DEF Goal
<1>4. CASE board[sg].policy = "on_alert_observation"
  <2>1. row = SpawnedRow(sg, ChildPriority, 0)
    BY <1>4, Zenon DEF Proposals
  <2> QED
    BY <1>1, <2>1 DEF ChildPriority
<1>5. CASE board[sg].policy = "on_prev_verify_failure"
  BY <1>1, <1>2, <1>5 DEF Proposals
<1>6. CASE board[sg].policy = "none"
  BY <1>6 DEF Proposals
<1> QED
  BY <1>3, <1>4, <1>5, <1>6 DEF Policies

LEMMA DecideSpawnType ==
  ASSUME TypeOK, NEW a \in Agents, DecideSpawn(a)
  PROVE  TypeOK'
<1>1. PICK sg \in todo[a] :
        /\ \E row \in Wanted(a, sg) :
             held' = [held EXCEPT ![a] = [id |-> 0, row |-> row]]
        /\ todo' = [todo EXCEPT ![a] = @ \ {sg}]
  BY DEF DecideSpawn
<1>2. PICK row \in Wanted(a, sg) : held' = [held EXCEPT ![a] = [id |-> 0, row |-> row]]
  BY <1>1
<1>3. sg \in 1..Len(goals) /\ alert[a] \in BOOLEAN
  BY DEF TypeOK
<1>4. row \in Goal
  BY <1>2, <1>3, ProposalType DEF Wanted, TypeOK
<1>5. held'[a] \in Held /\ DOMAIN held' = Agents
      /\ \A b \in Agents \ {a} : held'[b] = held[b]
  BY <1>2, <1>4 DEF TypeOK, Held
<1>6. todo' \in [Agents -> SUBSET (1..Len(goals))]
  BY <1>1 DEF TypeOK
<1>7. /\ pc' \in [Agents -> Stage] /\ pc'[a] = "spawn"
      /\ \A b \in Agents \ {a} : pc'[b] = pc[b]
  BY DEF TypeOK, DecideSpawn, Stage
<1>8. \A b \in Agents :
        /\ pc'[b] \in {"idle", "standing"} => held'[b] = None
        /\ pc'[b] \notin {"idle", "standing"} => held'[b] \in Held
        /\ pc'[b] \notin {"idle", "standing", "spawn"} => held'[b].id \in 1..Len(goals)
  BY <1>5, <1>7 DEF TypeOK
<1> QED
  BY <1>5, <1>6, <1>7, <1>8
     DEF TypeOK, DecideSpawn, boardVars, operatorVars, historyVars

(* The bound leaves a free row wherever a row may be created.              *)
LEMMA RoomForOne ==
  ASSUME TypeOK, Room
  PROVE  Len(goals) < MaxGoals
<1> DEFINE spawning == {a \in Agents : pc[a] = "spawn"}
<1>1. Cardinality(spawning) \in Nat
  BY FS_Subset, FS_CardinalityType, ConstantsAssumption
<1>2. Len(goals) \in Nat /\ MaxGoals \in Nat
  BY LenProperties, ConstantsAssumption DEF TypeOK
<1> QED
  BY <1>1, <1>2 DEF Room

(* What the creation of a row does to the board, as far as types go.       *)
LEMMA GrowType ==
  ASSUME TypeOK, NEW row \in Goal, Len(goals) < MaxGoals, goals' = Create(goals, row)
  PROVE  /\ goals' \in Seq(Goal) /\ Len(goals') <= MaxGoals
         /\ Len(goals') = Len(goals) + 1
         /\ 1..Len(goals) \subseteq 1..Len(goals')
<1>1. goals' \in Seq(Goal) /\ Len(goals') = Len(goals) + 1 /\ Len(goals) \in Nat
  BY CreateType, LenProperties DEF TypeOK
<1> QED
  BY <1>1, ConstantsAssumption

LEMMA OverwriteType ==
  ASSUME TypeOK, NEW g \in 1..Len(goals), NEW row \in Goal, goals' = Update(goals, g, row)
  PROVE  /\ goals' \in Seq(Goal) /\ Len(goals') <= MaxGoals
         /\ Len(goals') = Len(goals)
BY UpdateType DEF TypeOK

LEMMA CreateSpawnedType ==
  ASSUME TypeOK, NEW a \in Agents, CreateSpawned(a)
  PROVE  TypeOK'
<1>1. held[a] \in Held
  BY DEF CreateSpawned, TypeOK
<1>2. held[a].row \in Goal
  BY <1>1 DEF Held
<1>3. /\ goals' \in Seq(Goal) /\ Len(goals') <= MaxGoals
      /\ 1..Len(goals) \subseteq 1..Len(goals')
  BY <1>2, GrowType DEF CreateSpawned
<1>4. /\ pc' \in [Agents -> Stage] /\ pc'[a] = "standing"
      /\ \A b \in Agents \ {a} : pc'[b] = pc[b]
  BY DEF TypeOK, CreateSpawned, Stage
<1>5. /\ DOMAIN held' = Agents /\ held'[a] = None
      /\ \A b \in Agents \ {a} : held'[b] = held[b]
  BY DEF TypeOK, CreateSpawned
<1>6. \A b \in Agents :
        /\ pc'[b] \in {"idle", "standing"} => held'[b] = None
        /\ pc'[b] \notin {"idle", "standing"} => held'[b] \in Held
        /\ pc'[b] \notin {"idle", "standing", "spawn"} => held'[b].id \in 1..Len(goals')
  BY <1>3, <1>4, <1>5 DEF TypeOK
<1>7. todo' \in [Agents -> SUBSET (1..Len(goals'))]
  BY <1>3 DEF TypeOK, CreateSpawned
<1>8. \A u \in Operators :
        op[u] # None => op[u] \in Request /\ op[u].id \in 1..Len(goals')
  BY <1>3 DEF TypeOK
<1> QED
  BY <1>3, <1>4, <1>5, <1>6, <1>7, <1>8
     DEF TypeOK, CreateSpawned, operatorVars, historyVars

LEMMA PickGoalType ==
  ASSUME TypeOK, NEW a \in Agents, PickGoal(a)
  PROVE  TypeOK'
<1>1. PICK g \in Pickable(goals) :
        held' = [held EXCEPT ![a] = [id |-> g, row |-> [goals[g] EXCEPT !.status = "active"]]]
  BY DEF PickGoal
<1>2. g \in 1..Len(goals) /\ g \in Nat
  BY LenProperties DEF Pickable, ListByStatus, TypeOK
<1>3. [goals[g] EXCEPT !.status = "active"] \in Goal
  BY <1>2, RowType, WithStatusType DEF TypeOK, GoalStatus
<1>4. /\ DOMAIN held' = Agents /\ held'[a] \in Held /\ held'[a].id = g
      /\ \A b \in Agents \ {a} : held'[b] = held[b]
  BY <1>1, <1>2, <1>3 DEF TypeOK, Held
<1>5. /\ pc' \in [Agents -> Stage] /\ pc'[a] = "activate"
      /\ \A b \in Agents \ {a} : pc'[b] = pc[b]
  BY DEF TypeOK, PickGoal, Stage
<1>6. \A b \in Agents :
        /\ pc'[b] \in {"idle", "standing"} => held'[b] = None
        /\ pc'[b] \notin {"idle", "standing"} => held'[b] \in Held
        /\ pc'[b] \notin {"idle", "standing", "spawn"} => held'[b].id \in 1..Len(goals)
  BY <1>2, <1>4, <1>5 DEF TypeOK
<1>7. alert' \in [Agents -> BOOLEAN]
  BY DEF TypeOK, PickGoal
<1> QED
  BY <1>4, <1>5, <1>6, <1>7
     DEF TypeOK, PickGoal, boardVars, operatorVars, historyVars

(* The stages in which the tick keeps a picked goal and only moves on.     *)
LEMMA StageType ==
  ASSUME TypeOK, NEW a \in Agents, NEW next \in Stage \ {"idle", "standing", "spawn"},
         pc[a] \notin {"idle", "standing", "spawn"},
         pc' = [pc EXCEPT ![a] = next],
         held' = held,
         Len(goals') = Len(goals)
  PROVE  /\ pc' \in [Agents -> Stage]
         /\ \A b \in Agents :
              /\ pc'[b] \in {"idle", "standing"} => held'[b] = None
              /\ pc'[b] \notin {"idle", "standing"} => held'[b] \in Held
              /\ pc'[b] \notin {"idle", "standing", "spawn"} =>
                   held'[b].id \in 1..Len(goals')
BY DEF TypeOK

LEMMA ActivateType ==
  ASSUME TypeOK, NEW a \in Agents, Activate(a)
  PROVE  TypeOK'
<1>1. held[a] \in Held /\ held[a].id \in 1..Len(goals)
  BY DEF TypeOK, Activate
<1>2. held[a].row \in Goal
  BY <1>1 DEF Held
<1>3. /\ goals' \in Seq(Goal) /\ Len(goals') <= MaxGoals /\ Len(goals') = Len(goals)
  BY <1>1, <1>2, OverwriteType DEF Activate
<1>4. "run" \in Stage \ {"idle", "standing", "spawn"}
  BY DEF Stage
<1> QED
  BY <1>3, <1>4, StageType DEF TypeOK, Activate, operatorVars, historyVars

LEMMA VerdictType ==
  ASSUME NEW pred \in PredicateKind, NEW finalState \in BOOLEAN,
         NEW v \in VerdictsOf(pred, finalState)
  PROVE  v \in VerdictStatus
BY DEF VerdictsOf, VerdictStatus, PredicateKind

LEMMA ExecuteType ==
  ASSUME TypeOK, NEW a \in Agents, Execute(a)
  PROVE  TypeOK'
<1>1. held[a] \in Held
  BY DEF TypeOK, Execute
<1>2. held[a].row.pred \in PredicateKind
  BY <1>1 DEF Held, Goal
<1>3. PICK finalState \in BOOLEAN :
        \E v \in VerdictsOf(held[a].row.pred, finalState) :
          verdict' = [verdict EXCEPT ![a] = v]
  BY DEF Execute
<1>4. PICK v \in VerdictsOf(held[a].row.pred, finalState) :
        verdict' = [verdict EXCEPT ![a] = v]
  BY <1>3
<1>5. v \in VerdictStatus
  BY <1>2, VerdictType
<1>6. verdict' \in [Agents -> VerdictStatus]
  BY <1>4, <1>5 DEF TypeOK
<1>7. "record" \in Stage \ {"idle", "standing", "spawn"}
  BY DEF Stage
<1> QED
  BY <1>6, <1>7, StageType DEF TypeOK, Execute, boardVars, operatorVars, historyVars

LEMMA RecordTrajectoryType ==
  ASSUME TypeOK, NEW a \in Agents, RecordTrajectory(a)
  PROVE  TypeOK'
<1>1. held[a].id \in GoalIds
  BY ConstantsAssumption, LenProperties DEF TypeOK, RecordTrajectory, GoalIds
<1>2. runs \in [GoalIds -> Nat] /\ runs' = [runs EXCEPT ![held[a].id] = @ + 1]
  BY DEF TypeOK, RecordTrajectory, Recorded
<1>3. runs' \in [GoalIds -> Nat]
  BY <1>1, <1>2
<1>4. "settle" \in Stage \ {"idle", "standing", "spawn"}
  BY DEF Stage
<1> QED
  BY <1>3, <1>4, StageType DEF TypeOK, RecordTrajectory, operatorVars, historyVars

(* A tick that ends, or is cut short, without a new row on the board.      *)
LEMMA TickOverType ==
  ASSUME TypeOK, NEW a \in Agents, EndTick(a),
         goals' \in Seq(Goal), Len(goals') <= MaxGoals,
         1..Len(goals) \subseteq 1..Len(goals'),
         runs' = runs, op' = op, boot' = boot, aborts' \in 0..MaxAborts,
         gated' = gated, approved' = approved
  PROVE  TypeOK'
<1>1. /\ pc' \in [Agents -> Stage]
      /\ alert' \in [Agents -> BOOLEAN]
      /\ todo' \in [Agents -> SUBSET (1..Len(goals))]
      /\ verdict' \in [Agents -> VerdictStatus]
      /\ DOMAIN held' = Agents
      /\ pc'[a] = "idle" /\ held'[a] = None
      /\ \A b \in Agents \ {a} : pc'[b] = pc[b] /\ held'[b] = held[b]
  BY EndTickType
<1>2. todo' \in [Agents -> SUBSET (1..Len(goals'))]
  BY <1>1
<1>3. \A b \in Agents :
        /\ pc'[b] \in {"idle", "standing"} => held'[b] = None
        /\ pc'[b] \notin {"idle", "standing"} => held'[b] \in Held
        /\ pc'[b] \notin {"idle", "standing", "spawn"} => held'[b].id \in 1..Len(goals')
  BY <1>1 DEF TypeOK
<1>4. \A u \in Operators :
        op'[u] # None => op'[u] \in Request /\ op'[u].id \in 1..Len(goals')
  BY DEF TypeOK
<1> QED
  BY <1>1, <1>2, <1>3, <1>4 DEF TypeOK

LEMMA SettleType ==
  ASSUME TypeOK, NEW a \in Agents, Settle(a)
  PROVE  TypeOK'
<1> DEFINE settled == [held[a].row EXCEPT !.status = StatusAfter(verdict[a], @)]
<1>1. held[a] \in Held /\ held[a].id \in 1..Len(goals)
  BY DEF TypeOK, Settle
<1>2. held[a].row \in Goal
  BY <1>1 DEF Held
<1>3. StatusAfter(verdict[a], held[a].row.status) \in GoalStatus
  BY <1>2 DEF StatusAfter, Goal, GoalStatus
<1>4. settled \in Goal
  BY <1>2, <1>3, WithStatusType
<1>5. goals' = Update(goals, held[a].id, settled)
  BY DEF Settle
<1>6. goals' \in Seq(Goal) /\ Len(goals') <= MaxGoals /\ Len(goals') = Len(goals)
  <2> HIDE DEF settled
  <2> QED BY <1>1, <1>4, <1>5, OverwriteType
<1>7. CASE verdict[a] = "fail"
  <2>1. "reflect" \in Stage \ {"idle", "standing", "spawn"}
    BY DEF Stage
  <2> QED
    BY <1>6, <1>7, <2>1, StageType DEF TypeOK, Settle, operatorVars, historyVars
<1>8. CASE verdict[a] # "fail"
  <2>1. EndTick(a)
    BY <1>8 DEF Settle
  <2> QED
    BY <1>6, <2>1, TickOverType DEF Settle, operatorVars, historyVars, TypeOK
<1> QED
  BY <1>7, <1>8

LEMMA ReflectType ==
  ASSUME TypeOK, NEW a \in Agents, ReflectQuietly(a) \/ ReflectInquiry(a)
  PROVE  TypeOK'
<1>1. CASE ReflectQuietly(a)
  BY <1>1, TickOverType DEF ReflectQuietly, boardVars, operatorVars, historyVars, TypeOK
<1>2. CASE ReflectInquiry(a)
  <2>1. held[a].id \in Nat
    BY <1>2, LenProperties DEF ReflectInquiry, TypeOK
  <2>2. NewGoal("inquiry", 1, "judge") \in Goal
    BY NewGoalType DEF GoalClass, PredicateKind
  <2>3. InquiryRow(held[a].id) \in Goal
    BY <2>1, <2>2 DEF InquiryRow, Goal
  <2>4. /\ goals' \in Seq(Goal) /\ Len(goals') <= MaxGoals
        /\ 1..Len(goals) \subseteq 1..Len(goals')
    BY <1>2, <2>3, RoomForOne, GrowType DEF ReflectInquiry
  <2> QED
    BY <1>2, <2>4, TickOverType DEF ReflectInquiry, operatorVars, historyVars, TypeOK
<1> QED
  BY <1>1, <1>2

LEMMA IdleOrAbortedType ==
  ASSUME TypeOK, NEW a \in Agents, IdleTick(a) \/ TickAborts(a)
  PROVE  TypeOK'
<1>1. aborts' \in 0..MaxAborts
  BY ConstantsAssumption DEF IdleTick, TickAborts, TypeOK
<1> QED
  BY <1>1, TickOverType
     DEF IdleTick, TickAborts, boardVars, operatorVars, historyVars, TypeOK

LEMMA EditedType ==
  ASSUME NEW kind \in OperationKind \ {"create", "bootstrap"}, NEW row \in Goal
  PROVE  Edited(kind, row) \in Goal
BY DEF Edited, OperationKind, Goal, GoalStatus

LEMMA ReadGoalType ==
  ASSUME TypeOK, NEW u \in Operators, ReadGoal(u)
  PROVE  TypeOK'
<1>1. PICK kind \in Operations \ {"create", "bootstrap"}, g \in 1..Len(goals) :
        op' = [op EXCEPT ![u] = [kind |-> kind, id |-> g, row |-> Edited(kind, goals[g])]]
  BY DEF ReadGoal
<1>2. Edited(kind, goals[g]) \in Goal
  BY EditedType, RowType, ConstantsAssumption DEF TypeOK
<1>3. g \in Nat /\ kind \in OperationKind
  BY LenProperties, ConstantsAssumption DEF TypeOK
<1>4. /\ DOMAIN op' = Operators
      /\ op'[u] \in Request /\ op'[u].id \in 1..Len(goals)
      /\ \A w \in Operators \ {u} : op'[w] = op[w]
  BY <1>1, <1>2, <1>3 DEF TypeOK, Request
<1> QED
  BY <1>4 DEF TypeOK, ReadGoal, boardVars, agentVars, historyVars

LEMMA WriteGoalType ==
  ASSUME TypeOK, NEW u \in Operators, WriteGoal(u)
  PROVE  TypeOK'
<1>1. op[u] \in Request /\ op[u].id \in 1..Len(goals)
  BY DEF TypeOK, WriteGoal
<1>2. op[u].row \in Goal
  BY <1>1 DEF Request
<1>3. goals' \in Seq(Goal) /\ Len(goals') <= MaxGoals /\ Len(goals') = Len(goals)
  BY <1>1, <1>2, OverwriteType DEF WriteGoal
<1>4. approved' \subseteq 1..Len(goals)
  BY <1>1 DEF TypeOK, WriteGoal
<1>5. /\ DOMAIN op' = Operators /\ op'[u] = None
      /\ \A w \in Operators \ {u} : op'[w] = op[w]
  BY DEF TypeOK, WriteGoal
<1> QED
  BY <1>3, <1>4, <1>5 DEF TypeOK, WriteGoal, agentVars

(* A row that an operator creates.                                         *)
LEMMA OperatorCreatesType ==
  ASSUME TypeOK, NEW row \in Goal, Room, goals' = Create(goals, row),
         runs' = runs, UNCHANGED <<agentVars, op, aborts, historyVars>>,
         boot' \in [Operators -> SUBSET Policies]
  PROVE  TypeOK'
<1>1. /\ goals' \in Seq(Goal) /\ Len(goals') <= MaxGoals
      /\ 1..Len(goals) \subseteq 1..Len(goals')
  BY RoomForOne, GrowType
<1>2. todo' \in [Agents -> SUBSET (1..Len(goals'))]
  BY <1>1 DEF TypeOK, agentVars
<1> QED
  BY <1>1, <1>2 DEF TypeOK, agentVars, historyVars

LEMMA EnterGoalType ==
  ASSUME TypeOK, NEW u \in Operators, EnterGoal(u)
  PROVE  TypeOK'
<1>1. PICK class \in {"task", "standing"}, prio \in Priorities, pred \in Predicates :
        goals' = Create(goals, NewGoal(class, prio, pred))
  BY DEF EnterGoal
<1>2. NewGoal(class, prio, pred) \in Goal
  BY NewGoalType, ConstantsAssumption DEF GoalClass
<1> QED
  BY <1>1, <1>2, OperatorCreatesType DEF EnterGoal, operatorVars, TypeOK

LEMMA BootstrapType ==
  ASSUME TypeOK, NEW u \in Operators, ReadPolicies(u) \/ CreateStanding(u)
  PROVE  TypeOK'
<1>1. CASE ReadPolicies(u)
  <2>1. boot' \in [Operators -> SUBSET Policies]
    BY <1>1 DEF TypeOK, ReadPolicies, MissingPolicies
  <2> QED
    BY <1>1, <2>1 DEF TypeOK, ReadPolicies, boardVars, agentVars, historyVars
<1>2. CASE CreateStanding(u)
  <2>1. PICK policy \in boot[u] :
          /\ goals' = Create(goals, StandingRow(policy))
          /\ boot' = [boot EXCEPT ![u] = @ \ {policy}]
    BY <1>2 DEF CreateStanding
  <2>2. policy \in Policies
    BY DEF TypeOK
  <2>3. NewGoal("standing", 0, "judge") \in Goal
    BY NewGoalType DEF GoalClass, PredicateKind
  <2>4. StandingRow(policy) \in Goal
    BY <2>2, <2>3 DEF StandingRow, Goal, GoalStatus
  <2>5. boot' \in [Operators -> SUBSET Policies]
    BY <2>1 DEF TypeOK
  <2> QED
    BY <1>2, <2>1, <2>4, <2>5, OperatorCreatesType DEF CreateStanding
<1> QED
  BY <1>1, <1>2

LEMMA OperatorStopsType ==
  ASSUME TypeOK, NEW u \in Operators, OperatorStops(u)
  PROVE  TypeOK'
<1>1. /\ DOMAIN op' = Operators /\ op'[u] = None
      /\ \A w \in Operators \ {u} : op'[w] = op[w]
      /\ boot' \in [Operators -> SUBSET Policies]
  BY DEF TypeOK, OperatorStops
<1> QED
  BY <1>1 DEF TypeOK, OperatorStops, boardVars, agentVars, historyVars

LEMMA StutterType ==
  ASSUME TypeOK, UNCHANGED vars
  PROVE  TypeOK'
BY DEF TypeOK, vars

LEMMA TypeStep ==
  ASSUME TypeOK, [Next]_vars
  PROVE  TypeOK'
<1>1. ASSUME NEW a \in Agents, AgentStep(a)
      PROVE  TypeOK'
  BY <1>1, StartTickType, TodoType, DecideSpawnType, CreateSpawnedType, PickGoalType,
     ActivateType, ExecuteType, RecordTrajectoryType, SettleType, ReflectType,
     IdleOrAbortedType
     DEF AgentStep, TickStep
<1>2. ASSUME NEW u \in Operators, OperatorStep(u)
      PROVE  TypeOK'
  BY <1>2, ReadGoalType, WriteGoalType, EnterGoalType, BootstrapType, OperatorStopsType
     DEF OperatorStep
<1> QED
  BY <1>1, <1>2, StutterType DEF Next

(* Every reachable state is well typed, whatever the bounds.               *)
THEOREM TypeCorrect == Spec => []TypeOK
BY InitType, TypeStep, PTL DEF Spec

-----------------------------------------------------------------------------
(* The approval gate and the trajectory of a settled goal.                 *)
(*                                                                         *)
(* Neither is inductive by itself: both depend on what the goal objects    *)
(* say that agents and operators hold in memory and are yet to write.      *)

(* An agent's object: a goal that is not on the board yet, or the one that *)
(* was picked, with the status ACTIVE; its trajectory precedes its status. *)
HeldInOrder ==
  \A a \in Agents :
    /\ pc[a] = "spawn" => held[a].id = 0 /\ held[a].row.status = "pending"
    /\ pc[a] \in {"activate", "run", "record", "settle"} =>
         held[a].row.status = "active"
    /\ pc[a] = "settle" => runs[held[a].id] > 0

(* An operator's object: never a settled goal, and only an approve() takes *)
(* a goal that waits for approval anywhere but to ABANDONED.               *)
RequestsInOrder ==
  \A u \in Operators : op[u] # None =>
    /\ op[u].row.status \notin {"done", "failed"}
    /\ op[u].id \in gated \ approved /\ op[u].kind # "approve" =>
         op[u].row.status \in {"pending_approval", "abandoned"}

IInv ==
  /\ TypeOK /\ ApprovalGate /\ SettledHasTrajectory
  /\ HeldInOrder /\ RequestsInOrder

LEMMA InitOrder == Init => IInv
<1> SUFFICES ASSUME Init PROVE IInv
  OBVIOUS
<1>1. goals \in Boards /\ goals \in Seq(Goal) /\ Len(goals) <= MaxGoals
  BY BoardsAssumption DEF Init
<1>2. \A g \in 1..Len(goals) : FreshRow(goals[g])
  BY <1>1, BoardsAssumption
<1>3. gated = ListByStatus(goals, "pending_approval") /\ approved = {}
  BY DEF Init
<1>4. \A g \in 1..Len(goals) : runs[g] = 0
  BY <1>1, LenProperties, ConstantsAssumption DEF Init, GoalIds
<1>5. \A a \in Agents : pc[a] = "idle" /\ held[a] = None
  BY DEF Init
<1>6. \A u \in Operators : op[u] = None
  BY DEF Init
<1>7. ApprovalGate
  BY <1>3, <1>4, <1>5 DEF ApprovalGate, ListByStatus
<1>8. SettledHasTrajectory
  BY <1>2 DEF SettledHasTrajectory, FreshRow
<1>9. HeldInOrder /\ RequestsInOrder
  BY <1>5, <1>6 DEF HeldInOrder, RequestsInOrder
<1> QED
  BY <1>7, <1>8, <1>9, InitType DEF IInv

(* What is left to show of a step of one agent.                            *)
LEMMA AgentKeepsOrder ==
  ASSUME IInv, TypeOK', NEW a \in Agents,
         op' = op, gated' = gated, approved' = approved,
         \A b \in Agents \ {a} : pc'[b] = pc[b] /\ held'[b] = held[b],
         held'[a] # None => held'[a].id \notin gated \ approved,
         \A g \in gated \ approved :
           goals'[g].status = goals[g].status /\ runs'[g] = runs[g],
         \A g \in GoalIds : runs[g] > 0 => runs'[g] > 0,
         SettledHasTrajectory',
         pc'[a] = "spawn" => held'[a].id = 0 /\ held'[a].row.status = "pending",
         pc'[a] \in {"activate", "run", "record", "settle"} =>
           held'[a].row.status = "active",
         pc'[a] = "settle" => runs'[held'[a].id] > 0
  PROVE  IInv'
<1>1. ApprovalGate'
  BY DEF IInv, ApprovalGate
<1>2. RequestsInOrder'
  BY DEF IInv, RequestsInOrder
<1>3. \A b \in Agents \ {a} : pc[b] = "settle" => runs'[held[b].id] > 0
  <2> SUFFICES ASSUME NEW b \in Agents \ {a}, pc[b] = "settle"
               PROVE  runs'[held[b].id] > 0
    OBVIOUS
  <2>1. held[b].id \in GoalIds
    BY ConstantsAssumption, LenProperties DEF IInv, TypeOK, GoalIds
  <2> QED
    BY <2>1 DEF IInv, HeldInOrder
<1>4. HeldInOrder'
  BY <1>3 DEF IInv, HeldInOrder
<1> QED
  BY <1>1, <1>2, <1>4 DEF IInv

(* An agent's object of a goal on the board is not one that waits.         *)
LEMMA HeldNotWaiting ==
  ASSUME IInv, NEW a \in Agents, pc[a] \notin {"idle", "standing", "spawn"}
  PROVE  /\ held[a] \in Held /\ held[a] # None
         /\ held[a].id \in 1..Len(goals) /\ held[a].id \in GoalIds
         /\ held[a].id \notin gated \ approved
<1>1. held[a] \in Held /\ held[a].id \in 1..Len(goals)
  BY DEF IInv, TypeOK
<1>2. held[a] # None
  BY <1>1, NoneAssumption
<1>3. held[a].id \in GoalIds
  BY <1>1, ConstantsAssumption, LenProperties DEF IInv, TypeOK, GoalIds
<1> QED
  BY <1>1, <1>2, <1>3 DEF IInv, ApprovalGate

(* The head of the tick writes nothing and picks nothing up.               *)
LEMMA StandingKeepsOrder ==
  ASSUME IInv, TypeOK', NEW a \in Agents,
         StartTick(a) \/ SkipStanding(a) \/ PolicyRaises(a)
  PROVE  IInv'
<1>1. pc'[a] = "standing" /\ held'[a] = None
  BY DEF IInv, TypeOK, StartTick, SkipStanding, PolicyRaises
<1>2. /\ goals' = goals /\ runs' = runs /\ op' = op
      /\ gated' = gated /\ approved' = approved
  BY DEF StartTick, SkipStanding, PolicyRaises, boardVars, operatorVars, historyVars
<1>3. \A b \in Agents \ {a} : pc'[b] = pc[b] /\ held'[b] = held[b]
  BY DEF IInv, TypeOK, StartTick, SkipStanding, PolicyRaises
<1>4. SettledHasTrajectory'
  BY <1>2 DEF IInv, SettledHasTrajectory
<1> QED
  BY <1>1, <1>2, <1>3, <1>4, AgentKeepsOrder

LEMMA DecideSpawnKeepsOrder ==
  ASSUME IInv, TypeOK', NEW a \in Agents, DecideSpawn(a)
  PROVE  IInv'
<1>1. PICK sg \in todo[a] :
        \E row \in Wanted(a, sg) :
          held' = [held EXCEPT ![a] = [id |-> 0, row |-> row]]
  BY DEF DecideSpawn
<1>2. PICK row \in Wanted(a, sg) : held' = [held EXCEPT ![a] = [id |-> 0, row |-> row]]
  BY <1>1
<1>3. sg \in 1..Len(goals) /\ alert[a] \in BOOLEAN
  BY DEF IInv, TypeOK
<1>4. row.status = "pending"
  BY <1>2, <1>3, ProposalType DEF Wanted, IInv, TypeOK
<1>5. /\ pc'[a] = "spawn" /\ held'[a].id = 0 /\ held'[a].row.status = "pending"
      /\ \A b \in Agents \ {a} : pc'[b] = pc[b] /\ held'[b] = held[b]
  BY <1>2, <1>4 DEF IInv, TypeOK, DecideSpawn
<1>6. held'[a].id \notin gated
  BY <1>5, LenProperties DEF IInv, TypeOK
<1>7. /\ goals' = goals /\ runs' = runs /\ op' = op
      /\ gated' = gated /\ approved' = approved
  BY DEF DecideSpawn, boardVars, operatorVars, historyVars
<1>8. SettledHasTrajectory'
  BY <1>7 DEF IInv, SettledHasTrajectory
<1> QED
  BY <1>5, <1>6, <1>7, <1>8, AgentKeepsOrder

(* A new row that is neither settled nor old keeps the rows before it.     *)
LEMMA CreateKeepsOrder ==
  ASSUME IInv, NEW row \in Goal, row.status \notin {"done", "failed"},
         goals' = Create(goals, row), runs' = runs
  PROVE  /\ \A g \in 1..Len(goals) : goals'[g].status = goals[g].status
         /\ SettledHasTrajectory'
<1>1. /\ Len(goals') = Len(goals) + 1 /\ Len(goals) \in Nat
      /\ \A g \in 1..Len(goals) : goals'[g] = goals[g]
      /\ goals'[Len(goals) + 1] = row
  BY CreateType, LenProperties, ZenonT(60) DEF IInv, TypeOK
<1> QED
  BY <1>1 DEF IInv, SettledHasTrajectory

(* A write of one row leaves the statuses of the others alone.             *)
LEMMA UpdateKeepsOrder ==
  ASSUME IInv, NEW h \in 1..Len(goals), NEW row \in Goal,
         goals' = Update(goals, h, row), runs' = runs,
         row.status \in {"done", "failed"} => runs[h] > 0
  PROVE  /\ \A g \in 1..Len(goals) \ {h} : goals'[g].status = goals[g].status
         /\ goals'[h].status = row.status
         /\ SettledHasTrajectory'
<1>1. goals \in Seq(Goal)
  BY DEF IInv, TypeOK
<1>2. /\ Len(Update(goals, h, row)) = Len(goals)
      /\ \A g \in 1..Len(goals) :
           Update(goals, h, row)[g] = IF g = h THEN row ELSE goals[g]
  BY <1>1, UpdateType, ZenonT(60)
<1>3. /\ Len(goals') = Len(goals)
      /\ \A g \in 1..Len(goals) : goals'[g] = IF g = h THEN row ELSE goals[g]
  BY <1>2
<1> QED
  BY <1>3 DEF IInv, SettledHasTrajectory

LEMMA CreateSpawnedKeepsOrder ==
  ASSUME IInv, TypeOK', NEW a \in Agents, CreateSpawned(a)
  PROVE  IInv'
<1>1. held[a] \in Held /\ held[a].row.status = "pending"
  BY DEF IInv, TypeOK, HeldInOrder, CreateSpawned
<1>2. held[a].row \in Goal
  BY <1>1 DEF Held
<1>3. /\ runs' = runs /\ op' = op /\ gated' = gated /\ approved' = approved
  BY DEF CreateSpawned, operatorVars, historyVars
<1>4. /\ \A g \in 1..Len(goals) : goals'[g].status = goals[g].status
      /\ SettledHasTrajectory'
  BY <1>1, <1>2, CreateKeepsOrder DEF CreateSpawned
<1>5. gated \subseteq 1..Len(goals)
  BY DEF IInv, TypeOK
<1>6. /\ pc'[a] = "standing" /\ held'[a] = None
      /\ \A b \in Agents \ {a} : pc'[b] = pc[b] /\ held'[b] = held[b]
  BY DEF IInv, TypeOK, CreateSpawned
<1> QED
  BY <1>3, <1>4, <1>5, <1>6, AgentKeepsOrder

(* Only pending goals are picked, and one that waits is not pending.       *)
LEMMA PickGoalKeepsOrder ==
  ASSUME IInv, TypeOK', NEW a \in Agents, PickGoal(a)
  PROVE  IInv'
<1>1. PICK g \in Pickable(goals) :
        held' = [held EXCEPT ![a] = [id |-> g, row |-> [goals[g] EXCEPT !.status = "active"]]]
  BY DEF PickGoal
<1>2. g \in 1..Len(goals) /\ goals[g].status = "pending"
  BY DEF Pickable, ListByStatus
<1>3. g \notin gated \ approved
  BY <1>2 DEF IInv, ApprovalGate
<1>4. [goals[g] EXCEPT !.status = "active"].status = "active"
  BY <1>2, RowType, WithStatusType DEF IInv, TypeOK, GoalStatus
<1>5. /\ pc'[a] = "activate" /\ held'[a].id = g /\ held'[a].row.status = "active"
      /\ \A b \in Agents \ {a} : pc'[b] = pc[b] /\ held'[b] = held[b]
  BY <1>1, <1>4 DEF IInv, TypeOK, PickGoal
<1>6. /\ goals' = goals /\ runs' = runs /\ op' = op
      /\ gated' = gated /\ approved' = approved
  BY DEF PickGoal, boardVars, operatorVars, historyVars
<1>7. SettledHasTrajectory'
  BY <1>6 DEF IInv, SettledHasTrajectory
<1> QED
  BY <1>3, <1>5, <1>6, <1>7, AgentKeepsOrder

LEMMA ActivateKeepsOrder ==
  ASSUME IInv, TypeOK', NEW a \in Agents, Activate(a)
  PROVE  IInv'
<1>1. /\ held[a] \in Held /\ held[a].id \in 1..Len(goals)
      /\ held[a].id \notin gated \ approved
  BY HeldNotWaiting DEF Activate
<1>2. held[a].row \in Goal /\ held[a].row.status = "active"
  BY <1>1 DEF Held, IInv, HeldInOrder, Activate
<1>3. /\ runs' = runs /\ held' = held /\ op' = op
      /\ gated' = gated /\ approved' = approved
  BY DEF Activate, operatorVars, historyVars
<1>4. /\ \A g \in 1..Len(goals) \ {held[a].id} : goals'[g].status = goals[g].status
      /\ SettledHasTrajectory'
  BY <1>1, <1>2, UpdateKeepsOrder DEF Activate
<1>5. gated \subseteq 1..Len(goals)
  BY DEF IInv, TypeOK
<1>6. pc'[a] = "run" /\ \A b \in Agents \ {a} : pc'[b] = pc[b]
  BY DEF IInv, TypeOK, Activate
<1> QED
  BY <1>1, <1>2, <1>3, <1>4, <1>5, <1>6, AgentKeepsOrder

LEMMA ExecuteKeepsOrder ==
  ASSUME IInv, TypeOK', NEW a \in Agents, Execute(a)
  PROVE  IInv'
<1>1. held[a].id \notin gated \ approved /\ held[a].row.status = "active"
  BY HeldNotWaiting DEF Execute, IInv, HeldInOrder
<1>2. /\ goals' = goals /\ runs' = runs /\ held' = held /\ op' = op
      /\ gated' = gated /\ approved' = approved
  BY DEF Execute, boardVars, operatorVars, historyVars
<1>3. pc'[a] = "record" /\ \A b \in Agents \ {a} : pc'[b] = pc[b]
  BY DEF IInv, TypeOK, Execute
<1>4. SettledHasTrajectory'
  BY <1>2 DEF IInv, SettledHasTrajectory
<1> QED
  BY <1>1, <1>2, <1>3, <1>4, AgentKeepsOrder

LEMMA RecordTrajectoryKeepsOrder ==
  ASSUME IInv, TypeOK', NEW a \in Agents, RecordTrajectory(a)
  PROVE  IInv'
<1> DEFINE h == held[a].id
<1>1. h \notin gated \ approved /\ h \in GoalIds /\ held[a].row.status = "active"
  BY HeldNotWaiting DEF RecordTrajectory, IInv, HeldInOrder
<1>2. /\ goals' = goals /\ held' = held /\ op' = op
      /\ gated' = gated /\ approved' = approved
  BY DEF RecordTrajectory, operatorVars, historyVars
<1>3. pc'[a] = "settle" /\ \A b \in Agents \ {a} : pc'[b] = pc[b]
  BY DEF IInv, TypeOK, RecordTrajectory
<1>4. runs \in [GoalIds -> Nat] /\ runs' = [runs EXCEPT ![h] = @ + 1]
  BY DEF IInv, TypeOK, RecordTrajectory, Recorded
<1>5. /\ \A g \in GoalIds : runs[g] > 0 => runs'[g] > 0
      /\ runs'[h] > 0
      /\ \A g \in GoalIds \ {h} : runs'[g] = runs[g]
  BY <1>1, <1>4
<1>6. /\ \A g \in 1..Len(goals) : g \in GoalIds
      /\ gated \subseteq GoalIds
  BY ConstantsAssumption, LenProperties DEF IInv, TypeOK, GoalIds
<1>7. SettledHasTrajectory'
  BY <1>2, <1>5, <1>6 DEF IInv, SettledHasTrajectory
<1> QED
  BY <1>1, <1>2, <1>3, <1>5, <1>6, <1>7, AgentKeepsOrder

(* The only write that settles a goal; its trajectory is stored by then.   *)
LEMMA SettleKeepsOrder ==
  ASSUME IInv, TypeOK', NEW a \in Agents, Settle(a)
  PROVE  IInv'
<1> DEFINE settled == [held[a].row EXCEPT !.status = StatusAfter(verdict[a], @)]
<1>1. /\ held[a] \in Held /\ held[a] # None /\ held[a].id \in 1..Len(goals)
      /\ held[a].id \notin gated \ approved
  BY HeldNotWaiting DEF Settle
<1>2. held[a].row \in Goal /\ runs[held[a].id] > 0
  BY <1>1 DEF Held, IInv, HeldInOrder, Settle
<1>3. StatusAfter(verdict[a], held[a].row.status) \in GoalStatus
  BY <1>2 DEF StatusAfter, Goal, GoalStatus
<1>4. settled \in Goal
  BY <1>2, <1>3, WithStatusType
<1>5. goals' = Update(goals, held[a].id, settled)
  BY DEF Settle
<1>6. /\ runs' = runs /\ op' = op /\ gated' = gated /\ approved' = approved
  BY DEF Settle, operatorVars, historyVars
<1>7. /\ \A g \in 1..Len(goals) \ {held[a].id} : goals'[g].status = goals[g].status
      /\ SettledHasTrajectory'
  <2> HIDE DEF settled
  <2> QED BY <1>1, <1>2, <1>4, <1>5, <1>6, UpdateKeepsOrder
<1>8. gated \subseteq 1..Len(goals)
  BY DEF IInv, TypeOK
<1>9. /\ pc'[a] \in {"reflect", "idle"} /\ held'[a] \in {held[a], None}
      /\ \A b \in Agents \ {a} : pc'[b] = pc[b] /\ held'[b] = held[b]
  <2>1. CASE verdict[a] = "fail"
    BY <2>1 DEF IInv, TypeOK, Settle
  <2>2. CASE verdict[a] # "fail"
    <3>1. EndTick(a)
      BY <2>2 DEF Settle
    <3> QED
      BY <3>1, EndTickType DEF IInv
  <2> QED
    BY <2>1, <2>2
<1> QED
  BY <1>1, <1>6, <1>7, <1>8, <1>9, AgentKeepsOrder

(* Ends of a tick that leave the statuses on the board alone.              *)
LEMMA TickOverKeepsOrder ==
  ASSUME IInv, TypeOK', NEW a \in Agents, EndTick(a),
         \A g \in 1..Len(goals) : goals'[g].status = goals[g].status,
         runs' = runs, op' = op, gated' = gated, approved' = approved,
         SettledHasTrajectory'
  PROVE  IInv'
<1>1. /\ pc'[a] = "idle" /\ held'[a] = None
      /\ \A b \in Agents \ {a} : pc'[b] = pc[b] /\ held'[b] = held[b]
  BY EndTickType DEF IInv
<1>2. gated \subseteq 1..Len(goals)
  BY DEF IInv, TypeOK
<1> QED
  BY <1>1, <1>2, AgentKeepsOrder

LEMMA EndKeepsOrder ==
  ASSUME IInv, TypeOK', NEW a \in Agents,
         IdleTick(a) \/ TickAborts(a) \/ ReflectQuietly(a) \/ ReflectInquiry(a)
  PROVE  IInv'
<1>1. CASE IdleTick(a) \/ TickAborts(a) \/ ReflectQuietly(a)
  <2>1. /\ goals' = goals /\ runs' = runs /\ op' = op
        /\ gated' = gated /\ approved' = approved /\ EndTick(a)
    BY <1>1 DEF IdleTick, TickAborts, ReflectQuietly, boardVars, operatorVars, historyVars
  <2>2. SettledHasTrajectory'
    BY <2>1 DEF IInv, SettledHasTrajectory
  <2> QED
    BY <2>1, <2>2, TickOverKeepsOrder
<1>2. CASE ReflectInquiry(a)
  <2>1. held[a].id \in Nat
    <3>1. goals \in Seq(Goal) /\ held[a].id \in 1..Len(goals)
      BY <1>2 DEF ReflectInquiry, IInv, TypeOK
    <3> QED BY <3>1, LenProperties
  <2> DEFINE new == NewGoal("inquiry", 1, "judge")
  <2>2. new \in Goal /\ new.status = "pending"
    BY NewGoalType DEF GoalClass, PredicateKind, NewGoal
  <2>3. InquiryRow(held[a].id) \in Goal /\ InquiryRow(held[a].id).status = "pending"
    <3>1. InquiryRow(held[a].id) = [new EXCEPT !.parent = held[a].id]
      BY DEF InquiryRow
    <3> HIDE DEF new
    <3> QED BY <2>1, <2>2, <3>1 DEF Goal
  <2>4. /\ runs' = runs /\ op' = op /\ gated' = gated /\ approved' = approved
        /\ EndTick(a)
    BY <1>2 DEF ReflectInquiry, operatorVars, historyVars
  <2>5. /\ \A g \in 1..Len(goals) : goals'[g].status = goals[g].status
        /\ SettledHasTrajectory'
    BY <1>2, <2>3, <2>4, CreateKeepsOrder DEF ReflectInquiry
  <2> QED
    BY <2>4, <2>5, TickOverKeepsOrder
<1> QED
  BY <1>1, <1>2

(* The status check of a handler, and what the handler makes of the goal.  *)
LEMMA EditedStatus ==
  ASSUME NEW kind \in OperationKind \ {"create", "bootstrap"}, NEW row \in Goal,
         Accepts(kind, row)
  PROVE  /\ Edited(kind, row).status \notin {"done", "failed"}
         /\ kind # "approve" /\ row.status \in {"pending_approval", "abandoned"} =>
              Edited(kind, row).status \in {"pending_approval", "abandoned"}
BY DEF Edited, Accepts, Approvable, OperationKind, Goal, Terminal

LEMMA ReadGoalKeepsOrder ==
  ASSUME IInv, TypeOK', NEW u \in Operators, ReadGoal(u)
  PROVE  IInv'
<1>1. PICK kind \in Operations \ {"create", "bootstrap"}, g \in 1..Len(goals) :
        /\ Accepts(kind, goals[g])
        /\ op' = [op EXCEPT ![u] = [kind |-> kind, id |-> g, row |-> Edited(kind, goals[g])]]
  BY DEF ReadGoal
<1>2. kind \in OperationKind \ {"create", "bootstrap"} /\ goals[g] \in Goal
  BY RowType, ConstantsAssumption DEF IInv, TypeOK
<1>3. /\ Edited(kind, goals[g]).status \notin {"done", "failed"}
      /\ kind # "approve" /\ goals[g].status \in {"pending_approval", "abandoned"} =>
           Edited(kind, goals[g]).status \in {"pending_approval", "abandoned"}
  BY <1>1, <1>2, EditedStatus
<1>4. g \in gated \ approved => goals[g].status \in {"pending_approval", "abandoned"}
  BY DEF IInv, ApprovalGate
<1>5. /\ op'[u] = [kind |-> kind, id |-> g, row |-> Edited(kind, goals[g])]
      /\ \A w \in Operators \ {u} : op'[w] = op[w]
  BY <1>1 DEF IInv, TypeOK
<1>6. /\ goals' = goals /\ runs' = runs /\ pc' = pc /\ held' = held
      /\ gated' = gated /\ approved' = approved
  BY DEF ReadGoal, boardVars, agentVars, historyVars
<1>7. RequestsInOrder'
  BY <1>3, <1>4, <1>5, <1>6 DEF IInv, RequestsInOrder
<1> QED
  BY <1>6, <1>7 DEF IInv, ApprovalGate, SettledHasTrajectory, HeldInOrder

LEMMA WriteGoalKeepsOrder ==
  ASSUME IInv, TypeOK', NEW u \in Operators, WriteGoal(u)
  PROVE  IInv'
<1>1. op[u] \in Request /\ op[u].id \in 1..Len(goals) /\ op[u] # None
  BY DEF IInv, TypeOK, WriteGoal
<1>2. op[u].row \in Goal
  BY <1>1 DEF Request
<1>3. /\ runs' = runs /\ pc' = pc /\ held' = held /\ gated' = gated
      /\ goals' = Update(goals, op[u].id, op[u].row)
      /\ approved' = IF op[u].kind = "approve" THEN approved \cup {op[u].id} ELSE approved
  BY DEF WriteGoal, agentVars
<1>4. /\ op[u].row.status \notin {"done", "failed"}
      /\ op[u].id \in gated \ approved /\ op[u].kind # "approve" =>
           op[u].row.status \in {"pending_approval", "abandoned"}
  BY <1>1 DEF IInv, RequestsInOrder
<1>5. /\ \A g \in 1..Len(goals) \ {op[u].id} : goals'[g].status = goals[g].status
      /\ goals'[op[u].id].status = op[u].row.status
      /\ SettledHasTrajectory'
  BY <1>1, <1>2, <1>3, <1>4, UpdateKeepsOrder
<1>6. gated \subseteq 1..Len(goals)
  BY DEF IInv, TypeOK
<1>7. ApprovalGate'
  <2> SUFFICES ASSUME NEW g \in gated \ approved'
               PROVE  /\ goals'[g].status \in {"pending_approval", "abandoned"}
                      /\ runs'[g] = 0
                      /\ \A a \in Agents : held'[a] # None => held'[a].id # g
    BY <1>3 DEF ApprovalGate
  <2>1. g \in gated \ approved /\ g \in 1..Len(goals)
    BY <1>3, <1>6
  <2>2. g = op[u].id => op[u].kind # "approve"
    BY <1>3
  <2>3. goals'[g].status \in {"pending_approval", "abandoned"}
    BY <1>4, <1>5, <2>1, <2>2 DEF IInv, ApprovalGate
  <2> QED
    BY <1>3, <2>1, <2>3 DEF IInv, ApprovalGate
<1>8. /\ op'[u] = None
      /\ \A w \in Operators \ {u} : op'[w] = op[w]
  BY DEF IInv, TypeOK, WriteGoal
<1>9. RequestsInOrder'
  BY <1>3, <1>8 DEF IInv, RequestsInOrder
<1>10. HeldInOrder'
  BY <1>3 DEF IInv, HeldInOrder
<1> QED
  BY <1>5, <1>7, <1>9, <1>10 DEF IInv

(* What an operator creates is pending, or a standing goal that is active. *)
LEMMA OperatorCreatesKeepsOrder ==
  ASSUME IInv, TypeOK', NEW row \in Goal, row.status \notin {"done", "failed"},
         goals' = Create(goals, row), runs' = runs,
         UNCHANGED <<agentVars, op, historyVars>>
  PROVE  IInv'
<1>1. /\ \A g \in 1..Len(goals) : goals'[g].status = goals[g].status
      /\ SettledHasTrajectory'
  BY CreateKeepsOrder
<1>2. gated \subseteq 1..Len(goals)
  BY DEF IInv, TypeOK
<1>3. /\ pc' = pc /\ held' = held /\ op' = op /\ gated' = gated /\ approved' = approved
  BY DEF agentVars, historyVars
<1> QED
  BY <1>1, <1>2, <1>3 DEF IInv, ApprovalGate, HeldInOrder, RequestsInOrder

LEMMA EnterGoalKeepsOrder ==
  ASSUME IInv, TypeOK', NEW u \in Operators, EnterGoal(u)
  PROVE  IInv'
<1>1. PICK class \in {"task", "standing"}, prio \in Priorities, pred \in Predicates :
        goals' = Create(goals, NewGoal(class, prio, pred))
  BY DEF EnterGoal
<1>2. NewGoal(class, prio, pred) \in Goal
  BY NewGoalType, ConstantsAssumption DEF GoalClass
<1>3. NewGoal(class, prio, pred).status = "pending"
  BY DEF NewGoal
<1> QED
  BY <1>1, <1>2, <1>3, OperatorCreatesKeepsOrder DEF EnterGoal, operatorVars

LEMMA BootstrapKeepsOrder ==
  ASSUME IInv, TypeOK', NEW u \in Operators, ReadPolicies(u) \/ CreateStanding(u)
  PROVE  IInv'
<1>1. CASE ReadPolicies(u)
  BY <1>1 DEF ReadPolicies, boardVars, agentVars, historyVars,
     IInv, ApprovalGate, SettledHasTrajectory, HeldInOrder, RequestsInOrder
<1>2. CASE CreateStanding(u)
  <2>1. PICK policy \in boot[u] : goals' = Create(goals, StandingRow(policy))
    BY <1>2 DEF CreateStanding
  <2>2. policy \in Policies
    BY DEF IInv, TypeOK
  <2> DEFINE new == NewGoal("standing", 0, "judge")
  <2>3. new \in Goal
    BY NewGoalType DEF GoalClass, PredicateKind
  <2>4. StandingRow(policy) = [new EXCEPT !.status = "active", !.policy = policy]
    BY DEF StandingRow
  <2>5. StandingRow(policy) \in Goal /\ StandingRow(policy).status = "active"
    <3> HIDE DEF new
    <3> QED BY <2>2, <2>3, <2>4 DEF Goal, GoalStatus
  <2> QED
    BY <1>2, <2>1, <2>5, OperatorCreatesKeepsOrder DEF CreateStanding
<1> QED
  BY <1>1, <1>2

LEMMA OperatorStopsKeepsOrder ==
  ASSUME IInv, TypeOK', NEW u \in Operators, OperatorStops(u)
  PROVE  IInv'
<1>1. /\ op'[u] = None
      /\ \A w \in Operators \ {u} : op'[w] = op[w]
  BY DEF IInv, TypeOK, OperatorStops
<1> QED
  BY <1>1 DEF OperatorStops, boardVars, agentVars, historyVars,
     IInv, ApprovalGate, SettledHasTrajectory, HeldInOrder, RequestsInOrder

LEMMA OrderStep ==
  ASSUME IInv, [Next]_vars
  PROVE  IInv'
<1>1. TypeOK'
  BY TypeStep DEF IInv
<1>2. ASSUME NEW a \in Agents, AgentStep(a)
      PROVE  IInv'
  BY <1>1, <1>2, StandingKeepsOrder, DecideSpawnKeepsOrder, CreateSpawnedKeepsOrder,
     PickGoalKeepsOrder, ActivateKeepsOrder, ExecuteKeepsOrder,
     RecordTrajectoryKeepsOrder, SettleKeepsOrder, EndKeepsOrder
     DEF AgentStep, TickStep
<1>3. ASSUME NEW u \in Operators, OperatorStep(u)
      PROVE  IInv'
  BY <1>1, <1>3, ReadGoalKeepsOrder, WriteGoalKeepsOrder, EnterGoalKeepsOrder,
     BootstrapKeepsOrder, OperatorStopsKeepsOrder
     DEF OperatorStep
<1>4. CASE UNCHANGED vars
  BY <1>4 DEF vars, IInv, TypeOK, ApprovalGate, SettledHasTrajectory, HeldInOrder,
     RequestsInOrder
<1> QED
  BY <1>2, <1>3, <1>4 DEF Next

(* The two gates and what they rest on hold in every reachable state.      *)
THEOREM OrderInvariant == Spec => []IInv
BY InitOrder, OrderStep, PTL DEF Spec

(* A goal entered for approval is not worked on before an approve().       *)
THEOREM ApprovalGateHolds == Spec => []ApprovalGate
<1>1. IInv => ApprovalGate
  BY DEF IInv
<1> QED
  BY <1>1, OrderInvariant, PTL

(* A goal is never DONE or FAILED without a stored trajectory.             *)
THEOREM SettledHasTrajectoryHolds == Spec => []SettledHasTrajectory
<1>1. IInv => SettledHasTrajectory
  BY DEF IInv
<1> QED
  BY <1>1, OrderInvariant, PTL

-----------------------------------------------------------------------------
(* The bound on diagnoses.                                                 *)

(* What a row is, whose child, and which failure it is about: no write     *)
(* changes any of it, whatever the age of the copy that is written.        *)
Kin(row) == <<row.class, row.policy, row.parent, row.target>>

Fits(copy, board) ==
  copy.id \in 1..Len(board) /\ Kin(copy.row) = Kin(board[copy.id])

CopiesFit ==
  /\ \A a \in Agents : pc[a] \notin {"idle", "standing", "spawn"} => Fits(held[a], goals)
  /\ \A u \in Operators : op[u] # None => Fits(op[u], goals)

(* The agents that have decided on a diagnosis of f and not yet created it *)
(* count as if they had.                                                   *)
Diagnosing(sg, f) ==
  {a \in Agents : pc[a] = "spawn" /\ held[a].row.parent = sg /\ held[a].row.target = f}

DiagnosesCounted ==
  \A sg \in Nat \ {0}, f \in Nat \ {0} :
    Cardinality(Diagnoses(goals, sg, f)) + Cardinality(Diagnosing(sg, f))
      <= MaxDiagnoses + Cardinality(Agents) - 1

DiagnosisInv == TypeOK /\ CopiesFit /\ DiagnosesCounted

(* The sets counted are finite.                                            *)
LEMMA CountsAreNumbers ==
  ASSUME TypeOK, NEW sg, NEW f
  PROVE  /\ IsFiniteSet(Diagnoses(goals, sg, f))
         /\ IsFiniteSet(Diagnosing(sg, f))
         /\ Cardinality(Diagnoses(goals, sg, f)) \in Nat
         /\ Cardinality(Diagnosing(sg, f)) \in Nat
         /\ Cardinality(Diagnosing(sg, f)) <= Cardinality(Agents)
         /\ Cardinality(Agents) \in Nat
         /\ MaxDiagnoses \in Nat
<1>1. Len(goals) \in Nat
  BY LenProperties DEF TypeOK
<1>2. IsFiniteSet(1..Len(goals))
  BY <1>1, FS_Interval
<1>3. Diagnoses(goals, sg, f) \in SUBSET (1..Len(goals))
  BY DEF Diagnoses, ListChildren
<1>4. IsFiniteSet(Diagnoses(goals, sg, f))
  BY <1>2, <1>3, FS_Subset
<1>5. Diagnosing(sg, f) \in SUBSET Agents
  BY DEF Diagnosing
<1>6. IsFiniteSet(Agents) /\ MaxDiagnoses \in Nat
  BY ConstantsAssumption
<1>7. IsFiniteSet(Diagnosing(sg, f)) /\ Cardinality(Diagnosing(sg, f)) <= Cardinality(Agents)
  BY <1>5, <1>6, FS_Subset
<1> QED
  BY <1>4, <1>6, <1>7, FS_CardinalityType

LEMMA InitDiagnosis == Agents # {} /\ Init => DiagnosisInv
<1> SUFFICES ASSUME Agents # {}, Init
             PROVE  CopiesFit /\ DiagnosesCounted
  BY InitType DEF DiagnosisInv
<1>1. CopiesFit
  BY DEF Init, CopiesFit
<1>2. ASSUME NEW sg \in Nat \ {0}, NEW f \in Nat \ {0}
      PROVE  Cardinality(Diagnoses(goals, sg, f)) + Cardinality(Diagnosing(sg, f))
               <= MaxDiagnoses + Cardinality(Agents) - 1
  <2>1. Diagnosing(sg, f) = {}
    BY DEF Init, Diagnosing
  <2>2. Diagnoses(goals, sg, f) = {}
    BY <1>2, BoardsAssumption DEF Init, Diagnoses, ListChildren, FreshRow
  <2>3. Cardinality(Agents) \in Nat /\ Cardinality(Agents) # 0 /\ MaxDiagnoses \in Nat
    BY ConstantsAssumption, FS_CardinalityType, FS_EmptySet
  <2> QED
    BY <2>1, <2>2, <2>3, FS_EmptySet
<1> QED
  BY <1>1, <1>2 DEF DiagnosesCounted

(* Copies fit a board as long as no row's kin changes.                     *)
LEMMA CopiesStillFit ==
  ASSUME TypeOK, TypeOK', CopiesFit,
         Len(goals) <= Len(goals'),
         \A g \in 1..Len(goals) : Kin(goals'[g]) = Kin(goals[g]),
         \A a \in Agents :
           pc'[a] \notin {"idle", "standing", "spawn"} => Fits(held'[a], goals),
         \A u \in Operators : op'[u] # None => Fits(op'[u], goals)
  PROVE  CopiesFit'
<1>1. Len(goals) \in Nat /\ Len(goals') \in Nat
  BY LenProperties DEF TypeOK
<1>2. ASSUME NEW copy, Fits(copy, goals)
      PROVE  Fits(copy, goals')
  BY <1>1, <1>2 DEF Fits
<1> QED
  BY <1>2 DEF CopiesFit

(* A step that decides on nothing and adds no diagnosis keeps the bound.   *)
LEMMA NothingDiagnosed ==
  ASSUME TypeOK, TypeOK', DiagnosesCounted,
         Len(goals) <= Len(goals'),
         \A g \in 1..Len(goals) : Kin(goals'[g]) = Kin(goals[g]),
         \A g \in 1..Len(goals') : g > Len(goals) => goals'[g].target = 0,
         \A a \in Agents : pc'[a] = "spawn" => pc[a] = "spawn" /\ held'[a] = held[a]
  PROVE  DiagnosesCounted'
<1>1. ASSUME NEW sg \in Nat \ {0}, NEW f \in Nat \ {0}
      PROVE  Cardinality(Diagnoses(goals', sg, f)) + Cardinality(Diagnosing(sg, f)')
               <= MaxDiagnoses + Cardinality(Agents) - 1
  <2>1. Len(goals) \in Nat /\ Len(goals') \in Nat
    BY LenProperties DEF TypeOK
  <2>2. Diagnoses(goals', sg, f) \in SUBSET Diagnoses(goals, sg, f)
    BY <1>1, <2>1 DEF Diagnoses, ListChildren, Kin
  <2>3. Diagnosing(sg, f)' \in SUBSET Diagnosing(sg, f)
    BY DEF Diagnosing
  <2>4. /\ Cardinality(Diagnoses(goals', sg, f)) <= Cardinality(Diagnoses(goals, sg, f))
        /\ Cardinality(Diagnosing(sg, f)') <= Cardinality(Diagnosing(sg, f))
        /\ IsFiniteSet(Diagnoses(goals', sg, f)) /\ IsFiniteSet(Diagnosing(sg, f)')
    BY <2>2, <2>3, CountsAreNumbers, FS_Subset
  <2>5. /\ Cardinality(Diagnoses(goals', sg, f)) \in Nat
        /\ Cardinality(Diagnosing(sg, f)') \in Nat
    BY <2>4, FS_CardinalityType
  <2>6. Cardinality(Diagnoses(goals, sg, f)) + Cardinality(Diagnosing(sg, f))
          <= MaxDiagnoses + Cardinality(Agents) - 1
    BY DEF DiagnosesCounted
  <2> QED
    BY <2>4, <2>5, <2>6, CountsAreNumbers
<1> QED
  BY <1>1 DEF DiagnosesCounted, Diagnosing

(* How the writes of the repository treat kin.                             *)
LEMMA CreateKin ==
  ASSUME TypeOK, NEW row \in Goal, goals' = Create(goals, row)
  PROVE  /\ Len(goals') = Len(goals) + 1 /\ Len(goals) \in Nat
         /\ \A g \in 1..Len(goals) : goals'[g] = goals[g] /\ Kin(goals'[g]) = Kin(goals[g])
         /\ goals'[Len(goals) + 1] = row
<1>1. goals \in Seq(Goal) /\ Len(goals) \in Nat
  BY LenProperties DEF TypeOK
<1> QED
  BY <1>1, CreateType

LEMMA UpdateKin ==
  ASSUME TypeOK, NEW g \in 1..Len(goals), NEW row \in Goal, Kin(row) = Kin(goals[g]),
         goals' = Update(goals, g, row)
  PROVE  /\ Len(goals') = Len(goals) /\ Len(goals) \in Nat
         /\ \A h \in 1..Len(goals) : goals'[h] = IF h = g THEN row ELSE goals[h]
         /\ \A h \in 1..Len(goals) : Kin(goals'[h]) = Kin(goals[h])
<1>1. goals \in Seq(Goal) /\ Len(goals) \in Nat
  BY LenProperties DEF TypeOK
<1>2. /\ Len(goals') = Len(goals)
      /\ \A h \in 1..Len(goals) : goals'[h] = IF h = g THEN row ELSE goals[h]
  <2>1. /\ Len(Update(goals, g, row)) = Len(goals)
        /\ \A h \in 1..Len(goals) :
             Update(goals, g, row)[h] = IF h = g THEN row ELSE goals[h]
    BY <1>1, UpdateType, ZenonT(60)
  <2> QED
    BY <2>1
<1>3. ASSUME NEW h \in 1..Len(goals)
      PROVE  Kin(goals'[h]) = Kin(goals[h])
  <2>1. CASE h = g
    BY <1>2, <2>1
  <2>2. CASE h # g
    BY <1>2, <2>2
  <2> QED
    BY <2>1, <2>2
<1> QED
  BY <1>1, <1>2, <1>3

LEMMA WithStatusKin ==
  ASSUME NEW row \in Goal, NEW s
  PROVE  Kin([row EXCEPT !.status = s]) = Kin(row)
BY DEF Goal, Kin

(* Steps that write no row, pick no goal and decide on nothing.            *)
LEMMA QuietKeepsDiagnoses ==
  ASSUME DiagnosisInv, TypeOK', NEW a \in Agents,
         UNCHANGED <<goals, op>>,
         \A b \in Agents \ {a} : pc'[b] = pc[b] /\ held'[b] = held[b],
         \/ pc'[a] \in {"idle", "standing"}
         \/ /\ pc[a] \notin {"idle", "standing", "spawn"} /\ pc'[a] # "spawn"
            /\ held'[a] = held[a]
  PROVE  DiagnosisInv'
<1>1. Len(goals) \in Nat
  BY LenProperties DEF TypeOK, DiagnosisInv
<1>2. \A b \in Agents : pc'[b] = "spawn" => pc[b] = "spawn" /\ held'[b] = held[b]
  OBVIOUS
<1>3. \A b \in Agents :
        pc'[b] \notin {"idle", "standing", "spawn"} => Fits(held'[b], goals)
  BY DEF DiagnosisInv, CopiesFit
<1>4. \A u \in Operators : op'[u] # None => Fits(op'[u], goals)
  BY DEF DiagnosisInv, CopiesFit
<1>5. CopiesFit'
  BY <1>1, <1>3, <1>4, CopiesStillFit DEF DiagnosisInv
<1>6. DiagnosesCounted'
  BY <1>1, <1>2, NothingDiagnosed DEF DiagnosisInv
<1> QED
  BY <1>5, <1>6 DEF DiagnosisInv

LEMMA StandingKeepsDiagnoses ==
  ASSUME DiagnosisInv, TypeOK', NEW a \in Agents,
         StartTick(a) \/ SkipStanding(a) \/ PolicyRaises(a)
  PROVE  DiagnosisInv'
<1>1. UNCHANGED <<goals, op, held>>
  BY DEF StartTick, SkipStanding, PolicyRaises, boardVars, operatorVars
<1>2. pc'[a] = "standing" /\ \A b \in Agents \ {a} : pc'[b] = pc[b]
  BY DEF StartTick, SkipStanding, PolicyRaises, DiagnosisInv, TypeOK
<1> QED
  BY <1>1, <1>2, QuietKeepsDiagnoses

LEMMA WorkKeepsDiagnoses ==
  ASSUME DiagnosisInv, TypeOK', NEW a \in Agents, Execute(a) \/ RecordTrajectory(a)
  PROVE  DiagnosisInv'
<1>1. UNCHANGED <<goals, op, held>>
  BY DEF Execute, RecordTrajectory, boardVars, operatorVars
<1>2. /\ pc[a] \in {"run", "record"} /\ pc'[a] \in {"record", "settle"}
      /\ \A b \in Agents \ {a} : pc'[b] = pc[b]
  BY DEF Execute, RecordTrajectory, DiagnosisInv, TypeOK
<1> QED
  BY <1>1, <1>2, QuietKeepsDiagnoses

LEMMA EndKeepsDiagnoses ==
  ASSUME DiagnosisInv, TypeOK', NEW a \in Agents,
         IdleTick(a) \/ ReflectQuietly(a) \/ TickAborts(a)
  PROVE  DiagnosisInv'
<1>1. EndTick(a) /\ UNCHANGED <<goals, op>>
  BY DEF IdleTick, ReflectQuietly, TickAborts, boardVars, operatorVars
<1>2. pc'[a] = "idle" /\ \A b \in Agents \ {a} : pc'[b] = pc[b] /\ held'[b] = held[b]
  BY <1>1, EndTickType DEF DiagnosisInv
<1> QED
  BY <1>1, <1>2, QuietKeepsDiagnoses

(* Picking copies a row, and with it its kin.                              *)
LEMMA PickGoalKeepsDiagnoses ==
  ASSUME DiagnosisInv, TypeOK', NEW a \in Agents, PickGoal(a)
  PROVE  DiagnosisInv'
<1>1. TypeOK /\ CopiesFit /\ DiagnosesCounted /\ Len(goals) \in Nat
  BY LenProperties DEF DiagnosisInv, TypeOK
<1>2. UNCHANGED <<goals, op>>
  BY DEF PickGoal, boardVars, operatorVars
<1>3. PICK g \in Pickable(goals) :
        held' = [held EXCEPT ![a] = [id |-> g, row |-> [goals[g] EXCEPT !.status = "active"]]]
  BY DEF PickGoal
<1>4. g \in 1..Len(goals) /\ goals[g] \in Goal
  BY <1>1, RowType DEF Pickable, ListByStatus, TypeOK
<1>5. /\ held'[a] = [id |-> g, row |-> [goals[g] EXCEPT !.status = "active"]]
      /\ \A b \in Agents \ {a} : held'[b] = held[b]
  BY <1>1, <1>3 DEF TypeOK
<1>6. pc'[a] = "activate" /\ \A b \in Agents \ {a} : pc'[b] = pc[b]
  BY <1>1 DEF PickGoal, TypeOK
<1>7. Fits(held'[a], goals)
  <2> DEFINE copy == [goals[g] EXCEPT !.status = "active"]
  <2>1. Kin(copy) = Kin(goals[g])
    BY <1>4, WithStatusKin
  <2>2. held'[a].id = g /\ held'[a].row = copy
    BY <1>5
  <2> QED
    BY <1>4, <2>1, <2>2 DEF Fits
<1>8. \A b \in Agents :
        pc'[b] \notin {"idle", "standing", "spawn"} => Fits(held'[b], goals)
  BY <1>1, <1>5, <1>6, <1>7 DEF CopiesFit
<1>9. \A u \in Operators : op'[u] # None => Fits(op'[u], goals)
  BY <1>1, <1>2 DEF CopiesFit
<1>10. CopiesFit'
  BY <1>1, <1>2, <1>8, <1>9, CopiesStillFit
<1>11. \A b \in Agents : pc'[b] = "spawn" => pc[b] = "spawn" /\ held'[b] = held[b]
  BY <1>5, <1>6
<1>12. DiagnosesCounted'
  BY <1>1, <1>2, <1>11, NothingDiagnosed
<1> QED
  BY <1>10, <1>12 DEF DiagnosisInv

(* A tick writes its copy back.                                            *)
LEMMA WriteBackKeepsDiagnoses ==
  ASSUME DiagnosisInv, TypeOK', NEW a \in Agents, Activate(a) \/ Settle(a)
  PROVE  DiagnosisInv'
<1>1. TypeOK /\ CopiesFit /\ DiagnosesCounted /\ Len(goals) \in Nat
  BY LenProperties DEF DiagnosisInv, TypeOK
<1>2. /\ pc[a] \in {"activate", "settle"} /\ held[a] \in Held /\ held[a].row \in Goal
      /\ held[a].id \in 1..Len(goals) /\ Kin(held[a].row) = Kin(goals[held[a].id])
  BY <1>1 DEF Activate, Settle, TypeOK, Held, CopiesFit, Fits
<1>3. PICK row \in Goal :
        goals' = Update(goals, held[a].id, row) /\ Kin(row) = Kin(held[a].row)
  <2>1. CASE Activate(a)
    BY <1>2, <2>1 DEF Activate
  <2>2. CASE Settle(a)
    <3>1. StatusAfter(verdict[a], held[a].row.status) \in GoalStatus
      BY <1>2 DEF StatusAfter, GoalStatus, Goal
    <3> DEFINE new == [held[a].row EXCEPT !.status = StatusAfter(verdict[a], @)]
    <3>2. new = [held[a].row EXCEPT !.status = StatusAfter(verdict[a], held[a].row.status)]
      BY <1>2 DEF Goal
    <3>3. new \in Goal /\ Kin(new) = Kin(held[a].row)
      <4> HIDE DEF new
      <4> QED BY <1>2, <3>1, <3>2, WithStatusType, WithStatusKin
    <3> QED
      BY <2>2, <3>3 DEF Settle
  <2> QED
    BY <2>1, <2>2
<1>4. Len(goals') = Len(goals) /\ \A h \in 1..Len(goals) : Kin(goals'[h]) = Kin(goals[h])
  BY <1>1, <1>2, <1>3, UpdateKin
<1>5. UNCHANGED op
  BY DEF Activate, Settle, operatorVars
<1>6. /\ \A b \in Agents \ {a} : pc'[b] = pc[b] /\ held'[b] = held[b]
      /\ \/ pc'[a] = "idle"
         \/ pc'[a] \in {"run", "reflect"} /\ held'[a] = held[a]
  BY <1>1, EndTickType DEF Activate, Settle, TypeOK
<1>7. \A b \in Agents :
        pc'[b] \notin {"idle", "standing", "spawn"} => Fits(held'[b], goals)
  BY <1>1, <1>2, <1>6 DEF CopiesFit
<1>8. \A u \in Operators : op'[u] # None => Fits(op'[u], goals)
  BY <1>1, <1>5 DEF CopiesFit
<1>9. CopiesFit'
  BY <1>1, <1>4, <1>7, <1>8, CopiesStillFit
<1>10. \A b \in Agents : pc'[b] = "spawn" => pc[b] = "spawn" /\ held'[b] = held[b]
  BY <1>6
<1>11. DiagnosesCounted'
  BY <1>1, <1>4, <1>10, NothingDiagnosed
<1> QED
  BY <1>9, <1>11 DEF DiagnosisInv

(* Entering a goal, an inquiry or a policy's standing goal: no diagnosis.  *)
LEMMA OtherRowsKeepDiagnoses ==
  ASSUME DiagnosisInv, TypeOK', NEW row \in Goal, row.target = 0,
         goals' = Create(goals, row), UNCHANGED op,
         \A b \in Agents : \/ pc'[b] = "idle"
                           \/ pc'[b] = pc[b] /\ held'[b] = held[b]
  PROVE  DiagnosisInv'
<1>1. TypeOK /\ CopiesFit /\ DiagnosesCounted
  BY DEF DiagnosisInv
<1>2. /\ Len(goals') = Len(goals) + 1 /\ Len(goals) \in Nat
      /\ \A g \in 1..Len(goals) : Kin(goals'[g]) = Kin(goals[g])
      /\ goals'[Len(goals) + 1] = row
  BY <1>1, CreateKin
<1>3. Len(goals) <= Len(goals')
      /\ \A g \in 1..Len(goals') : g > Len(goals) => goals'[g].target = 0
  BY <1>2
<1>4. CopiesFit'
  <2>1. \A b \in Agents :
          pc'[b] \notin {"idle", "standing", "spawn"} => Fits(held'[b], goals)
    BY <1>1 DEF CopiesFit
  <2>2. \A u \in Operators : op'[u] # None => Fits(op'[u], goals)
    BY <1>1 DEF CopiesFit
  <2> QED
    BY <1>1, <1>2, <1>3, <2>1, <2>2, CopiesStillFit
<1>5. \A b \in Agents : pc'[b] = "spawn" => pc[b] = "spawn" /\ held'[b] = held[b]
  OBVIOUS
<1>6. DiagnosesCounted'
  BY <1>1, <1>2, <1>3, <1>5, NothingDiagnosed
<1> QED
  BY <1>4, <1>6 DEF DiagnosisInv

LEMMA ReflectInquiryKeepsDiagnoses ==
  ASSUME DiagnosisInv, TypeOK', NEW a \in Agents, ReflectInquiry(a)
  PROVE  DiagnosisInv'
<1>1. TypeOK /\ held[a].id \in Nat
  BY DEF DiagnosisInv, ReflectInquiry, TypeOK, Held
<1>2. NewGoal("inquiry", 1, "judge") \in Goal /\ NewGoal("inquiry", 1, "judge").target = 0
  BY NewGoalType DEF GoalClass, PredicateKind, NewGoal
<1>3. InquiryRow(held[a].id) \in Goal /\ InquiryRow(held[a].id).target = 0
  <2> DEFINE new == NewGoal("inquiry", 1, "judge")
  <2>1. new \in Goal /\ new.target = 0
    BY <1>2
  <2>2. [new EXCEPT !.parent = held[a].id] \in Goal
        /\ [new EXCEPT !.parent = held[a].id].target = 0
    <3> HIDE DEF new
    <3> QED BY <1>1, <2>1 DEF Goal
  <2> QED
    BY <2>2 DEF InquiryRow
<1>4. goals' = Create(goals, InquiryRow(held[a].id)) /\ EndTick(a) /\ UNCHANGED op
  BY DEF ReflectInquiry, operatorVars
<1>5. \A b \in Agents : \/ pc'[b] = "idle"
                        \/ pc'[b] = pc[b] /\ held'[b] = held[b]
  BY <1>1, <1>4, EndTickType
<1> QED
  BY <1>3, <1>4, <1>5, OtherRowsKeepDiagnoses

LEMMA EnterGoalKeepsDiagnoses ==
  ASSUME DiagnosisInv, TypeOK', NEW u \in Operators, EnterGoal(u)
  PROVE  DiagnosisInv'
<1>1. PICK class \in {"task", "standing"}, prio \in Priorities, pred \in Predicates :
        goals' = Create(goals, NewGoal(class, prio, pred))
  BY DEF EnterGoal
<1>2. prio \in Nat /\ pred \in PredicateKind /\ class \in GoalClass
  BY ConstantsAssumption DEF GoalClass
<1>3. NewGoal(class, prio, pred) \in Goal /\ NewGoal(class, prio, pred).target = 0
  BY <1>2, NewGoalType DEF NewGoal
<1>4. UNCHANGED <<pc, held, op>>
  BY DEF EnterGoal, agentVars, operatorVars
<1> QED
  BY <1>1, <1>3, <1>4, OtherRowsKeepDiagnoses

LEMMA BootstrapKeepsDiagnoses ==
  ASSUME DiagnosisInv, TypeOK', NEW u \in Operators, CreateStanding(u)
  PROVE  DiagnosisInv'
<1>1. PICK policy \in boot[u] : goals' = Create(goals, StandingRow(policy))
  BY DEF CreateStanding
<1>2. policy \in Policies
  BY DEF DiagnosisInv, TypeOK
<1>3. NewGoal("standing", 0, "judge") \in Goal /\ NewGoal("standing", 0, "judge").target = 0
  BY NewGoalType DEF GoalClass, PredicateKind, NewGoal
<1>4. StandingRow(policy) \in Goal /\ StandingRow(policy).target = 0
  <2> DEFINE new == NewGoal("standing", 0, "judge")
  <2>1. new \in Goal /\ new.target = 0
    BY <1>3
  <2>2. [new EXCEPT !.status = "active", !.policy = policy] \in Goal
        /\ [new EXCEPT !.status = "active", !.policy = policy].target = 0
    <3> HIDE DEF new
    <3> QED BY <1>2, <2>1 DEF Goal, GoalStatus
  <2> QED
    BY <2>2 DEF StandingRow
<1>5. UNCHANGED <<pc, held, op>>
  BY DEF CreateStanding, agentVars
<1> QED
  BY <1>1, <1>4, <1>5, OtherRowsKeepDiagnoses

(* Requests: a copy is read with its kin and written with it.              *)
LEMMA EditedKin ==
  ASSUME NEW kind \in OperationKind \ {"create", "bootstrap"}, NEW row \in Goal
  PROVE  Kin(Edited(kind, row)) = Kin(row)
BY DEF Edited, OperationKind, Goal, Kin

LEMMA RequestKeepsDiagnoses ==
  ASSUME DiagnosisInv, TypeOK', NEW u \in Operators,
         ReadGoal(u) \/ ReadPolicies(u) \/ OperatorStops(u)
  PROVE  DiagnosisInv'
<1>1. TypeOK /\ CopiesFit /\ DiagnosesCounted /\ Len(goals) \in Nat
  BY LenProperties DEF DiagnosisInv, TypeOK
<1>2. UNCHANGED <<goals, pc, held>>
  BY DEF ReadGoal, ReadPolicies, OperatorStops, boardVars, agentVars
<1>3. \A v \in Operators : op'[v] # None => Fits(op'[v], goals)
  <2>1. CASE ReadGoal(u)
    <3>1. PICK kind \in Operations \ {"create", "bootstrap"}, g \in 1..Len(goals) :
            op' = [op EXCEPT ![u] = [kind |-> kind, id |-> g, row |-> Edited(kind, goals[g])]]
      BY <2>1 DEF ReadGoal
    <3>2. goals[g] \in Goal /\ kind \in OperationKind \ {"create", "bootstrap"}
      BY <1>1, RowType, ConstantsAssumption DEF TypeOK
    <3>3. Kin(Edited(kind, goals[g])) = Kin(goals[g])
      BY <3>2, EditedKin
    <3>4. /\ op'[u].id = g /\ op'[u].row = Edited(kind, goals[g])
          /\ \A v \in Operators \ {u} : op'[v] = op[v]
      BY <1>1, <3>1 DEF TypeOK
    <3>5. Fits(op'[u], goals)
      BY <3>3, <3>4 DEF Fits
    <3> QED
      BY <1>1, <3>4, <3>5 DEF CopiesFit
  <2>2. CASE ReadPolicies(u)
    BY <1>1, <2>2 DEF ReadPolicies, CopiesFit
  <2>3. CASE OperatorStops(u)
    BY <1>1, <2>3 DEF OperatorStops, CopiesFit, TypeOK
  <2> QED
    BY <2>1, <2>2, <2>3
<1>4. CopiesFit'
  BY <1>1, <1>2, <1>3, CopiesStillFit DEF CopiesFit
<1>5. DiagnosesCounted'
  BY <1>1, <1>2, NothingDiagnosed
<1> QED
  BY <1>4, <1>5 DEF DiagnosisInv

LEMMA WriteGoalKeepsDiagnoses ==
  ASSUME DiagnosisInv, TypeOK', NEW u \in Operators, WriteGoal(u)
  PROVE  DiagnosisInv'
<1>1. TypeOK /\ CopiesFit /\ DiagnosesCounted /\ Len(goals) \in Nat
  BY LenProperties DEF DiagnosisInv, TypeOK
<1>2. /\ op[u].row \in Goal /\ op[u].id \in 1..Len(goals)
      /\ Kin(op[u].row) = Kin(goals[op[u].id])
  BY <1>1 DEF WriteGoal, TypeOK, Request, CopiesFit, Fits
<1>3. /\ goals' = Update(goals, op[u].id, op[u].row)
      /\ op'= [op EXCEPT ![u] = None] /\ UNCHANGED <<pc, held>>
  BY DEF WriteGoal, agentVars
<1>4. Len(goals') = Len(goals) /\ \A h \in 1..Len(goals) : Kin(goals'[h]) = Kin(goals[h])
  BY <1>1, <1>2, <1>3, UpdateKin
<1>5. \A v \in Operators : op'[v] # None => Fits(op'[v], goals)
  BY <1>1, <1>3 DEF CopiesFit, TypeOK
<1>6. CopiesFit'
  BY <1>1, <1>3, <1>4, <1>5, CopiesStillFit DEF CopiesFit
<1>7. DiagnosesCounted'
  BY <1>1, <1>3, <1>4, NothingDiagnosed
<1> QED
  BY <1>6, <1>7 DEF DiagnosisInv

(* A policy decides: it has just counted fewer diagnoses than allowed, and *)
(* at worst every agent decides with it.                                   *)
LEMMA DecideSpawnKeepsDiagnoses ==
  ASSUME DiagnosisInv, TypeOK', NEW a \in Agents, DecideSpawn(a)
  PROVE  DiagnosisInv'
<1>1. TypeOK /\ CopiesFit /\ DiagnosesCounted /\ Len(goals) \in Nat
  BY LenProperties DEF DiagnosisInv, TypeOK
<1>2. UNCHANGED <<goals, op>> /\ pc[a] = "standing"
  BY DEF DecideSpawn, boardVars, operatorVars
<1>3. PICK sg \in todo[a] : \E row \in Wanted(a, sg) :
        held' = [held EXCEPT ![a] = [id |-> 0, row |-> row]]
  BY DEF DecideSpawn
<1>4. PICK row \in Wanted(a, sg) : held' = [held EXCEPT ![a] = [id |-> 0, row |-> row]]
  BY <1>3
<1>5. /\ held'[a].row = row /\ \A b \in Agents \ {a} : held'[b] = held[b]
      /\ pc'[a] = "spawn" /\ \A b \in Agents \ {a} : pc'[b] = pc[b]
  BY <1>1, <1>4 DEF DecideSpawn, TypeOK
<1>6. sg \in 1..Len(goals) /\ row \in Proposals(goals, sg, alert[a])
  BY <1>1, <1>3, <1>4 DEF TypeOK, Wanted
<1>7. row.target # 0 => /\ row.parent = sg
                        /\ Cardinality(Diagnoses(goals, sg, row.target)) < MaxDiagnoses
  <2>1. goals[sg].policy \in Policies \cup {"none"}
    BY <1>1, <1>6, RowType DEF TypeOK, Goal
  <2>2. CASE goals[sg].policy = "on_alert_observation"
    <3>1. row = SpawnedRow(sg, ChildPriority, 0)
      BY <1>6, <2>2, Zenon DEF Proposals
    <3> QED
      BY <3>1 DEF SpawnedRow, NewGoal
  <2>3. CASE goals[sg].policy = "on_prev_verify_failure"
    <3>1. PICK f \in Undiagnosed(goals, sg) : row = SpawnedRow(sg, 2, f)
      BY <1>6, <2>3 DEF Proposals
    <3>2. row.target = f /\ row.parent = sg
      BY <3>1 DEF SpawnedRow, NewGoal
    <3> QED
      BY <3>1, <3>2 DEF Undiagnosed
  <2>4. CASE goals[sg].policy = "none"
    BY <1>6, <2>4 DEF Proposals
  <2> QED
    BY <2>1, <2>2, <2>3, <2>4 DEF Policies
<1>8. CopiesFit'
  BY <1>1, <1>2, <1>5, CopiesStillFit DEF CopiesFit
<1>9. ASSUME NEW tg \in Nat \ {0}, NEW f \in Nat \ {0}
      PROVE  Cardinality(Diagnoses(goals', tg, f)) + Cardinality(Diagnosing(tg, f)')
               <= MaxDiagnoses + Cardinality(Agents) - 1
  <2>1. Diagnoses(goals', tg, f) = Diagnoses(goals, tg, f)
    BY <1>2
  <2>2. CASE row.parent = tg /\ row.target = f
    <3>1. tg = sg /\ Cardinality(Diagnoses(goals, tg, f)) < MaxDiagnoses
      BY <1>7, <2>2
    <3>2. Diagnosing(tg, f)' \in SUBSET Agents
      BY DEF Diagnosing
    <3>3. /\ Cardinality(Diagnosing(tg, f)') <= Cardinality(Agents)
          /\ IsFiniteSet(Diagnosing(tg, f)')
      BY <3>2, ConstantsAssumption, FS_Subset
    <3>4. Cardinality(Diagnosing(tg, f)') \in Nat
      BY <3>3, FS_CardinalityType
    <3> QED
      BY <1>1, <2>1, <3>1, <3>3, <3>4, CountsAreNumbers
  <2>3. CASE ~(row.parent = tg /\ row.target = f)
    <3>1. Diagnosing(tg, f)' = Diagnosing(tg, f)
      BY <1>2, <1>5, <2>3 DEF Diagnosing
    <3> QED
      BY <1>1, <2>1, <3>1 DEF DiagnosesCounted
  <2> QED
    BY <2>2, <2>3
<1>10. DiagnosesCounted'
  BY <1>9 DEF DiagnosesCounted, Diagnosing
<1> QED
  BY <1>8, <1>10 DEF DiagnosisInv

(* The decision becomes a row: one diagnosis more, one decision less.      *)
LEMMA CreateSpawnedKeepsDiagnoses ==
  ASSUME DiagnosisInv, TypeOK', NEW a \in Agents, CreateSpawned(a)
  PROVE  DiagnosisInv'
<1>1. TypeOK /\ CopiesFit /\ DiagnosesCounted
  BY DEF DiagnosisInv
<1>2. PICK row \in Goal : row = held[a].row
  BY <1>1 DEF CreateSpawned, TypeOK, Held
<1>3. UNCHANGED op /\ pc[a] = "spawn" /\ goals' = Create(goals, row)
  BY <1>2 DEF CreateSpawned, operatorVars
<1>4. /\ pc'[a] = "standing" /\ \A b \in Agents \ {a} : pc'[b] = pc[b]
      /\ \A b \in Agents \ {a} : held'[b] = held[b]
  BY <1>1 DEF CreateSpawned, TypeOK
<1>5. /\ Len(goals') = Len(goals) + 1 /\ Len(goals) \in Nat
      /\ \A g \in 1..Len(goals) : goals'[g] = goals[g] /\ Kin(goals'[g]) = Kin(goals[g])
      /\ goals'[Len(goals) + 1] = row
  BY <1>1, <1>3, CreateKin
<1>6. CopiesFit'
  <2>1. \A b \in Agents :
          pc'[b] \notin {"idle", "standing", "spawn"} => Fits(held'[b], goals)
    BY <1>1, <1>4 DEF CopiesFit
  <2>2. \A u \in Operators : op'[u] # None => Fits(op'[u], goals)
    BY <1>1, <1>3 DEF CopiesFit
  <2> QED
    BY <1>1, <1>5, <2>1, <2>2, CopiesStillFit
<1>7. ASSUME NEW sg \in Nat \ {0}, NEW f \in Nat \ {0}
      PROVE  Cardinality(Diagnoses(goals', sg, f)) + Cardinality(Diagnosing(sg, f)')
               <= MaxDiagnoses + Cardinality(Agents) - 1
  <2>1. PICK last \in Nat : last = Len(goals) + 1
    BY <1>5
  <2>2. Cardinality(Diagnoses(goals, sg, f)) + Cardinality(Diagnosing(sg, f))
          <= MaxDiagnoses + Cardinality(Agents) - 1
    BY <1>1 DEF DiagnosesCounted
  <2>3. CASE row.parent = sg /\ row.target = f
    <3>1. Diagnoses(goals', sg, f) = Diagnoses(goals, sg, f) \cup {last}
      BY <1>5, <2>1, <2>3 DEF Diagnoses, ListChildren
    <3>2. last \notin Diagnoses(goals, sg, f)
      BY <1>5, <2>1 DEF Diagnoses, ListChildren
    <3>3. Cardinality(Diagnoses(goals', sg, f)) = Cardinality(Diagnoses(goals, sg, f)) + 1
      BY <1>1, <3>1, <3>2, CountsAreNumbers, FS_AddElement
    <3>4. Diagnosing(sg, f)' = Diagnosing(sg, f) \ {a} /\ a \in Diagnosing(sg, f)
      BY <1>2, <1>3, <1>4, <2>3 DEF Diagnosing
    <3>5. Cardinality(Diagnosing(sg, f)') = Cardinality(Diagnosing(sg, f)) - 1
      <4>1. IsFiniteSet(Diagnosing(sg, f))
        BY <1>1, CountsAreNumbers
      <4>2. Cardinality(Diagnosing(sg, f) \ {a}) = Cardinality(Diagnosing(sg, f)) - 1
        BY <3>4, <4>1, FS_RemoveElement
      <4> QED
        BY <3>4, <4>2
    <3> QED
      BY <1>1, <2>2, <3>3, <3>5, CountsAreNumbers
  <2>4. CASE ~(row.parent = sg /\ row.target = f)
    <3>1. Diagnoses(goals', sg, f) = Diagnoses(goals, sg, f)
      BY <1>5, <2>4 DEF Diagnoses, ListChildren
    <3>2. Diagnosing(sg, f)' = Diagnosing(sg, f)
      BY <1>2, <1>3, <1>4, <2>4 DEF Diagnosing
    <3> QED
      BY <2>2, <3>1, <3>2
  <2> QED
    BY <2>3, <2>4
<1>8. DiagnosesCounted'
  BY <1>7 DEF DiagnosesCounted, Diagnosing
<1> QED
  BY <1>6, <1>8 DEF DiagnosisInv

LEMMA StutterKeepsDiagnoses ==
  ASSUME DiagnosisInv, UNCHANGED vars
  PROVE  DiagnosisInv'
<1>1. TypeOK'
  BY TypeStep DEF DiagnosisInv
<1>2. UNCHANGED <<goals, pc, held, op>>
  BY DEF vars
<1>3. CopiesFit'
  BY <1>2 DEF DiagnosisInv, CopiesFit
<1>4. DiagnosesCounted'
  BY <1>2 DEF DiagnosisInv, DiagnosesCounted, Diagnosing
<1> QED
  BY <1>1, <1>3, <1>4 DEF DiagnosisInv

LEMMA DiagnosisStep ==
  ASSUME DiagnosisInv, [Next]_vars
  PROVE  DiagnosisInv'
<1>1. TypeOK'
  BY TypeStep DEF DiagnosisInv
<1>2. ASSUME NEW a \in Agents, AgentStep(a)
      PROVE  DiagnosisInv'
  BY <1>1, <1>2, StandingKeepsDiagnoses, DecideSpawnKeepsDiagnoses,
     CreateSpawnedKeepsDiagnoses, PickGoalKeepsDiagnoses, WriteBackKeepsDiagnoses,
     WorkKeepsDiagnoses, ReflectInquiryKeepsDiagnoses, EndKeepsDiagnoses
     DEF AgentStep, TickStep
<1>3. ASSUME NEW u \in Operators, OperatorStep(u)
      PROVE  DiagnosisInv'
  BY <1>1, <1>3, RequestKeepsDiagnoses, WriteGoalKeepsDiagnoses,
     EnterGoalKeepsDiagnoses, BootstrapKeepsDiagnoses
     DEF OperatorStep
<1> QED
  BY <1>2, <1>3, StutterKeepsDiagnoses DEF Next

(* One failure is diagnosed no more often than its policy allows, and once *)
(* more for each further process that runs ticks.                          *)
THEOREM DiagnosesBounded ==
  ASSUME Agents # {}
  PROVE  Spec => []DiagnosisBound
<1>1. Init => DiagnosisInv
  BY InitDiagnosis
<1>2. DiagnosisInv /\ [Next]_vars => DiagnosisInv'
  BY DiagnosisStep
<1>3. DiagnosisInv => DiagnosisBound
  <2> SUFFICES ASSUME DiagnosisInv,
                      NEW sg \in ListByClass(goals, "standing"), NEW f \in 1..Len(goals)
               PROVE  Cardinality(Diagnoses(goals, sg, f)) <= MaxDiagnoses + Cardinality(Agents) - 1
    BY DEF DiagnosisBound
  <2>1. Len(goals) \in Nat
    BY LenProperties DEF DiagnosisInv, TypeOK
  <2>2. sg \in Nat \ {0} /\ f \in Nat \ {0}
    BY <2>1 DEF ListByClass
  <2>3. Cardinality(Diagnoses(goals, sg, f)) + Cardinality(Diagnosing(sg, f))
          <= MaxDiagnoses + Cardinality(Agents) - 1
    BY <2>2 DEF DiagnosisInv, DiagnosesCounted
  <2>4. TypeOK
    BY DEF DiagnosisInv
  <2>5. /\ Cardinality(Diagnoses(goals, sg, f)) \in Nat /\ Cardinality(Diagnosing(sg, f)) \in Nat
        /\ Cardinality(Agents) \in Nat /\ MaxDiagnoses \in Nat
    BY <2>4, CountsAreNumbers
  <2> QED
    BY <2>3, <2>5
<1> QED
  BY <1>1, <1>2, <1>3, PTL DEF Spec

-----------------------------------------------------------------------------
(* The life cycle, where one process ticks and one request is served at a  *)
(* time, and no budget is edited: an edit writes back whatever status it   *)
(* has read.                                                               *)

OneAtATime ==
  /\ \A a, b \in Agents : a = b
  /\ \A u, w \in Operators : u = w
  /\ "budget" \notin Operations

Status(board, g) == IF g <= Len(board) THEN board[g].status ELSE "absent"

(* What was not picked up yet has no trajectory.                           *)
NothingStoredEarly ==
  \A g \in GoalIds :
    Status(goals, g) \in {"absent", "pending", "pending_approval"} => runs[g] = 0

(* The goal at work is where the tick left it, or was abandoned meanwhile. *)
WorkInOrder ==
  \A a \in Agents :
    /\ pc[a] = "activate" =>
         Status(goals, held[a].id) \in {"pending", "abandoned"} /\ runs[held[a].id] = 0
    /\ pc[a] \in {"run", "record"} =>
         Status(goals, held[a].id) \in {"active", "abandoned"} /\ runs[held[a].id] = 0
    /\ pc[a] = "settle" =>
         Status(goals, held[a].id) \in {"active", "abandoned"} /\ runs[held[a].id] = 1

(* What a request is about to write; a goal that waits for approval waits  *)
(* for the request that is deciding on it.                                 *)
DecisionsInOrder ==
  \A u \in Operators : op[u] # None =>
    /\ op[u].kind \in {"approve", "reject", "abandon"}
    /\ op[u].row.status = IF op[u].kind = "approve" THEN "pending" ELSE "abandoned"
    /\ op[u].kind = "approve" => Status(goals, op[u].id) = "pending_approval"

LifeInv == OneAtATime /\ IInv /\ NothingStoredEarly /\ WorkInOrder /\ DecisionsInOrder

LifeStep ==
  [Lifecycle!Next]_<<[g \in GoalIds |-> StatusOf(g)], runs>>

LEMMA InitLife == OneAtATime /\ Init => LifeInv /\ Lifecycle!Init
<1> SUFFICES ASSUME OneAtATime, Init
             PROVE  /\ NothingStoredEarly /\ WorkInOrder /\ DecisionsInOrder
                    /\ Lifecycle!Init
  BY InitOrder DEF LifeInv
<1>1. goals \in Boards /\ goals \in Seq(Goal) /\ Len(goals) \in Nat
  BY BoardsAssumption, LenProperties DEF Init
<1>2. \A g \in GoalIds : runs[g] = 0
  BY DEF Init
<1>3. NothingStoredEarly /\ WorkInOrder /\ DecisionsInOrder
  BY <1>2 DEF Init, NothingStoredEarly, WorkInOrder, DecisionsInOrder
<1>4. \A g \in 1..Len(goals) :
        goals[g].status \in {"pending", "pending_approval", "active"}
  BY <1>1, BoardsAssumption DEF FreshRow
<1>5. \A g \in GoalIds : StatusOf(g) \in {"absent", "pending", "pending_approval", "active"}
  BY <1>1, <1>4, ConstantsAssumption DEF StatusOf, GoalIds
<1>6. Lifecycle!Init
  BY <1>5 DEF Lifecycle!Init, Init
<1> QED
  BY <1>3, <1>6

(* A move of the abstract machine: one goal changes its status.            *)
LEMMA MoveIsAbstract ==
  ASSUME NEW g \in GoalIds, NEW from, NEW to, NEW s \in to,
         Status(goals, g) \in from,
         \A h \in GoalIds : Status(goals', h) = IF h = g THEN s ELSE Status(goals, h),
         runs' = runs
  PROVE  Lifecycle!Move(g, from, to)
<1> DEFINE view == [h \in GoalIds |-> StatusOf(h)]
<1>1. view[g] \in from
  BY DEF StatusOf, Status
<1>2. view' = [h \in GoalIds |-> Status(goals', h)]
  BY DEF StatusOf, Status
<1>3. view = [h \in GoalIds |-> Status(goals, h)]
  BY DEF StatusOf, Status
<1>4. view' = [view EXCEPT ![g] = s]
  BY <1>2, <1>3
<1> QED
  BY <1>1, <1>4 DEF Lifecycle!Move

(* The two writes of the repository, seen from the abstract machine.       *)
LEMMA CreateMoves ==
  ASSUME IInv, NEW row \in Goal, Len(goals) < MaxGoals, goals' = Create(goals, row)
  PROVE  /\ Len(goals) + 1 \in GoalIds /\ Status(goals, Len(goals) + 1) = "absent"
         /\ \A h \in GoalIds : Status(goals', h) =
              IF h = Len(goals) + 1 THEN row.status ELSE Status(goals, h)
<1>1. /\ Len(goals) \in Nat /\ MaxGoals \in Nat
      /\ Len(goals') = Len(goals) + 1
      /\ \A g \in 1..Len(goals) : goals'[g] = goals[g]
      /\ goals'[Len(goals) + 1] = row
  BY CreateType, LenProperties, ConstantsAssumption DEF IInv, TypeOK
<1> QED
  BY <1>1 DEF Status, GoalIds

LEMMA UpdateMoves ==
  ASSUME IInv, NEW g \in 1..Len(goals), NEW row \in Goal, goals' = Update(goals, g, row)
  PROVE  \A h \in GoalIds : Status(goals', h) = IF h = g THEN row.status ELSE Status(goals, h)
<1>1. goals \in Seq(Goal) /\ Len(goals) \in Nat
  BY LenProperties DEF IInv, TypeOK
<1>2. /\ Len(goals') = Len(goals)
      /\ \A h \in 1..Len(goals) : goals'[h] = IF h = g THEN row ELSE goals[h]
  <2>1. /\ Len(Update(goals, g, row)) = Len(goals)
        /\ \A h \in 1..Len(goals) :
             Update(goals, g, row)[h] = IF h = g THEN row ELSE goals[h]
    BY <1>1, UpdateType, ZenonT(60)
  <2> QED
    BY <2>1
<1>3. ASSUME NEW h \in GoalIds
      PROVE  Status(goals', h) = IF h = g THEN row.status ELSE Status(goals, h)
  <2>1. CASE h = g
    BY <1>1, <1>2, <2>1 DEF Status
  <2>2. CASE h # g
    BY <1>1, <1>2, <2>2 DEF Status, GoalIds
  <2> QED
    BY <2>1, <2>2
<1> QED
  BY <1>3

(* Ids of goals that exist are ids of the abstract machine.                *)
LEMMA WorkedOn ==
  ASSUME IInv, NEW a \in Agents, pc[a] \notin {"idle", "standing", "spawn"}
  PROVE  /\ held[a].id \in 1..Len(goals) /\ held[a].id \in GoalIds
         /\ held[a].row \in Goal
         /\ Status(goals, held[a].id) = goals[held[a].id].status
<1>1. held[a] \in Held /\ held[a].id \in 1..Len(goals) /\ held[a].id \in GoalIds
  BY HeldNotWaiting
<1>2. Len(goals) \in Nat
  BY LenProperties DEF IInv, TypeOK
<1> QED
  BY <1>1, <1>2 DEF Held, Status

(* Nothing the abstract machine sees, and nothing taken up.                *)
LEMMA QuietFollows ==
  ASSUME LifeInv, IInv', NEW a \in Agents, UNCHANGED <<goals, runs, op>>,
         pc'[a] \in {"idle", "standing", "spawn", "reflect"}
  PROVE  LifeInv' /\ LifeStep
<1>1. LifeStep
  BY DEF LifeStep, StatusOf
<1>2. WorkInOrder'
  BY DEF LifeInv, OneAtATime, WorkInOrder
<1> QED
  BY <1>1, <1>2 DEF LifeInv, OneAtATime, NothingStoredEarly, DecisionsInOrder

LEMMA HeadFollows ==
  ASSUME LifeInv, IInv', NEW a \in Agents,
         \/ StartTick(a) \/ SkipStanding(a) \/ PolicyRaises(a) \/ DecideSpawn(a)
         \/ IdleTick(a) \/ ReflectQuietly(a) \/ TickAborts(a)
  PROVE  LifeInv' /\ LifeStep
<1>1. UNCHANGED <<goals, runs, op>>
  BY DEF StartTick, SkipStanding, PolicyRaises, DecideSpawn, IdleTick, ReflectQuietly,
     TickAborts, boardVars, operatorVars
<1>2. pc'[a] \in {"idle", "standing", "spawn"}
  BY DEF StartTick, SkipStanding, PolicyRaises, DecideSpawn, IdleTick, ReflectQuietly,
     TickAborts, EndTick, LifeInv, IInv, TypeOK
<1> QED
  BY <1>1, <1>2, QuietFollows

(* A pending goal has no trajectory; a tick takes it up.                   *)
LEMMA PickFollows ==
  ASSUME LifeInv, IInv', NEW a \in Agents, PickGoal(a)
  PROVE  LifeInv' /\ LifeStep
<1>1. PICK g \in Pickable(goals) :
        held' = [held EXCEPT ![a] = [id |-> g, row |-> [goals[g] EXCEPT !.status = "active"]]]
  BY DEF PickGoal
<1>2. UNCHANGED <<goals, runs, op>>
  BY DEF PickGoal, boardVars, operatorVars
<1>3. Len(goals) \in Nat /\ Len(goals) <= MaxGoals /\ MaxGoals \in Nat
  BY LenProperties, ConstantsAssumption DEF LifeInv, IInv, TypeOK
<1>4. g \in GoalIds /\ Status(goals, g) = "pending"
  BY <1>3 DEF Pickable, ListByStatus, GoalIds, Status
<1>5. runs[g] = 0
  BY <1>4 DEF LifeInv, NothingStoredEarly
<1>6. pc'[a] = "activate" /\ held'[a].id = g
  BY <1>1 DEF PickGoal, LifeInv, IInv, TypeOK
<1>7. WorkInOrder'
  BY <1>2, <1>4, <1>5, <1>6 DEF LifeInv, OneAtATime, WorkInOrder
<1>8. LifeStep
  BY <1>2 DEF LifeStep, StatusOf
<1> QED
  BY <1>2, <1>7, <1>8 DEF LifeInv, OneAtATime, NothingStoredEarly, DecisionsInOrder

LEMMA ExecuteFollows ==
  ASSUME LifeInv, IInv', NEW a \in Agents, Execute(a)
  PROVE  LifeInv' /\ LifeStep
<1>1. UNCHANGED <<goals, runs, op, held>>
  BY DEF Execute, boardVars, operatorVars
<1>2. pc[a] = "run" /\ pc'[a] = "record"
  BY DEF Execute, LifeInv, IInv, TypeOK
<1>3. WorkInOrder'
  BY <1>1, <1>2 DEF LifeInv, OneAtATime, WorkInOrder
<1>4. LifeStep
  BY <1>1 DEF LifeStep, StatusOf
<1> QED
  BY <1>1, <1>3, <1>4 DEF LifeInv, OneAtATime, NothingStoredEarly, DecisionsInOrder

(* A write of the goal at work is no decision of an operator's.            *)
LEMMA MoveKeepsDecisions ==
  ASSUME LifeInv, IInv', NEW g \in GoalIds, NEW s,
         Status(goals, g) # "pending_approval",
         \A h \in GoalIds : Status(goals', h) = IF h = g THEN s ELSE Status(goals, h),
         op' = op
  PROVE  DecisionsInOrder'
<1>1. ASSUME NEW u \in Operators, op[u] # None
      PROVE  op[u].id \in GoalIds
  BY <1>1, LenProperties, ConstantsAssumption DEF LifeInv, IInv, TypeOK, GoalIds
<1> QED
  BY <1>1 DEF LifeInv, DecisionsInOrder

LEMMA ActivateFollows ==
  ASSUME LifeInv, IInv', NEW a \in Agents, Activate(a)
  PROVE  LifeInv' /\ LifeStep
<1>1. PICK g \in GoalIds : g = held[a].id
  BY WorkedOn DEF LifeInv, Activate
<1>2. /\ g \in 1..Len(goals) /\ held[a].row \in Goal /\ held[a].row.status = "active"
  BY <1>1, WorkedOn DEF LifeInv, IInv, HeldInOrder, Activate
<1>3. Status(goals, g) \in {"pending", "abandoned"} /\ runs[g] = 0
  BY <1>1 DEF LifeInv, WorkInOrder, Activate
<1>4. \A h \in GoalIds : Status(goals', h) = IF h = g THEN "active" ELSE Status(goals, h)
  BY <1>1, <1>2, UpdateMoves DEF LifeInv, Activate
<1>5. UNCHANGED <<runs, op, held>> /\ pc'[a] = "run"
  BY DEF Activate, operatorVars, LifeInv, IInv, TypeOK
<1>6. NothingStoredEarly'
  BY <1>4, <1>5 DEF LifeInv, NothingStoredEarly
<1>7. WorkInOrder'
  BY <1>1, <1>3, <1>4, <1>5 DEF LifeInv, OneAtATime, WorkInOrder
<1>8. DecisionsInOrder'
  BY <1>3, <1>4, <1>5, MoveKeepsDecisions
<1>9. LifeStep
  <2>1. Lifecycle!Activate(g)
    <3>1. Lifecycle!Move(g, {"pending", "abandoned"}, {"active"})
      BY <1>3, <1>4, <1>5, MoveIsAbstract
    <3> QED
      BY <1>3, <3>1 DEF Lifecycle!Activate
  <2> QED
    BY <2>1 DEF LifeStep, Lifecycle!Next
<1> QED
  BY <1>6, <1>7, <1>8, <1>9 DEF LifeInv, OneAtATime

LEMMA RecordFollows ==
  ASSUME LifeInv, IInv', NEW a \in Agents, RecordTrajectory(a)
  PROVE  LifeInv' /\ LifeStep
<1>1. PICK g \in GoalIds : g = held[a].id
  BY WorkedOn DEF LifeInv, RecordTrajectory
<1>2. Status(goals, g) \in {"active", "abandoned"} /\ runs[g] = 0
  BY <1>1 DEF LifeInv, WorkInOrder, RecordTrajectory
<1>3. UNCHANGED <<goals, op, held>> /\ pc'[a] = "settle"
  BY DEF RecordTrajectory, operatorVars, LifeInv, IInv, TypeOK
<1>4. runs' = [runs EXCEPT ![g] = 1] /\ runs \in [GoalIds -> Nat]
  BY <1>1, <1>2 DEF RecordTrajectory, Recorded, LifeInv, IInv, TypeOK
<1>5. NothingStoredEarly'
  BY <1>2, <1>3, <1>4 DEF LifeInv, NothingStoredEarly
<1>6. WorkInOrder'
  BY <1>1, <1>2, <1>3, <1>4 DEF LifeInv, OneAtATime, WorkInOrder
<1>7. DecisionsInOrder'
  BY <1>3 DEF LifeInv, DecisionsInOrder
<1>8. LifeStep
  <2>1. Lifecycle!Record(g)
    <3> DEFINE view == [h \in GoalIds |-> StatusOf(h)]
    <3>1. view[g] \in {"active", "abandoned"}
      BY <1>2 DEF StatusOf, Status
    <3>2. view' = view
      BY <1>3 DEF StatusOf
    <3>3. runs[g] = 0 /\ runs' = [runs EXCEPT ![g] = 1]
      BY <1>2, <1>4
    <3> QED
      BY <3>1, <3>2, <3>3 DEF Lifecycle!Record
  <2> QED
    BY <2>1 DEF LifeStep, Lifecycle!Next
<1> QED
  BY <1>5, <1>6, <1>7, <1>8 DEF LifeInv, OneAtATime

LEMMA SettleFollows ==
  ASSUME LifeInv, IInv', NEW a \in Agents, Settle(a)
  PROVE  LifeInv' /\ LifeStep
<1>1. PICK g \in GoalIds : g = held[a].id
  BY WorkedOn DEF LifeInv, Settle
<1>2. /\ g \in 1..Len(goals) /\ held[a].row \in Goal /\ held[a].row.status = "active"
  BY <1>1, WorkedOn DEF LifeInv, IInv, HeldInOrder, Settle
<1>3. Status(goals, g) \in {"active", "abandoned"} /\ runs[g] = 1
  BY <1>1 DEF LifeInv, WorkInOrder, Settle
<1>4. PICK s \in {"active", "done", "failed"} : s = StatusAfter(verdict[a], "active")
  BY DEF StatusAfter
<1>5. PICK row \in Goal : row.status = s /\ goals' = Update(goals, g, row)
  <2> DEFINE new == [held[a].row EXCEPT !.status = StatusAfter(verdict[a], @)]
  <2>1. new = [held[a].row EXCEPT !.status = s]
    BY <1>2, <1>4 DEF Goal
  <2>2. new \in Goal /\ new.status = s
    <3>1. s \in GoalStatus
      BY DEF GoalStatus
    <3>2. [held[a].row EXCEPT !.status = s] \in Goal
          /\ [held[a].row EXCEPT !.status = s].status = s
      BY <1>2, <3>1, WithStatusType
    <3> HIDE DEF new
    <3> QED BY <2>1, <3>2
  <2> QED
    BY <1>1, <2>2 DEF Settle
<1>6. \A h \in GoalIds : Status(goals', h) = IF h = g THEN s ELSE Status(goals, h)
  BY <1>2, <1>5, UpdateMoves DEF LifeInv
<1>7. UNCHANGED <<runs, op>> /\ pc'[a] \in {"idle", "reflect"}
  BY DEF Settle, EndTick, operatorVars, LifeInv, IInv, TypeOK
<1>8. NothingStoredEarly'
  BY <1>4, <1>6, <1>7 DEF LifeInv, NothingStoredEarly
<1>9. WorkInOrder'
  BY <1>7 DEF LifeInv, OneAtATime, WorkInOrder
<1>10. DecisionsInOrder'
  BY <1>3, <1>6, <1>7, MoveKeepsDecisions
<1>11. LifeStep
  <2>1. Lifecycle!Settle(g)
    <3>1. Lifecycle!Move(g, {"active", "abandoned"}, {"active", "done", "failed"})
      BY <1>3, <1>4, <1>6, <1>7, MoveIsAbstract
    <3> QED
      BY <1>3, <3>1 DEF Lifecycle!Settle
  <2> QED
    BY <2>1 DEF LifeStep, Lifecycle!Next
<1> QED
  BY <1>8, <1>9, <1>10, <1>11 DEF LifeInv, OneAtATime

(* A new row, whoever creates it.                                          *)
LEMMA CreationFollows ==
  ASSUME LifeInv, IInv', NEW row \in Goal, row.status \in {"pending", "active"},
         Len(goals) < MaxGoals, goals' = Create(goals, row), UNCHANGED <<runs, op>>,
         \A a \in Agents : \/ pc'[a] \in {"idle", "standing"}
                           \/ pc'[a] = pc[a] /\ held'[a] = held[a]
  PROVE  LifeInv' /\ LifeStep
<1>1. PICK g \in GoalIds : g = Len(goals) + 1
  BY CreateMoves DEF LifeInv
<1>2. /\ Status(goals, g) = "absent"
      /\ \A h \in GoalIds : Status(goals', h) = IF h = g THEN row.status ELSE Status(goals, h)
  BY <1>1, CreateMoves DEF LifeInv
<1>3. runs[g] = 0
  BY <1>2 DEF LifeInv, NothingStoredEarly
<1>4. NothingStoredEarly'
  BY <1>2, <1>3 DEF LifeInv, NothingStoredEarly
<1>5. WorkInOrder'
  <2>1. ASSUME NEW a \in Agents, pc[a] \in {"activate", "run", "record", "settle"}
        PROVE  held[a].id \in GoalIds /\ Status(goals, held[a].id) # "absent"
    BY <2>1, WorkedOn DEF LifeInv, WorkInOrder
  <2>2. ASSUME NEW a \in Agents, pc'[a] \in {"activate", "run", "record", "settle"}
        PROVE  /\ pc'[a] = pc[a] /\ held'[a] = held[a]
               /\ Status(goals', held[a].id) = Status(goals, held[a].id)
    BY <1>2, <2>1, <2>2
  <2> QED
    BY <2>2 DEF LifeInv, WorkInOrder
<1>6. DecisionsInOrder'
  BY <1>2, MoveKeepsDecisions
<1>7. LifeStep
  <2>1. Lifecycle!Enter(g)
    <3>1. Lifecycle!Move(g, {"absent"}, {"pending", "active"})
      BY <1>2, MoveIsAbstract
    <3> QED
      BY <3>1 DEF Lifecycle!Enter
  <2> QED
    BY <2>1 DEF LifeStep, Lifecycle!Next
<1> QED
  BY <1>4, <1>5, <1>6, <1>7 DEF LifeInv, OneAtATime

LEMMA SpawnedFollows ==
  ASSUME LifeInv, IInv', NEW a \in Agents, CreateSpawned(a)
  PROVE  LifeInv' /\ LifeStep
<1>1. PICK row \in Goal : row = held[a].row /\ row.status = "pending"
  BY DEF LifeInv, IInv, HeldInOrder, TypeOK, Held, CreateSpawned
<1>2. goals' = Create(goals, row) /\ Len(goals) < MaxGoals /\ UNCHANGED <<runs, op>>
  BY <1>1 DEF CreateSpawned, operatorVars
<1>3. \A b \in Agents : pc'[b] = "standing"
  BY DEF CreateSpawned, LifeInv, OneAtATime, IInv, TypeOK
<1> QED
  BY <1>1, <1>2, <1>3, CreationFollows

LEMMA InquiryFollows ==
  ASSUME LifeInv, IInv', NEW a \in Agents, ReflectInquiry(a)
  PROVE  LifeInv' /\ LifeStep
<1>1. TypeOK /\ held[a].id \in Nat
  BY DEF LifeInv, IInv, ReflectInquiry, TypeOK, Held
<1>2. NewGoal("inquiry", 1, "judge") \in Goal
      /\ NewGoal("inquiry", 1, "judge").status = "pending"
  BY NewGoalType DEF GoalClass, PredicateKind, NewGoal
<1>3. InquiryRow(held[a].id) \in Goal /\ InquiryRow(held[a].id).status = "pending"
  <2> DEFINE new == NewGoal("inquiry", 1, "judge")
  <2>1. new \in Goal /\ new.status = "pending"
    BY <1>2
  <2>2. [new EXCEPT !.parent = held[a].id] \in Goal
        /\ [new EXCEPT !.parent = held[a].id].status = "pending"
    <3> HIDE DEF new
    <3> QED BY <1>1, <2>1 DEF Goal
  <2> QED
    BY <2>2 DEF InquiryRow
<1>4. /\ goals' = Create(goals, InquiryRow(held[a].id)) /\ Len(goals) < MaxGoals
      /\ UNCHANGED <<runs, op>> /\ EndTick(a)
  BY <1>1, RoomForOne DEF ReflectInquiry, operatorVars
<1>5. \A b \in Agents : pc'[b] = "idle"
  BY <1>1, <1>4, EndTickType DEF LifeInv, OneAtATime
<1> QED
  BY <1>3, <1>4, <1>5, CreationFollows

(* What an operator enters is pending, a policy's standing goal is active. *)
LEMMA OperatorEntersFollows ==
  ASSUME LifeInv, IInv', NEW u \in Operators, EnterGoal(u) \/ CreateStanding(u)
  PROVE  LifeInv' /\ LifeStep
<1>1. PICK row \in Goal : row.status \in {"pending", "active"} /\ goals' = Create(goals, row)
  <2>1. CASE EnterGoal(u)
    <3>1. PICK class \in {"task", "standing"}, prio \in Priorities, pred \in Predicates :
            goals' = Create(goals, NewGoal(class, prio, pred))
      BY <2>1 DEF EnterGoal
    <3>2. NewGoal(class, prio, pred) \in Goal /\ NewGoal(class, prio, pred).status = "pending"
      BY NewGoalType, ConstantsAssumption DEF GoalClass, NewGoal
    <3> QED
      BY <3>1, <3>2
  <2>2. CASE CreateStanding(u)
    <3>1. PICK policy \in boot[u] : goals' = Create(goals, StandingRow(policy))
      BY <2>2 DEF CreateStanding
    <3>2. policy \in Policies
      BY DEF LifeInv, IInv, TypeOK
    <3> DEFINE new == NewGoal("standing", 0, "judge")
    <3>3. new \in Goal
      BY NewGoalType DEF GoalClass, PredicateKind
    <3>4. StandingRow(policy) = [new EXCEPT !.status = "active", !.policy = policy]
      BY DEF StandingRow
    <3>5. StandingRow(policy) \in Goal /\ StandingRow(policy).status = "active"
      <4> HIDE DEF new
      <4> QED BY <3>2, <3>3, <3>4 DEF Goal, GoalStatus
    <3> QED
      BY <3>1, <3>5
  <2> QED
    BY <2>1, <2>2
<1>2. Len(goals) < MaxGoals
  BY RoomForOne DEF EnterGoal, CreateStanding, LifeInv, IInv
<1>3. UNCHANGED <<runs, op, pc, held>>
  BY DEF EnterGoal, CreateStanding, agentVars, operatorVars
<1> QED
  BY <1>1, <1>2, <1>3, CreationFollows

(* Reading and giving up.                                                  *)
LEMMA RequestFollows ==
  ASSUME LifeInv, IInv', NEW u \in Operators,
         ReadGoal(u) \/ ReadPolicies(u) \/ OperatorStops(u)
  PROVE  LifeInv' /\ LifeStep
<1>1. UNCHANGED <<goals, runs, pc, held>>
  BY DEF ReadGoal, ReadPolicies, OperatorStops, boardVars, agentVars
<1>2. DecisionsInOrder'
  <2>1. CASE ReadGoal(u)
    <3>1. PICK kind \in Operations \ {"create", "bootstrap"}, g \in 1..Len(goals) :
            /\ Accepts(kind, goals[g])
            /\ op' = [op EXCEPT ![u] = [kind |-> kind, id |-> g, row |-> Edited(kind, goals[g])]]
      BY <2>1 DEF ReadGoal
    <3>2. goals[g] \in Goal /\ kind \in {"approve", "reject", "abandon"}
      BY RowType, ConstantsAssumption DEF LifeInv, OneAtATime, IInv, TypeOK, OperationKind
    <3>3. /\ op'[u] = [kind |-> kind, id |-> g, row |-> Edited(kind, goals[g])]
          /\ \A w \in Operators : w = u
      BY <3>1 DEF LifeInv, OneAtATime, IInv, TypeOK
    <3>4. Edited(kind, goals[g]).status = IF kind = "approve" THEN "pending" ELSE "abandoned"
      BY <3>2 DEF Edited, Goal
    <3>5. Len(goals) \in Nat
      BY LenProperties DEF LifeInv, IInv, TypeOK
    <3>6. kind = "approve" => Status(goals, g) = "pending_approval"
      BY <3>1, <3>5 DEF Accepts, Approvable, Status
    <3> QED
      BY <1>1, <3>2, <3>3, <3>4, <3>6 DEF DecisionsInOrder
  <2>2. CASE ReadPolicies(u)
    BY <1>1, <2>2 DEF ReadPolicies, LifeInv, DecisionsInOrder
  <2>3. CASE OperatorStops(u)
    BY <1>1, <2>3 DEF OperatorStops, LifeInv, DecisionsInOrder, IInv, TypeOK
  <2> QED
    BY <2>1, <2>2, <2>3
<1>3. LifeStep
  BY <1>1 DEF LifeStep, StatusOf
<1> QED
  BY <1>1, <1>2, <1>3 DEF LifeInv, OneAtATime, NothingStoredEarly, WorkInOrder

(* Nobody has moved a goal that waits for approval since it was read; an   *)
(* abandon may come late.                                                  *)
LEMMA DecisionFollows ==
  ASSUME LifeInv, IInv', NEW u \in Operators, WriteGoal(u)
  PROVE  LifeInv' /\ LifeStep
<1>1. PICK g \in GoalIds, s \in {"pending", "abandoned"} :
        g = op[u].id /\ s = op[u].row.status
  <2>1. op[u].id \in GoalIds
    BY LenProperties, ConstantsAssumption DEF LifeInv, IInv, TypeOK, GoalIds, WriteGoal
  <2>2. op[u].row.status \in {"pending", "abandoned"}
    BY DEF LifeInv, DecisionsInOrder, WriteGoal
  <2> QED
    BY <2>1, <2>2
<1>2. g \in 1..Len(goals) /\ op[u].row \in Goal
  BY <1>1 DEF LifeInv, IInv, TypeOK, Request, WriteGoal
<1>3. \A h \in GoalIds : Status(goals', h) = IF h = g THEN s ELSE Status(goals, h)
  BY <1>1, <1>2, UpdateMoves DEF LifeInv, WriteGoal
<1>4. UNCHANGED <<runs, pc, held>> /\ \A w \in Operators : op'[w] = None
  BY DEF WriteGoal, agentVars, LifeInv, OneAtATime, IInv, TypeOK
<1>5. s = "pending" => Status(goals, g) = "pending_approval"
  BY <1>1 DEF LifeInv, DecisionsInOrder, WriteGoal
<1>6. NothingStoredEarly'
  BY <1>3, <1>4, <1>5 DEF LifeInv, NothingStoredEarly
<1>7. WorkInOrder'
  <2>1. ASSUME NEW a \in Agents, pc[a] \in {"activate", "run", "record", "settle"}
        PROVE  /\ Status(goals', held[a].id) \in {Status(goals, held[a].id), "abandoned"}
    <3>1. held[a].id \in GoalIds /\ Status(goals, held[a].id) # "pending_approval"
      BY <2>1, WorkedOn DEF LifeInv, WorkInOrder
    <3> QED
      BY <1>3, <1>5, <3>1
  <2> QED
    BY <1>4, <2>1 DEF LifeInv, WorkInOrder
<1>8. DecisionsInOrder'
  BY <1>4 DEF DecisionsInOrder
<1>9. Status(goals, g) \in GoalStatus
  <2>1. goals \in Seq(Goal) /\ Len(goals) \in Nat
    BY LenProperties DEF LifeInv, IInv, TypeOK
  <2>2. goals[g] \in Goal /\ g <= Len(goals)
    BY <1>2, <2>1, RowType
  <2> QED
    BY <2>2 DEF Status, Goal
<1>10. LifeStep
  <2>1. CASE s = "pending"
    <3>1. Lifecycle!Move(g, {"pending_approval"}, {"pending"})
      BY <1>3, <1>4, <1>5, <2>1, MoveIsAbstract
    <3>2. Lifecycle!Approve(g)
      BY <3>1 DEF Lifecycle!Approve
    <3> QED
      BY <3>2 DEF LifeStep, Lifecycle!Next
  <2>2. CASE /\ s = "abandoned"
             /\ Status(goals, g) \in
                  {"pending_approval", "pending", "active", "suspended", "done", "failed"}
    <3>1. Lifecycle!Move(g,
            {"pending_approval", "pending", "active", "suspended", "done", "failed"},
            {"abandoned"})
      BY <1>3, <1>4, <2>2, MoveIsAbstract
    <3>2. Lifecycle!Abandon(g)
      BY <3>1 DEF Lifecycle!Abandon
    <3> QED
      BY <3>2 DEF LifeStep, Lifecycle!Next
  <2>3. CASE s = "abandoned" /\ Status(goals, g) = "abandoned"
    <3>1. \A h \in GoalIds : Status(goals', h) = Status(goals, h)
      BY <1>3, <2>3
    <3>2. [h \in GoalIds |-> StatusOf(h)]' = [h \in GoalIds |-> StatusOf(h)]
      BY <3>1 DEF StatusOf, Status
    <3> QED
      BY <1>4, <3>2 DEF LifeStep
  <2> QED
    BY <1>9, <2>1, <2>2, <2>3 DEF GoalStatus
<1> QED
  BY <1>6, <1>7, <1>8, <1>10 DEF LifeInv, OneAtATime

LEMMA LifeFollows ==
  ASSUME LifeInv, [Next]_vars
  PROVE  LifeInv' /\ LifeStep
<1>1. IInv'
  BY OrderStep DEF LifeInv
<1>2. ASSUME NEW a \in Agents, AgentStep(a)
      PROVE  LifeInv' /\ LifeStep
  BY <1>1, <1>2, HeadFollows, SpawnedFollows, PickFollows, ActivateFollows,
     ExecuteFollows, RecordFollows, SettleFollows, InquiryFollows
     DEF AgentStep, TickStep
<1>3. ASSUME NEW u \in Operators, OperatorStep(u)
      PROVE  LifeInv' /\ LifeStep
  BY <1>1, <1>3, RequestFollows, DecisionFollows, OperatorEntersFollows DEF OperatorStep
<1>4. CASE UNCHANGED vars
  BY <1>1, <1>4 DEF vars, LifeInv, OneAtATime, NothingStoredEarly, WorkInOrder,
     DecisionsInOrder, LifeStep, StatusOf
<1> QED
  BY <1>2, <1>3, <1>4 DEF Next

(* With one ticking process and one request at a time, and no budget edit, *)
(* the board implements GoalLifecycle: a goal is worked on at most once,   *)
(* settled after its trajectory is stored, and never pending again.        *)
THEOREM LifecycleFollowed ==
  ASSUME OneAtATime
  PROVE  Spec => FollowsLifecycle
<1>1. Init => LifeInv /\ Lifecycle!Init
  BY InitLife
<1>2. LifeInv /\ [Next]_vars => LifeInv' /\ LifeStep
  BY LifeFollows
<1>3. LifeStep =>
        [Lifecycle!Next]_<<[g \in GoalIds |-> StatusOf(g)], runs>>
  BY DEF LifeStep
<1> QED
  BY <1>1, <1>2, <1>3, PTL DEF Spec, FollowsLifecycle, Lifecycle!Spec

-----------------------------------------------------------------------------
(* One standing goal per policy.                                           *)

(* What a policy spawns is no standing goal with a policy of its own.      *)
SpawnsPlain == \A a \in Agents : pc[a] = "spawn" => held[a].row.policy = "none"

PlainInv == DiagnosisInv /\ SpawnsPlain

LEMMA PlainStep ==
  ASSUME PlainInv, [Next]_vars
  PROVE  PlainInv'
<1>1. DiagnosisInv' /\ TypeOK /\ TypeOK'
  BY DiagnosisStep, TypeStep DEF PlainInv, DiagnosisInv
<1>2. ASSUME NEW a \in Agents, AgentStep(a)
      PROVE  SpawnsPlain'
  <2>1. CASE DecideSpawn(a)
    <3>1. PICK sg \in todo[a] : \E row \in Wanted(a, sg) :
            held' = [held EXCEPT ![a] = [id |-> 0, row |-> row]]
      BY <2>1 DEF DecideSpawn
    <3>2. PICK row \in Wanted(a, sg) : held' = [held EXCEPT ![a] = [id |-> 0, row |-> row]]
      BY <3>1
    <3>3. PICK prio, target : row = SpawnedRow(sg, prio, target)
      <4>1. row \in Proposals(goals, sg, alert[a])
        BY <3>2 DEF Wanted
      <4>2. goals[sg].policy \in Policies \cup {"none"}
        BY <1>1, RowType DEF TypeOK, Goal
      <4>3. CASE goals[sg].policy = "on_alert_observation"
        BY <4>1, <4>3, Zenon DEF Proposals
      <4>4. CASE goals[sg].policy = "on_prev_verify_failure"
        BY <4>1, <4>4 DEF Proposals
      <4>5. CASE goals[sg].policy = "none"
        BY <4>1, <4>5 DEF Proposals
      <4> QED
        BY <4>2, <4>3, <4>4, <4>5 DEF Policies
    <3>4. row.policy = "none"
      BY <3>3 DEF SpawnedRow, NewGoal
    <3>5. held'[a].row.policy = "none" /\ \A b \in Agents \ {a} : held'[b] = held[b]
      BY <1>1, <3>2, <3>4 DEF TypeOK
    <3>6. \A b \in Agents \ {a} : pc'[b] = pc[b]
      BY <2>1, <1>1 DEF DecideSpawn, TypeOK
    <3> QED
      BY <3>5, <3>6 DEF PlainInv, SpawnsPlain
  <2>2. CASE StartTick(a) \/ SkipStanding(a) \/ PolicyRaises(a)
    BY <1>1, <2>2 DEF StartTick, SkipStanding, PolicyRaises, TypeOK, PlainInv, SpawnsPlain
  <2>3. CASE Execute(a) \/ RecordTrajectory(a) \/ Activate(a)
    BY <1>1, <2>3 DEF Execute, RecordTrajectory, Activate, TypeOK, PlainInv, SpawnsPlain
  <2>4. CASE IdleTick(a) \/ ReflectQuietly(a) \/ TickAborts(a) \/ ReflectInquiry(a)
    <3>1. EndTick(a)
      BY <2>4 DEF IdleTick, ReflectQuietly, TickAborts, ReflectInquiry
    <3> QED
      BY <1>1, <3>1, EndTickType DEF PlainInv, SpawnsPlain
  <2>5. CASE PickGoal(a) \/ CreateSpawned(a)
    <3>1. pc'[a] # "spawn" /\ \A b \in Agents \ {a} : pc'[b] = pc[b] /\ held'[b] = held[b]
      BY <1>1, <2>5 DEF PickGoal, CreateSpawned, TypeOK
    <3> QED
      BY <3>1 DEF PlainInv, SpawnsPlain
  <2>6. CASE Settle(a)
    <3>1. pc'[a] # "spawn" /\ \A b \in Agents \ {a} : pc'[b] = pc[b] /\ held'[b] = held[b]
      BY <1>1, <2>6, EndTickType DEF Settle, TypeOK
    <3> QED
      BY <3>1 DEF PlainInv, SpawnsPlain
  <2> QED
    BY <1>2, <2>1, <2>2, <2>3, <2>4, <2>5, <2>6 DEF AgentStep, TickStep
<1>3. ASSUME NEW u \in Operators, OperatorStep(u)
      PROVE  SpawnsPlain'
  <2>1. UNCHANGED <<pc, held>>
    BY <1>3 DEF OperatorStep, ReadGoal, WriteGoal, EnterGoal, ReadPolicies,
       CreateStanding, OperatorStops, agentVars
  <2> QED
    BY <2>1 DEF PlainInv, SpawnsPlain
<1>4. ASSUME UNCHANGED vars
      PROVE  SpawnsPlain'
  BY <1>4 DEF vars, PlainInv, SpawnsPlain
<1>5. SpawnsPlain'
  BY <1>2, <1>3, <1>4 DEF Next
<1> QED
  BY <1>1, <1>5 DEF PlainInv

(* A step keeps the kin of every row, and adds at most one row, which      *)
(* names a policy only if a bootstrap creates it.                          *)
SameBoard ==
  Len(goals') = Len(goals) /\ \A g \in 1..Len(goals) : Kin(goals'[g]) = Kin(goals[g])

NewRow(row) ==
  /\ Len(goals') = Len(goals) + 1 /\ Len(goals) \in Nat
  /\ \A g \in 1..Len(goals) : goals'[g] = goals[g] /\ Kin(goals'[g]) = Kin(goals[g])
  /\ goals'[Len(goals) + 1] = row

LEMMA WritesKeepKin ==
  ASSUME PlainInv, NEW a \in Agents, Activate(a) \/ Settle(a)
  PROVE  SameBoard
<1>1. TypeOK /\ CopiesFit
  BY DEF PlainInv, DiagnosisInv
<1>2. /\ held[a].row \in Goal
      /\ held[a].id \in 1..Len(goals) /\ Kin(held[a].row) = Kin(goals[held[a].id])
  BY <1>1 DEF Activate, Settle, TypeOK, Held, CopiesFit, Fits
<1>3. PICK row \in Goal :
        goals' = Update(goals, held[a].id, row) /\ Kin(row) = Kin(held[a].row)
  <2>1. CASE Activate(a)
    BY <1>2, <2>1 DEF Activate
  <2>2. CASE Settle(a)
    <3>1. StatusAfter(verdict[a], held[a].row.status) \in GoalStatus
      BY <1>2 DEF StatusAfter, GoalStatus, Goal
    <3> DEFINE new == [held[a].row EXCEPT !.status = StatusAfter(verdict[a], @)]
    <3>2. new = [held[a].row EXCEPT !.status = StatusAfter(verdict[a], held[a].row.status)]
      BY <1>2 DEF Goal
    <3>3. new \in Goal /\ Kin(new) = Kin(held[a].row)
      <4> HIDE DEF new
      <4> QED BY <1>2, <3>1, <3>2, WithStatusType, WithStatusKin
    <3> QED
      BY <2>2, <3>3 DEF Settle
  <2> QED
    BY <2>1, <2>2
<1> QED
  BY <1>1, <1>2, <1>3, UpdateKin DEF SameBoard

LEMMA AgentBoard ==
  ASSUME PlainInv, NEW a \in Agents, AgentStep(a)
  PROVE  SameBoard \/ \E row \in Goal : row.policy = "none" /\ NewRow(row)
<1>1. TypeOK
  BY DEF PlainInv, DiagnosisInv
<1>2. CASE Activate(a) \/ Settle(a)
  BY <1>2, WritesKeepKin
<1>3. CASE CreateSpawned(a)
  <2>1. PICK row \in Goal : row = held[a].row /\ row.policy = "none"
    BY <1>1, <1>3 DEF CreateSpawned, TypeOK, Held, PlainInv, SpawnsPlain
  <2>2. goals' = Create(goals, row)
    BY <1>3, <2>1 DEF CreateSpawned
  <2>3. NewRow(row)
    BY <1>1, <2>2, CreateKin DEF NewRow
  <2> QED
    BY <2>1, <2>3
<1>4. CASE ReflectInquiry(a)
  <2>1. held[a].id \in Nat
    BY <1>1, <1>4 DEF ReflectInquiry, TypeOK, Held
  <2>2. PICK row \in Goal : row = InquiryRow(held[a].id) /\ row.policy = "none"
    <3> DEFINE new == NewGoal("inquiry", 1, "judge")
    <3>1. new \in Goal /\ new.policy = "none"
      BY NewGoalType DEF GoalClass, PredicateKind, NewGoal
    <3>2. [new EXCEPT !.parent = held[a].id] \in Goal
          /\ [new EXCEPT !.parent = held[a].id].policy = "none"
      <4> HIDE DEF new
      <4> QED BY <2>1, <3>1 DEF Goal
    <3> QED
      BY <3>2 DEF InquiryRow
  <2>3. goals' = Create(goals, row)
    BY <1>4, <2>2 DEF ReflectInquiry
  <2>4. NewRow(row)
    BY <1>1, <2>3, CreateKin DEF NewRow
  <2> QED
    BY <2>2, <2>4
<1>5. CASE \/ StartTick(a) \/ SkipStanding(a) \/ PolicyRaises(a) \/ DecideSpawn(a)
           \/ IdleTick(a) \/ ReflectQuietly(a) \/ TickAborts(a) \/ PickGoal(a)
           \/ Execute(a) \/ RecordTrajectory(a)
  <2>1. goals' = goals
    BY <1>5 DEF StartTick, SkipStanding, PolicyRaises, DecideSpawn, IdleTick,
       ReflectQuietly, TickAborts, PickGoal, Execute, RecordTrajectory, boardVars
  <2> QED
    BY <2>1 DEF SameBoard
<1> QED
  BY <1>2, <1>3, <1>4, <1>5 DEF AgentStep, TickStep

LEMMA WriteGoalKeepsKin ==
  ASSUME PlainInv, NEW u \in Operators, WriteGoal(u)
  PROVE  SameBoard
<1>1. TypeOK /\ CopiesFit
  BY DEF PlainInv, DiagnosisInv
<1>2. /\ op[u].row \in Goal /\ op[u].id \in 1..Len(goals)
      /\ Kin(op[u].row) = Kin(goals[op[u].id])
      /\ goals' = Update(goals, op[u].id, op[u].row)
  BY <1>1 DEF WriteGoal, TypeOK, Request, CopiesFit, Fits
<1> QED
  BY <1>1, <1>2, UpdateKin DEF SameBoard

LEMMA EnterGoalBoard ==
  ASSUME PlainInv, NEW u \in Operators, EnterGoal(u)
  PROVE  \E row \in Goal : row.policy = "none" /\ row.parent = 0 /\ NewRow(row)
<1>1. TypeOK
  BY DEF PlainInv, DiagnosisInv
<1>2. PICK class \in {"task", "standing"}, prio \in Priorities, pred \in Predicates :
        goals' = Create(goals, NewGoal(class, prio, pred))
  BY DEF EnterGoal
<1>3. prio \in Nat /\ pred \in PredicateKind /\ class \in GoalClass
  BY ConstantsAssumption DEF GoalClass
<1>4. PICK row \in Goal : row = NewGoal(class, prio, pred)
                          /\ row.policy = "none" /\ row.parent = 0
  BY <1>3, NewGoalType DEF NewGoal
<1>5. NewRow(row)
  BY <1>1, <1>2, <1>4, CreateKin DEF NewRow
<1> QED
  BY <1>4, <1>5

LEMMA CreateStandingBoard ==
  ASSUME PlainInv, NEW u \in Operators, CreateStanding(u)
  PROVE  \E policy \in boot[u], row \in Goal :
           /\ policy \in Policies /\ boot' = [boot EXCEPT ![u] = @ \ {policy}]
           /\ row.class = "standing" /\ row.policy = policy
           /\ row.status = "active" /\ row.parent = 0 /\ NewRow(row)
<1>1. TypeOK
  BY DEF PlainInv, DiagnosisInv
<1>2. PICK policy \in boot[u] : /\ goals' = Create(goals, StandingRow(policy))
                                /\ boot' = [boot EXCEPT ![u] = @ \ {policy}]
  BY DEF CreateStanding
<1>3. policy \in Policies
  BY <1>1 DEF TypeOK
<1>4. PICK row \in Goal : /\ row = StandingRow(policy)
                          /\ row.class = "standing" /\ row.policy = policy
                          /\ row.status = "active" /\ row.parent = 0
  <2> DEFINE new == NewGoal("standing", 0, "judge")
  <2>1. new \in Goal /\ new.class = "standing" /\ new.parent = 0
    BY NewGoalType DEF GoalClass, PredicateKind, NewGoal
  <2>2. /\ [new EXCEPT !.status = "active", !.policy = policy] \in Goal
        /\ [new EXCEPT !.status = "active", !.policy = policy].class = "standing"
        /\ [new EXCEPT !.status = "active", !.policy = policy].parent = 0
        /\ [new EXCEPT !.status = "active", !.policy = policy].policy = policy
        /\ [new EXCEPT !.status = "active", !.policy = policy].status = "active"
    <3> HIDE DEF new
    <3> QED BY <1>3, <2>1 DEF Goal, GoalStatus
  <2> QED
    BY <2>2 DEF StandingRow
<1>5. NewRow(row)
  BY <1>1, <1>2, <1>4, CreateKin DEF NewRow
<1> QED
  BY <1>2, <1>3, <1>4, <1>5

(* One request at a time, on a board whose standing goals differ in their  *)
(* policies: then a policy that a bootstrap has still to create is missing.*)
OneBootstrap ==
  /\ \A u, w \in Operators : u = w
  /\ \A b \in Boards : \A g, h \in 1..Len(b) :
       b[g].class = "standing" /\ b[h].class = "standing"
         /\ b[g].policy = b[h].policy /\ b[g].policy # "none" => g = h

Names(board, p, g) == g \in 1..Len(board) /\ board[g].class = "standing" /\ board[g].policy = p

PoliciesOnce ==
  \A p \in Policies : \A g, h \in 1..Len(goals) :
    Names(goals, p, g) /\ Names(goals, p, h) => g = h

StillMissing ==
  \A u \in Operators : \A p \in boot[u] : \A g \in 1..Len(goals) : ~Names(goals, p, g)

PolicyInv == OneBootstrap /\ PlainInv /\ PoliciesOnce /\ StillMissing

LEMMA InitPolicies ==
  ASSUME Agents # {}, OneBootstrap, Init
  PROVE  PolicyInv
<1>1. goals \in Boards /\ \A u \in Operators : boot[u] = {}
  BY DEF Init
<1>2. PoliciesOnce
  BY <1>1 DEF PoliciesOnce, Names, OneBootstrap, Policies
<1>3. StillMissing
  BY <1>1 DEF StillMissing
<1>4. PlainInv
  BY InitDiagnosis DEF PlainInv, SpawnsPlain, Init
<1> QED
  BY <1>2, <1>3, <1>4 DEF PolicyInv

(* No row gains or loses a policy.                                         *)
LEMMA NamesKept ==
  ASSUME SameBoard, NEW p, NEW g
  PROVE  Names(goals', p, g) <=> Names(goals, p, g)
BY DEF SameBoard, Names, Kin

LEMMA NamesOfNewRow ==
  ASSUME NEW row, NewRow(row), NEW p, NEW g
  PROVE  Names(goals', p, g) <=>
           \/ Names(goals, p, g)
           \/ g = Len(goals) + 1 /\ row.class = "standing" /\ row.policy = p
BY DEF NewRow, Names

LEMMA PoliciesStep ==
  ASSUME PolicyInv, [Next]_vars
  PROVE  PolicyInv'
<1>1. PlainInv' /\ OneBootstrap' /\ PlainInv /\ TypeOK /\ Len(goals) \in Nat
  BY PlainStep, LenProperties DEF PolicyInv, OneBootstrap, PlainInv, DiagnosisInv, TypeOK
<1>2. ASSUME \A p \in Policies, g \in Nat : Names(goals', p, g) <=> Names(goals, p, g),
             \A u \in Operators : boot'[u] \subseteq boot[u]
      PROVE  PoliciesOnce' /\ StillMissing'
  <2>1. PoliciesOnce'
    BY <1>2 DEF PolicyInv, PoliciesOnce, Names
  <2>2. StillMissing'
    <3> SUFFICES ASSUME NEW u \in Operators, NEW p \in boot'[u], NEW g \in 1..Len(goals')
                 PROVE  ~Names(goals', p, g)
      BY DEF StillMissing
    <3>1. p \in boot[u] /\ p \in Policies
      BY <1>1, <1>2 DEF TypeOK
    <3>2. ~Names(goals, p, g)
      BY <3>1 DEF PolicyInv, StillMissing, Names
    <3> QED
      BY <1>2, <3>1, <3>2
  <2> QED
    BY <2>1, <2>2
<1>3. ASSUME NEW a \in Agents, AgentStep(a)
      PROVE  PoliciesOnce' /\ StillMissing'
  <2>1. UNCHANGED boot
    BY <1>3 DEF AgentStep, TickStep, StartTick, SkipStanding, PolicyRaises, DecideSpawn,
       CreateSpawned, IdleTick, PickGoal, Activate, Execute, RecordTrajectory, Settle,
       ReflectQuietly, ReflectInquiry, TickAborts, operatorVars
  <2>2. \A p \in Policies, g \in Nat : Names(goals', p, g) <=> Names(goals, p, g)
    <3>1. CASE SameBoard
      BY <3>1, NamesKept
    <3>2. ASSUME NEW row \in Goal, row.policy = "none", NewRow(row)
          PROVE  \A p \in Policies, g \in Nat : Names(goals', p, g) <=> Names(goals, p, g)
      BY <3>2, NamesOfNewRow DEF Policies
    <3> QED
      BY <1>1, <1>3, <3>1, <3>2, AgentBoard
  <2> QED
    BY <1>2, <2>1, <2>2
<1>4. ASSUME NEW u \in Operators, WriteGoal(u) \/ EnterGoal(u)
      PROVE  PoliciesOnce' /\ StillMissing'
  <2>1. UNCHANGED boot
    BY <1>4 DEF WriteGoal, EnterGoal, operatorVars
  <2>2. \A p \in Policies, g \in Nat : Names(goals', p, g) <=> Names(goals, p, g)
    <3>1. CASE WriteGoal(u)
      BY <1>1, <3>1, WriteGoalKeepsKin, NamesKept
    <3>2. CASE EnterGoal(u)
      <4>1. PICK row \in Goal : row.policy = "none" /\ NewRow(row)
        BY <1>1, <3>2, EnterGoalBoard
      <4> QED
        BY <4>1, NamesOfNewRow DEF Policies
    <3> QED
      BY <1>4, <3>1, <3>2
  <2> QED
    BY <1>2, <2>1, <2>2
<1>5. ASSUME NEW u \in Operators, ReadGoal(u) \/ OperatorStops(u)
      PROVE  PoliciesOnce' /\ StillMissing'
  <2>1. UNCHANGED goals /\ \A w \in Operators : boot'[w] \subseteq boot[w]
    BY <1>1, <1>5 DEF ReadGoal, OperatorStops, boardVars, TypeOK
  <2> QED
    BY <1>2, <2>1
<1>6. ASSUME NEW u \in Operators, ReadPolicies(u)
      PROVE  PoliciesOnce' /\ StillMissing'
  <2>1. UNCHANGED goals /\ \A w \in Operators : boot'[w] = MissingPolicies(goals)
    BY <1>1, <1>6 DEF ReadPolicies, boardVars, TypeOK, PolicyInv, OneBootstrap
  <2>2. \A p \in MissingPolicies(goals), g \in 1..Len(goals) : ~Names(goals, p, g)
    BY DEF MissingPolicies, PoliciesPresent, ListByClass, Names
  <2>3. StillMissing'
    BY <2>1, <2>2 DEF StillMissing
  <2>4. PoliciesOnce'
    BY <2>1 DEF PolicyInv, PoliciesOnce
  <2> QED
    BY <2>3, <2>4
<1>7. ASSUME NEW u \in Operators, CreateStanding(u)
      PROVE  PoliciesOnce' /\ StillMissing'
  <2>1. PICK policy \in boot[u], row \in Goal :
          /\ policy \in Policies /\ boot' = [boot EXCEPT ![u] = @ \ {policy}]
          /\ row.class = "standing" /\ row.policy = policy /\ NewRow(row)
    BY <1>1, <1>7, CreateStandingBoard
  <2>2. \A g \in 1..Len(goals) : ~Names(goals, policy, g)
    BY <2>1 DEF PolicyInv, StillMissing
  <2>3. \A p, g : Names(goals', p, g) <=>
                    Names(goals, p, g) \/ (g = Len(goals) + 1 /\ p = policy)
    BY <2>1, NamesOfNewRow
  <2>4. \A p, g : Names(goals, p, g) => g \in 1..Len(goals)
    BY DEF Names
  <2>5. PoliciesOnce'
    BY <2>2, <2>3, <2>4 DEF PolicyInv, PoliciesOnce
  <2>6. \A w \in Operators : w = u /\ boot'[w] = boot[u] \ {policy}
    BY <1>1, <2>1 DEF TypeOK, PolicyInv, OneBootstrap
  <2>7. StillMissing'
    BY <2>3, <2>4, <2>6 DEF PolicyInv, StillMissing
  <2> QED
    BY <2>5, <2>7
<1>8. ASSUME UNCHANGED vars
      PROVE  PoliciesOnce' /\ StillMissing'
  <2>1. UNCHANGED <<goals, boot>>
    BY <1>8 DEF vars
  <2> QED
    BY <1>2, <2>1
<1>9. PoliciesOnce' /\ StillMissing'
  BY <1>3, <1>4, <1>5, <1>6, <1>7, <1>8 DEF Next, OperatorStep
<1> QED
  BY <1>1, <1>9 DEF PolicyInv

(* Bootstrapping is idempotent wherever it dies, as long as one request is *)
(* served at a time: no policy ever gets a second standing goal.           *)
THEOREM PoliciesNamedOnce ==
  ASSUME Agents # {}, OneBootstrap
  PROVE  Spec => []OneStandingPerPolicy
<1>1. Init => PolicyInv
  BY InitPolicies
<1>2. PolicyInv /\ [Next]_vars => PolicyInv'
  BY PoliciesStep
<1>3. PolicyInv => OneStandingPerPolicy
  <2> SUFFICES ASSUME PolicyInv, NEW p \in Policies
               PROVE  Cardinality({g \in ListByClass(goals, "standing") : goals[g].policy = p}) <= 1
    BY DEF OneStandingPerPolicy
  <2> DEFINE naming == {g \in ListByClass(goals, "standing") : goals[g].policy = p}
  <2>1. \A g \in naming : g \in 1..Len(goals) /\ Names(goals, p, g)
    BY DEF ListByClass, Names
  <2>2. CASE naming = {}
    BY <2>2, FS_EmptySet
  <2>3. CASE naming # {}
    <3>1. PICK g : g \in naming
      BY <2>3
    <3>2. naming = {g}
      BY <2>1, <3>1 DEF PolicyInv, PoliciesOnce
    <3>3. Cardinality({g}) = 1
      BY FS_Singleton
    <3> QED
      BY <3>2, <3>3
  <2> QED
    BY <2>2, <2>3
<1> QED
  BY <1>1, <1>2, <1>3, PTL DEF Spec

-----------------------------------------------------------------------------
(* One open child.                                                         *)

(* No budget is edited, as an edit writes back whatever status it has read *)
(* and may open a closed child again; and the goals of policies are active *)
(* from the start, so that no tick works on them.                          *)
Undisturbed ==
  /\ "budget" \notin Operations
  /\ \A b \in Boards : \A g \in 1..Len(b) : b[g].policy # "none" => b[g].status = "active"

RowsInOrder ==
  \A g \in 1..Len(goals) :
    /\ goals[g].policy # "none" => goals[g].status \in {"active", "abandoned"}
    /\ goals[g].parent # 0 => goals[g].status # "pending_approval"

CopiesInOrder ==
  /\ \A a \in Agents :
       pc[a] \notin {"idle", "standing", "spawn"} => held[a].row.policy = "none"
  /\ \A u \in Operators : op[u] # None =>
       /\ op[u].row.status \in {"pending", "abandoned"}
       /\ op[u].row.status = "pending" => op[u].row.policy = "none" /\ op[u].row.parent = 0

AtWork(a) == pc[a] \in {"activate", "run", "record", "settle"}

(* The children that are open, or that a tick may open again when it       *)
(* writes its copy; and the ticks that are about to create another.        *)
OpenChildren(sg) ==
  {c \in ListChildren(goals, sg) :
     goals[c].status \in OpenStatus \/ \E a \in Agents : AtWork(a) /\ held[a].id = c}

Spawning(sg) == {a \in Agents : pc[a] = "spawn" /\ held[a].row.parent = sg}

Watched(board, sg) == sg \in 1..Len(board) => board[sg].policy # "none"

OpenCounted ==
  \A sg \in Nat \ {0} : Watched(goals, sg) =>
    Cardinality(OpenChildren(sg)) + Cardinality(Spawning(sg)) <= Cardinality(Agents)

OpenInv ==
  Undisturbed /\ IInv /\ PlainInv /\ RowsInOrder /\ CopiesInOrder /\ OpenCounted

LEMMA OpenCountsAreNumbers ==
  ASSUME TypeOK, NEW sg
  PROVE  /\ IsFiniteSet(OpenChildren(sg)) /\ IsFiniteSet(Spawning(sg)) /\ IsFiniteSet(Agents)
         /\ Cardinality(OpenChildren(sg)) \in Nat /\ Cardinality(Spawning(sg)) \in Nat
         /\ Cardinality(Agents) \in Nat
<1>1. IsFiniteSet(1..Len(goals))
  BY LenProperties, FS_Interval DEF TypeOK
<1>2. OpenChildren(sg) \in SUBSET (1..Len(goals)) /\ Spawning(sg) \in SUBSET Agents
  BY DEF OpenChildren, ListChildren, Spawning
<1>3. IsFiniteSet(Agents)
  BY ConstantsAssumption
<1> QED
  BY <1>1, <1>2, <1>3, FS_Subset, FS_CardinalityType

LEMMA InitOpen ==
  ASSUME Agents # {}, Undisturbed, Init
  PROVE  OpenInv
<1>1. /\ goals \in Boards /\ Len(goals) \in Nat
      /\ \A a \in Agents : pc[a] = "idle"
      /\ \A u \in Operators : op[u] = None
  BY BoardsAssumption, LenProperties DEF Init
<1>2. IInv /\ PlainInv
  BY InitOrder, InitDiagnosis DEF PlainInv, SpawnsPlain, Init
<1>3. \A g \in 1..Len(goals) : goals[g].parent = 0
  BY <1>1, BoardsAssumption DEF FreshRow
<1>4. RowsInOrder /\ CopiesInOrder
  BY <1>1, <1>3 DEF RowsInOrder, CopiesInOrder, Undisturbed
<1>5. ASSUME NEW sg \in Nat \ {0}
      PROVE  Cardinality(OpenChildren(sg)) + Cardinality(Spawning(sg)) <= Cardinality(Agents)
  <2>1. OpenChildren(sg) = {} /\ Spawning(sg) = {}
    BY <1>1, <1>3 DEF OpenChildren, ListChildren, Spawning
  <2>2. Cardinality({}) = 0
    BY FS_EmptySet
  <2>3. Cardinality(Agents) \in Nat
    BY ConstantsAssumption, FS_CardinalityType
  <2> QED
    BY <2>1, <2>2, <2>3
<1> QED
  BY <1>2, <1>4, <1>5 DEF OpenInv, OpenCounted

(* Steps after which no watched goal has more children that count.         *)
LEMMA NoMoreOpen ==
  ASSUME TypeOK, TypeOK', OpenCounted,
         \A sg \in Nat \ {0} : Watched(goals', sg) =>
           /\ Watched(goals, sg)
           /\ OpenChildren(sg)' \subseteq OpenChildren(sg)
           /\ Spawning(sg)' \subseteq Spawning(sg)
  PROVE  OpenCounted'
<1>1. ASSUME NEW sg \in Nat \ {0}, Watched(goals', sg)
      PROVE  Cardinality(OpenChildren(sg)') + Cardinality(Spawning(sg)') <= Cardinality(Agents)
  <2>1. /\ OpenChildren(sg)' \in SUBSET OpenChildren(sg)
        /\ Spawning(sg)' \in SUBSET Spawning(sg)
        /\ Cardinality(OpenChildren(sg)) + Cardinality(Spawning(sg)) <= Cardinality(Agents)
    BY <1>1 DEF OpenCounted
  <2>2. /\ Cardinality(OpenChildren(sg)') <= Cardinality(OpenChildren(sg))
        /\ Cardinality(Spawning(sg)') <= Cardinality(Spawning(sg))
        /\ IsFiniteSet(OpenChildren(sg)') /\ IsFiniteSet(Spawning(sg)')
    BY <2>1, OpenCountsAreNumbers, FS_Subset
  <2>3. Cardinality(OpenChildren(sg)') \in Nat /\ Cardinality(Spawning(sg)') \in Nat
    BY <2>2, FS_CardinalityType
  <2> QED
    BY <2>1, <2>2, <2>3, OpenCountsAreNumbers
<1> QED
  BY <1>1 DEF OpenCounted, OpenChildren, Spawning

(* Steps of one agent that leave the board alone.                          *)
LEMMA BoardAloneKeepsOpen ==
  ASSUME OpenInv, IInv', PlainInv', NEW a \in Agents, UNCHANGED <<goals, op>>,
         \A b \in Agents \ {a} : pc'[b] = pc[b] /\ held'[b] = held[b],
         \/ pc'[a] \in {"idle", "standing"}
         \/ AtWork(a) /\ AtWork(a)' /\ held'[a] = held[a]
         \/ /\ pc'[a] = "activate" /\ held'[a].row.policy = "none"
            /\ goals[held'[a].id].status = "pending"
  PROVE  OpenInv'
<1>1. TypeOK /\ TypeOK'
  BY DEF OpenInv, IInv
<1>2. RowsInOrder' /\ Undisturbed'
  BY DEF OpenInv, RowsInOrder, Undisturbed
<1>3. CopiesInOrder'
  BY DEF OpenInv, CopiesInOrder, AtWork
<1>4. ASSUME NEW sg \in Nat \ {0}
      PROVE  /\ OpenChildren(sg)' \subseteq OpenChildren(sg)
             /\ Spawning(sg)' \subseteq Spawning(sg)
  <2>1. Spawning(sg)' \subseteq Spawning(sg)
    BY DEF Spawning, AtWork
  <2>2. ASSUME NEW c \in OpenChildren(sg)', NEW b \in Agents, AtWork(b)', held'[b].id = c
        PROVE  c \in OpenChildren(sg)
    BY <2>2 DEF OpenChildren, ListChildren, AtWork, OpenStatus
  <2>3. ASSUME NEW c \in OpenChildren(sg)', goals[c].status \in OpenStatus
        PROVE  c \in OpenChildren(sg)
    BY <2>3 DEF OpenChildren, ListChildren
  <2> QED
    BY <2>1, <2>2, <2>3 DEF OpenChildren
<1>5. OpenCounted'
  BY <1>1, <1>4, NoMoreOpen DEF OpenInv
<1> QED
  BY <1>2, <1>3, <1>5 DEF OpenInv

LEMMA TickKeepsOpen ==
  ASSUME OpenInv, IInv', PlainInv', NEW a \in Agents,
         \/ StartTick(a) \/ SkipStanding(a) \/ PolicyRaises(a) \/ Execute(a)
         \/ RecordTrajectory(a) \/ IdleTick(a) \/ ReflectQuietly(a) \/ TickAborts(a)
  PROVE  OpenInv'
<1>1. TypeOK
  BY DEF OpenInv, IInv
<1>2. UNCHANGED <<goals, op>>
  BY DEF StartTick, SkipStanding, PolicyRaises, Execute, RecordTrajectory, IdleTick,
     ReflectQuietly, TickAborts, boardVars, operatorVars
<1>3. CASE StartTick(a) \/ SkipStanding(a) \/ PolicyRaises(a)
  <2>1. pc'[a] = "standing" /\ \A b \in Agents \ {a} : pc'[b] = pc[b] /\ held'[b] = held[b]
    BY <1>1, <1>3 DEF StartTick, SkipStanding, PolicyRaises, TypeOK
  <2> QED
    BY <1>2, <2>1, BoardAloneKeepsOpen
<1>4. CASE Execute(a) \/ RecordTrajectory(a)
  <2>1. /\ AtWork(a) /\ AtWork(a)' /\ held'[a] = held[a]
        /\ \A b \in Agents \ {a} : pc'[b] = pc[b] /\ held'[b] = held[b]
    BY <1>1, <1>4 DEF Execute, RecordTrajectory, TypeOK, AtWork
  <2> QED
    BY <1>2, <2>1, BoardAloneKeepsOpen
<1>5. CASE IdleTick(a) \/ ReflectQuietly(a) \/ TickAborts(a)
  <2>1. EndTick(a)
    BY <1>5 DEF IdleTick, ReflectQuietly, TickAborts
  <2>2. pc'[a] = "idle" /\ \A b \in Agents \ {a} : pc'[b] = pc[b] /\ held'[b] = held[b]
    BY <1>1, <2>1, EndTickType
  <2> QED
    BY <1>2, <2>2, BoardAloneKeepsOpen
<1> QED
  BY <1>3, <1>4, <1>5

(* A goal that is picked is pending: it is no policy's goal, and if it is  *)
(* a child it counts already.                                              *)
LEMMA PickKeepsOpen ==
  ASSUME OpenInv, IInv', PlainInv', NEW a \in Agents, PickGoal(a)
  PROVE  OpenInv'
<1>1. TypeOK
  BY DEF OpenInv, IInv
<1>2. UNCHANGED <<goals, op>>
  BY DEF PickGoal, boardVars, operatorVars
<1>3. PICK g \in Pickable(goals) :
        held' = [held EXCEPT ![a] = [id |-> g, row |-> [goals[g] EXCEPT !.status = "active"]]]
  BY DEF PickGoal
<1>4. g \in 1..Len(goals) /\ goals[g].status = "pending" /\ goals[g] \in Goal
  BY <1>1, RowType DEF Pickable, ListByStatus, TypeOK
<1>5. goals[g].policy = "none"
  BY <1>4 DEF OpenInv, RowsInOrder
<1>6. [goals[g] EXCEPT !.status = "active"].policy = "none"
  BY <1>4, <1>5 DEF Goal
<1>7. /\ pc'[a] = "activate" /\ held'[a].id = g /\ held'[a].row.policy = "none"
      /\ \A b \in Agents \ {a} : pc'[b] = pc[b] /\ held'[b] = held[b]
  BY <1>1, <1>3, <1>6 DEF PickGoal, TypeOK
<1> QED
  BY <1>2, <1>4, <1>7, BoardAloneKeepsOpen

(* A write by the tick at work, of a goal that counts already.             *)
LEMMA WriteBackKeepsOpen ==
  ASSUME OpenInv, IInv', PlainInv', NEW a \in Agents, Activate(a) \/ Settle(a)
  PROVE  OpenInv'
<1>1. TypeOK /\ TypeOK' /\ CopiesFit /\ Len(goals) \in Nat
  BY LenProperties DEF OpenInv, IInv, PlainInv, DiagnosisInv, TypeOK
<1>2. /\ held[a].row \in Goal /\ held[a].row.policy = "none" /\ held[a].row.status = "active"
      /\ held[a].id \in 1..Len(goals) /\ Kin(held[a].row) = Kin(goals[held[a].id])
      /\ AtWork(a)
  BY <1>1 DEF Activate, Settle, TypeOK, Held, CopiesFit, Fits, OpenInv, CopiesInOrder,
     IInv, HeldInOrder, AtWork
<1>3. PICK row \in Goal :
        /\ goals' = Update(goals, held[a].id, row) /\ Kin(row) = Kin(held[a].row)
        /\ row.status \in {"active", "done", "failed"}
  <2>1. CASE Activate(a)
    BY <1>2, <2>1 DEF Activate
  <2>2. CASE Settle(a)
    <3>1. PICK s \in {"active", "done", "failed"} : s = StatusAfter(verdict[a], "active")
      BY DEF StatusAfter
    <3> DEFINE new == [held[a].row EXCEPT !.status = StatusAfter(verdict[a], @)]
    <3>2. new = [held[a].row EXCEPT !.status = s]
      BY <1>2, <3>1 DEF Goal
    <3>3. s \in GoalStatus
      BY DEF GoalStatus
    <3>4. /\ [held[a].row EXCEPT !.status = s] \in Goal
          /\ [held[a].row EXCEPT !.status = s].status = s
          /\ Kin([held[a].row EXCEPT !.status = s]) = Kin(held[a].row)
      BY <1>2, <3>3, WithStatusType, WithStatusKin
    <3>5. new \in Goal /\ Kin(new) = Kin(held[a].row) /\ new.status = s
      <4> HIDE DEF new
      <4> QED BY <3>2, <3>4
    <3> QED
      BY <2>2, <3>5 DEF Settle
  <2> QED
    BY <2>1, <2>2
<1>4. /\ Len(goals') = Len(goals)
      /\ \A h \in 1..Len(goals) : goals'[h] = IF h = held[a].id THEN row ELSE goals[h]
      /\ \A h \in 1..Len(goals) : Kin(goals'[h]) = Kin(goals[h])
  BY <1>1, <1>2, <1>3, UpdateKin
<1>5. /\ \A b \in Agents \ {a} : pc'[b] = pc[b] /\ held'[b] = held[b]
      /\ \/ pc'[a] = "idle"
         \/ pc'[a] \in {"run", "reflect"} /\ held'[a] = held[a]
      /\ UNCHANGED op
  BY <1>1, EndTickType DEF Activate, Settle, TypeOK, operatorVars
<1>6. row.policy = "none" /\ row.parent = goals[held[a].id].parent
  BY <1>2, <1>3 DEF Kin
<1>7. RowsInOrder'
  BY <1>3, <1>4, <1>6 DEF OpenInv, RowsInOrder
<1>8. CopiesInOrder'
  BY <1>2, <1>5 DEF OpenInv, CopiesInOrder
<1>9. ASSUME NEW sg \in Nat \ {0}
      PROVE  /\ Watched(goals', sg) => Watched(goals, sg)
             /\ OpenChildren(sg)' \subseteq OpenChildren(sg)
             /\ Spawning(sg)' \subseteq Spawning(sg)
  <2>1. Spawning(sg)' \subseteq Spawning(sg)
    BY <1>5 DEF Spawning
  <2>2. Watched(goals', sg) => Watched(goals, sg)
    BY <1>4 DEF Watched, Kin
  <2>3. ASSUME NEW c \in OpenChildren(sg)'
        PROVE  c \in OpenChildren(sg)
    <3>1. c \in 1..Len(goals) /\ goals[c].parent = sg
      BY <1>4 DEF OpenChildren, ListChildren, Kin
    <3>2. CASE c = held[a].id
      BY <1>2, <3>1, <3>2 DEF OpenChildren, ListChildren
    <3>3. CASE c # held[a].id
      <4>1. goals'[c] = goals[c]
        BY <1>4, <3>1, <3>3
      <4>2. CASE goals[c].status \in OpenStatus
        BY <3>1, <4>2 DEF OpenChildren, ListChildren
      <4>3. CASE goals[c].status \notin OpenStatus
        <5>1. PICK b \in Agents : AtWork(b)' /\ held'[b].id = c
          BY <4>1, <4>3 DEF OpenChildren
        <5>2. AtWork(b) /\ held[b].id = c
          BY <1>5, <3>3, <5>1 DEF AtWork
        <5> QED
          BY <3>1, <5>2 DEF OpenChildren, ListChildren
      <4> QED
        BY <4>2, <4>3
    <3> QED
      BY <3>2, <3>3
  <2> QED
    BY <2>1, <2>2, <2>3
<1>10. OpenCounted'
  BY <1>1, <1>9, NoMoreOpen DEF OpenInv
<1> QED
  BY <1>7, <1>8, <1>10 DEF OpenInv, Undisturbed

(* A policy decides while no child is open: those that count are at work,  *)
(* each with an agent of its own that spawns nothing.                      *)
LEMMA DecideKeepsOpen ==
  ASSUME OpenInv, IInv', PlainInv', NEW a \in Agents, DecideSpawn(a)
  PROVE  OpenInv'
<1>1. TypeOK /\ TypeOK'
  BY DEF OpenInv, IInv
<1>2. UNCHANGED <<goals, op>> /\ pc[a] = "standing"
  BY DEF DecideSpawn, boardVars, operatorVars
<1>3. PICK up \in todo[a] : \E row \in Wanted(a, up) :
        held' = [held EXCEPT ![a] = [id |-> 0, row |-> row]]
  BY DEF DecideSpawn
<1>4. PICK row \in Wanted(a, up) : held' = [held EXCEPT ![a] = [id |-> 0, row |-> row]]
  BY <1>3
<1>5. /\ held'[a].row = row /\ \A b \in Agents \ {a} : held'[b] = held[b]
      /\ pc'[a] = "spawn" /\ \A b \in Agents \ {a} : pc'[b] = pc[b]
  BY <1>1, <1>4 DEF DecideSpawn, TypeOK
<1>6. /\ up \in 1..Len(goals) /\ row \in Proposals(goals, up, alert[a])
      /\ ~HasOpenChild(goals, up)
  BY <1>1, <1>3, <1>4 DEF TypeOK, Wanted
<1>7. row.parent = up
  <2>1. goals[up].policy \in Policies \cup {"none"}
    BY <1>1, <1>6, RowType DEF TypeOK, Goal
  <2>2. CASE goals[up].policy = "on_alert_observation"
    <3>1. row = SpawnedRow(up, ChildPriority, 0)
      BY <1>6, <2>2, Zenon DEF Proposals
    <3> QED
      BY <3>1 DEF SpawnedRow, NewGoal
  <2>3. CASE goals[up].policy = "on_prev_verify_failure"
    <3>1. PICK f \in Undiagnosed(goals, up) : row = SpawnedRow(up, 2, f)
      BY <1>6, <2>3 DEF Proposals
    <3> QED
      BY <3>1 DEF SpawnedRow, NewGoal
  <2>4. CASE goals[up].policy = "none"
    BY <1>6, <2>4 DEF Proposals
  <2> QED
    BY <2>1, <2>2, <2>3, <2>4 DEF Policies
<1>8. RowsInOrder' /\ Undisturbed' /\ CopiesInOrder'
  BY <1>2, <1>5 DEF OpenInv, RowsInOrder, Undisturbed, CopiesInOrder
<1>9. ASSUME NEW sg \in Nat \ {0}, Watched(goals', sg)
      PROVE  Cardinality(OpenChildren(sg)') + Cardinality(Spawning(sg)') <= Cardinality(Agents)
  <2>1. \A b \in Agents : AtWork(b)' <=> AtWork(b) /\ b # a
    BY <1>2, <1>5 DEF AtWork
  <2>2. OpenChildren(sg)' = OpenChildren(sg)
    BY <1>2, <1>5, <2>1 DEF OpenChildren, AtWork
  <2>3. CASE sg # up
    <3>1. Spawning(sg)' = Spawning(sg)
      BY <1>2, <1>5, <1>7, <2>3 DEF Spawning
    <3> QED
      BY <1>2, <1>9, <2>2, <3>1 DEF OpenInv, OpenCounted
  <2>4. CASE sg = up
    <3>1. \A c \in OpenChildren(sg) : \E b \in Agents : AtWork(b) /\ held[b].id = c
      BY <1>6, <2>4 DEF OpenChildren, HasOpenChild
    <3> DEFINE at == [c \in OpenChildren(sg) |->
                        CHOOSE b \in Agents : AtWork(b) /\ held[b].id = c]
    <3> DEFINE others == Agents \ Spawning(sg)'
    <3>2. \A c \in OpenChildren(sg) :
            at[c] \in Agents /\ AtWork(at[c]) /\ held[at[c]].id = c
      BY <3>1
    <3>3. \A b \in Agents : AtWork(b) => b \in others
      BY <1>2, <1>5 DEF AtWork, Spawning
    <3>4. at \in [OpenChildren(sg) -> others]
      BY <3>2, <3>3
    <3>5. at \in Injection(OpenChildren(sg), others)
      <4> HIDE DEF others, at
      <4> QED BY <3>2, <3>4 DEF Injection, IsInjective
    <3>6. IsFiniteSet(Agents) /\ Spawning(sg)' \in SUBSET Agents
      BY ConstantsAssumption DEF Spawning
    <3>7. /\ IsFiniteSet(others)
          /\ Cardinality(others) = Cardinality(Agents) - Cardinality(Spawning(sg)')
      <4>1. Agents \cap Spawning(sg)' = Spawning(sg)'
        BY <3>6
      <4> QED
        BY <3>6, <4>1, FS_Difference
    <3>8. Cardinality(OpenChildren(sg)) <= Cardinality(others)
      <4> HIDE DEF others, at
      <4> QED BY <3>5, <3>7, FS_Injection
    <3>9. Cardinality(Spawning(sg)') \in Nat
      BY <3>6, FS_Subset, FS_CardinalityType
    <3> QED
      BY <1>1, <2>2, <3>7, <3>8, <3>9, OpenCountsAreNumbers
  <2> QED
    BY <2>3, <2>4
<1>10. OpenCounted'
  BY <1>9 DEF OpenCounted, OpenChildren, Spawning
<1> QED
  BY <1>8, <1>10 DEF OpenInv

(* A decision becomes a child.                                             *)
LEMMA CreateSpawnedKeepsOpen ==
  ASSUME OpenInv, IInv', PlainInv', NEW a \in Agents, CreateSpawned(a)
  PROVE  OpenInv'
<1>1. TypeOK /\ TypeOK'
  BY DEF OpenInv, IInv
<1>2. PICK row \in Goal :
        row = held[a].row /\ row.policy = "none" /\ row.status = "pending"
  BY <1>1 DEF CreateSpawned, TypeOK, Held, OpenInv, PlainInv, SpawnsPlain, IInv, HeldInOrder
<1>3. UNCHANGED op /\ pc[a] = "spawn" /\ goals' = Create(goals, row)
  BY <1>2 DEF CreateSpawned, operatorVars
<1>4. /\ pc'[a] = "standing" /\ \A b \in Agents \ {a} : pc'[b] = pc[b]
      /\ \A b \in Agents \ {a} : held'[b] = held[b]
  BY <1>1 DEF CreateSpawned, TypeOK
<1>5. /\ Len(goals') = Len(goals) + 1 /\ Len(goals) \in Nat
      /\ \A g \in 1..Len(goals) : goals'[g] = goals[g]
      /\ goals'[Len(goals) + 1] = row
  BY <1>1, <1>3, CreateKin
<1>6. RowsInOrder'
  BY <1>2, <1>5 DEF OpenInv, RowsInOrder
<1>7. CopiesInOrder'
  BY <1>3, <1>4 DEF OpenInv, CopiesInOrder
<1>8. ASSUME NEW sg \in Nat \ {0}, Watched(goals', sg)
      PROVE  Cardinality(OpenChildren(sg)') + Cardinality(Spawning(sg)') <= Cardinality(Agents)
  <2>1. PICK last \in Nat : last = Len(goals) + 1
    BY <1>5
  <2>2. Watched(goals, sg)
    BY <1>5, <1>8 DEF Watched
  <2>3. Cardinality(OpenChildren(sg)) + Cardinality(Spawning(sg)) <= Cardinality(Agents)
    BY <2>2 DEF OpenInv, OpenCounted
  <2>4. \A b \in Agents : (AtWork(b)' <=> AtWork(b)) /\ (AtWork(b) => held'[b] = held[b])
    BY <1>3, <1>4 DEF AtWork
  <2>5. CASE row.parent = sg
    <3>1. OpenChildren(sg)' \subseteq OpenChildren(sg) \cup {last}
      BY <1>5, <2>1, <2>4 DEF OpenChildren, ListChildren, AtWork
    <3>2. Spawning(sg)' = Spawning(sg) \ {a} /\ a \in Spawning(sg)
      BY <1>2, <1>3, <1>4, <2>5 DEF Spawning
    <3>3. /\ IsFiniteSet(OpenChildren(sg)) /\ IsFiniteSet(Spawning(sg))
          /\ Cardinality(OpenChildren(sg)) \in Nat /\ Cardinality(Spawning(sg)) \in Nat
          /\ Cardinality(Agents) \in Nat
      BY <1>1, OpenCountsAreNumbers
    <3>4. /\ IsFiniteSet(OpenChildren(sg) \cup {last})
          /\ Cardinality(OpenChildren(sg) \cup {last}) <= Cardinality(OpenChildren(sg)) + 1
          /\ Cardinality(OpenChildren(sg) \cup {last}) \in Nat
      <4>1. /\ IsFiniteSet(OpenChildren(sg) \cup {last})
            /\ Cardinality(OpenChildren(sg) \cup {last}) =
                 IF last \in OpenChildren(sg) THEN Cardinality(OpenChildren(sg))
                 ELSE Cardinality(OpenChildren(sg)) + 1
        BY <3>3, FS_AddElement
      <4>2. Cardinality(OpenChildren(sg) \cup {last}) \in Nat
        BY <4>1, FS_CardinalityType
      <4> QED
        BY <3>3, <4>1, <4>2
    <3>5. OpenChildren(sg)' \in SUBSET (OpenChildren(sg) \cup {last})
      BY <3>1
    <3>6. /\ Cardinality(OpenChildren(sg)') <= Cardinality(OpenChildren(sg) \cup {last})
          /\ IsFiniteSet(OpenChildren(sg)')
      BY <3>4, <3>5, FS_Subset
    <3>7. Cardinality(Spawning(sg) \ {a}) = Cardinality(Spawning(sg)) - 1
      BY <3>2, <3>3, FS_RemoveElement
    <3>8. Cardinality(OpenChildren(sg)') \in Nat
      BY <3>6, FS_CardinalityType
    <3> QED
      BY <2>3, <3>2, <3>3, <3>4, <3>6, <3>7, <3>8
  <2>6. CASE row.parent # sg
    <3>1. OpenChildren(sg)' = OpenChildren(sg)
      BY <1>5, <2>4, <2>6 DEF OpenChildren, ListChildren, AtWork
    <3>2. Spawning(sg)' = Spawning(sg)
      BY <1>2, <1>3, <1>4, <2>6 DEF Spawning
    <3> QED
      BY <2>3, <3>1, <3>2
  <2> QED
    BY <2>5, <2>6
<1>9. OpenCounted'
  BY <1>8 DEF OpenCounted, OpenChildren, Spawning
<1> QED
  BY <1>6, <1>7, <1>9 DEF OpenInv, Undisturbed

(* Other new rows are children of no policy's goal.                        *)
LEMMA OtherRowsKeepOpen ==
  ASSUME OpenInv, IInv', PlainInv', NEW row \in Goal, NewRow(row), UNCHANGED op,
         row.policy # "none" => row.status = "active",
         row.status \in {"pending", "active"},
         row.parent # 0 => ~Watched(goals, row.parent),
         \A b \in Agents : \/ pc'[b] = "idle"
                           \/ pc'[b] = pc[b] /\ held'[b] = held[b]
  PROVE  OpenInv'
<1>1. TypeOK /\ TypeOK'
  BY DEF OpenInv, IInv
<1>2. RowsInOrder'
  BY DEF OpenInv, RowsInOrder, NewRow
<1>3. CopiesInOrder'
  BY DEF OpenInv, CopiesInOrder
<1>4. ASSUME NEW sg \in Nat \ {0}, Watched(goals', sg)
      PROVE  /\ Watched(goals, sg)
             /\ OpenChildren(sg)' \subseteq OpenChildren(sg)
             /\ Spawning(sg)' \subseteq Spawning(sg)
  <2>1. Watched(goals, sg)
    BY <1>4 DEF Watched, NewRow
  <2>2. row.parent # sg
    BY <2>1
  <2>3. Spawning(sg)' \subseteq Spawning(sg)
    BY DEF Spawning
  <2>4. \A b \in Agents : AtWork(b)' => AtWork(b) /\ held'[b] = held[b]
    BY DEF AtWork
  <2>5. OpenChildren(sg)' \subseteq OpenChildren(sg)
    BY <2>2, <2>4 DEF OpenChildren, ListChildren, NewRow, AtWork
  <2> QED
    BY <2>1, <2>3, <2>5
<1>5. OpenCounted'
  BY <1>1, <1>4, NoMoreOpen DEF OpenInv
<1> QED
  BY <1>2, <1>3, <1>5 DEF OpenInv, Undisturbed

LEMMA InquiryKeepsOpen ==
  ASSUME OpenInv, IInv', PlainInv', NEW a \in Agents, ReflectInquiry(a)
  PROVE  OpenInv'
<1>1. TypeOK /\ CopiesFit
  BY DEF OpenInv, IInv, PlainInv, DiagnosisInv
<1>2. /\ held[a].id \in Nat /\ held[a].id \in 1..Len(goals)
      /\ Kin(held[a].row) = Kin(goals[held[a].id])
      /\ held[a].row.policy = "none"
  BY <1>1 DEF ReflectInquiry, TypeOK, Held, CopiesFit, Fits, OpenInv, CopiesInOrder
<1>3. ~Watched(goals, held[a].id)
  BY <1>2 DEF Watched, Kin
<1>4. PICK row \in Goal : /\ row = InquiryRow(held[a].id) /\ row.policy = "none"
                          /\ row.status = "pending" /\ row.parent = held[a].id
  <2> DEFINE new == NewGoal("inquiry", 1, "judge")
  <2>1. new \in Goal /\ new.policy = "none" /\ new.status = "pending"
    BY NewGoalType DEF GoalClass, PredicateKind, NewGoal
  <2>2. /\ [new EXCEPT !.parent = held[a].id] \in Goal
        /\ [new EXCEPT !.parent = held[a].id].policy = "none"
        /\ [new EXCEPT !.parent = held[a].id].status = "pending"
        /\ [new EXCEPT !.parent = held[a].id].parent = held[a].id
    <3> HIDE DEF new
    <3> QED BY <1>2, <2>1 DEF Goal
  <2> QED
    BY <2>2 DEF InquiryRow
<1>5. goals' = Create(goals, row) /\ EndTick(a) /\ UNCHANGED op
  BY <1>4 DEF ReflectInquiry, operatorVars
<1>6. NewRow(row)
  BY <1>1, <1>5, CreateKin DEF NewRow
<1>7. \A b \in Agents : \/ pc'[b] = "idle"
                        \/ pc'[b] = pc[b] /\ held'[b] = held[b]
  BY <1>1, <1>5, EndTickType
<1> QED
  BY <1>3, <1>4, <1>5, <1>6, <1>7, OtherRowsKeepOpen

(* Requests.  An abandon or a reject closes, an approve is of a goal that  *)
(* is nobody's child.                                                      *)
LEMMA RequestKeepsOpen ==
  ASSUME OpenInv, IInv', PlainInv', NEW u \in Operators,
         ReadGoal(u) \/ ReadPolicies(u) \/ OperatorStops(u)
  PROVE  OpenInv'
<1>1. TypeOK
  BY DEF OpenInv, IInv
<1>2. UNCHANGED <<goals, pc, held>>
  BY DEF ReadGoal, ReadPolicies, OperatorStops, boardVars, agentVars
<1>3. CopiesInOrder'
  <2>1. CASE ReadGoal(u)
    <3>1. PICK kind \in Operations \ {"create", "bootstrap"}, g \in 1..Len(goals) :
            /\ Accepts(kind, goals[g])
            /\ op' = [op EXCEPT ![u] = [kind |-> kind, id |-> g, row |-> Edited(kind, goals[g])]]
      BY <2>1 DEF ReadGoal
    <3>2. PICK row \in Goal : row = goals[g]
      BY <1>1, RowType DEF TypeOK
    <3>3. kind \in {"approve", "reject", "abandon"}
      BY ConstantsAssumption DEF OpenInv, Undisturbed, OperationKind
    <3>4. kind = "approve" => row.status = "pending_approval"
      BY <3>1, <3>2 DEF Accepts, Approvable
    <3>5. row.status = "pending_approval" => row.policy = "none" /\ row.parent = 0
      BY <3>2 DEF OpenInv, RowsInOrder
    <3>6. /\ Edited(kind, row).status \in {"pending", "abandoned"}
          /\ Edited(kind, row).status = "pending" =>
               Edited(kind, row).policy = "none" /\ Edited(kind, row).parent = 0
      BY <3>3, <3>4, <3>5 DEF Edited, Goal
    <3>7. op'[u].row = Edited(kind, row) /\ \A w \in Operators \ {u} : op'[w] = op[w]
      BY <1>1, <3>1, <3>2 DEF TypeOK
    <3> QED
      BY <1>2, <3>6, <3>7 DEF OpenInv, CopiesInOrder
  <2>2. CASE ReadPolicies(u)
    BY <1>2, <2>2 DEF ReadPolicies, OpenInv, CopiesInOrder
  <2>3. CASE OperatorStops(u)
    BY <1>1, <1>2, <2>3 DEF OperatorStops, OpenInv, CopiesInOrder, TypeOK
  <2> QED
    BY <2>1, <2>2, <2>3
<1>4. RowsInOrder' /\ OpenCounted'
  BY <1>2 DEF OpenInv, RowsInOrder, OpenCounted, OpenChildren, Spawning, AtWork
<1> QED
  BY <1>3, <1>4 DEF OpenInv, Undisturbed

LEMMA WriteGoalKeepsOpen ==
  ASSUME OpenInv, IInv', PlainInv', NEW u \in Operators, WriteGoal(u)
  PROVE  OpenInv'
<1>1. TypeOK /\ TypeOK' /\ CopiesFit /\ Len(goals) \in Nat
  BY LenProperties DEF OpenInv, IInv, PlainInv, DiagnosisInv, TypeOK
<1>2. PICK row \in Goal, g \in 1..Len(goals) :
        /\ row = op[u].row /\ g = op[u].id
        /\ Kin(row) = Kin(goals[g]) /\ row.status \in {"pending", "abandoned"}
        /\ row.status = "pending" => row.policy = "none" /\ row.parent = 0
  BY <1>1 DEF WriteGoal, TypeOK, Request, CopiesFit, Fits, OpenInv, CopiesInOrder
<1>3. /\ goals' = Update(goals, g, row) /\ UNCHANGED <<pc, held>>
      /\ op' = [op EXCEPT ![u] = None]
  BY <1>2 DEF WriteGoal, agentVars
<1>4. /\ Len(goals') = Len(goals)
      /\ \A h \in 1..Len(goals) : goals'[h] = IF h = g THEN row ELSE goals[h]
      /\ \A h \in 1..Len(goals) : Kin(goals'[h]) = Kin(goals[h])
  BY <1>1, <1>2, <1>3, UpdateKin
<1>5. RowsInOrder'
  <2>1. row.status = "pending" => row.policy = "none"
    BY <1>2
  <2> QED
    BY <1>2, <1>4, <2>1 DEF OpenInv, RowsInOrder
<1>6. CopiesInOrder'
  BY <1>1, <1>3 DEF OpenInv, CopiesInOrder, TypeOK
<1>7. ASSUME NEW sg \in Nat \ {0}
      PROVE  /\ Watched(goals', sg) => Watched(goals, sg)
             /\ OpenChildren(sg)' \subseteq OpenChildren(sg)
             /\ Spawning(sg)' \subseteq Spawning(sg)
  <2>1. Spawning(sg)' \subseteq Spawning(sg)
    BY <1>3 DEF Spawning
  <2>2. Watched(goals', sg) => Watched(goals, sg)
    BY <1>4 DEF Watched, Kin
  <2>3. ASSUME NEW c \in OpenChildren(sg)'
        PROVE  c \in OpenChildren(sg)
    <3>1. c \in 1..Len(goals) /\ goals[c].parent = sg
      BY <1>4 DEF OpenChildren, ListChildren, Kin
    <3>2. c = g => goals'[c].status \notin OpenStatus
      BY <1>2, <1>4, <3>1 DEF Kin, OpenStatus
    <3> QED
      BY <1>3, <1>4, <3>1, <3>2 DEF OpenChildren, ListChildren, AtWork
  <2> QED
    BY <2>1, <2>2, <2>3
<1>8. OpenCounted'
  BY <1>1, <1>7, NoMoreOpen DEF OpenInv
<1> QED
  BY <1>5, <1>6, <1>8 DEF OpenInv, Undisturbed

LEMMA OperatorEntersKeepsOpen ==
  ASSUME OpenInv, IInv', PlainInv', NEW u \in Operators, EnterGoal(u) \/ CreateStanding(u)
  PROVE  OpenInv'
<1>1. PlainInv
  BY DEF OpenInv
<1>2. UNCHANGED <<op, pc, held>>
  BY DEF EnterGoal, CreateStanding, agentVars, operatorVars
<1>3. CASE EnterGoal(u)
  <2>1. PICK class \in {"task", "standing"}, prio \in Priorities, pred \in Predicates :
          goals' = Create(goals, NewGoal(class, prio, pred))
    BY <1>3 DEF EnterGoal
  <2>2. PICK row \in Goal : /\ row = NewGoal(class, prio, pred) /\ row.policy = "none"
                            /\ row.status = "pending" /\ row.parent = 0
    BY NewGoalType, ConstantsAssumption DEF GoalClass, NewGoal
  <2>3. NewRow(row)
    BY <2>1, <2>2, CreateKin DEF NewRow, OpenInv, IInv
  <2> QED
    BY <1>2, <2>2, <2>3, OtherRowsKeepOpen
<1>4. CASE CreateStanding(u)
  <2>1. PICK row \in Goal : row.status = "active" /\ row.parent = 0 /\ NewRow(row)
    BY <1>1, <1>4, CreateStandingBoard
  <2> QED
    BY <1>2, <2>1, OtherRowsKeepOpen
<1> QED
  BY <1>3, <1>4

LEMMA OpenStep ==
  ASSUME OpenInv, [Next]_vars
  PROVE  OpenInv'
<1>1. IInv' /\ PlainInv'
  BY OrderStep, PlainStep DEF OpenInv
<1>2. ASSUME NEW a \in Agents, AgentStep(a)
      PROVE  OpenInv'
  BY <1>1, <1>2, TickKeepsOpen, PickKeepsOpen, WriteBackKeepsOpen, DecideKeepsOpen,
     CreateSpawnedKeepsOpen, InquiryKeepsOpen
     DEF AgentStep, TickStep
<1>3. ASSUME NEW u \in Operators, OperatorStep(u)
      PROVE  OpenInv'
  BY <1>1, <1>3, RequestKeepsOpen, WriteGoalKeepsOpen, OperatorEntersKeepsOpen
     DEF OperatorStep
<1>4. ASSUME UNCHANGED vars
      PROVE  OpenInv'
  <2>1. UNCHANGED <<goals, pc, held, op>>
    BY <1>4 DEF vars
  <2>2. Undisturbed' /\ RowsInOrder' /\ CopiesInOrder' /\ OpenCounted'
    BY <2>1 DEF OpenInv, Undisturbed, RowsInOrder, CopiesInOrder, OpenCounted,
       OpenChildren, Spawning, AtWork
  <2> QED
    BY <1>1, <2>2 DEF OpenInv
<1> QED
  BY <1>2, <1>3, <1>4 DEF Next

(* Deduplication holds at every moment: a policy's goal has no more open   *)
(* children than there are processes that tick.                            *)
THEOREM ChildrenBounded ==
  ASSUME Agents # {}, Undisturbed
  PROVE  Spec => []OneOpenChild
<1>1. Init => OpenInv
  BY InitOpen
<1>2. OpenInv /\ [Next]_vars => OpenInv'
  BY OpenStep
<1>3. OpenInv => OneOpenChild
  <2> SUFFICES ASSUME OpenInv, NEW sg \in ListByClass(goals, "standing"),
                      goals[sg].policy # "none"
               PROVE  Cardinality({c \in ListChildren(goals, sg) : goals[c].status \in OpenStatus})
                        <= Cardinality(Agents)
    BY DEF OneOpenChild
  <2> DEFINE open == {c \in ListChildren(goals, sg) : goals[c].status \in OpenStatus}
  <2>1. TypeOK /\ Len(goals) \in Nat
    BY LenProperties DEF OpenInv, IInv, TypeOK
  <2>2. sg \in Nat \ {0} /\ Watched(goals, sg)
    BY <2>1 DEF ListByClass, Watched
  <2>3. Cardinality(OpenChildren(sg)) + Cardinality(Spawning(sg)) <= Cardinality(Agents)
    BY <2>2 DEF OpenInv, OpenCounted
  <2>4. open \in SUBSET OpenChildren(sg)
    BY DEF OpenChildren
  <2>5. /\ IsFiniteSet(OpenChildren(sg)) /\ Cardinality(OpenChildren(sg)) \in Nat
        /\ Cardinality(Spawning(sg)) \in Nat /\ Cardinality(Agents) \in Nat
    BY <2>1, OpenCountsAreNumbers
  <2>6. /\ Cardinality(open) <= Cardinality(OpenChildren(sg))
        /\ Cardinality(open) \in Nat
    BY <2>4, <2>5, FS_Subset, FS_CardinalityType
  <2> QED
    BY <2>3, <2>5, <2>6
<1> QED
  BY <1>1, <1>2, <1>3, PTL DEF Spec
=============================================================================
