---------------------------- MODULE MCMetacycle ----------------------------
(***************************************************************************)
(* Boards from which TLC explores Metacycle, one set per question.         *)
(***************************************************************************)
EXTENDS Metacycle

Task(prio) == NewGoal("task", prio, "judge")

Gated == [Task(1) EXCEPT !.status = "pending_approval"]

Standing(policy) == StandingRow(policy)

(* A goal that waits for approval beside one that does not.                *)
ApprovalBoards == {<<Gated, Task(1)>>}

(* One of the starter standing goals (bootstrap may add the other), and a   *)
(* goal important enough to be diagnosed when it fails.                    *)
StandingBoards == {<<Standing(policy), Task(2)>> : policy \in Policies}

OneTask == {<<Task(1)>>}
=============================================================================
