----------------------------- MODULE GoalStore -----------------------------
(***************************************************************************)
(* The goal repository (goals/schema.py, goals/store.py) as a data type.   *)
(*                                                                         *)
(* A board is the sequence of the rows of table "goals", in the order in   *)
(* which they were created; the index of a row stands for its UUID.  A row *)
(* keeps the fields the metacycle and the operator console branch on.      *)
(* Every method of GoalRepository runs in one SQLite transaction of its    *)
(* own, so each operator below is one atomic read or write; what callers   *)
(* do between two of them is left to the modules that use this one.        *)
(***************************************************************************)
EXTENDS Integers, Sequences, FiniteSets

GoalStatus == {"pending", "pending_approval", "active", "suspended",
               "done", "failed", "abandoned"}

(* Only these three classes are told apart by the code that is modelled:   *)
(* "maintenance" and "practice" goals go the way of "task".                *)
GoalClass == {"task", "inquiry", "standing"}

(* The kinds of predicate_of_success that the CLI and the console build.   *)
PredicateKind == {"judge", "structural", "state_change"}

Policies == {"on_alert_observation", "on_prev_verify_failure"}

Terminal == {"done", "failed", "abandoned"}

(* parent and target are row indices, 0 when absent: parent is parent_id,  *)
(* target is metadata["failed_goal_id"].  edits is the length of the list  *)
(* metadata["budget_edits"].                                               *)
Goal == [class  : GoalClass,
         status : GoalStatus,
         prio   : Nat,
         parent : Nat,
         policy : Policies \cup {"none"},
         target : Nat,
         pred   : PredicateKind,
         edits  : Nat]

NewGoal(class, prio, pred) ==
  [class |-> class, status |-> "pending", prio |-> prio, parent |-> 0,
   policy |-> "none", target |-> 0, pred |-> pred, edits |-> 0]

-----------------------------------------------------------------------------
(* Reads.                                                                  *)

ListByStatus(board, s) == {g \in 1..Len(board) : board[g].status = s}

ListByClass(board, c) == {g \in 1..Len(board) : board[g].class = c}

ListChildren(board, p) == {g \in 1..Len(board) : board[g].parent = p}

(* Writes.  update() carries every column of the caller's copy over to the *)
(* row, whatever the row holds by then.                                    *)

Create(board, row) == Append(board, row)

Update(board, g, row) == [board EXCEPT ![g] = row]
=============================================================================
