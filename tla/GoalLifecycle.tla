--------------------------- MODULE GoalLifecycle ---------------------------
(***************************************************************************)
(* What each goal goes through: the abstract machine that the statuses of  *)
(* goals/schema.py, the approval flow of goals/store.py and the tick of    *)
(* metacycle/tick.py are meant to follow when one process runs the ticks   *)
(* and one operator acts at a time.                                        *)
(*                                                                         *)
(* A goal is worked on at most once, it is settled only after its          *)
(* trajectory is stored, and nothing ever makes it pending a second time.  *)
(* An operator's abandon and the tick that is working on the goal may      *)
(* overwrite each other; this machine promises no more than the code.      *)
(***************************************************************************)
EXTENDS Naturals

CONSTANT Ids              \* the goals that may ever exist

VARIABLES status,         \* status[g]: "absent", or a status of goals/schema.py
          trajectories    \* trajectories[g]: how many are stored for g

Init ==
  /\ status \in [Ids -> {"absent", "pending", "pending_approval", "active"}]
  /\ trajectories = [g \in Ids |-> 0]

Move(g, from, to) ==
  /\ status[g] \in from
  /\ \E s \in to : status' = [status EXCEPT ![g] = s]
  /\ UNCHANGED trajectories

(* The goal is entered, or spawned by the agent, or bootstrapped.          *)
Enter(g) == Move(g, {"absent"}, {"pending", "active"})

Approve(g) == Move(g, {"pending_approval"}, {"pending"})

(* A reject, or an abandon; the latter may come late.                      *)
Abandon(g) ==
  Move(g, {"pending_approval", "pending", "active", "suspended", "done", "failed"},
          {"abandoned"})

(* A tick takes the goal up, possibly over an abandon it has not seen.     *)
Activate(g) ==
  /\ trajectories[g] = 0
  /\ Move(g, {"pending", "abandoned"}, {"active"})

Record(g) ==
  /\ status[g] \in {"active", "abandoned"}
  /\ trajectories[g] = 0
  /\ trajectories' = [trajectories EXCEPT ![g] = 1]
  /\ UNCHANGED status

Settle(g) ==
  /\ trajectories[g] = 1
  /\ Move(g, {"active", "abandoned"}, {"active", "done", "failed"})

Next ==
  \E g \in Ids : Enter(g) \/ Approve(g) \/ Abandon(g) \/ Activate(g) \/ Record(g) \/ Settle(g)

Spec == Init /\ [][Next]_<<status, trajectories>>
=============================================================================
