----------------------------- MODULE MCEvalRuns -----------------------------
(***************************************************************************)
(* Evaluations for TLC: two tasks, or one of them under the same label; one *)
(* attempt or two; another label; a held-out run; another adapter.  Before  *)
(* them, load_hf_tasks cuts the context of their tasks into chunks.        *)
(***************************************************************************)
EXTENDS EvalRuns, Chunking, TLC

Base == [adapter |-> "mab", label |-> "", tasks |-> {1}, k |-> 1, heldOut |-> FALSE]

TestSetups ==
  {Base,
   [Base EXCEPT !.k = 2],
   [Base EXCEPT !.tasks = {1, 2}],
   [Base EXCEPT !.label = "dev", !.tasks = {2}],
   [Base EXCEPT !.heldOut = TRUE],
   [Base EXCEPT !.adapter = "mab_hf"]}

Loaded == ~cutting /\ text = <<>> /\ chunks = {}

(* The chunks go into the tasks, which tell them by their number only.     *)
HandOver ==
  /\ ~cutting /\ ~Loaded
  /\ text' = <<>> /\ start' = 0 /\ chunks' = {} /\ UNCHANGED cutting

MCInit == Init /\ ChunkInit

MCNext ==
  \/ (ChunkNext \/ HandOver) /\ UNCHANGED vars
  \/ Loaded /\ Next /\ UNCHANGED chunkVars

MCSpec == MCInit /\ [][MCNext]_<<vars, chunkVars>>

Symmetry == Permutations(Evaluators) \cup Permutations(Accepted)
=============================================================================
