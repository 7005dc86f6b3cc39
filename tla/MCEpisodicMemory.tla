--------------------------- MODULE MCEpisodicMemory ---------------------------
(* EpisodicMemory for TLC.  Processes are interchangeable, and so are       *)
(* topics; no property is about time, so symmetry is sound.                 *)
EXTENDS EpisodicMemory, TLC

Symmetry == Permutations(Procs) \cup Permutations(Topics)
=============================================================================
