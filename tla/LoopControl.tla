---------------------------- MODULE LoopControl ----------------------------
(***************************************************************************)
(* What the console's command log promises (metacycle/commands.py, module  *)
(* docstring): commands are applied in the order in which they were        *)
(* issued, each exactly once as far as the log goes; while the last pause  *)
(* or resume applied is a pause, the loop ticks only when a trigger_tick   *)
(* says so, and then once.  A loop that dies forgets a trigger it had      *)
(* obeyed, but never the pause.                                            *)
(***************************************************************************)
EXTENDS Naturals, Sequences

CommandKind == {"pause", "resume", "trigger_tick"}

VARIABLES log,       \* the commands issued, oldest first
          applied,   \* the positions of those that are applied
          permit,    \* a trigger_tick is obeyed, its tick not yet begun
          ticks      \* how many ticks were begun

Unapplied == {c \in 1..Len(log) : c \notin applied}

IsNext(c) == c \in Unapplied /\ \A d \in Unapplied : c <= d

(* The last pause or resume applied is a pause.                            *)
Switches == {c \in applied : log[c] \in {"pause", "resume"}}

IsPaused == \E c \in Switches : log[c] = "pause" /\ \A d \in Switches : d <= c

Init == log = <<>> /\ applied = {} /\ permit = FALSE /\ ticks = 0

Issue ==
  /\ \E kind \in CommandKind : log' = Append(log, kind)
  /\ UNCHANGED <<applied, permit, ticks>>

Obey ==
  /\ \E c \in Unapplied : IsNext(c) /\ log[c] = "trigger_tick"
  /\ permit' = TRUE
  /\ UNCHANGED <<log, applied, ticks>>

Apply ==
  /\ \E c \in Unapplied :
       /\ IsNext(c)
       /\ log[c] = "trigger_tick" => permit
       /\ applied' = applied \cup {c}
  /\ UNCHANGED <<log, permit, ticks>>

Tick ==
  /\ ~IsPaused \/ permit
  /\ permit' = FALSE
  /\ ticks' = ticks + 1
  /\ UNCHANGED <<log, applied>>

Forget == permit' = FALSE /\ UNCHANGED <<log, applied, ticks>>

Next == Issue \/ Obey \/ Apply \/ Tick \/ Forget

Spec == Init /\ [][Next]_<<log, applied, permit, ticks>>
=============================================================================
