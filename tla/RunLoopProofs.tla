--------------------------- MODULE RunLoopProofs ---------------------------
(***************************************************************************)
(* Proofs about RunLoop that hold for any drain limit, snapshot period,    *)
(* tick limit, number of commands and number of faults.                    *)
(***************************************************************************)
EXTENDS RunLoop, SequenceTheorems, FiniteSetTheorems, TLAPS

-----------------------------------------------------------------------------
(* The command log.                                                        *)

(* A command that is issued is not consumed and disturbs no other.         *)
LEMMA IssueLog ==
  ASSUME NEW log \in Seq(Command), NEW kind \in CommandKind,
         NEW longer, longer = Append(log, [kind |-> kind, status |-> "new"])
  PROVE  /\ longer \in Seq(Command) /\ Len(longer) = Len(log) + 1
         /\ \A c \in 1..Len(log) : longer[c] = log[c]
         /\ Unconsumed(longer) = Unconsumed(log) \cup {Len(log) + 1}
         /\ Consumed(longer) = Consumed(log)
         /\ LatestPauseState(longer) = LatestPauseState(log)
<1>1. [kind |-> kind, status |-> "new"] \in Command
  BY DEF Command, CommandStatus
<1>2. /\ longer \in Seq(Command) /\ Len(longer) = Len(log) + 1
      /\ \A c \in 1..Len(log) : longer[c] = log[c]
      /\ longer[Len(log) + 1] = [kind |-> kind, status |-> "new"]
  BY <1>1, AppendProperties
<1>3. Len(log) \in Nat
  BY LenProperties
<1>4. Unconsumed(longer) = Unconsumed(log) \cup {Len(log) + 1}
  BY <1>2, <1>3 DEF Unconsumed
<1>5. Consumed(longer) = Consumed(log)
  BY <1>2, <1>3 DEF Consumed
<1>6. Switches(longer) = Switches(log)
  BY <1>2, <1>3, <1>5 DEF Switches, Consumed
<1>7. \A c \in Switches(log) : longer[c] = log[c]
  BY <1>2 DEF Switches, Consumed
<1> QED
  BY <1>2, <1>4, <1>5, <1>6, <1>7 DEF LatestPauseState

(* Consuming a command that comes after all consumed ones makes it the     *)
(* last word on the pause, unless it is a trigger_tick.                    *)
LEMMA ConsumeLog ==
  ASSUME NEW log \in Seq(Command), NEW c \in Unconsumed(log),
         NEW status \in CommandStatus, status # "new",
         \A d \in Consumed(log) : d < c,
         NEW marked, marked = MarkConsumed(log, c, status)
  PROVE  /\ marked \in Seq(Command) /\ Len(marked) = Len(log)
         /\ \A d \in 1..Len(log) : d # c => marked[d] = log[d]
         /\ marked[c].status = status
         /\ \A d \in 1..Len(log) : marked[d].kind = log[d].kind
         /\ Unconsumed(marked) = Unconsumed(log) \ {c}
         /\ Consumed(marked) = Consumed(log) \cup {c}
         /\ log[c].kind = "pause" => LatestPauseState(marked)
         /\ log[c].kind = "resume" => ~LatestPauseState(marked)
         /\ log[c].kind = "trigger_tick" =>
              (LatestPauseState(marked) <=> LatestPauseState(log))
<1>1. c \in 1..Len(log) /\ log[c] \in Command /\ log[c].status = "new"
  BY ElementOfSeq DEF Unconsumed
<1>2. marked = [log EXCEPT ![c] = [log[c] EXCEPT !.status = status]]
  BY <1>1 DEF MarkConsumed
<1>3. [log[c] EXCEPT !.status = status] \in Command
  BY <1>1 DEF Command, CommandStatus
<1>4. /\ marked \in Seq(Command) /\ Len(marked) = Len(log)
      /\ \A d \in 1..Len(log) : d # c => marked[d] = log[d]
      /\ marked[c] = [log[c] EXCEPT !.status = status]
  BY <1>1, <1>2, <1>3, ExceptSeq
<1>5. marked[c].status = status /\ marked[c].kind = log[c].kind
  BY <1>1, <1>4 DEF Command
<1>6. \A d \in 1..Len(log) : marked[d].kind = log[d].kind
  BY <1>4, <1>5
<1>7. Unconsumed(marked) = Unconsumed(log) \ {c}
  BY <1>1, <1>4, <1>5 DEF Unconsumed
<1>8. Consumed(marked) = Consumed(log) \cup {c}
  BY <1>1, <1>4, <1>5 DEF Consumed
<1>9. Consumed(log) \subseteq 1..Len(log)
  BY DEF Consumed
<1>10. Switches(marked) =
         IF log[c].kind \in {"pause", "resume"} THEN Switches(log) \cup {c}
                                                ELSE Switches(log)
  BY <1>1, <1>6, <1>8, <1>9 DEF Switches
<1>11. \A d \in Switches(log) : d < c /\ d \in 1..Len(log)
  BY <1>9 DEF Switches
<1>12. log[c].kind = "pause" => LatestPauseState(marked)
  BY <1>1, <1>5, <1>10, <1>11 DEF LatestPauseState
<1>13. log[c].kind = "resume" => ~LatestPauseState(marked)
  <2> SUFFICES ASSUME log[c].kind = "resume" PROVE ~LatestPauseState(marked)
    OBVIOUS
  <2>1. c \in Switches(marked) /\ marked[c].kind = "resume"
    BY <1>5, <1>10
  <2>2. \A d \in Switches(marked) : d # c => d < c
    BY <1>10, <1>11
  <2> QED
    BY <1>1, <1>11, <2>1, <2>2 DEF LatestPauseState
<1>14. log[c].kind = "trigger_tick" => (LatestPauseState(marked) <=> LatestPauseState(log))
  BY <1>6, <1>10, <1>11 DEF LatestPauseState
<1> QED
  BY <1>4, <1>5, <1>6, <1>7, <1>8, <1>12, <1>13, <1>14

(* One drain takes the oldest commands: with a command all older ones.     *)
LEMMA DrainTakesOldest ==
  ASSUME NEW log \in Seq(Command), NEW c \in Drained(log),
         NEW d \in Unconsumed(log), d < c
  PROVE  d \in Drained(log)
<1> DEFINE Older(e) == {x \in Unconsumed(log) : x < e}
<1>1. Unconsumed(log) \subseteq 1..Len(log) /\ Len(log) \in Nat
  BY LenProperties DEF Unconsumed
<1>2. IsFiniteSet(Unconsumed(log))
  <2>1. IsFiniteSet(1..Len(log))
    BY <1>1, FS_Interval
  <2> QED
    BY <1>1, <2>1, FS_Subset
<1>3. IsFiniteSet(Older(c)) /\ Older(d) \subseteq Older(c)
  <2>1. Older(c) \subseteq Unconsumed(log)
    OBVIOUS
  <2>2. c \in 1..Len(log) /\ d \in 1..Len(log)
    BY <1>1 DEF Drained
  <2> QED
    BY <1>1, <1>2, <2>1, <2>2, FS_Subset
<1>4. /\ Cardinality(Older(d)) <= Cardinality(Older(c))
      /\ Cardinality(Older(d)) \in Nat /\ Cardinality(Older(c)) \in Nat
  BY <1>3, FS_Subset, FS_CardinalityType
<1>5. Cardinality(Older(c)) < DrainLimit
  BY DEF Drained
<1>6. Cardinality(Older(d)) < DrainLimit
  BY <1>4, <1>5, LoopAssumption
<1> QED
  BY <1>6 DEF Drained

(* A drain takes only commands that are not consumed.                      *)
LEMMA DrainUnconsumed ==
  ASSUME NEW log PROVE Drained(log) \subseteq Unconsumed(log)
BY DEF Drained
-----------------------------------------------------------------------------
(* What the two invariants about commands rest on.                         *)

(* Commands are consumed in the order of issue; a batch is what the log    *)
(* has to offer next; nothing is noted of a command not yet issued.        *)
CommandsInOrder ==
  /\ \A c \in Consumed(cmds), d \in Unconsumed(cmds) : c < d
  /\ batch \subseteq Unconsumed(cmds)
  /\ \A c \in batch, d \in Unconsumed(cmds) : d < c => d \in batch
  /\ \A c \in 1..MaxCommands : c > Len(cmds) => noted[c] = 0

(* Whether command c changes anything, judged by the log alone.            *)
Changes(c) ==
  CASE cmds[c].kind = "pause" -> ~LatestPauseState(cmds)
    [] cmds[c].kind = "resume" -> LatestPauseState(cmds)
    [] OTHER -> TRUE

(* The pause once command c is applied, judged by the log alone.           *)
PauseAfter(c) ==
  CASE cmds[c].kind = "pause" -> TRUE
    [] cmds[c].kind = "resume" -> FALSE
    [] OTHER -> LatestPauseState(cmds)

(* Of the commands not consumed only the oldest may be in the journal, and *)
(* only if the loop that applies it (again) will find that it changes      *)
(* something; each fault adds one entry at most.                           *)
NotedInOrder ==
  \A c \in Unconsumed(cmds) :
    /\ noted[c] > 0 => Changes(c) /\ \A d \in Unconsumed(cmds) : c <= d
    /\ noted[c] <= kills + interrupts + (IF pc = "mark" THEN 1 ELSE 0)

(* Between effect and mark: memory and journal say what the log will.      *)
EffectIsOn ==
  pc = "mark" =>
    \E c \in batch :
      /\ IsHead(c)
      /\ paused = PauseAfter(c)
      /\ result = IF Changes(c) THEN "ok" ELSE "ignored"
      /\ result = "ok" => noted[c] > 0 \/ c \in lost

CommandInv ==
  /\ TypeOK /\ PauseSurvives /\ JournalMatchesLog
  /\ CommandsInOrder /\ NotedInOrder /\ EffectIsOn

(* What the two invariants about ticks rest on: where the tick id, the     *)
(* counters and the journal stand at each stage.                           *)
Counted == pc \in {"counted", "errored", "advance"}

TicksInOrder ==
  /\ pc # "off" /\ ~Counted /\ pc # "final" => Total(count) - tickId \in 0..interrupts
  /\ Counted => Total(count) - tickId \in 1..(interrupts + 1)
  /\ pc = "final" => Total(count) - tickId \in 0..interrupts
  /\ Counted => finished[tickId] > 0
  /\ pc = "off" => \A t \in TickIds : t > snap.tick => finished[t] <= kills + interrupts + unwritten
  /\ Counted => \A t \in TickIds : t > tickId => finished[t] <= kills + interrupts + unwritten
  /\ pc # "off" /\ ~Counted =>
       \A t \in TickIds : t >= tickId => finished[t] <= kills + interrupts + unwritten

TickInv == TypeOK /\ TicksAccounted /\ CountersMatchTicks /\ TicksInOrder
-----------------------------------------------------------------------------
(* Types.                                                                  *)

(* A loop that has never run has a state of the declared types.            *)
LEMMA InitType == Init => TypeOK
<1> SUFFICES ASSUME Init PROVE TypeOK
  OBVIOUS
<1>1. cmds \in Seq(Command) /\ Len(cmds) = 0
  BY EmptySeq DEF Init
<1>2. ZeroCounters \in Counters
  BY DEF ZeroCounters, Counters
<1>3. NoSnapshot \in [tick : Int, count : Counters] /\ NoSnapshot.tick = -1
  BY <1>2 DEF NoSnapshot
<1>4. noted \in [1..MaxCommands -> Nat] /\ lost \subseteq 1..MaxCommands /\ finished \in [TickIds -> Nat]
  BY DEF Init
<1>5. /\ batch \subseteq 1..Len(cmds) /\ result \in CommandStatus /\ pc \in Stage
      /\ paused \in BOOLEAN /\ force \in BOOLEAN /\ began \in Nat
  BY DEF Init, CommandStatus, Stage
<1>6. snap \in [tick : Int, count : Counters] /\ snap.tick >= -1 /\ snap.tick < StopAt
  BY <1>3, LoopAssumption DEF Init
<1>7. /\ tickId \in TickIds /\ count \in Counters /\ missed \in Nat
      /\ kills \in Nat /\ interrupts \in Nat /\ unwritten \in Nat
      /\ kills + interrupts + unwritten <= MaxFaults
  BY <1>2, LoopAssumption DEF Init, TickIds
<1>8. pc = "off" /\ Len(cmds) <= MaxCommands
  BY <1>1, LoopAssumption DEF Init
<1> QED
  BY <1>1, <1>4, <1>5, <1>6, <1>7, <1>8 DEF TypeOK

(* A write of the journal that fails is one of the faults that may happen.  *)
LEMMA FaultsCounted ==
  ASSUME TypeOK, UNCHANGED faultVars \/ JournalFails
  PROVE  /\ kills' \in Nat /\ interrupts' \in Nat /\ unwritten' \in Nat
         /\ kills' + interrupts' + unwritten' <= MaxFaults
<1>1. /\ kills \in Nat /\ interrupts \in Nat /\ unwritten \in Nat /\ MaxFaults \in Nat
      /\ kills + interrupts + unwritten <= MaxFaults
  BY LoopAssumption DEF TypeOK
<1>2. CASE UNCHANGED faultVars
  BY <1>1, <1>2 DEF faultVars
<1>3. CASE JournalFails
  <2>1. /\ kills + interrupts + unwritten < MaxFaults
        /\ unwritten' = unwritten + 1 /\ kills' = kills /\ interrupts' = interrupts
    BY <1>3 DEF JournalFails
  <2> QED BY <1>1, <2>1
<1> QED BY <1>2, <1>3

(* No step of loop, console or fault leaves the declared types.            *)
LEMMA TypeStep == TypeOK /\ [Next]_vars => TypeOK'
<1> SUFFICES ASSUME TypeOK, [Next]_vars PROVE TypeOK'
  OBVIOUS
<1>0. /\ StopAt \in Nat /\ MaxCommands \in Nat /\ MaxFaults \in Nat
      /\ Len(cmds) \in Nat /\ tickId \in Nat /\ tickId <= StopAt
  BY LoopAssumption, LenProperties DEF TypeOK, TickIds
<1>1. CASE Issue
  <2>1. PICK kind \in CommandKind :
          cmds' = Append(cmds, [kind |-> kind, status |-> "new"])
    BY <1>1 DEF Issue
  <2>2. cmds' \in Seq(Command) /\ Len(cmds') = Len(cmds) + 1
    BY <2>1, IssueLog DEF TypeOK
  <2>3. 1..Len(cmds) \subseteq 1..Len(cmds')
    BY <2>2, <1>0
  <2> QED
    BY <1>0, <1>1, <2>2, <2>3 DEF Issue, TypeOK, memoryVars, faultVars
<1>2. CASE Start
  BY <1>0, <1>2, SMTT(30) DEF Start, ResumeFrom, TypeOK, TickIds, LatestPauseState, Stage,
     diskVars, faultVars
<1>3. CASE MaxTicksReached
  BY <1>3 DEF MaxTicksReached, TypeOK, Stage, diskVars, memoryVars, faultVars
<1>4. CASE Drain
  <2>1. batch' \subseteq 1..Len(cmds)
    BY <1>4 DEF Drain, Drained, Unconsumed
  <2> QED
    BY <1>4, <2>1 DEF Drain, TypeOK, Stage, diskVars, faultVars
<1>5. CASE ApplyCommand
  <2>1. PICK c \in batch :
          /\ paused' = CASE cmds[c].kind = "pause" -> TRUE
                         [] cmds[c].kind = "resume" -> FALSE
                         [] OTHER -> paused
          /\ force' = (force \/ cmds[c].kind = "trigger_tick")
          /\ result' = IF TakesEffect(c) THEN "ok" ELSE "ignored"
          /\ \/ noted' = Noted(c) /\ UNCHANGED <<lost, faultVars>>
             \/ JournalFails /\ lost' = lost \cup {c} /\ UNCHANGED noted
    BY <1>5 DEF ApplyCommand
  <2>2. paused' \in BOOLEAN /\ force' \in BOOLEAN /\ result' \in CommandStatus
    BY <2>1 DEF TypeOK, CommandStatus
  <2>4. /\ kills' \in Nat /\ interrupts' \in Nat /\ unwritten' \in Nat
        /\ kills' + interrupts' + unwritten' <= MaxFaults
    <3>1. UNCHANGED faultVars \/ JournalFails
      BY <2>1
    <3> QED
      BY <3>1, FaultsCounted
  <2>3. noted' \in [1..MaxCommands -> Nat] /\ lost' \subseteq 1..MaxCommands
    <3>4. lost \subseteq 1..MaxCommands
      BY DEF TypeOK
    <3>1. c \in 1..MaxCommands
      BY <1>0 DEF TypeOK
    <3>2. noted \in [1..MaxCommands -> Nat]
      BY DEF TypeOK
    <3>3. [noted EXCEPT ![c] = @ + 1] \in [1..MaxCommands -> Nat]
      BY <3>1, <3>2
    <3> QED
      BY <2>1, <3>1, <3>2, <3>3, <3>4 DEF Noted
  <2> QED
    BY <1>5, <2>2, <2>3, <2>4 DEF ApplyCommand, TypeOK, Stage
<1>6. CASE MarkCommand
  <2>1. PICK c \in batch : /\ cmds' = MarkConsumed(cmds, c, result)
                           /\ batch' = batch \ {c}
    BY <1>6 DEF MarkCommand
  <2>2. cmds[c] \in Command /\ c \in 1..Len(cmds)
    BY ElementOfSeq DEF TypeOK
  <2>3. [cmds[c] EXCEPT !.status = result] \in Command
    BY <2>2 DEF TypeOK, Command
  <2>4. cmds' \in Seq(Command) /\ Len(cmds') = Len(cmds)
    BY <2>1, <2>2, <2>3, ExceptSeq DEF MarkConsumed, TypeOK
  <2> QED
    BY <1>6, <2>1, <2>4 DEF MarkCommand, TypeOK, Stage, CommandStatus, faultVars
<1>7. CASE DrainEnds
  BY <1>7 DEF DrainEnds, TypeOK, Stage, diskVars, memoryVars, faultVars
<1>8. CASE SleepPaused
  BY <1>8 DEF SleepPaused, TypeOK, Stage, diskVars, memoryVars, faultVars
<1>9. CASE TickStarted
  BY <1>9 DEF TickStarted, TypeOK, Stage, memoryVars, faultVars
<1>10. CASE TickReturns
  <2>1. count' \in Counters
    <3>1. count \in [ticked : Nat, errors : Nat]
      BY DEF TypeOK, Counters
    <3>2. [count EXCEPT !.ticked = @ + 1] \in [ticked : Nat, errors : Nat]
      BY <3>1
    <3> QED
      BY <1>10, <3>2 DEF TickReturns, Counters
  <2>2. finished' \in [TickIds -> Nat]
    BY <1>10 DEF TickReturns, TypeOK
  <2> QED
    BY <1>10, <2>1, <2>2 DEF TickReturns, TypeOK, Stage, faultVars
<1>11. CASE TickRaises
  <2>1. count' \in Counters
    <3>1. count \in [ticked : Nat, errors : Nat]
      BY DEF TypeOK, Counters
    <3>2. [count EXCEPT !.errors = @ + 1] \in [ticked : Nat, errors : Nat]
      BY <3>1
    <3> QED
      BY <1>11, <3>2 DEF TickRaises, Counters
  <2>2. finished' \in [TickIds -> Nat]
    BY <1>11 DEF TickRaises, TypeOK
  <2> QED
    BY <1>11, <2>1, <2>2 DEF TickRaises, TypeOK, Stage, faultVars
<1>12. CASE Snapshot
  <2>1. /\ snap' \in [tick : Int, count : Counters]
        /\ snap'.tick >= -1 /\ snap'.tick < StopAt /\ missed' \in Nat
    BY <1>0, <1>12 DEF Snapshot, TypeOK
  <2>2. /\ kills' \in Nat /\ interrupts' \in Nat /\ unwritten' \in Nat
        /\ kills' + interrupts' + unwritten' <= MaxFaults
    <3>1. UNCHANGED faultVars \/ JournalFails
      BY <1>12 DEF Snapshot
    <3> QED
      BY <3>1, FaultsCounted
  <2> QED
    BY <1>12, <2>1, <2>2 DEF Snapshot, TypeOK, Stage, memoryVars
<1>13. CASE Advance
  BY <1>0, <1>13 DEF Advance, TypeOK, TickIds, Stage, diskVars, faultVars
<1>14. CASE AdvanceAfterError
  BY <1>0, <1>14 DEF AdvanceAfterError, TypeOK, TickIds, Stage, diskVars, faultVars
<1>15. CASE FinalSnapshot
  <2>1. /\ snap' \in [tick : Int, count : Counters]
        /\ snap'.tick >= -1 /\ snap'.tick < StopAt /\ missed' \in Nat
    BY <1>0, <1>15 DEF FinalSnapshot, FinalSnapshotOf, TypeOK
  <2>3. /\ kills' \in Nat /\ interrupts' \in Nat /\ unwritten' \in Nat
        /\ kills' + interrupts' + unwritten' <= MaxFaults
    <3>1. UNCHANGED faultVars \/ JournalFails
      BY <1>15 DEF FinalSnapshot
    <3> QED
      BY <3>1, FaultsCounted
  <2>2. count' \in Counters /\ tickId' \in TickIds
    BY <1>0, <1>15 DEF FinalSnapshot, Forgotten, ZeroCounters, Counters, TickIds
  <2> QED
    BY <1>15, <2>1, <2>2, <2>3
    DEF FinalSnapshot, Forgotten, TypeOK, Stage, CommandStatus
<1>16. CASE Interrupted
  BY <1>0, <1>16 DEF Interrupted, TypeOK, Stage, diskVars, memoryVars
<1>17. CASE Killed
  <2>1. count' \in Counters /\ tickId' \in TickIds
    BY <1>0, <1>17 DEF Killed, Forgotten, ZeroCounters, Counters, TickIds
  <2>2. /\ kills' \in Nat /\ interrupts' \in Nat /\ unwritten' \in Nat
        /\ kills' + interrupts' + unwritten' <= MaxFaults
    BY <1>0, <1>17 DEF Killed, TypeOK
  <2>3. /\ pc' = "off" /\ batch' = {} /\ result' = "new" /\ missed' = 0
        /\ paused' = FALSE /\ force' = FALSE
    BY <1>17 DEF Killed, Forgotten
  <2>4. UNCHANGED diskVars
    BY <1>17 DEF Killed
  <2> QED
    BY <1>0, <2>1, <2>2, <2>3, <2>4 DEF TypeOK, Stage, CommandStatus, diskVars
<1>18. CASE UNCHANGED vars
  BY <1>18 DEF vars, TypeOK
<1> QED
  BY <1>1, <1>2, <1>3, <1>4, <1>5, <1>6, <1>7, <1>8, <1>9, <1>10, <1>11, <1>12,
     <1>13, <1>14, <1>15, <1>16, <1>17, <1>18 DEF Next, LoopStep

(* Whatever happens to the loop, its state is a state of the declared      *)
(* types: above all, no snapshot is ahead of --max-ticks and no tick is    *)
(* run at or beyond it.                                                    *)
THEOREM LoopTypeCorrect == Spec => []TypeOK
<1>1. Init => TypeOK
  BY InitType
<1>2. TypeOK /\ [Next]_vars => TypeOK'
  BY TypeStep
<1> QED
  BY <1>1, <1>2, PTL DEF Spec
-----------------------------------------------------------------------------
(* Ticks.                                                                  *)

tickVars == <<snap, finished, tickId, count, kills, interrupts>>

(* No tick has ended yet, and nothing is counted.                          *)
LEMMA InitTicks == Init => TickInv
<1> SUFFICES ASSUME Init PROVE TickInv
  OBVIOUS
<1>1. TypeOK
  BY InitType
<1>2. Total(count) = 0 /\ Total(snap.count) = 0 /\ snap.tick = -1
  BY DEF Init, Total, ZeroCounters, NoSnapshot
<1>3. \A t \in TickIds : t >= 0 /\ finished[t] = 0
  BY DEF Init, TickIds
<1> QED
  BY <1>1, <1>2, <1>3
  DEF TickInv, TicksAccounted, CountersMatchTicks, TicksInOrder, Counted, Init

(* The numbers the steps below calculate with.                             *)
LEMMA TickTypes ==
  ASSUME TypeOK
  PROVE  /\ TickIds \subseteq Nat /\ tickId \in TickIds /\ finished \in [TickIds -> Nat]
         /\ kills \in Nat /\ interrupts \in Nat /\ unwritten \in Nat /\ snap.tick \in Int /\ snap.tick >= -1
         /\ Total(count) \in Nat /\ Total(snap.count) \in Nat
<1>1. /\ TickIds \subseteq Nat /\ tickId \in TickIds /\ finished \in [TickIds -> Nat]
      /\ kills \in Nat /\ interrupts \in Nat /\ unwritten \in Nat /\ snap.tick >= -1
  BY LoopAssumption DEF TypeOK, TickIds
<1>2. snap \in [tick : Int, count : Counters] /\ count \in Counters
  BY DEF TypeOK
<1>3. snap.tick \in Int /\ snap.count \in Counters
  BY <1>2
<1>4. Total(count) \in Nat /\ Total(snap.count) \in Nat
  BY <1>2, <1>3 DEF Total, Counters
<1> QED
  BY <1>1, <1>3, <1>4

(* A step that begins and ends no tick; a write of the journal may fail.   *)
LEMMA QuietTicks ==
  ASSUME TickInv, TypeOK', UNCHANGED tickVars, unwritten' \in {unwritten, unwritten + 1},
         \/ pc' = pc
         \/ /\ pc \in {"top", "drain", "mark", "decide", "tick"}
            /\ pc' \in {"top", "drain", "mark", "decide", "tick", "final"}
  PROVE  TickInv'
<1>0. /\ finished \in [TickIds -> Nat] /\ kills \in Nat /\ interrupts \in Nat
      /\ unwritten \in Nat /\ unwritten' \in Nat /\ unwritten <= unwritten'
  <2>1. /\ finished \in [TickIds -> Nat] /\ kills \in Nat /\ interrupts \in Nat
        /\ unwritten \in Nat
    BY TickTypes DEF TickInv
  <2> QED
    BY <2>1
<1>1. CountersMatchTicks'
  BY DEF TickInv, CountersMatchTicks, TicksInOrder, Counted, tickVars, Total
<1>2. TicksAccounted'
  <2>1. \A t \in TickIds : finished[t] <= 1 + kills + interrupts + unwritten'
    BY <1>0 DEF TickInv, TicksAccounted
  <2> QED
    BY <2>1 DEF TickInv, TicksAccounted, tickVars
<1>3. \A t \in TickIds :
        finished[t] <= kills + interrupts + unwritten => finished[t] <= kills + interrupts + unwritten'
  BY <1>0
<1>4. TicksInOrder'
  BY <1>3 DEF TickInv, TicksInOrder, Counted, tickVars, Total
<1> QED
  BY <1>1, <1>2, <1>4 DEF TickInv

(* The tick ends: it is counted and journalled, its id stays.              *)
LEMMA TickEnds ==
  ASSUME TickInv, TypeOK', TickReturns \/ TickRaises
  PROVE  TickInv'
<1>1. /\ pc = "tick" /\ Counted'
      /\ pc' \in {"counted", "errored"}
      /\ finished' = [finished EXCEPT ![tickId] = @ + 1]
      /\ snap' = snap /\ tickId' = tickId
      /\ kills' = kills /\ interrupts' = interrupts /\ unwritten' = unwritten
  BY DEF TickReturns, TickRaises, Counted, faultVars
<1>2. Total(count') = Total(count) + 1
  <2>1. count \in [ticked : Nat, errors : Nat]
    BY DEF TickInv, TypeOK, Counters
  <2>2. \/ count' = [count EXCEPT !.ticked = @ + 1]
        \/ count' = [count EXCEPT !.errors = @ + 1]
    BY DEF TickReturns, TickRaises
  <2> QED
    BY <2>1, <2>2 DEF Total
<1>3. /\ finished \in [TickIds -> Nat] /\ tickId \in TickIds /\ TickIds \subseteq Nat
      /\ kills \in Nat /\ interrupts \in Nat /\ unwritten \in Nat /\ snap.tick \in Int
      /\ Total(count) \in Nat
  BY TickTypes DEF TickInv
<1>4. /\ \A t \in TickIds : t # tickId => finished'[t] = finished[t]
      /\ finished'[tickId] = finished[tickId] + 1
      /\ finished[tickId] <= kills + interrupts + unwritten
      /\ Total(count) - tickId \in 0..interrupts
  BY <1>1, <1>3 DEF TickInv, TicksInOrder, Counted
<1>5. TicksAccounted'
  BY <1>1, <1>3, <1>4 DEF TickInv, TicksAccounted
<1>6. CountersMatchTicks'
  BY <1>1 DEF TickInv, CountersMatchTicks, Total
<1>7. Total(count)' - tickId' \in 1..(interrupts' + 1)
  BY <1>1, <1>2, <1>3, <1>4 DEF Total
<1>8. /\ finished'[tickId'] > 0
      /\ \A t \in TickIds : t > tickId' => finished'[t] <= kills' + interrupts' + unwritten'
  <2>1. \A t \in TickIds : t >= tickId => finished[t] <= kills + interrupts + unwritten
    BY <1>1 DEF TickInv, TicksInOrder, Counted
  <2> QED
    BY <1>1, <1>3, <1>4, <2>1
<1> QED
  BY <1>1, <1>5, <1>6, <1>7, <1>8 DEF TickInv, TicksInOrder, Counted

(* Tick ids, counters and journal stay in step, whoever moves.             *)
LEMMA TickStep == TickInv /\ [Next]_vars => TickInv'
<1> SUFFICES ASSUME TickInv, [Next]_vars PROVE TickInv'
  OBVIOUS
<1>0. TypeOK /\ TypeOK'
  BY TypeStep DEF TickInv
<1>a. /\ TickIds \subseteq Nat /\ tickId \in TickIds /\ finished \in [TickIds -> Nat]
      /\ kills \in Nat /\ interrupts \in Nat /\ unwritten \in Nat /\ snap.tick \in Int /\ snap.tick >= -1
      /\ Total(count) \in Nat /\ Total(snap.count) \in Nat
  BY <1>0, TickTypes
<1>1. CASE Issue \/ UNCHANGED vars
  BY <1>0, <1>1, <1>a, QuietTicks DEF Issue, vars, memoryVars, faultVars, tickVars
<1>2. CASE MaxTicksReached
  BY <1>0, <1>2, <1>a, QuietTicks DEF MaxTicksReached, diskVars, memoryVars, faultVars, tickVars
<1>3. CASE Drain
  BY <1>0, <1>3, <1>a, QuietTicks DEF Drain, diskVars, memoryVars, faultVars, tickVars
<1>4. CASE ApplyCommand
  BY <1>0, <1>4, <1>a, QuietTicks DEF ApplyCommand, JournalFails, diskVars, memoryVars, faultVars, tickVars
<1>5. CASE MarkCommand
  BY <1>0, <1>5, <1>a, QuietTicks DEF MarkCommand, diskVars, memoryVars, faultVars, tickVars
<1>6. CASE DrainEnds
  BY <1>0, <1>6, <1>a, QuietTicks DEF DrainEnds, diskVars, memoryVars, faultVars, tickVars
<1>7. CASE SleepPaused
  BY <1>0, <1>7, <1>a, QuietTicks DEF SleepPaused, diskVars, memoryVars, faultVars, tickVars
<1>8. CASE TickStarted
  BY <1>0, <1>8, <1>a, QuietTicks DEF TickStarted, diskVars, memoryVars, faultVars, tickVars
<1>9. CASE TickReturns \/ TickRaises
  BY <1>0, <1>9, TickEnds
<1>10. CASE Start
  <2>1. /\ pc = "off" /\ pc' = "top" /\ tickId' = snap.tick + 1 /\ count' = snap.count
        /\ snap' = snap /\ finished' = finished
        /\ kills' = kills /\ interrupts' = interrupts /\ unwritten' = unwritten
    BY <1>10 DEF Start, ResumeFrom, diskVars, faultVars
  <2>2. TicksAccounted'
    BY <1>a, <2>1 DEF TickInv, TicksAccounted
  <2>3. CountersMatchTicks'
    BY <1>a, <2>1 DEF TickInv, CountersMatchTicks, Total
  <2>4. TicksInOrder'
    <3>1. Total(count)' - tickId' \in 0..interrupts'
      BY <2>1 DEF TickInv, CountersMatchTicks, Total
    <3>2. \A t \in TickIds : t >= tickId' => finished'[t] <= kills' + interrupts' + unwritten'
      BY <1>a, <2>1 DEF TickInv, TicksInOrder
    <3> QED
      BY <2>1, <3>1, <3>2 DEF TicksInOrder, Counted
  <2> QED
    BY <1>0, <2>2, <2>3, <2>4 DEF TickInv
<1>11. CASE Snapshot
  <2>1. /\ pc = "counted" /\ pc' = "advance"
        /\ UNCHANGED <<finished, tickId, count, kills, interrupts>>
        /\ snap' = snap \/ snap' = [tick |-> tickId, count |-> count]
        /\ unwritten' \in {unwritten, unwritten + 1}
    BY <1>11 DEF Snapshot, JournalFails, memoryVars, faultVars
  <2>2. Total(count) - tickId \in 1..(interrupts + 1) /\ finished[tickId] > 0
    BY <2>1 DEF TickInv, TicksInOrder, Counted
  <2>3. snap'.tick = snap.tick \/ snap'.tick = tickId
    BY <2>1
  <2>4. TicksAccounted'
    BY <1>a, <2>1, <2>2, <2>3 DEF TickInv, TicksAccounted
  <2>5. Total(snap.count)' - (snap.tick + 1)' \in 0..interrupts'
    <3>1. CASE snap' = snap
      BY <2>1, <3>1 DEF TickInv, CountersMatchTicks, Total
    <3>2. CASE snap' = [tick |-> tickId, count |-> count]
      <4>1. snap'.tick = tickId /\ snap'.count = count
        BY <3>2
      <4>2. Total(snap.count)' = Total(count)
        BY <4>1 DEF Total
      <4> QED
        BY <1>a, <2>1, <2>2, <4>1, <4>2
    <3> QED
      BY <2>1, <3>1, <3>2
  <2>6. CountersMatchTicks'
    BY <2>1, <2>5 DEF CountersMatchTicks
  <2>8. \A t \in TickIds :
          finished[t] <= kills + interrupts + unwritten => finished[t] <= kills + interrupts + unwritten'
    BY <1>a, <2>1
  <2>7. TicksInOrder'
    BY <2>1, <2>8 DEF TickInv, TicksInOrder, Counted, Total
  <2> QED
    BY <1>0, <2>4, <2>6, <2>7 DEF TickInv
<1>12. CASE Advance \/ AdvanceAfterError
  <2>1. /\ Counted /\ pc' = "top" /\ tickId' = tickId + 1
        /\ UNCHANGED <<snap, finished, count, kills, interrupts, unwritten>>
    BY <1>12 DEF Advance, AdvanceAfterError, Counted, diskVars, faultVars
  <2>2. /\ Total(count) - tickId \in 1..(interrupts + 1) /\ finished[tickId] > 0
        /\ \A t \in TickIds : t > tickId => finished[t] <= kills + interrupts + unwritten
    BY <2>1 DEF TickInv, TicksInOrder
  <2>3. TicksAccounted'
    BY <1>a, <2>1, <2>2 DEF TickInv, TicksAccounted
  <2>4. Total(count)' - tickId' \in 0..interrupts'
    BY <1>a, <2>1, <2>2 DEF Total
  <2>5. CountersMatchTicks'
    BY <2>1, <2>4 DEF TickInv, CountersMatchTicks, Total
  <2>6. \A t \in TickIds : t >= tickId' => finished'[t] <= kills' + interrupts' + unwritten'
    BY <1>a, <2>1, <2>2
  <2>7. TicksInOrder'
    BY <2>1, <2>4, <2>6 DEF TicksInOrder, Counted
  <2> QED
    BY <1>0, <2>3, <2>5, <2>7 DEF TickInv
<1>13. CASE FinalSnapshot
  <2>1. /\ pc = "final" /\ pc' = "off" /\ tickId' = 0
        /\ UNCHANGED <<finished, kills, interrupts>>
        /\ \/ tickId = 0 /\ snap' = snap /\ unwritten' = unwritten
           \/ tickId > 0 /\ snap' = [tick |-> tickId - 1, count |-> count] /\ unwritten' = unwritten
           \/ snap' = snap /\ unwritten' = unwritten + 1
    BY <1>13 DEF FinalSnapshot, FinalSnapshotOf, Forgotten, JournalFails, faultVars
  <2>2. /\ Total(count) - tickId \in 0..interrupts
        /\ \A t \in TickIds : t >= tickId => finished[t] <= kills + interrupts + unwritten
    BY <2>1 DEF TickInv, TicksInOrder, Counted
  <2>3. CASE tickId > 0 /\ snap' = [tick |-> tickId - 1, count |-> count] /\ unwritten' = unwritten
    <3>1. /\ snap'.tick = tickId - 1 /\ Total(snap.count)' = Total(count)
      BY <2>1, <2>3 DEF Total
    <3>2. TicksAccounted'
      BY <1>a, <2>1, <3>1 DEF TickInv, TicksAccounted
    <3>3. CountersMatchTicks'
      BY <1>a, <2>1, <2>2, <3>1 DEF CountersMatchTicks
    <3>4. TicksInOrder'
      BY <1>a, <2>1, <2>2, <3>1 DEF TicksInOrder, Counted
    <3> QED
      BY <1>0, <3>2, <3>3, <3>4 DEF TickInv
  <2>4. CASE tickId = 0 /\ snap' = snap /\ unwritten' = unwritten
    <3>2. TicksAccounted'
      BY <1>a, <2>1, <2>4 DEF TickInv, TicksAccounted
    <3>3. CountersMatchTicks'
      BY <2>1, <2>4 DEF TickInv, CountersMatchTicks, Total
    <3>4. TicksInOrder'
      BY <1>a, <2>1, <2>2, <2>4 DEF TicksInOrder, Counted
    <3> QED
      BY <1>0, <3>2, <3>3, <3>4 DEF TickInv
  <2>5. CASE snap' = snap /\ unwritten' = unwritten + 1
    <3>1. \A t \in TickIds : finished'[t] <= kills' + interrupts' + unwritten'
      BY <1>a, <2>1, <2>5 DEF TickInv, TicksAccounted
    <3>2. TicksAccounted'
      BY <1>a, <2>1, <2>5 DEF TickInv, TicksAccounted
    <3>3. CountersMatchTicks'
      BY <2>1, <2>5 DEF TickInv, CountersMatchTicks, Total
    <3>4. TicksInOrder'
      BY <2>1, <3>1 DEF TicksInOrder, Counted
    <3> QED
      BY <1>0, <3>2, <3>3, <3>4 DEF TickInv
  <2> QED
    BY <2>1, <2>3, <2>4, <2>5
<1>14. CASE Interrupted
  <2>1. /\ pc \notin {"off", "final"} /\ pc' = "final" /\ interrupts' = interrupts + 1
        /\ UNCHANGED <<snap, finished, tickId, count, kills, unwritten>>
    BY <1>14 DEF Interrupted, diskVars, memoryVars
  <2>2. TicksAccounted'
    BY <1>a, <2>1 DEF TickInv, TicksAccounted
  <2>3. Total(count)' - tickId' \in 0..interrupts'
    BY <1>a, <2>1 DEF TickInv, TicksInOrder, Counted, Total
  <2>4. CountersMatchTicks'
    BY <1>a, <2>1 DEF TickInv, CountersMatchTicks, Total
  <2>5. \A t \in TickIds : finished'[t] <= kills' + interrupts' + unwritten'
    BY <1>a, <2>1 DEF TickInv, TicksAccounted
  <2>6. TicksInOrder'
    BY <2>1, <2>3, <2>5 DEF TicksInOrder, Counted
  <2> QED
    BY <1>0, <2>2, <2>4, <2>6 DEF TickInv
<1>15. CASE Killed
  <2>1. /\ pc' = "off" /\ tickId' = 0 /\ kills' = kills + 1
        /\ UNCHANGED <<snap, finished, interrupts, unwritten>>
    BY <1>15 DEF Killed, Forgotten, diskVars
  <2>2. TicksAccounted'
    BY <1>a, <2>1 DEF TickInv, TicksAccounted
  <2>3. CountersMatchTicks'
    BY <2>1 DEF TickInv, CountersMatchTicks, Total
  <2>4. \A t \in TickIds : finished'[t] <= kills' + interrupts' + unwritten'
    BY <1>a, <2>1 DEF TickInv, TicksAccounted
  <2>5. TicksInOrder'
    BY <2>1, <2>4 DEF TicksInOrder, Counted
  <2> QED
    BY <1>0, <2>2, <2>3, <2>5 DEF TickInv
<1> QED
  BY <1>1, <1>2, <1>3, <1>4, <1>5, <1>6, <1>7, <1>8, <1>9, <1>10, <1>11, <1>12, <1>13, <1>14, <1>15 DEF Next, LoopStep

(* Resuming from a snapshot skips no tick, and no tick ends more often     *)
(* than there were kills, interrupts and failing writes, plus one.         *)
THEOREM NoTickLost == Spec => []TicksAccounted
<1>1. TickInv => TicksAccounted
  BY DEF TickInv
<1> QED
  BY <1>1, InitTicks, TickStep, PTL DEF Spec

(* The counters, and those of the snapshot they are resumed from, agree    *)
(* with the tick id up to one tick for each interrupt: an interrupt can    *)
(* fall between the two increments.                                        *)
THEOREM CountersAgree == Spec => []CountersMatchTicks
<1>1. TickInv => CountersMatchTicks
  BY DEF TickInv
<1> QED
  BY <1>1, InitTicks, TickStep, PTL DEF Spec
-----------------------------------------------------------------------------
(* What a kill may cost.  The ticks are counted in periods of SnapshotEvery, *)
(* so that the proof needs a few facts about division.                     *)

(* A product grows with its factor.                                        *)
LEMMA TimesMonotone ==
  ASSUME NEW s \in Nat, NEW a \in Int, NEW b \in Int, a <= b
  PROVE  s * a <= s * b
<1>1. s * (b - a) >= 0
  BY SMT
<1> QED
  BY <1>1, SMT

(* Quotient and remainder make up the number.                              *)
LEMMA Division ==
  ASSUME NEW s \in Nat \ {0}, NEW n \in Nat
  PROVE  /\ n \div s \in Nat /\ n % s \in 0..(s - 1)
         /\ n = s * (n \div s) + (n % s)
<1>1. n % s \in 0..(s - 1)
  BY SMT
<1>2. n \div s \in Nat
  BY SMT
<1>3. n = s * (n \div s) + (n % s)
  BY SMT
<1> QED
  BY <1>1, <1>2, <1>3

(* The quotient grows exactly at the multiples.                            *)
LEMMA NextMultiple ==
  ASSUME NEW s \in Nat \ {0}, NEW n \in Nat
  PROVE  (n + 1) \div s = IF (n + 1) % s = 0 THEN (n \div s) + 1 ELSE n \div s
<1> DEFINE q == n \div s
           r == n % s
           p == (n + 1) \div s
           t == (n + 1) % s
<1>1. /\ q \in Nat /\ r \in 0..(s - 1) /\ n = s * q + r
      /\ p \in Nat /\ t \in 0..(s - 1) /\ n + 1 = s * p + t
  <2>1. n + 1 \in Nat
    OBVIOUS
  <2>2. q \in Nat /\ r \in 0..(s - 1) /\ n = s * q + r
    BY Division
  <2>3. p \in Nat /\ t \in 0..(s - 1) /\ n + 1 = s * p + t
    BY <2>1, Division
  <2> QED
    BY <2>2, <2>3
<1> HIDE DEF q, r, p, t
<1>2. s * p - s * q = r + 1 - t
  BY <1>1
<1>3. p <= q + 1
  <2>1. SUFFICES ASSUME q + 2 <= p PROVE FALSE
    BY <1>1
  <2>2. s * (q + 2) <= s * p
    BY <1>1, <2>1, TimesMonotone
  <2>3. s * (q + 2) = s * q + 2 * s
    BY <1>1
  <2> QED
    BY <1>1, <1>2, <2>2, <2>3
<1>4. p >= q
  <2>1. SUFFICES ASSUME p + 1 <= q PROVE FALSE
    BY <1>1
  <2>2. s * (p + 1) <= s * q
    BY <1>1, <2>1, TimesMonotone
  <2>3. s * (p + 1) = s * p + s
    BY <1>1
  <2> QED
    BY <1>1, <1>2, <2>2, <2>3
<1>5. CASE p = q + 1
  <2>1. s * p = s * q + s
    BY <1>1, <1>5
  <2>2. t = 0
    BY <1>1, <1>2, <2>1
  <2> QED
    BY <1>5, <2>2 DEF p, q, t
<1>6. CASE p = q
  <2>1. t = r + 1
    BY <1>1, <1>2, <1>6
  <2> QED
    BY <1>1, <1>6, <2>1 DEF p, q, t
<1> QED
  BY <1>1, <1>3, <1>4, <1>5, <1>6

(* Numbers at most m periods apart.                                        *)
LEMMA Distance ==
  ASSUME NEW s \in Nat \ {0}, NEW n \in Nat, NEW l \in Nat, NEW m \in Nat,
         (n \div s) - (l \div s) <= m
  PROVE  n - l < s * (1 + m)
<1> DEFINE q == n \div s
           r == n % s
           p == l \div s
           t == l % s
<1>1. /\ q \in Nat /\ r \in 0..(s - 1) /\ n = s * q + r
      /\ p \in Nat /\ t \in 0..(s - 1) /\ l = s * p + t
      /\ q - p <= m
  BY Division
<1> HIDE DEF q, r, p, t
<1>2. s * (q - p) <= s * m
  BY <1>1, TimesMonotone
<1>3. s * (q - p) = s * q - s * p /\ s * (1 + m) = s + s * m
  BY <1>1
<1> QED
  BY <1>1, <1>2, <1>3

Period(t) == t \div SnapshotEvery

(* The periods between the snapshot and the tick that comes next are the   *)
(* missed ones; the tick at hand may still get its snapshot.               *)
PeriodsMissed ==
  /\ pc \notin {"off", "final", "advance"} =>
       Period(tickId) - Period(snap.tick + 1) <= missed
  /\ pc = "advance" => Period(tickId + 1) - Period(snap.tick + 1) <= missed

LossInv == TypeOK /\ PeriodsMissed

(* A loop that has never run has missed nothing.                           *)
LEMMA InitLoss == Init => LossInv
<1> SUFFICES ASSUME Init PROVE LossInv
  OBVIOUS
<1>1. TypeOK
  BY InitType
<1>2. pc = "off"
  BY DEF Init
<1> QED
  BY <1>1, <1>2 DEF LossInv, PeriodsMissed

(* The numbers of the steps below.                                         *)
LEMMA LossTypes ==
  ASSUME TypeOK
  PROVE  /\ tickId \in Nat /\ snap.tick + 1 \in Nat /\ missed \in Nat
         /\ SnapshotEvery \in Nat \ {0}
         /\ \A t \in Nat : Period(t) \in Nat
<1>1. tickId \in Nat /\ snap.tick + 1 \in Nat /\ missed \in Nat
  BY TickTypes DEF TypeOK
<1>2. SnapshotEvery \in Nat \ {0}
  BY LoopAssumption
<1>3. \A t \in Nat : Period(t) \in Nat
  BY <1>2, Division DEF Period
<1> QED
  BY <1>1, <1>2, <1>3

(* A step that leaves snapshot, tick id and missed snapshots alone, and is *)
(* not between a tick and the next.                                        *)
LEMMA QuietLoss ==
  ASSUME LossInv, TypeOK', UNCHANGED <<snap, tickId, missed>>,
         \/ pc' = pc
         \/ pc \notin {"off", "final", "advance"} /\ pc' # "advance"
         \/ pc' = "final"
  PROVE  LossInv'
<1>1. Period(tickId)' = Period(tickId) /\ Period(tickId + 1)' = Period(tickId + 1)
      /\ Period(snap.tick + 1)' = Period(snap.tick + 1) /\ missed' = missed
  BY DEF Period
<1> QED
  BY <1>1 DEF LossInv, PeriodsMissed

(* The period of the next tick is the next one exactly at a snapshot tick. *)
LEMMA NextPeriod ==
  ASSUME TypeOK
  PROVE  Period(tickId + 1) = IF IsSnapshotTick(tickId) THEN Period(tickId) + 1 ELSE Period(tickId)
BY LossTypes, NextMultiple DEF Period, IsSnapshotTick

(* A snapshot is taken when its tick comes, or missed.                     *)
LEMMA LossStep == LossInv /\ [Next]_vars => LossInv'
<1> SUFFICES ASSUME LossInv, [Next]_vars PROVE LossInv'
  OBVIOUS
<1>0. TypeOK /\ TypeOK'
  BY TypeStep DEF LossInv
<1>a. /\ tickId \in Nat /\ snap.tick + 1 \in Nat /\ missed \in Nat
      /\ Period(tickId) \in Nat /\ Period(tickId + 1) \in Nat /\ Period(snap.tick + 1) \in Nat
  BY <1>0, LossTypes
<1>1. CASE Issue \/ UNCHANGED vars
  BY <1>0, <1>1, QuietLoss DEF Issue, vars, memoryVars, diskVars, faultVars
<1>2. CASE MaxTicksReached \/ Drain
  BY <1>0, <1>2, QuietLoss DEF MaxTicksReached, Drain, diskVars, memoryVars, faultVars
<1>3. CASE ApplyCommand
  BY <1>0, <1>3, QuietLoss DEF ApplyCommand, diskVars, memoryVars, faultVars
<1>4. CASE MarkCommand
  BY <1>0, <1>4, QuietLoss DEF MarkCommand, diskVars, memoryVars, faultVars
<1>5. CASE DrainEnds \/ SleepPaused \/ TickStarted
  BY <1>0, <1>5, QuietLoss DEF DrainEnds, SleepPaused, TickStarted, diskVars, memoryVars, faultVars
<1>6. CASE TickReturns \/ TickRaises
  BY <1>0, <1>6, QuietLoss DEF TickReturns, TickRaises, diskVars, memoryVars, faultVars
<1>7. CASE Interrupted
  BY <1>0, <1>7, QuietLoss DEF Interrupted, diskVars, memoryVars, faultVars
<1>8. CASE Start
  <2>1. pc' = "top" /\ tickId' = snap.tick + 1 /\ snap' = snap /\ missed' = missed
    BY <1>8 DEF Start, ResumeFrom, diskVars
  <2>2. Period(tickId)' = Period(snap.tick + 1) /\ Period(snap.tick + 1)' = Period(snap.tick + 1)
    BY <2>1 DEF Period
  <2> QED
    BY <1>0, <1>a, <2>1, <2>2 DEF LossInv, PeriodsMissed
<1>9. CASE Snapshot
  <2>1. pc = "counted" /\ pc' = "advance" /\ tickId' = tickId
    BY <1>9 DEF Snapshot, memoryVars
  <2>2. Period(tickId + 1)' = Period(tickId + 1)
    BY <2>1 DEF Period
  <2>5. CASE IsSnapshotTick(tickId) /\ snap' = snap /\ missed' = missed + 1
    <3>2. Period(snap.tick + 1)' = Period(snap.tick + 1) /\ Period(tickId + 1) = Period(tickId) + 1
      BY <1>0, <2>5, NextPeriod DEF Period
    <3> QED
      BY <1>0, <1>a, <2>1, <2>2, <2>5, <3>2 DEF LossInv, PeriodsMissed
  <2>3. CASE IsSnapshotTick(tickId) /\ ~(snap' = snap /\ missed' = missed + 1)
    <3>1. snap' = [tick |-> tickId, count |-> count] /\ missed' = 0
      BY <1>9, <2>3 DEF Snapshot
    <3>2. Period(snap.tick + 1)' = Period(tickId + 1)
      BY <3>1 DEF Period
    <3> QED
      BY <1>0, <1>a, <2>1, <2>2, <3>1, <3>2 DEF LossInv, PeriodsMissed
  <2>4. CASE ~IsSnapshotTick(tickId)
    <3>1. snap' = snap /\ missed' = missed
      BY <1>9, <2>4 DEF Snapshot
    <3>2. Period(snap.tick + 1)' = Period(snap.tick + 1) /\ Period(tickId + 1) = Period(tickId)
      BY <1>0, <2>4, <3>1, NextPeriod DEF Period
    <3> QED
      BY <1>0, <1>a, <2>1, <2>2, <3>1, <3>2 DEF LossInv, PeriodsMissed
  <2> QED
    BY <2>3, <2>4, <2>5
<1>10. CASE Advance
  <2>1. pc = "advance" /\ pc' = "top" /\ tickId' = tickId + 1 /\ snap' = snap /\ missed' = missed
    BY <1>10 DEF Advance, diskVars
  <2>2. Period(tickId)' = Period(tickId + 1) /\ Period(snap.tick + 1)' = Period(snap.tick + 1)
    BY <2>1 DEF Period
  <2> QED
    BY <1>0, <2>1, <2>2 DEF LossInv, PeriodsMissed
<1>11. CASE AdvanceAfterError
  <2>1. /\ pc = "errored" /\ pc' = "top" /\ tickId' = tickId + 1 /\ snap' = snap
        /\ missed' = IF IsSnapshotTick(tickId) THEN missed + 1 ELSE missed
    BY <1>11 DEF AdvanceAfterError, diskVars
  <2>2. Period(tickId)' = Period(tickId + 1) /\ Period(snap.tick + 1)' = Period(snap.tick + 1)
    BY <2>1 DEF Period
  <2>3. Period(tickId + 1) - Period(snap.tick + 1) <= missed'
    BY <1>0, <1>a, <2>1, NextPeriod DEF LossInv, PeriodsMissed
  <2> QED
    BY <1>0, <2>1, <2>2, <2>3 DEF LossInv, PeriodsMissed
<1>12. CASE FinalSnapshot \/ Killed
  <2>1. pc' = "off"
    BY <1>12 DEF FinalSnapshot, Killed, Forgotten
  <2> QED
    BY <1>0, <2>1 DEF LossInv, PeriodsMissed
<1> QED
  BY <1>1, <1>2, <1>3, <1>4, <1>5, <1>6, <1>7, <1>8, <1>9, <1>10, <1>11, <1>12 DEF Next, LoopStep

(* A kill makes the loop forget less than SnapshotEvery ticks, and as many *)
(* again for each snapshot that a raising tick has skipped or that could   *)
(* not be written.                                                         *)
THEOREM LossIsBounded == Spec => []LossBound
<1>1. LossInv => LossBound
  <2> SUFFICES ASSUME LossInv, pc = "top"
               PROVE  tickId - (snap.tick + 1) < SnapshotEvery * (1 + missed)
    BY DEF LossBound
  <2>1. /\ tickId \in Nat /\ snap.tick + 1 \in Nat /\ missed \in Nat
        /\ SnapshotEvery \in Nat \ {0}
    BY LossTypes DEF LossInv
  <2>2. (tickId \div SnapshotEvery) - ((snap.tick + 1) \div SnapshotEvery) <= missed
    BY DEF LossInv, PeriodsMissed, Period
  <2> QED
    BY <2>1, <2>2, Distance
<1> QED
  BY <1>1, InitLoss, LossStep, PTL DEF Spec
-----------------------------------------------------------------------------
(* Commands.                                                               *)

(* The positions and numbers the steps below calculate with.               *)
LEMMA CommandTypes ==
  ASSUME TypeOK
  PROVE  /\ cmds \in Seq(Command) /\ Len(cmds) \in Nat /\ Len(cmds) <= MaxCommands
         /\ MaxCommands \in Nat /\ 1..Len(cmds) \subseteq 1..MaxCommands
         /\ noted \in [1..MaxCommands -> Nat]
         /\ kills \in Nat /\ interrupts \in Nat
         /\ \A c \in 1..Len(cmds) : cmds[c] \in Command
         /\ batch \subseteq 1..Len(cmds)
         /\ Unconsumed(cmds) \subseteq 1..Len(cmds)
         /\ Consumed(cmds) \subseteq 1..Len(cmds)
<1>1. cmds \in Seq(Command) /\ Len(cmds) \in Nat /\ Len(cmds) <= MaxCommands
  BY LenProperties DEF TypeOK
<1>2. MaxCommands \in Nat /\ 1..Len(cmds) \subseteq 1..MaxCommands
  BY <1>1, LoopAssumption
<1>3. \A c \in 1..Len(cmds) : cmds[c] \in Command
  BY <1>1, ElementOfSeq
<1>4. /\ noted \in [1..MaxCommands -> Nat] /\ batch \subseteq 1..Len(cmds)
      /\ kills \in Nat /\ interrupts \in Nat
  BY DEF TypeOK
<1>5. /\ Unconsumed(cmds) \subseteq 1..Len(cmds)
      /\ Consumed(cmds) \subseteq 1..Len(cmds)
  BY DEF Unconsumed, Consumed
<1> QED
  BY <1>1, <1>2, <1>3, <1>4, <1>5

(* No command is issued yet.                                               *)
LEMMA InitCommands == Init => CommandInv
<1> SUFFICES ASSUME Init PROVE CommandInv
  OBVIOUS
<1>1. TypeOK
  BY InitType
<1>2. Len(cmds) = 0 /\ pc = "off" /\ batch = {}
  BY EmptySeq DEF Init
<1>3. Unconsumed(cmds) = {} /\ Consumed(cmds) = {}
  BY <1>2 DEF Unconsumed, Consumed
<1>4. PauseSurvives /\ JournalMatchesLog
  BY <1>2 DEF PauseSurvives, JournalMatchesLog
<1>5. CommandsInOrder
  BY <1>2, <1>3 DEF CommandsInOrder, Init
<1> QED
  BY <1>1, <1>2, <1>3, <1>4, <1>5 DEF CommandInv, NotedInOrder, EffectIsOn

(* A step that leaves log and journal alone; if it interrupts a command    *)
(* between effect and mark, it is a fault.                                 *)
LEMMA QuietCommands ==
  ASSUME CommandInv, TypeOK', UNCHANGED <<cmds, noted, lost>>,
         pc' # "mark",
         \/ pc # "mark" /\ UNCHANGED <<kills, interrupts>>
         \/ kills' = kills + 1 /\ UNCHANGED interrupts
         \/ interrupts' = interrupts + 1 /\ UNCHANGED kills,
         pc' \notin {"off", "final"} => paused' = LatestPauseState(cmds),
         batch' \subseteq Unconsumed(cmds),
         \A c \in batch', d \in Unconsumed(cmds) : d < c => d \in batch'
  PROVE  CommandInv'
<1>1. TypeOK
  BY DEF CommandInv
<1>2. /\ kills \in Nat /\ interrupts \in Nat /\ noted \in [1..MaxCommands -> Nat]
      /\ 1..Len(cmds) \subseteq 1..MaxCommands /\ Unconsumed(cmds) \subseteq 1..Len(cmds)
  BY <1>1, CommandTypes
<1>3. PauseSurvives'
  BY DEF PauseSurvives, LatestPauseState, Switches, Consumed
<1>4. JournalMatchesLog'
  <2>1. \A c \in 1..Len(cmds) : noted[c] <= 1 + kills + interrupts
    BY DEF CommandInv, JournalMatchesLog
  <2>2. \A c \in 1..Len(cmds) : noted[c] <= 1 + kills' + interrupts'
    BY <1>2, <2>1
  <2> QED
    BY <2>2 DEF CommandInv, JournalMatchesLog
<1>5. CommandsInOrder'
  BY DEF CommandInv, CommandsInOrder, Unconsumed, Consumed
<1>6. NotedInOrder'
  <2>1. \A c \in Unconsumed(cmds) :
          noted[c] <= kills + interrupts + (IF pc = "mark" THEN 1 ELSE 0)
    BY DEF CommandInv, NotedInOrder
  <2>2. \A c \in Unconsumed(cmds) : noted[c] <= kills' + interrupts'
    BY <1>2, <2>1
  <2>3. \A c \in Unconsumed(cmds) :
          noted[c] > 0 => Changes(c) /\ \A d \in Unconsumed(cmds) : c <= d
    BY DEF CommandInv, NotedInOrder
  <2>4. Unconsumed(cmds)' = Unconsumed(cmds)
    BY DEF Unconsumed
  <2>5. \A c \in Unconsumed(cmds) : Changes(c)' <=> Changes(c)
    BY DEF Changes, LatestPauseState, Switches, Consumed
  <2>6. \A c \in Unconsumed(cmds) :
          noted'[c] <= (kills + interrupts)' + (IF pc' = "mark" THEN 1 ELSE 0)
    <3>1. kills' \in Nat /\ interrupts' \in Nat
      BY <1>2
    <3> QED
      BY <2>2, <3>1
  <2> QED
    BY <2>3, <2>4, <2>5, <2>6 DEF NotedInOrder
<1> QED
  BY <1>3, <1>4, <1>5, <1>6 DEF CommandInv, EffectIsOn

(* The console issues at any time, between effect and mark as well.        *)
LEMMA IssueKeeps ==
  ASSUME CommandInv, TypeOK', Issue PROVE CommandInv'
<1>0. TypeOK
  BY DEF CommandInv
<1>1. /\ UNCHANGED <<noted, lost, batch, pc, paused, result, kills, interrupts>>
      /\ Len(cmds) < MaxCommands
  BY DEF Issue, memoryVars, faultVars
<1>2. /\ Len(cmds') = Len(cmds) + 1
      /\ \A c \in 1..Len(cmds) : cmds'[c] = cmds[c]
      /\ Unconsumed(cmds') = Unconsumed(cmds) \cup {Len(cmds) + 1}
      /\ Consumed(cmds') = Consumed(cmds)
      /\ LatestPauseState(cmds') = LatestPauseState(cmds)
  <2>1. PICK kind \in CommandKind :
          cmds' = Append(cmds, [kind |-> kind, status |-> "new"])
    BY DEF Issue
  <2> QED
    BY <1>0, <2>1, IssueLog, CommandTypes
<1>3. /\ Len(cmds) \in Nat /\ MaxCommands \in Nat
      /\ Unconsumed(cmds) \subseteq 1..Len(cmds) /\ Consumed(cmds) \subseteq 1..Len(cmds)
      /\ batch \subseteq 1..Len(cmds)
  BY <1>0, CommandTypes
<1>4. noted[Len(cmds) + 1] = 0
  BY <1>1, <1>3 DEF CommandInv, CommandsInOrder
<1>5. cmds'[Len(cmds) + 1].status = "new"
  BY <1>2, <1>3 DEF Unconsumed
<1>6. PauseSurvives'
  BY <1>1, <1>2 DEF CommandInv, PauseSurvives
<1>7. JournalMatchesLog'
  <2> SUFFICES ASSUME NEW c \in 1..(Len(cmds) + 1)
               PROVE  /\ cmds'[c].status = "ok" => noted[c] > 0 \/ c \in lost
                      /\ cmds'[c].status = "ignored" => noted[c] = 0
                      /\ noted[c] <= 1 + kills + interrupts
    BY <1>1, <1>2 DEF JournalMatchesLog
  <2>1. CASE c \in 1..Len(cmds)
    BY <1>2, <2>1 DEF CommandInv, JournalMatchesLog
  <2>2. CASE c = Len(cmds) + 1
    <3>1. kills \in Nat /\ interrupts \in Nat
      BY <1>0 DEF TypeOK
    <3> QED
      BY <1>3, <1>4, <1>5, <2>2, <3>1
  <2> QED
    BY <1>3, <2>1, <2>2
<1>8. CommandsInOrder'
  <2>1. \A c \in Consumed(cmds'), d \in Unconsumed(cmds') : c < d
    BY <1>2, <1>3 DEF CommandInv, CommandsInOrder
  <2>2. /\ batch \subseteq Unconsumed(cmds')
        /\ \A c \in batch, d \in Unconsumed(cmds') : d < c => d \in batch
    BY <1>2, <1>3 DEF CommandInv, CommandsInOrder
  <2>3. \A c \in 1..MaxCommands : c > Len(cmds') => noted[c] = 0
    BY <1>2, <1>3 DEF CommandInv, CommandsInOrder
  <2> QED
    BY <1>1, <2>1, <2>2, <2>3 DEF CommandsInOrder
<1>9. \A c \in 1..Len(cmds) : (Changes(c)' <=> Changes(c)) /\ (PauseAfter(c)' <=> PauseAfter(c))
  BY <1>2 DEF Changes, PauseAfter
<1>10. NotedInOrder'
  <2> SUFFICES ASSUME NEW c \in Unconsumed(cmds')
               PROVE  /\ noted[c] > 0 => Changes(c)' /\ \A d \in Unconsumed(cmds') : c <= d
                      /\ noted[c] <= kills + interrupts + (IF pc = "mark" THEN 1 ELSE 0)
    BY <1>1 DEF NotedInOrder
  <2>1. CASE c \in Unconsumed(cmds)
    BY <1>2, <1>3, <1>9, <2>1 DEF CommandInv, NotedInOrder
  <2>2. CASE c = Len(cmds) + 1
    <3>1. kills \in Nat /\ interrupts \in Nat
      BY <1>0 DEF TypeOK
    <3> QED
      BY <1>4, <2>2, <3>1
  <2> QED
    BY <1>2, <2>1, <2>2
<1>11. EffectIsOn'
  <2> SUFFICES ASSUME pc = "mark" PROVE EffectIsOn'
    BY <1>1 DEF EffectIsOn
  <2>1. PICK c \in batch :
          /\ IsHead(c)
          /\ paused = PauseAfter(c)
          /\ result = IF Changes(c) THEN "ok" ELSE "ignored"
          /\ result = "ok" => noted[c] > 0 \/ c \in lost
    BY DEF CommandInv, EffectIsOn
  <2>2. IsHead(c)' /\ c \in 1..Len(cmds)
    BY <1>1, <1>3, <2>1 DEF IsHead
  <2>3. Changes(c)' = Changes(c) /\ PauseAfter(c)' = PauseAfter(c)
    BY <1>2, <2>2 DEF Changes, PauseAfter
  <2> QED
    BY <1>1, <2>1, <2>2, <2>3 DEF EffectIsOn
<1> QED
  BY <1>6, <1>7, <1>8, <1>10, <1>11 DEF CommandInv

(* The head of the batch is the oldest command that is not consumed.       *)
LEMMA HeadIsOldest ==
  ASSUME CommandInv, NEW c \in batch, IsHead(c)
  PROVE  /\ c \in Unconsumed(cmds) /\ c \in 1..Len(cmds) /\ c \in 1..MaxCommands
         /\ cmds[c].kind \in CommandKind
         /\ \A d \in Unconsumed(cmds) : c <= d
         /\ \A d \in Consumed(cmds) : d < c
         /\ \A d \in Unconsumed(cmds) : noted[d] > 0 => d = c
<1>0. TypeOK
  BY DEF CommandInv
<1>1. c \in Unconsumed(cmds) /\ c \in 1..Len(cmds) /\ c \in 1..MaxCommands
  BY <1>0, CommandTypes DEF CommandInv, CommandsInOrder
<1>2. cmds[c].kind \in CommandKind
  BY <1>0, <1>1, CommandTypes DEF Command
<1>3. Unconsumed(cmds) \subseteq Nat
  BY <1>0, CommandTypes
<1>4. \A d \in Unconsumed(cmds) : c <= d
  <2> SUFFICES ASSUME NEW d \in Unconsumed(cmds), d < c PROVE FALSE
    BY <1>1, <1>3
  <2>1. d \in batch
    BY DEF CommandInv, CommandsInOrder
  <2> QED
    BY <1>1, <1>3, <2>1 DEF IsHead
<1>5. \A d \in Consumed(cmds) : d < c
  BY <1>1 DEF CommandInv, CommandsInOrder
<1>6. \A d \in Unconsumed(cmds) : noted[d] > 0 => d = c
  BY <1>1, <1>3, <1>4 DEF CommandInv, NotedInOrder
<1> QED
  BY <1>1, <1>2, <1>4, <1>5, <1>6

(* A command takes effect, and the journal learns of it before the log.    *)
LEMMA ApplyKeeps ==
  ASSUME CommandInv, TypeOK', ApplyCommand PROVE CommandInv'
<1>0. TypeOK
  BY DEF CommandInv
<1>1. PICK c \in batch :
        /\ IsHead(c)
        /\ paused' = CASE cmds[c].kind = "pause" -> TRUE
                       [] cmds[c].kind = "resume" -> FALSE
                       [] OTHER -> paused
        /\ result' = IF TakesEffect(c) THEN "ok" ELSE "ignored"
        /\ \/ noted' = Noted(c) /\ lost' = lost
           \/ TakesEffect(c) /\ lost' = lost \cup {c} /\ noted' = noted
  BY DEF ApplyCommand
<1>2. /\ pc = "drain" /\ pc' = "mark"
      /\ UNCHANGED <<cmds, batch, kills, interrupts>>
  BY DEF ApplyCommand, JournalFails, faultVars
<1>3. /\ c \in Unconsumed(cmds) /\ c \in 1..Len(cmds) /\ c \in 1..MaxCommands
      /\ cmds[c].kind \in CommandKind
      /\ \A d \in Unconsumed(cmds) : c <= d
      /\ \A d \in Unconsumed(cmds) : noted[d] > 0 => d = c
  BY <1>1, HeadIsOldest
<1>4. /\ noted \in [1..MaxCommands -> Nat] /\ 1..Len(cmds) \subseteq 1..MaxCommands
      /\ Unconsumed(cmds) \subseteq 1..Len(cmds)
      /\ Len(cmds) \in Nat /\ kills \in Nat /\ interrupts \in Nat
  BY <1>0, CommandTypes DEF TypeOK
<1>5. paused = LatestPauseState(cmds)
  BY <1>2 DEF CommandInv, PauseSurvives
<1>6. TakesEffect(c) <=> Changes(c)
  BY <1>3, <1>5 DEF TakesEffect, Changes, CommandKind
<1>7. paused' = PauseAfter(c)
  BY <1>1, <1>5 DEF PauseAfter
<1>8. /\ \A d \in 1..MaxCommands : d # c => noted'[d] = noted[d]
      /\ \/ noted'[c] = (IF Changes(c) THEN noted[c] + 1 ELSE noted[c])
         \/ Changes(c) /\ noted'[c] = noted[c] /\ c \in lost'
      /\ lost \subseteq lost'
  BY <1>1, <1>3, <1>4, <1>6 DEF Noted
<1>9. noted[c] <= kills + interrupts
  BY <1>2, <1>3, <1>4 DEF CommandInv, NotedInOrder
<1>10. JournalMatchesLog'
  <2> SUFFICES ASSUME NEW d \in 1..Len(cmds)
               PROVE  /\ cmds[d].status = "ok" => noted'[d] > 0 \/ d \in lost'
                      /\ cmds[d].status = "ignored" => noted'[d] = 0
                      /\ noted'[d] <= 1 + kills + interrupts
    BY <1>2 DEF JournalMatchesLog
  <2>1. CASE d = c
    BY <1>3, <1>4, <1>8, <1>9, <2>1 DEF Unconsumed
  <2>2. CASE d # c
    BY <1>4, <1>8, <2>2 DEF CommandInv, JournalMatchesLog
  <2> QED
    BY <2>1, <2>2
<1>11. CommandsInOrder'
  <2>1. Unconsumed(cmds)' = Unconsumed(cmds) /\ Consumed(cmds)' = Consumed(cmds)
    BY <1>2 DEF Unconsumed, Consumed
  <2>2. \A d \in 1..MaxCommands : d > Len(cmds) => noted'[d] = 0
    BY <1>3, <1>4, <1>8 DEF CommandInv, CommandsInOrder
  <2> QED
    BY <1>2, <2>1, <2>2 DEF CommandInv, CommandsInOrder
<1>12. \A d \in Unconsumed(cmds) : Changes(d)' = Changes(d) /\ PauseAfter(d)' = PauseAfter(d)
  BY <1>2 DEF Changes, PauseAfter, LatestPauseState, Switches, Consumed
<1>13. NotedInOrder'
  <2>1. Unconsumed(cmds)' = Unconsumed(cmds)
    BY <1>2 DEF Unconsumed
  <2> SUFFICES ASSUME NEW d \in Unconsumed(cmds)
               PROVE  /\ noted'[d] > 0 => Changes(d) /\ \A e \in Unconsumed(cmds) : d <= e
                      /\ noted'[d] <= kills + interrupts + 1
    BY <1>2, <1>12, <2>1 DEF NotedInOrder
  <2>2. CASE d = c
    <3>1. noted[c] > 0 => Changes(c)
      BY <1>3 DEF CommandInv, NotedInOrder
    <3>2. noted'[c] <= kills + interrupts + 1
      BY <1>3, <1>4, <1>8, <1>9
    <3> QED
      BY <1>3, <1>8, <2>2, <3>1, <3>2
  <2>3. CASE d # c
    <3>1. noted'[d] = noted[d] /\ noted[d] \in Nat /\ ~(noted[d] > 0)
      BY <1>3, <1>4, <1>8, <2>3
    <3> QED
      BY <1>4, <3>1
  <2> QED
    BY <2>2, <2>3
<1>14. EffectIsOn'
  <2>1. IsHead(c)' /\ c \in batch'
    BY <1>1, <1>2 DEF IsHead
  <2>2. result' = IF Changes(c) THEN "ok" ELSE "ignored"
    BY <1>1, <1>6
  <2>3. result' = "ok" => noted'[c] > 0 \/ c \in lost'
    BY <1>3, <1>4, <1>8, <2>2
  <2> QED
    BY <1>3, <1>7, <1>12, <2>1, <2>2, <2>3 DEF EffectIsOn
<1> QED
  BY <1>2, <1>10, <1>11, <1>13, <1>14 DEF CommandInv, PauseSurvives

(* The log learns of the command whose effect is on.                       *)
LEMMA MarkKeeps ==
  ASSUME CommandInv, TypeOK', MarkCommand PROVE CommandInv'
<1>0. TypeOK
  BY DEF CommandInv
<1>1. PICK c \in batch :
        IsHead(c) /\ cmds' = MarkConsumed(cmds, c, result) /\ batch' = batch \ {c}
  BY DEF MarkCommand
<1>2. /\ pc = "mark" /\ pc' = "drain"
      /\ UNCHANGED <<noted, lost, paused, kills, interrupts>>
  BY DEF MarkCommand, faultVars
<1>3. /\ c \in Unconsumed(cmds) /\ c \in 1..Len(cmds) /\ c \in 1..MaxCommands
      /\ cmds[c].kind \in CommandKind
      /\ \A d \in Unconsumed(cmds) : c <= d
      /\ \A d \in Consumed(cmds) : d < c
      /\ \A d \in Unconsumed(cmds) : noted[d] > 0 => d = c
  BY <1>1, HeadIsOldest
<1>4. /\ noted \in [1..MaxCommands -> Nat] /\ 1..Len(cmds) \subseteq 1..MaxCommands
      /\ Unconsumed(cmds) \subseteq 1..Len(cmds) /\ Consumed(cmds) \subseteq 1..Len(cmds)
      /\ Len(cmds) \in Nat /\ kills \in Nat /\ interrupts \in Nat
      /\ cmds \in Seq(Command)
  BY <1>0, CommandTypes DEF TypeOK
<1>5. /\ paused = PauseAfter(c)
      /\ result = IF Changes(c) THEN "ok" ELSE "ignored"
      /\ result = "ok" => noted[c] > 0 \/ c \in lost
  <2>1. PICK e \in batch :
          /\ IsHead(e)
          /\ paused = PauseAfter(e)
          /\ result = IF Changes(e) THEN "ok" ELSE "ignored"
          /\ result = "ok" => noted[e] > 0 \/ e \in lost
    BY <1>2 DEF CommandInv, EffectIsOn
  <2>2. e \in 1..Len(cmds) /\ e <= c /\ c <= e
    BY <1>0, <1>1, <2>1, CommandTypes DEF IsHead
  <2>3. e = c
    BY <1>3, <1>4, <2>2
  <2> QED
    BY <2>1, <2>3
<1>6. /\ Len(cmds') = Len(cmds)
      /\ \A d \in 1..Len(cmds) : d # c => cmds'[d] = cmds[d]
      /\ cmds'[c].status = result
      /\ Unconsumed(cmds') = Unconsumed(cmds) \ {c}
      /\ Consumed(cmds') = Consumed(cmds) \cup {c}
      /\ cmds[c].kind = "pause" => LatestPauseState(cmds')
      /\ cmds[c].kind = "resume" => ~LatestPauseState(cmds')
      /\ cmds[c].kind = "trigger_tick" =>
           (LatestPauseState(cmds') <=> LatestPauseState(cmds))
  <2>1. result \in CommandStatus /\ result # "new"
    BY <1>5 DEF CommandStatus
  <2> QED
    BY <1>1, <1>3, <1>4, <2>1, ConsumeLog
<1>7. PauseSurvives'
  <2>1. LatestPauseState(cmds') \in BOOLEAN /\ LatestPauseState(cmds) \in BOOLEAN
    BY DEF LatestPauseState
  <2>2. paused = LatestPauseState(cmds')
    BY <1>3, <1>5, <1>6, <2>1 DEF PauseAfter, CommandKind
  <2> QED
    BY <1>2, <2>2 DEF PauseSurvives
<1>8. JournalMatchesLog'
  <2> SUFFICES ASSUME NEW d \in 1..Len(cmds)
               PROVE  /\ cmds'[d].status = "ok" => noted[d] > 0 \/ d \in lost
                      /\ cmds'[d].status = "ignored" => noted[d] = 0
                      /\ noted[d] <= 1 + kills + interrupts
    BY <1>2, <1>6 DEF JournalMatchesLog
  <2>1. CASE d = c
    <3>1. result = "ignored" => noted[c] = 0
      <4>1. noted[c] > 0 => Changes(c)
        BY <1>3 DEF CommandInv, NotedInOrder
      <4> QED
        BY <1>3, <1>4, <1>5, <4>1
    <3> QED
      BY <1>5, <1>6, <2>1, <3>1 DEF CommandInv, JournalMatchesLog
  <2>2. CASE d # c
    BY <1>6, <2>2 DEF CommandInv, JournalMatchesLog
  <2> QED
    BY <2>1, <2>2
<1>9. CommandsInOrder'
  <2>1. \A d \in Consumed(cmds'), e \in Unconsumed(cmds') : d < e
    BY <1>3, <1>4, <1>6 DEF CommandInv, CommandsInOrder
  <2>2. /\ batch' \subseteq Unconsumed(cmds')
        /\ \A d \in batch', e \in Unconsumed(cmds') : e < d => e \in batch'
    BY <1>1, <1>6 DEF CommandInv, CommandsInOrder
  <2>3. \A d \in 1..MaxCommands : d > Len(cmds') => noted'[d] = 0
    BY <1>2, <1>6 DEF CommandInv, CommandsInOrder
  <2> QED
    BY <2>1, <2>2, <2>3 DEF CommandsInOrder
<1>10. NotedInOrder'
  <2>1. \A d \in Unconsumed(cmds') : noted[d] = 0
    BY <1>3, <1>4, <1>6
  <2> QED
    BY <1>2, <1>4, <2>1 DEF NotedInOrder
<1> QED
  BY <1>2, <1>7, <1>8, <1>9, <1>10 DEF CommandInv, EffectIsOn

(* Log, journal and pause stay in step, whoever moves.                     *)
LEMMA CommandStep == CommandInv /\ [Next]_vars => CommandInv'
<1> SUFFICES ASSUME CommandInv, [Next]_vars PROVE CommandInv'
  OBVIOUS
<1>0. TypeOK /\ TypeOK' /\ kills \in Nat /\ interrupts \in Nat
  BY TypeStep DEF CommandInv, TypeOK
<1>a. /\ batch \subseteq Unconsumed(cmds)
      /\ \A c \in batch, d \in Unconsumed(cmds) : d < c => d \in batch
      /\ pc \notin {"off", "mark", "final"} => paused = LatestPauseState(cmds)
  BY DEF CommandInv, CommandsInOrder, PauseSurvives
<1>1. CASE UNCHANGED vars
  <2>1. PauseSurvives' /\ JournalMatchesLog' /\ CommandsInOrder'
    BY <1>1 DEF CommandInv, PauseSurvives, JournalMatchesLog, CommandsInOrder, vars,
       LatestPauseState, Switches, Consumed, Unconsumed
  <2>2. NotedInOrder'
    BY <1>1 DEF CommandInv, NotedInOrder, Changes, PauseAfter, vars,
       LatestPauseState, Switches, Consumed, Unconsumed
  <2>3. EffectIsOn'
    BY <1>1 DEF CommandInv, EffectIsOn, IsHead, Changes, PauseAfter, vars,
       LatestPauseState, Switches, Consumed, Unconsumed
  <2> QED
    BY <1>0, <2>1, <2>2, <2>3 DEF CommandInv
<1>2. CASE Issue
  BY <1>0, <1>2, IssueKeeps
<1>3. CASE ApplyCommand
  BY <1>0, <1>3, ApplyKeeps
<1>4. CASE MarkCommand
  BY <1>0, <1>4, MarkKeeps
<1>5. CASE Drain
  <2>1. /\ pc = "top" /\ pc' = "drain" /\ batch' = Drained(cmds)
        /\ UNCHANGED <<cmds, noted, lost, paused, kills, interrupts>>
    BY <1>5 DEF Drain, diskVars, faultVars
  <2>2. batch' \subseteq Unconsumed(cmds)
    BY <2>1, DrainUnconsumed
  <2>3. \A c \in batch', d \in Unconsumed(cmds) : d < c => d \in batch'
    BY <1>0, <2>1, DrainTakesOldest DEF TypeOK
  <2>4. paused' = LatestPauseState(cmds)
    BY <1>a, <2>1
  <2> QED
    BY <1>0, <2>1, <2>2, <2>3, <2>4, QuietCommands
<1>6. CASE Start
  <2>1. /\ pc = "off" /\ pc' = "top" /\ paused' = LatestPauseState(cmds)
        /\ UNCHANGED <<cmds, noted, lost, batch, kills, interrupts>>
    BY <1>6 DEF Start, diskVars, faultVars
  <2> QED
    BY <1>0, <1>a, <2>1, QuietCommands
<1>7. CASE \/ MaxTicksReached \/ DrainEnds \/ SleepPaused \/ TickStarted \/ TickReturns
           \/ TickRaises \/ Snapshot \/ Advance \/ AdvanceAfterError
  <2>1. /\ pc \notin {"off", "mark", "final"} /\ pc' # "mark"
        /\ UNCHANGED <<cmds, noted, lost, batch, paused, kills, interrupts>>
    BY <1>7 DEF MaxTicksReached, DrainEnds, SleepPaused, TickStarted, TickReturns,
       TickRaises, Snapshot, JournalFails, Advance, AdvanceAfterError, diskVars, memoryVars, faultVars
  <2> QED
    BY <1>0, <1>a, <2>1, QuietCommands
<1>8. CASE FinalSnapshot
  <2>1. /\ pc = "final" /\ pc' = "off" /\ batch' = {}
        /\ UNCHANGED <<cmds, noted, lost, kills, interrupts>>
    BY <1>8 DEF FinalSnapshot, JournalFails, Forgotten, faultVars
  <2> QED
    BY <1>0, <2>1, QuietCommands
<1>9. CASE Interrupted
  <2>1. /\ pc' = "final" /\ interrupts' = interrupts + 1
        /\ UNCHANGED <<cmds, noted, lost, batch, kills>>
    BY <1>9 DEF Interrupted, diskVars, memoryVars
  <2> QED
    BY <1>0, <1>a, <2>1, QuietCommands
<1>10. CASE Killed
  <2>1. /\ pc' = "off" /\ batch' = {} /\ kills' = kills + 1
        /\ UNCHANGED <<cmds, noted, lost, interrupts>>
    BY <1>10 DEF Killed, Forgotten, diskVars
  <2> QED
    BY <1>0, <2>1, QuietCommands
<1> QED
  BY <1>1, <1>2, <1>3, <1>4, <1>5, <1>6, <1>7, <1>8, <1>9, <1>10 DEF Next, LoopStep

(* The pause the operator set is the pause the loop is in, after any       *)
(* number of kills, interrupts and restarts: what the loop has in memory   *)
(* between two commands is what the command log says was applied last.     *)
THEOREM PauseIsKept == Spec => []PauseSurvives
<1>1. CommandInv => PauseSurvives
  BY DEF CommandInv
<1> QED
  BY <1>1, InitCommands, CommandStep, PTL DEF Spec

(* The journal and the command log agree on which commands did something,  *)
(* although the loop writes one after the other and may die in between.    *)
THEOREM JournalIsTrue == Spec => []JournalMatchesLog
<1>1. CommandInv => JournalMatchesLog
  BY DEF CommandInv
<1> QED
  BY <1>1, InitCommands, CommandStep, PTL DEF Spec
-----------------------------------------------------------------------------
(* The loop implements LoopControl.                                        *)

(* Between effect and mark a trigger_tick is in force.                     *)
TriggerIsOn ==
  pc = "mark" => \A c \in batch : IsHead(c) /\ cmds[c].kind = "trigger_tick" => force

ControlInv == CommandInv /\ TriggerIsOn

(* Only applying a trigger_tick brings the loop to where it is marked.     *)
LEMMA TriggerStep == ControlInv /\ [Next]_vars => ControlInv'
<1> SUFFICES ASSUME ControlInv, [Next]_vars PROVE TriggerIsOn'
  BY CommandStep DEF ControlInv
<1>1. CASE UNCHANGED vars
  BY <1>1 DEF ControlInv, TriggerIsOn, IsHead, vars
<1>2. CASE Issue
  <2>1. TypeOK
    BY DEF ControlInv, CommandInv
  <2>2. \A c \in batch : cmds'[c] = cmds[c]
    <3>1. PICK kind \in CommandKind :
            cmds' = Append(cmds, [kind |-> kind, status |-> "new"])
      BY <1>2 DEF Issue
    <3> QED
      BY <2>1, <3>1, IssueLog, CommandTypes
  <2> QED
    BY <1>2, <2>2 DEF ControlInv, TriggerIsOn, IsHead, Issue, memoryVars
<1>3. CASE ApplyCommand
  <2> SUFFICES ASSUME NEW c \in batch, IsHead(c), cmds[c].kind = "trigger_tick"
               PROVE  force'
    BY <1>3 DEF ApplyCommand, TriggerIsOn, IsHead
  <2>1. PICK d \in batch : IsHead(d) /\ force' = (force \/ cmds[d].kind = "trigger_tick")
    BY <1>3 DEF ApplyCommand
  <2>2. c <= d /\ d <= c /\ c \in Nat /\ d \in Nat
    BY <2>1, CommandTypes DEF IsHead, ControlInv, CommandInv
  <2>3. d = c
    BY <2>2
  <2> QED
    BY <2>1, <2>3, Zenon
<1>4. CASE MarkCommand
  BY <1>4 DEF MarkCommand, TriggerIsOn
<1>5. CASE LoopStep /\ ~ApplyCommand /\ ~MarkCommand
  BY <1>5 DEF LoopStep, Start, MaxTicksReached, Drain, DrainEnds, SleepPaused, TickStarted,
     TickReturns, TickRaises, Snapshot, Advance, AdvanceAfterError, FinalSnapshot,
     Forgotten, TriggerIsOn
<1>6. CASE Interrupted \/ Killed
  BY <1>6 DEF Interrupted, Killed, Forgotten, TriggerIsOn
<1> QED
  BY <1>1, <1>2, <1>3, <1>4, <1>5, <1>6 DEF Next

KindLog == [c \in 1..Len(cmds) |-> cmds[c].kind]

Permit == force /\ pc \in {"drain", "mark", "decide"}

(* The command at the head of the batch is LoopControl's next one.         *)
LEMMA HeadIsNext ==
  ASSUME CommandInv, NEW c \in batch, IsHead(c)
  PROVE  Control!IsNext(c) /\ c \in 1..Len(cmds) /\ c \in Unconsumed(cmds)
<1>1. TypeOK /\ Len(KindLog) = Len(cmds)
  <2>1. TypeOK
    BY DEF CommandInv
  <2>2. Len(cmds) \in Nat
    BY <2>1, CommandTypes
  <2> QED
    BY <2>1, <2>2 DEF KindLog
<1>2. Control!Unapplied = Unconsumed(cmds)
  BY <1>1 DEF Control!Unapplied, KindLog, Unconsumed, Consumed
<1> QED
  BY <1>2, HeadIsOldest DEF Control!IsNext

(* What the log says of the pause is what LoopControl says of it.          *)
LEMMA PausedAlike ==
  ASSUME TypeOK PROVE Control!IsPaused <=> LatestPauseState(cmds)
<1>1. Consumed(cmds) \subseteq 1..Len(cmds)
  BY CommandTypes
<1>2. \A c \in Consumed(cmds) : KindLog[c] = cmds[c].kind
  BY <1>1 DEF KindLog
<1>3. Control!Switches = Switches(cmds)
  BY <1>2 DEF Control!Switches, Switches, KindLog
<1> QED
  BY <1>1, <1>2, <1>3 DEF Control!IsPaused, LatestPauseState, Switches, KindLog

(* Each step of the loop is a step of LoopControl or changes nothing there.*)
LEMMA ControlStep ==
  ASSUME ControlInv, ControlInv', [Next]_vars
  PROVE  [Control!Next]_<<KindLog, Consumed(cmds), Permit, began>>
<1> DEFINE cvars == <<KindLog, Consumed(cmds), Permit, began>>
<1> SUFFICES [Control!Next]_cvars
  OBVIOUS
<1>0. CommandInv /\ TypeOK
  BY DEF ControlInv, CommandInv
<1>1. CASE UNCHANGED vars
  BY <1>1 DEF vars, KindLog, Consumed, Permit
<1>2. CASE Issue
  <2>1. PICK kind \in CommandKind :
          cmds' = Append(cmds, [kind |-> kind, status |-> "new"])
    BY <1>2 DEF Issue
  <2>2. /\ cmds \in Seq(Command) /\ Len(cmds) \in Nat
        /\ \A c \in 1..Len(cmds) : cmds[c] \in Command
    BY <1>0, CommandTypes
  <2>3. /\ Len(cmds') = Len(cmds) + 1 /\ Consumed(cmds') = Consumed(cmds)
        /\ \A c \in 1..Len(cmds) : cmds'[c] = cmds[c]
    BY <2>1, <2>2, IssueLog
  <2>4. cmds'[Len(cmds) + 1].kind = kind
    BY <2>1, <2>2
  <2>5. KindLog' = Append(KindLog, kind)
    <3>1. KindLog \in Seq(CommandKind) /\ Len(KindLog) = Len(cmds)
      BY <2>2 DEF KindLog, Command
    <3>2. /\ Append(KindLog, kind) \in Seq(CommandKind)
          /\ Len(Append(KindLog, kind)) = Len(cmds) + 1
          /\ \A c \in 1..Len(cmds) : Append(KindLog, kind)[c] = cmds[c].kind
          /\ Append(KindLog, kind)[Len(cmds) + 1] = kind
      BY <2>2, <3>1, AppendProperties DEF KindLog
    <3>3. \A c \in 1..(Len(cmds) + 1) : Append(KindLog, kind)[c] = cmds'[c].kind
      BY <2>2, <2>3, <2>4, <3>2
    <3>4. KindLog' = [c \in 1..(Len(cmds) + 1) |-> cmds'[c].kind]
      BY <2>3 DEF KindLog
    <3>5. \A c \in 1..(Len(cmds) + 1) : cmds'[c].kind \in CommandKind
      BY <2>2, <2>3, <2>4 DEF Command
    <3>6. KindLog' \in Seq(CommandKind) /\ Len(KindLog') = Len(cmds) + 1
      BY <2>2, <3>4, <3>5
    <3> QED
      BY <3>2, <3>3, <3>4, <3>6, SeqEqual
  <2>6. UNCHANGED <<Consumed(cmds), Permit, began>>
    BY <1>2, <2>3 DEF Issue, memoryVars, Permit
  <2>7. Control!Issue
    BY <2>5, <2>6 DEF Control!Issue, Control!CommandKind, CommandKind, KindLog, Permit
  <2> QED
    BY <2>7 DEF Control!Next
<1>3. CASE ApplyCommand
  <2>1. PICK c \in batch :
          IsHead(c) /\ force' = (force \/ cmds[c].kind = "trigger_tick")
    BY <1>3 DEF ApplyCommand
  <2>2. Control!IsNext(c) /\ c \in 1..Len(cmds)
    BY <1>0, <2>1, HeadIsNext
  <2>3. /\ UNCHANGED <<KindLog, Consumed(cmds), began>>
        /\ pc = "drain" /\ pc' = "mark"
    BY <1>3 DEF ApplyCommand, KindLog, Consumed
  <2>4. force \in BOOLEAN
    BY <1>0 DEF TypeOK
  <2>5. CASE cmds[c].kind = "trigger_tick"
    <3>1. Permit' = TRUE
      BY <2>1, <2>3, <2>5 DEF Permit
    <3>2. c \in Control!Unapplied /\ KindLog[c] = "trigger_tick"
      BY <2>2, <2>5 DEF Control!IsNext, KindLog
    <3>3. Control!Obey
      BY <2>2, <2>3, <3>1, <3>2 DEF Control!Obey, KindLog, Permit
    <3> QED
      BY <3>3 DEF Control!Next
  <2>6. CASE cmds[c].kind # "trigger_tick"
    <3>1. Permit' = Permit
      BY <2>1, <2>3, <2>4, <2>6 DEF Permit
    <3> QED
      BY <2>3, <3>1
  <2> QED
    BY <2>5, <2>6
<1>4. CASE MarkCommand
  <2>1. PICK c \in batch : IsHead(c) /\ cmds' = MarkConsumed(cmds, c, result)
    BY <1>4 DEF MarkCommand
  <2>2. pc = "mark" /\ pc' = "drain" /\ UNCHANGED <<force, began>>
    BY <1>4 DEF MarkCommand
  <2>3. Control!IsNext(c) /\ c \in 1..Len(cmds) /\ c \in Unconsumed(cmds)
    BY <1>0, <2>1, HeadIsNext
  <2>4. cmds[c].kind = "trigger_tick" => Permit
    BY <2>1, <2>2 DEF ControlInv, TriggerIsOn, Permit
  <2>5. /\ Len(cmds') = Len(cmds) /\ Consumed(cmds') = Consumed(cmds) \cup {c}
        /\ \A d \in 1..Len(cmds) : cmds'[d].kind = cmds[d].kind
    <3>1. result \in CommandStatus /\ result # "new"
      BY <2>2 DEF ControlInv, CommandInv, EffectIsOn, CommandStatus
    <3>2. cmds \in Seq(Command) /\ \A d \in Consumed(cmds) : d < c
      BY <1>0, <2>1, HeadIsOldest, CommandTypes
    <3> QED
      BY <2>1, <2>3, <3>1, <3>2, ConsumeLog
  <2>6. UNCHANGED <<KindLog, Permit, began>>
    BY <2>2, <2>5 DEF KindLog, Permit
  <2>7. c \in Control!Unapplied /\ KindLog[c] = cmds[c].kind
    BY <2>3 DEF Control!IsNext, KindLog
  <2>8. Control!Apply
    BY <2>3, <2>4, <2>5, <2>6, <2>7 DEF Control!Apply, KindLog, Permit
  <2> QED
    BY <2>8 DEF Control!Next
<1>5. CASE TickStarted
  <2>1. /\ UNCHANGED <<KindLog, Consumed(cmds)>> /\ began' = began + 1
        /\ pc = "decide" /\ pc' = "tick" /\ ~Holds
    BY <1>5 DEF TickStarted, KindLog, Consumed
  <2>2. paused = LatestPauseState(cmds)
    BY <1>0, <2>1 DEF CommandInv, PauseSurvives
  <2>3. Permit' = FALSE /\ (~Control!IsPaused \/ Permit)
    BY <1>0, <2>1, <2>2, PausedAlike DEF Permit, Holds
  <2>4. Control!Tick
    BY <2>1, <2>3 DEF Control!Tick, KindLog, Permit
  <2> QED
    BY <2>4 DEF Control!Next
<1>6. CASE \/ Start \/ MaxTicksReached \/ Drain \/ DrainEnds \/ SleepPaused \/ TickReturns
           \/ TickRaises \/ Snapshot \/ Advance \/ AdvanceAfterError \/ FinalSnapshot
  <2>1. UNCHANGED <<cmds, began>>
    BY <1>6 DEF Start, MaxTicksReached, Drain, DrainEnds, SleepPaused, TickReturns,
       TickRaises, Snapshot, Advance, AdvanceAfterError, FinalSnapshot, diskVars
  <2>2. Permit' = Permit
    BY <1>6 DEF Start, MaxTicksReached, Drain, DrainEnds, SleepPaused, TickReturns,
       TickRaises, Snapshot, Advance, AdvanceAfterError, FinalSnapshot, Forgotten,
       memoryVars, Holds, Permit
  <2> QED
    BY <2>1, <2>2 DEF KindLog, Consumed
<1>7. CASE Interrupted \/ Killed
  <2>1. UNCHANGED <<cmds, began>> /\ pc' \in {"off", "final"}
    BY <1>7 DEF Interrupted, Killed, Forgotten, diskVars
  <2>2. UNCHANGED <<KindLog, Consumed(cmds), began>> /\ Permit' = FALSE
    BY <2>1 DEF KindLog, Consumed, Permit
  <2>3. Control!Forget
    BY <2>2 DEF Control!Forget, KindLog, Permit
  <2> QED
    BY <2>3 DEF Control!Next
<1> QED
  BY <1>1, <1>2, <1>3, <1>4, <1>5, <1>6, <1>7 DEF Next, LoopStep

(* The loop implements what the console promises: commands are applied in  *)
(* the order of issue, and no tick begins while the last pause or resume   *)
(* applied is a pause, unless a trigger_tick permits just that one.        *)
THEOREM ConsoleIsObeyed == Spec => ObeysConsole
<1>1. Init => ControlInv
  BY InitCommands DEF ControlInv, TriggerIsOn, Init
<1>2. Init => Control!Init
  <2> SUFFICES ASSUME Init PROVE Control!Init
    OBVIOUS
  <2>1. cmds = <<>> /\ Len(cmds) = 0 /\ began = 0 /\ pc = "off"
    BY EmptySeq DEF Init
  <2>2. KindLog = <<>> /\ Consumed(cmds) = {} /\ Permit = FALSE
    BY <2>1 DEF KindLog, Consumed, Permit
  <2> QED
    BY <2>1, <2>2 DEF Control!Init, KindLog, Permit
<1>3. ControlInv /\ ControlInv' /\ [Next]_vars =>
        [Control!Next]_<<KindLog, Consumed(cmds), Permit, began>>
  BY ControlStep
<1> QED
  BY <1>1, <1>2, <1>3, TriggerStep, PTL DEF Spec, ObeysConsole, Control!Spec, KindLog, Permit
=============================================================================
