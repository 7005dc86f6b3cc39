------------------------------ MODULE RunLoop ------------------------------
(***************************************************************************)
(* operator/cli.py, run_loop: the process that runs one tick after another *)
(* and, before each, drains the commands the console has issued            *)
(* (metacycle/commands.py); it journals what happens and takes snapshots   *)
(* of its counters to resume from (metacycle/journal.py).                  *)
(*                                                                         *)
(* Commands, journal and snapshots are on disk, each write a transaction   *)
(* of its own; everything else is the memory of the process and is lost    *)
(* when it is killed.  The journal falls open: an event or a snapshot that *)
(* cannot be written is given up, and the loop goes on.  The tick itself   *)
(* is Metacycle's; here it returns or raises.                              *)
(***************************************************************************)
EXTENDS Integers, Sequences, FiniteSets

CONSTANTS
  DrainLimit,      \* commands taken by one drain (50 in the code)
  SnapshotEvery,   \* --snapshot-every
  StopAt,          \* --max-ticks; the only bound on tick ids
  MaxCommands,     \* bound: commands ever issued
  MaxFaults        \* bound: kills, interrupts and failing writes of the journal

ASSUME LoopAssumption ==
  /\ DrainLimit \in Nat \ {0} /\ SnapshotEvery \in Nat \ {0} /\ StopAt \in Nat
  /\ MaxCommands \in Nat /\ MaxFaults \in Nat

CommandKind == {"pause", "resume", "trigger_tick"}
CommandStatus == {"new", "ok", "ignored"}
Command == [kind : CommandKind, status : CommandStatus]
Counters == [ticked : Nat, errors : Nat]   \* processed and idle ticks together
Stage == {"off", "top", "drain", "mark", "decide", "tick", "counted", "errored",
          "advance", "final"}

VARIABLES
  cmds,            \* the command log, in the order of ids
  snap,            \* the latest snapshot, tick = -1 when there is none
  noted,           \* noted[c]: journal events that name command c
  lost,            \* history: commands whose event could not be written
  finished,        \* history: how often tick t has ended
  began,           \* history: ticks begun
  pc, paused, force, batch, result, tickId, count,     \* the process
  kills,           \* history: processes killed
  interrupts,      \* history: processes stopped by Ctrl+C or by an exception
  unwritten,       \* history: events of commands and snapshots given up
  missed           \* history: multiples of SnapshotEvery passed without a
                   \* snapshot since the latest one

diskVars == <<cmds, snap, noted, lost, finished, began>>
memoryVars == <<paused, force, batch, result, tickId, count>>
faultVars == <<kills, interrupts, unwritten>>
vars == <<cmds, snap, noted, lost, finished, began, pc, paused, force, batch, result,
          tickId, count, kills, interrupts, unwritten, missed>>

ZeroCounters == [ticked |-> 0, errors |-> 0]
NoSnapshot == [tick |-> -1, count |-> ZeroCounters]
TickIds == 0..StopAt

Init ==
  /\ cmds = <<>>
  /\ snap = NoSnapshot
  /\ noted = [c \in 1..MaxCommands |-> 0] /\ lost = {}
  /\ finished = [t \in TickIds |-> 0]
  /\ began = 0
  /\ pc = "off"
  /\ paused = FALSE /\ force = FALSE /\ batch = {} /\ result = "new"
  /\ tickId = 0 /\ count = ZeroCounters
  /\ kills = 0 /\ interrupts = 0 /\ unwritten = 0 /\ missed = 0

-----------------------------------------------------------------------------
(* metacycle/commands.py.                                                  *)

Unconsumed(log) == {c \in 1..Len(log) : log[c].status = "new"}

Consumed(log) == {c \in 1..Len(log) : log[c].status # "new"}

(* drain(): the oldest ones first.                                         *)
DrainNewest(log) ==
  {c \in Unconsumed(log) :
     Cardinality({d \in Unconsumed(log) : d > c}) < DrainLimit}

Drained(log) ==
  {c \in Unconsumed(log) :
     Cardinality({d \in Unconsumed(log) : d < c}) < DrainLimit}

Switches(log) == {c \in Consumed(log) : log[c].kind \in {"pause", "resume"}}

(* latest_pause_state(): the last pause or resume consumed is a pause.     *)
EverPaused(log) == \E c \in Switches(log) : log[c].kind = "pause"

LatestPauseState(log) ==
  \E c \in Switches(log) :
    /\ log[c].kind = "pause"
    /\ \A d \in Switches(log) : d <= c

MarkConsumedIfOk(log, c, status) ==
  IF status = "ok" THEN [log EXCEPT ![c].status = status] ELSE log

MarkConsumed(log, c, status) ==
  IF log[c].status = "new" THEN [log EXCEPT ![c].status = status] ELSE log

(* The console; read-only mode issues nothing.                             *)
Issue ==
  /\ Len(cmds) < MaxCommands
  /\ \E kind \in CommandKind :
       cmds' = Append(cmds, [kind |-> kind, status |-> "new"])
  /\ UNCHANGED <<snap, noted, lost, finished, began, pc, memoryVars, faultVars, missed>>

-----------------------------------------------------------------------------
(* The loop.                                                               *)

(* Before the loop: the counters from the latest snapshot, the pause from  *)
(* the command log.  Without a snapshot both start from zero.              *)
ResumeWithoutCounters(s) == tickId' = s.tick + 1 /\ count' = ZeroCounters

ResumeFrom(s) == tickId' = s.tick + 1 /\ count' = s.count

Start ==
  /\ pc = "off"
  /\ pc' = "top"
  /\ ResumeFrom(snap)
  /\ paused' = LatestPauseState(cmds)
  /\ UNCHANGED <<diskVars, force, batch, result, faultVars, missed>>

MaxTicksReached ==
  /\ pc = "top"
  /\ tickId >= StopAt
  /\ pc' = "final"
  /\ UNCHANGED <<diskVars, memoryVars, faultVars, missed>>

Drain ==
  /\ pc = "top"
  /\ tickId < StopAt
  /\ batch' = Drained(cmds)
  /\ force' = FALSE
  /\ pc' = "drain"
  /\ UNCHANGED <<diskVars, paused, result, tickId, count, faultVars, missed>>

(* journal.append, journal.snapshot: an exception is logged and swallowed. *)
JournalFails ==
  /\ kills + interrupts + unwritten < MaxFaults
  /\ unwritten' = unwritten + 1
  /\ UNCHANGED <<kills, interrupts>>

IsHead(c) == c \in batch /\ \A d \in batch : c <= d

(* A command takes effect in memory and, unless it changes nothing, goes   *)
(* to the journal, which may fail; the log is told afterwards.             *)
TakesEffect(c) ==
  CASE cmds[c].kind = "pause" -> ~paused
    [] cmds[c].kind = "resume" -> paused
    [] cmds[c].kind = "trigger_tick" -> TRUE

NotedAlways(c) == [noted EXCEPT ![c] = @ + 1]

Noted(c) == IF TakesEffect(c) THEN [noted EXCEPT ![c] = @ + 1] ELSE noted

ApplyCommand ==
  /\ pc = "drain"
  /\ \E c \in batch :
       /\ IsHead(c)
       /\ paused' = CASE cmds[c].kind = "pause" -> TRUE
                      [] cmds[c].kind = "resume" -> FALSE
                      [] OTHER -> paused
       /\ force' = (force \/ cmds[c].kind = "trigger_tick")
       /\ result' = IF TakesEffect(c) THEN "ok" ELSE "ignored"
       /\ \/ noted' = Noted(c) /\ UNCHANGED <<lost, faultVars>>
          \/ TakesEffect(c) /\ JournalFails /\ lost' = lost \cup {c} /\ UNCHANGED noted
  /\ pc' = "mark"
  /\ UNCHANGED <<cmds, snap, finished, began, batch, tickId, count, missed>>

(* mark_consumed() of the command whose effect is on.                      *)
MarkCommand ==
  /\ pc = "mark"
  /\ \E c \in batch :
       /\ IsHead(c)
       /\ cmds' = MarkConsumed(cmds, c, result)
       /\ batch' = batch \ {c}
  /\ result' = "new"
  /\ pc' = "drain"
  /\ UNCHANGED <<snap, noted, lost, finished, began, paused, force, tickId, count,
                 faultVars, missed>>

DrainEnds ==
  /\ pc = "drain" /\ batch = {}
  /\ pc' = "decide"
  /\ UNCHANGED <<diskVars, memoryVars, faultVars, missed>>

(* Paused and not forced: sleep, and poll the commands again.              *)
HoldsThoughForced == paused

Holds == paused /\ ~force

SleepPaused ==
  /\ pc = "decide"
  /\ Holds
  /\ pc' = "top"
  /\ UNCHANGED <<diskVars, memoryVars, faultVars, missed>>

TickStarted ==
  /\ pc = "decide"
  /\ ~Holds
  /\ began' = began + 1
  /\ pc' = "tick"
  /\ UNCHANGED <<cmds, snap, noted, lost, finished, memoryVars, faultVars, missed>>

TickReturns ==
  /\ pc = "tick"
  /\ count' = [count EXCEPT !.ticked = @ + 1]
  /\ finished' = [finished EXCEPT ![tickId] = @ + 1]
  /\ pc' = "counted"
  /\ UNCHANGED <<cmds, snap, noted, lost, began, paused, force, batch, result, tickId,
                 faultVars, missed>>

TickRaises ==
  /\ pc = "tick"
  /\ count' = [count EXCEPT !.errors = @ + 1]
  /\ finished' = [finished EXCEPT ![tickId] = @ + 1]
  /\ pc' = "errored"
  /\ UNCHANGED <<cmds, snap, noted, lost, began, paused, force, batch, result, tickId,
                 faultVars, missed>>

IsSnapshotTickLate(t) == t > 0 /\ t % SnapshotEvery = 0

IsSnapshotTick(t) == (t + 1) % SnapshotEvery = 0

(* The periodic snapshot.                                                  *)
Snapshot ==
  /\ pc = "counted"
  /\ \/ ~IsSnapshotTick(tickId) /\ UNCHANGED <<snap, missed, faultVars>>
     \/ /\ IsSnapshotTick(tickId)
        /\ snap' = [tick |-> tickId, count |-> count] /\ missed' = 0
        /\ UNCHANGED faultVars
     \/ /\ IsSnapshotTick(tickId)
        /\ JournalFails /\ missed' = missed + 1
        /\ UNCHANGED snap
  /\ pc' = "advance"
  /\ UNCHANGED <<cmds, noted, lost, finished, began, memoryVars>>

Advance ==
  /\ pc = "advance"
  /\ tickId' = tickId + 1
  /\ pc' = "top"
  /\ UNCHANGED <<diskVars, paused, force, batch, result, count, faultVars, missed>>

(* After an error the loop goes on to the next tick without a snapshot.    *)
AdvanceAfterError ==
  /\ pc = "errored"
  /\ tickId' = tickId + 1
  /\ missed' = IF IsSnapshotTick(tickId) THEN missed + 1 ELSE missed
  /\ pc' = "top"
  /\ UNCHANGED <<diskVars, paused, force, batch, result, count, faultVars>>

Forgotten ==
  /\ pc' = "off"
  /\ paused' = FALSE /\ force' = FALSE /\ batch' = {} /\ result' = "new"
  /\ tickId' = 0 /\ count' = ZeroCounters

(* The finally block: a last snapshot, unless no tick was ever completed.  *)
FinalSnapshotOf(t, counters) == [tick |-> t - 1, count |-> counters]

FinalSnapshot ==
  /\ pc = "final"
  /\ \/ tickId = 0 /\ UNCHANGED <<snap, faultVars>>
     \/ tickId > 0 /\ snap' = FinalSnapshotOf(tickId, count) /\ UNCHANGED faultVars
     \/ tickId > 0 /\ JournalFails /\ UNCHANGED snap
  /\ missed' = 0
  /\ Forgotten
  /\ UNCHANGED <<cmds, noted, lost, finished, began>>

(* Ctrl+C, or an exception of the command store, anywhere in the loop.     *)
Interrupted ==
  /\ pc \notin {"off", "final"}
  /\ kills + interrupts + unwritten < MaxFaults
  /\ interrupts' = interrupts + 1
  /\ pc' = "final"
  /\ UNCHANGED <<diskVars, memoryVars, kills, unwritten, missed>>

(* The container stops or the machine does: no finally block.              *)
Killed ==
  /\ pc # "off"
  /\ kills + interrupts + unwritten < MaxFaults
  /\ kills' = kills + 1
  /\ Forgotten
  /\ missed' = 0
  /\ UNCHANGED <<diskVars, interrupts, unwritten>>

LoopStep ==
  \/ Start \/ MaxTicksReached \/ Drain \/ ApplyCommand \/ MarkCommand \/ DrainEnds
  \/ SleepPaused \/ TickStarted \/ TickReturns \/ TickRaises
  \/ Snapshot \/ Advance \/ AdvanceAfterError \/ FinalSnapshot

Next == LoopStep \/ Issue \/ Interrupted \/ Killed

Spec == Init /\ [][Next]_vars

(* The loop runs on by itself, and docker-compose restarts it when it ends *)
(* (restart: unless-stopped).  Nobody owes a command or a fault.           *)
FairSpec == Spec /\ WF_vars(LoopStep)
-----------------------------------------------------------------------------
(* Properties.                                                             *)

TypeOK ==
  /\ cmds \in Seq(Command) /\ Len(cmds) <= MaxCommands
  /\ snap \in [tick : Int, count : Counters]
  /\ snap.tick >= -1 /\ snap.tick < StopAt
  /\ noted \in [1..MaxCommands -> Nat] /\ lost \subseteq 1..MaxCommands
  /\ finished \in [TickIds -> Nat]
  /\ began \in Nat
  /\ pc \in Stage
  /\ paused \in BOOLEAN /\ force \in BOOLEAN
  /\ batch \subseteq 1..Len(cmds)
  /\ result \in CommandStatus
  /\ tickId \in TickIds
  /\ pc \in {"drain", "mark", "decide", "tick", "counted", "errored", "advance"} =>
       tickId < StopAt
  /\ count \in Counters
  /\ kills \in Nat /\ interrupts \in Nat /\ unwritten \in Nat
  /\ kills + interrupts + unwritten <= MaxFaults
  /\ missed \in Nat

(* The pause survives restarts: whenever the loop is between two commands, *)
(* what it has in memory is what the log says was applied last.            *)
PauseSurvives ==
  pc \notin {"off", "mark", "final"} => paused = LatestPauseState(cmds)

(* The journal tells which commands did something: one that was consumed   *)
(* as ok is in it, or its event was one of those that could not be         *)
(* written; one that was ignored is not; and none is in it more often than *)
(* processes applied it, however often the loop died between journal and   *)
(* log.                                                                    *)
JournalMatchesLog ==
  \A c \in 1..Len(cmds) :
    /\ cmds[c].status = "ok" => noted[c] > 0 \/ c \in lost
    /\ cmds[c].status = "ignored" => noted[c] = 0
    /\ noted[c] <= 1 + kills + interrupts

(* Resuming skips no tick and repeats one only after a fault: each tick    *)
(* before the one at hand has ended, and none more often than there were   *)
(* faults, plus one.                                                       *)
TicksAccounted ==
  /\ \A t \in TickIds : t < tickId \/ t <= snap.tick => finished[t] > 0
  /\ \A t \in TickIds : finished[t] <= 1 + kills + interrupts + unwritten

(* The counters count the ticks; they run ahead of the tick id by at most  *)
(* one for each interrupt that fell between the two increments.            *)
Total(counters) == counters.ticked + counters.errors

CountersMatchTicks ==
  /\ pc \in {"top", "drain", "mark", "decide", "tick"} =>
       Total(count) - tickId \in 0..interrupts
  /\ Total(snap.count) - (snap.tick + 1) \in 0..interrupts

(* What a kill makes the loop forget: less than SnapshotEvery ticks, and   *)
(* as many again for each snapshot that an error has skipped or that could *)
(* not be written.                                                         *)
LossBound ==
  pc = "top" => tickId - (snap.tick + 1) < SnapshotEvery * (1 + missed)

(* The loop does what LoopControl promises the console.                    *)
Control == INSTANCE LoopControl WITH
  log <- [c \in 1..Len(cmds) |-> cmds[c].kind],
  applied <- Consumed(cmds),
  permit <- force /\ pc \in {"drain", "mark", "decide"},
  ticks <- began

ObeysConsole == Control!Spec

(* Every command is consumed in the end, unless --max-ticks is reached.    *)
TicksExhausted == snap.tick + 1 >= StopAt

CommandsServed ==
  \A c \in 1..MaxCommands :
    (c \in Unconsumed(cmds)) ~> (c \in Consumed(cmds) \/ TicksExhausted)

(* A trigger_tick is followed by a tick even while the loop is paused,     *)
(* once nothing kills the loop between the log and the tick any more.      *)
TriggersServed ==
  \A c \in 1..MaxCommands :
    (/\ c \in Unconsumed(cmds) /\ cmds[c].kind = "trigger_tick"
     /\ kills + interrupts + unwritten = MaxFaults)
      ~> ((c \in Consumed(cmds) /\ pc = "tick") \/ TicksExhausted)

-----------------------------------------------------------------------------
(* What the repository's texts say and the code does not do.               *)

(* journal.py: a snapshot of the counters every N ticks, to resume from.   *)
(* A kill would then never cost N ticks or more.                           *)
SnapshotEveryNTicks == pc = "top" => tickId - (snap.tick + 1) < SnapshotEvery
=============================================================================
