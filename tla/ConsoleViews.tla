----------------------------- MODULE ConsoleViews -----------------------------
(***************************************************************************)
(* What the console tells of a running agent (webui/routers/): the list of  *)
(* goals and the universal search, the dashboards of self-generation, of    *)
(* standing goals and of reflection, and the live feed of the journal.      *)
(* Each of them joins several reads, of the table of goals and of the tick  *)
(* journal, while run-loop ticks, a run-tick beside it creates goals, and   *)
(* operators write statuses.  A request writes nothing, so that one at a    *)
(* time stands for any number.                                             *)
(***************************************************************************)
EXTENDS Integers, Sequences, FiniteSets

CONSTANTS
  FeedLimit,   \* events that one poll of the feed returns: 50 in the code
  SpawnLimit,  \* GOAL_SPAWNED events that the reflect explorer is given: 500
  MaxGoals,    \* bound: rows of the table of goals
  MaxMoves,    \* bound: ticks started and statuses written, together
  MaxFaults    \* bound: appends that fail, ticks that raise, kills

ASSUME ViewsAssumption ==
  /\ {FeedLimit, SpawnLimit} \subseteq Nat \ {0}
  /\ {MaxGoals, MaxMoves, MaxFaults} \subseteq Nat

Statuses == {"pending_approval", "pending", "active", "done", "failed", "abandoned"}
Originator == {"operator", "standing", "reflect"}

VARIABLES
  goals,       \* table goals: [by, status]; the id is the place
  journal,     \* table tick_events: [type, tick, goal]; the id is the place, and the time
  pc,          \* stage of run-loop: "idle", "tick", "report"
  tick,        \* its tick id
  spawned,     \* state.spawned_goals of the tick, as far as not reported
  page,        \* the request for a page, see NoPage
  feed,        \* the request for the live feed, see NoFeed
  unreported,  \* history: spawned goals whose event will never be written
  unstarted,   \* history: TICK_STARTED events that could not be written
  moves,       \* history: ticks started and statuses written
  faults       \* history: appends that failed, ticks that raised, kills

agent == <<goals, journal, pc, tick, spawned, unreported, unstarted, moves, faults>>
vars == <<agent, page, feed>>

NoPage == [view |-> "none", next |-> 1, known |-> 0, since |-> 0, at |-> 0,
           shown |-> {}, events |-> {}, starts |-> 0, gone |-> {},
           back |-> {}, wrote |-> <<>>]
NoFeed == [on |-> FALSE, since |-> 0, from |-> 1, at |-> 0, batch |-> <<>>,
           sent |-> {}, dropped |-> 0]

Init ==
  /\ goals \in {<<>>} \cup {<<[by |-> "operator", status |-> s]>> : s \in Statuses}
  /\ journal = <<>>
  /\ pc = "idle" /\ tick = 0 /\ spawned = <<>>
  /\ page = NoPage /\ feed = NoFeed
  /\ unreported = {} /\ unstarted = 0 /\ moves = 0 /\ faults = 0

RangeOf(s) == {s[i] : i \in DOMAIN s}
Row(by) == [by |-> by, status |-> "pending"]
Event(type, g) == [type |-> type, tick |-> tick, goal |-> g]

-----------------------------------------------------------------------------
(* run-loop.  An append fails open: the loop goes on without the event.     *)

AppendFails == faults < MaxFaults /\ faults' = faults + 1 /\ UNCHANGED journal
Appended(e) == journal' = Append(journal, e) /\ UNCHANGED faults

StartTick ==
  /\ pc = "idle" /\ moves < MaxMoves
  /\ moves' = moves + 1
  /\ pc' = "tick"
  /\ \/ Appended(Event("tick_started", 0)) /\ UNCHANGED unstarted
     \/ AppendFails /\ unstarted' = unstarted + 1
  /\ UNCHANGED <<goals, tick, spawned, unreported, page, feed>>

(* The standing check and the reflection on a failure: the goal is created, *)
(* and remembered for the journal.                                          *)
SpawnGoal ==
  /\ pc = "tick" /\ Len(goals) < MaxGoals
  /\ \E by \in {"standing", "reflect"} : goals' = Append(goals, Row(by))
  /\ spawned' = Append(spawned, Len(goals) + 1)
  /\ UNCHANGED <<journal, pc, tick, unreported, unstarted, moves, faults, page, feed>>

TickReturns ==
  /\ pc = "tick"
  /\ pc' = "report"
  /\ UNCHANGED <<goals, journal, tick, spawned, unreported, unstarted, moves, faults, page, feed>>

ReportSpawnTwice ==
  /\ pc = "report" /\ spawned # <<>>
  /\ Appended(Event("goal_spawned", Head(spawned)))
  /\ spawned' \in {spawned, Tail(spawned)}
  /\ UNCHANGED <<goals, pc, tick, unreported, unstarted, moves, page, feed>>

ReportSpawn ==
  /\ pc = "report" /\ spawned # <<>>
  /\ \/ Appended(Event("goal_spawned", Head(spawned))) /\ UNCHANGED unreported
     \/ AppendFails /\ unreported' = unreported \cup {Head(spawned)}
  /\ spawned' = Tail(spawned)
  /\ UNCHANGED <<goals, pc, tick, unstarted, moves, page, feed>>

(* TICK_DONE or TICK_IDLE, and the next id.                                 *)
EndTick ==
  /\ pc = "report" /\ spawned = <<>>
  /\ Appended(Event("tick_ended", 0)) \/ AppendFails
  /\ pc' = "idle" /\ tick' = tick + 1
  /\ UNCHANGED <<goals, spawned, unreported, unstarted, moves, page, feed>>

(* The tick raises: its state is lost, with the goals it spawned.           *)
TickRaises ==
  /\ pc = "tick" /\ faults < MaxFaults
  /\ faults' = faults + 1
  /\ journal' \in {journal, Append(journal, Event("error", 0))}
  /\ unreported' = unreported \cup RangeOf(spawned)
  /\ spawned' = <<>>
  /\ pc' = "idle" /\ tick' = tick + 1
  /\ UNCHANGED <<goals, unstarted, moves, page, feed>>

(* The process is killed and resumes after the tick of some snapshot.       *)
Killed ==
  /\ faults < MaxFaults
  /\ faults' = faults + 1
  /\ unreported' = unreported \cup RangeOf(spawned)
  /\ spawned' = <<>>
  /\ pc' = "idle" /\ tick' \in 0..tick
  /\ UNCHANGED <<goals, journal, unstarted, moves, page, feed>>

-----------------------------------------------------------------------------
(* Pages.  The reads of each, in their order: one query for each status, in *)
(* the order of GoalStatus; the GOAL_SPAWNED and TICK_STARTED events of the *)
(* window; the goals that the events name.                                  *)

ScanOrder == <<"pending", "pending_approval", "active", "done", "failed", "abandoned">>
ScanNewestFirst == <<"abandoned", "failed", "done", "active", "pending_approval", "pending">>

ReadsStartsFirst ==
  [list_goals |-> ScanOrder, universal_search |-> ScanOrder,
   self_gen_dashboard |-> <<"starts", "spawns", "rows">>,
   standing_dashboard |-> <<"spawns", "rows">>, reflect_explorer |-> <<"spawns", "rows">>]

ReadsBackwards ==
  [list_goals |-> ScanNewestFirst, universal_search |-> ScanNewestFirst,
   self_gen_dashboard |-> <<"spawns", "starts", "rows">>,
   standing_dashboard |-> <<"spawns", "rows">>, reflect_explorer |-> <<"spawns", "rows">>]

Reads ==
  [list_goals |-> ScanOrder, universal_search |-> ScanOrder,
   self_gen_dashboard |-> <<"spawns", "starts", "rows">>,
   standing_dashboard |-> <<"spawns", "rows">>, reflect_explorer |-> <<"spawns", "rows">>]

Views == DOMAIN Reads
Scans == {"list_goals", "universal_search"}
Windowed == {"self_gen_dashboard", "reflect_explorer"}
Done == page.view \in Views /\ page.next > Len(Reads[page.view])

-----------------------------------------------------------------------------
(* Others: an operator enters a goal; run-tick, which has no journal,       *)
(* spawns one; anybody writes a status.  A whole row is written back, so    *)
(* that a copy which has become stale puts any status over any other.       *)

EnterGoal ==
  /\ Len(goals) < MaxGoals
  /\ goals' = Append(goals, Row("operator"))
  /\ UNCHANGED <<journal, pc, tick, spawned, unreported, unstarted, moves, faults, page, feed>>

SpawnBeside ==
  /\ Len(goals) < MaxGoals
  /\ \E by \in {"standing", "reflect"} : goals' = Append(goals, Row(by))
  /\ unreported' = unreported \cup {Len(goals) + 1}
  /\ UNCHANGED <<journal, pc, tick, spawned, unstarted, moves, faults, page, feed>>

Later == [s \in Statuses |->
  CASE s = "pending_approval" -> {"pending", "abandoned"}
    [] s = "pending" -> {"active", "abandoned"}
    [] s = "active" -> {"done", "failed", "abandoned"}
    [] OTHER -> {}]
Stale == [s \in Statuses |-> Statuses \ (Later[s] \cup {s})]

(* GoalStatus has "pending" before "pending_approval": an approve between   *)
(* the first query of a scan and its second is seen by neither.             *)
ApprovedBetween(g, s) ==
  page.next = 2 /\ goals[g].status = "pending_approval" /\ s = "pending"

WriteStatus ==
  /\ moves < MaxMoves
  /\ moves' = moves + 1
  /\ \E g \in DOMAIN goals :
       /\ \E s \in Later[goals[g].status] \cup Stale[goals[g].status] :
            /\ goals' = [goals EXCEPT ![g].status = s]
            /\ page' = IF g \notin DOMAIN page.wrote \/ Done THEN page
                       ELSE [page EXCEPT !.wrote[g] = @ + 1,
                               !.back = IF s \in Stale[goals[g].status] \/ ApprovedBetween(g, s)
                                        THEN @ \cup {g} ELSE @]
  /\ UNCHANGED <<journal, pc, tick, spawned, unreported, unstarted, faults, feed>>

-----------------------------------------------------------------------------
(* A page is opened, reads, and is closed.  Requests only read, so that one *)
(* at a time is watched, a page or a feed.                                 *)

EventsSince(type, since) == {i \in DOMAIN journal : i > since /\ journal[i].type = type}

(* Whose spawns a page is about, by the originator in the event.            *)
Concerns(view, g) ==
  CASE view = "self_gen_dashboard" -> goals[g].by # "operator"
    [] view = "standing_dashboard" -> goals[g].by = "standing"
    [] view = "reflect_explorer" -> goals[g].by = "reflect"

(* The spawns that the limit keeps from the page.  It counts the events of  *)
(* every originator: the page looks for its own among what it is given.     *)
Crowded(view, since, at) ==
  IF view # "reflect_explorer" THEN {}
  ELSE {i \in 1..at : Cardinality({j \in EventsSince("goal_spawned", since) : i < j /\ j <= at})
                        >= SpawnLimit}

OpenPage ==
  /\ page.view = "none" /\ ~feed.on
  /\ \E v \in Views :
       \E since \in IF v \in Windowed THEN 0..Len(journal) ELSE {0} :
         page' = [NoPage EXCEPT !.view = v, !.since = since, !.known = Len(goals),
                                !.wrote = IF v \in Scans THEN [g \in DOMAIN goals |-> 0] ELSE <<>>]
  /\ UNCHANGED <<agent, feed>>

(* The list keeps every row it is given; the search passes over a goal that *)
(* it has already seen under another status.                                *)
RowsWith(s) ==
  {[goal |-> g, status |-> s] : g \in
     {h \in DOMAIN goals : /\ goals[h].status = s
                           /\ page.view = "universal_search" =>
                                \A x \in page.shown : x.goal # h}}

(* The next read of the page is r; afterwards, the page is p.               *)
Read(r, p) ==
  /\ page.view \in Views /\ ~Done
  /\ r = Reads[page.view][page.next]
  /\ page' = [p EXCEPT !.next = @ + 1]
  /\ UNCHANGED <<agent, feed>>

ReadStatus ==
  \E s \in Statuses : Read(s, [page EXCEPT !.shown = @ \cup RowsWith(s)])

ReadSpawns ==
  Read("spawns",
       [page EXCEPT !.at = Len(journal),
          !.events = {i \in EventsSince("goal_spawned", page.since) :
                        Concerns(page.view, journal[i].goal)}
                       \ Crowded(page.view, page.since, Len(journal))])

ReadStarts ==
  Read("starts",
       [page EXCEPT !.starts = Cardinality(EventsSince("tick_started", page.since))])

(* One look-up for each event; a goal that is not found is shown as gone.   *)
ReadRows ==
  Read("rows",
       [page EXCEPT !.gone = {i \in page.events : journal[i].goal \notin DOMAIN goals}])

(* The page is rendered; a store that fails ends it as well, with an error  *)
(* and nothing of the store shown.                                          *)
ClosePage ==
  /\ page.view \in Views
  /\ page' = NoPage
  /\ UNCHANGED <<agent, feed>>

-----------------------------------------------------------------------------
(* The live feed polls the journal for the events since the last one sent,  *)
(* that one included, newest first up to the limit, and sends them oldest   *)
(* first, with a yield after each.                                          *)

OpenFeed ==
  /\ page.view = "none" /\ ~feed.on
  /\ feed' = [NoFeed EXCEPT !.on = TRUE, !.since = Len(journal), !.at = Len(journal),
                            !.from = Len(journal) + 1]
  /\ UNCHANGED <<agent, page>>

PollFeed ==
  /\ feed.on /\ feed.batch = <<>> /\ feed.from <= Len(journal)
  /\ LET first == IF Len(journal) - FeedLimit + 1 > feed.from
                  THEN Len(journal) - FeedLimit + 1 ELSE feed.from
         burst == Len(journal) - feed.at IN
       feed' = [feed EXCEPT
         !.batch = [i \in 1..(Len(journal) - first + 1) |-> first + i - 1],
         !.at = Len(journal),
         !.dropped = @ + IF burst > FeedLimit THEN burst - FeedLimit ELSE 0]
  /\ UNCHANGED <<agent, page>>

SeenAsOfNow(id) == Len(journal) + 1

(* last_seen after an event was sent: its own time.                         *)
SeenAfter(id) == id

SendEvent ==
  /\ feed.batch # <<>>
  /\ feed' = [feed EXCEPT !.batch = Tail(@), !.sent = @ \cup {Head(feed.batch)},
                          !.from = SeenAfter(Head(feed.batch))]
  /\ UNCHANGED <<agent, page>>

CloseFeed ==
  /\ feed.on
  /\ feed' = NoFeed
  /\ UNCHANGED <<agent, page>>

Next ==
  \/ StartTick \/ SpawnGoal \/ TickReturns \/ ReportSpawn \/ EndTick \/ TickRaises \/ Killed
  \/ EnterGoal \/ SpawnBeside \/ WriteStatus
  \/ OpenPage \/ ReadStatus \/ ReadSpawns \/ ReadStarts \/ ReadRows \/ ClosePage
  \/ OpenFeed \/ PollFeed \/ SendEvent \/ CloseFeed

Spec == Init /\ [][Next]_vars

-----------------------------------------------------------------------------
(* The list of goals and the search read one status after the other while   *)
(* statuses are written.  A goal that was there when the page was opened is *)
(* shown, with two exceptions: a stale copy was written over its status     *)
(* meanwhile, or it was approved between the first query, for the pending   *)
(* goals, and the second, for the gated ones.  The search shows it once,    *)
(* the list at most once more for each write.                               *)
GoalsShown ==
  Done /\ page.view \in Scans =>
    \A g \in 1..page.known :
      LET shown == Cardinality({x \in page.shown : x.goal = g}) IN
        /\ g \notin page.back => shown > 0
        /\ shown <= IF page.view = "universal_search" THEN 1 ELSE 1 + page.wrote[g]

(* The dashboards take spawned goals from the journal.  Each is counted     *)
(* once, and still has its row.  A goal that was spawned before the page    *)
(* was opened is left out only if its event is out of the window, was       *)
(* written after the read, is crowded out by SpawnLimit later ones, is      *)
(* still to be written, or will never be: the append failed, the tick       *)
(* raised or was killed, or it was a run-tick's.                            *)
SpawnsTold ==
  Done /\ page.view \notin Scans =>
    /\ \A i, j \in page.events : journal[i].goal = journal[j].goal => i = j
    /\ page.gone = {}
    /\ \A g \in 1..page.known : Concerns(page.view, g) =>
         \/ \E i \in page.events : journal[i].goal = g
         \/ g \in unreported \cup RangeOf(spawned)
         \/ \E i \in EventsSince("goal_spawned", 0) :
              journal[i].goal = g /\ i \notin ((page.since + 1)..page.at)
                                                \ Crowded(page.view, page.since, page.at)

(* The self-generation rate, ticks that spawned by ticks started, is no     *)
(* more than 100 percent: both are counted from the journal, in two reads.  *)
(* Only a tick that began before the window, or whose TICK_STARTED could    *)
(* not be written, may spawn without having been counted.                   *)
RateBounded ==
  Done /\ page.view = "self_gen_dashboard" =>
    Cardinality({journal[i].tick : i \in page.events})
      <= page.starts + unstarted + (IF page.since > 0 THEN 1 ELSE 0)

(* Between two events sent, the live feed leaves out none that was written  *)
(* after it was opened, and it goes back to none but the last, unless more  *)
(* than FeedLimit events came between two polls: then as many are lost as   *)
(* were too many.                                                           *)
FeedTold ==
  LET batch == RangeOf(feed.batch) IN
    feed.on =>
      /\ \A i \in feed.sent, j \in batch : i <= j
      /\ Cardinality(((feed.since + 1)..feed.at) \ (feed.sent \cup batch)) <= feed.dropped

(* api_journal.py:61: every few seconds, the new events since last_seen.    *)
(* Violated: the comparison in recent_events admits the last one again.     *)
EventsSentOnce == RangeOf(feed.batch) \cap feed.sent = {}
=============================================================================
