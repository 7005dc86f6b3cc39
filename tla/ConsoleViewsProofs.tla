-------------------------- MODULE ConsoleViewsProofs --------------------------
(***************************************************************************)
(* Proofs about ConsoleViews: what the lists, the dashboards and the live   *)
(* feed tell of the agent, for any number of goals, ticks, writes and       *)
(* faults and any limit of the feed.                                       *)
(***************************************************************************)
EXTENDS ConsoleViews, FiniteSetTheorems, SequenceTheorems, TLAPS

EventTypes == {"tick_started", "goal_spawned", "tick_ended", "error"}
GoalRow == [by : Originator, status : Statuses]
EventRow == [type : EventTypes, tick : Nat, goal : Nat]

AgentTyped ==
  /\ goals \in Seq(GoalRow)
  /\ journal \in Seq(EventRow)
  /\ pc \in {"idle", "tick", "report"}
  /\ tick \in Nat
  /\ spawned \in Seq(Nat)
  /\ unstarted \in Nat

PageType ==
  [view : Views \cup {"none"}, next : Nat, known : Nat, since : Nat, at : Nat,
   shown : SUBSET [goal : Nat, status : Statuses], events : SUBSET Nat, starts : Nat,
   gone : SUBSET Nat, back : SUBSET Nat, wrote : UNION {[1..n -> Nat] : n \in Nat}]

FeedType ==
  [on : BOOLEAN, since : Nat, from : Nat, at : Nat, batch : Seq(Nat),
   sent : SUBSET Nat, dropped : Nat]

-----------------------------------------------------------------------------
(* The sequences that only grow.                                           *)
LEMMA Appending ==
  ASSUME NEW S, NEW s \in Seq(S), NEW e \in S
  PROVE  /\ Append(s, e) \in Seq(S)
         /\ Len(s) \in Nat /\ Len(Append(s, e)) = Len(s) + 1
         /\ DOMAIN s = 1..Len(s) /\ DOMAIN Append(s, e) = 1..(Len(s) + 1)
         /\ \A i \in 1..Len(s) : Append(s, e)[i] = s[i] /\ s[i] \in S
         /\ Append(s, e)[Len(s) + 1] = e
  OBVIOUS

LEMMA Dropping ==
  ASSUME NEW S, NEW s \in Seq(S), s # <<>>
  PROVE  /\ Head(s) \in S /\ Tail(s) \in Seq(S)
         /\ Len(s) \in Nat \ {0} /\ Len(Tail(s)) = Len(s) - 1
         /\ DOMAIN s = 1..Len(s) /\ DOMAIN Tail(s) = 1..(Len(s) - 1)
         /\ Head(s) = s[1]
         /\ \A i \in 1..(Len(s) - 1) : Tail(s)[i] = s[i + 1]
  OBVIOUS

(* What any step does to the journal and to the rows of goals: the journal  *)
(* is appended to, rows are added, and no row changes its originator.       *)
Grown ==
  /\ Len(journal) \in Nat /\ Len(journal') \in Nat /\ Len(journal) <= Len(journal')
  /\ DOMAIN journal = 1..Len(journal) /\ DOMAIN journal' = 1..Len(journal')
  /\ \A i \in 1..Len(journal) : journal'[i] = journal[i]
  /\ Len(goals) \in Nat /\ Len(goals') \in Nat /\ Len(goals) <= Len(goals')
  /\ DOMAIN goals = 1..Len(goals) /\ DOMAIN goals' = 1..Len(goals')
  /\ \A g \in 1..Len(goals) : goals'[g].by = goals[g].by
  /\ unstarted \in Nat /\ unstarted' \in Nat /\ unstarted <= unstarted'

LEMMA InitTyped == Init => AgentTyped
<1> SUFFICES ASSUME Init PROVE AgentTyped
  OBVIOUS
<1>1. goals \in Seq(GoalRow)
  <2>1. CASE goals = <<>>
    BY <2>1
  <2>2. ASSUME NEW s \in Statuses, goals = <<[by |-> "operator", status |-> s]>>
        PROVE  goals \in Seq(GoalRow)
    <3>1. [by |-> "operator", status |-> s] \in GoalRow
      BY DEF GoalRow, Originator
    <3> QED BY <2>2, <3>1
  <2> QED BY <2>1, <2>2 DEF Init
<1>2. journal \in Seq(EventRow) /\ spawned \in Seq(Nat)
  BY DEF Init
<1> QED BY <1>1, <1>2 DEF Init, AgentTyped

(* A step of run-loop, of a goal's creator or of a writer.                  *)
JournalStep ==
  journal' = journal \/ \E ty \in EventTypes, g \in Nat : journal' = Append(journal, Event(ty, g))

GoalsStep ==
  \/ goals' = goals
  \/ \E by \in Originator : goals' = Append(goals, Row(by))
  \/ \E g \in DOMAIN goals, s \in Statuses : goals' = [goals EXCEPT ![g].status = s]

LEMMA StepShape ==
  ASSUME AgentTyped, [Next]_vars
  PROVE  /\ JournalStep
         /\ GoalsStep
         /\ tick' \in Nat /\ pc' \in {"idle", "tick", "report"}
         /\ spawned' \in Seq(Nat)
         /\ unstarted' \in {unstarted, unstarted + 1}
<1> USE DEF AgentTyped, JournalStep, GoalsStep, EventTypes, Appended, AppendFails
<1>1. CASE StartTick
  BY <1>1 DEF StartTick
<1>2. CASE SpawnGoal
  <2>1. Append(spawned, Len(goals) + 1) \in Seq(Nat)
    OBVIOUS
  <2> QED BY <1>2, <2>1 DEF SpawnGoal, Originator
<1>3. CASE TickReturns
  BY <1>3 DEF TickReturns
<1>4. CASE ReportSpawn
  <2>1. Head(spawned) \in Nat /\ Tail(spawned) \in Seq(Nat)
    BY <1>4 DEF ReportSpawn
  <2> QED BY <1>4, <2>1 DEF ReportSpawn
<1>5. CASE EndTick
  BY <1>5 DEF EndTick
<1>6. CASE TickRaises
  BY <1>6 DEF TickRaises
<1>7. CASE Killed
  BY <1>7 DEF Killed
<1>8. CASE EnterGoal
  BY <1>8 DEF EnterGoal, Originator
<1>9. CASE SpawnBeside
  BY <1>9 DEF SpawnBeside, Originator
<1>10. CASE WriteStatus
  <2>1. \A s \in Statuses : Later[s] \cup Stale[s] \subseteq Statuses
    BY DEF Later, Stale, Statuses
  <2>2. \A g \in DOMAIN goals : goals[g].status \in Statuses
    <3>1. \A g \in DOMAIN goals : goals[g] \in GoalRow
      OBVIOUS
    <3> QED BY <3>1 DEF GoalRow
  <2>3. PICK g \in DOMAIN goals : \E s \in Later[goals[g].status] \cup Stale[goals[g].status] :
           goals' = [goals EXCEPT ![g].status = s]
    BY <1>10 DEF WriteStatus
  <2>4. \E s \in Statuses : goals' = [goals EXCEPT ![g].status = s]
    BY <2>1, <2>2, <2>3
  <2>5. UNCHANGED <<journal, pc, tick, spawned, unstarted>>
    BY <1>10 DEF WriteStatus
  <2> QED BY <2>3, <2>4, <2>5
<1>11. CASE UNCHANGED agent
  BY <1>11 DEF agent
<1>12. CASE OpenPage \/ ReadStatus \/ ReadSpawns \/ ReadStarts \/ ReadRows \/ ClosePage
  BY <1>11, <1>12 DEF OpenPage, ReadStatus, ReadSpawns, ReadStarts, ReadRows, ClosePage, Read
<1>13. CASE OpenFeed \/ PollFeed \/ SendEvent \/ CloseFeed
  BY <1>11, <1>13 DEF OpenFeed, PollFeed, SendEvent, CloseFeed
<1> QED BY <1>1, <1>2, <1>3, <1>4, <1>5, <1>6, <1>7, <1>8, <1>9, <1>10, <1>11, <1>12, <1>13
        DEF Next, vars

LEMMA StepGrows ==
  ASSUME AgentTyped, [Next]_vars
  PROVE  AgentTyped' /\ Grown
<1>1. /\ JournalStep /\ GoalsStep
      /\ tick' \in Nat /\ pc' \in {"idle", "tick", "report"} /\ spawned' \in Seq(Nat)
      /\ unstarted' \in {unstarted, unstarted + 1}
  BY StepShape
<1> DEFINE JournalGrows ==
      /\ journal' \in Seq(EventRow)
      /\ Len(journal) \in Nat /\ Len(journal') \in Nat /\ Len(journal) <= Len(journal')
      /\ DOMAIN journal = 1..Len(journal) /\ DOMAIN journal' = 1..Len(journal')
      /\ \A i \in 1..Len(journal) : journal'[i] = journal[i]
           GoalsGrow ==
      /\ goals' \in Seq(GoalRow)
      /\ Len(goals) \in Nat /\ Len(goals') \in Nat /\ Len(goals) <= Len(goals')
      /\ DOMAIN goals = 1..Len(goals) /\ DOMAIN goals' = 1..Len(goals')
      /\ \A g \in 1..Len(goals) : goals'[g].by = goals[g].by
<1>2. JournalGrows
  <2>1. CASE journal' = journal
    BY <2>1 DEF AgentTyped
  <2>2. ASSUME NEW ty \in EventTypes, NEW g \in Nat, journal' = Append(journal, Event(ty, g))
        PROVE  JournalGrows
    <3>1. Event(ty, g) \in EventRow
      BY DEF Event, EventRow, AgentTyped
    <3> QED BY <2>2, <3>1, Appending DEF AgentTyped
  <2> QED BY <1>1, <2>1, <2>2 DEF JournalStep
<1>3. GoalsGrow
  <2>1. CASE goals' = goals
    BY <2>1 DEF AgentTyped
  <2>2. ASSUME NEW by \in Originator, goals' = Append(goals, Row(by))
        PROVE  GoalsGrow
    <3>1. Row(by) \in GoalRow
      BY DEF Row, GoalRow, Statuses
    <3> QED BY <2>2, <3>1, Appending DEF AgentTyped
  <2>3. ASSUME NEW g \in DOMAIN goals, NEW s \in Statuses, goals' = [goals EXCEPT ![g].status = s]
        PROVE  GoalsGrow
    <3>1. goals[g] \in GoalRow /\ goals \in Seq(GoalRow)
      BY DEF AgentTyped
    <3>2. [goals[g] EXCEPT !.status = s] \in GoalRow
          /\ [goals[g] EXCEPT !.status = s].by = goals[g].by
      BY <3>1 DEF GoalRow
    <3>3. goals' = [goals EXCEPT ![g] = [goals[g] EXCEPT !.status = s]]
      BY <2>3
    <3> HIDE DEF GoalRow
    <3>4. /\ goals' \in Seq(GoalRow) /\ Len(goals') = Len(goals) /\ DOMAIN goals = 1..Len(goals)
          /\ DOMAIN goals' = 1..Len(goals') /\ Len(goals) \in Nat
      BY <3>1, <3>2, <3>3
    <3>5. \A h \in 1..Len(goals) : goals'[h].by = goals[h].by
      BY <3>2, <3>3, <3>4
    <3> QED BY <3>4, <3>5
  <2> QED BY <1>1, <2>1, <2>2, <2>3 DEF GoalsStep
<1> QED BY <1>1, <1>2, <1>3 DEF AgentTyped, Grown

-----------------------------------------------------------------------------
(* The live feed.  What is to be sent is the last stretch of what was read, *)
(* and what was sent lies before it.                                       *)
Missed == ((feed.since + 1)..feed.at) \ (feed.sent \cup RangeOf(feed.batch))

BatchOK ==
  LET n == Len(feed.batch) IN
    /\ n <= feed.at
    /\ \A i \in 1..n : feed.batch[i] = feed.at - n + i
    /\ n = 0 => feed.from \in {feed.at, feed.at + 1} /\ feed.from >= 1
    /\ \A i \in feed.sent : i <= feed.at /\ (n > 0 => i <= feed.at - n + 1)

FeedInv ==
  /\ feed \in FeedType
  /\ feed.batch # <<>> => feed.on
  /\ feed.on =>
       /\ feed.at <= Len(journal)
       /\ BatchOK
       /\ Cardinality(Missed) <= feed.dropped

LEMMA MissedFinite ==
  ASSUME feed \in FeedType
  PROVE  IsFiniteSet(Missed) /\ Cardinality(Missed) \in Nat
<1>1. feed.since + 1 \in Int /\ feed.at \in Int
  BY DEF FeedType
<1>2. IsFiniteSet((feed.since + 1)..feed.at)
  BY <1>1, FS_Interval
<1>3. Missed \subseteq (feed.since + 1)..feed.at
  BY DEF Missed
<1> QED BY <1>2, <1>3, FS_Subset, FS_CardinalityType

LEMMA OpenFeedKeeps ==
  ASSUME AgentTyped, FeedInv, OpenFeed
  PROVE  FeedInv'
<1>1. Len(journal) \in Nat /\ journal' = journal
  BY DEF AgentTyped, OpenFeed, agent
<1>2. /\ feed' \in FeedType /\ feed'.on /\ feed'.since = Len(journal) /\ feed'.at = Len(journal)
      /\ feed'.from = Len(journal) + 1 /\ feed'.batch = <<>> /\ feed'.sent = {} /\ feed'.dropped = 0
  <2>1. feed' = [on |-> TRUE, since |-> Len(journal), from |-> Len(journal) + 1, at |-> Len(journal),
                 batch |-> <<>>, sent |-> {}, dropped |-> 0]
    BY DEF OpenFeed, NoFeed
  <2>2. <<>> \in Seq(Nat)
    OBVIOUS
  <2>3. feed' \in FeedType
    BY <1>1, <2>1, <2>2 DEF FeedType
  <2> QED BY <2>1, <2>3
<1>3. Missed' = {}
  BY <1>1, <1>2 DEF Missed
<1>4. Cardinality(Missed') = 0
  BY <1>3, FS_EmptySet
<1>5. BatchOK'
  BY <1>1, <1>2 DEF BatchOK
<1> QED BY <1>1, <1>2, <1>4, <1>5 DEF FeedInv

LEMMA PollFeedKeeps ==
  ASSUME AgentTyped, FeedInv, PollFeed
  PROVE  FeedInv'
<1> DEFINE len == Len(journal)
           first == IF len - FeedLimit + 1 > feed.from THEN len - FeedLimit + 1 ELSE feed.from
           burst == len - feed.at
           lost == IF burst > FeedLimit THEN burst - FeedLimit ELSE 0
           batch == [i \in 1..(len - first + 1) |-> first + i - 1]
<1>1. len \in Nat /\ journal' = journal /\ FeedLimit \in Nat \ {0}
  BY ViewsAssumption DEF AgentTyped, PollFeed, agent
<1>2. /\ feed \in FeedType /\ feed.on /\ feed.batch = <<>> /\ Len(feed.batch) = 0
      /\ feed.from <= len /\ feed.at <= len
      /\ feed.from \in {feed.at, feed.at + 1} /\ feed.from >= 1
      /\ \A i \in feed.sent : i <= feed.at
      /\ Cardinality(Missed) <= feed.dropped
  BY DEF FeedInv, BatchOK, PollFeed
<1>3. /\ feed.at \in Nat /\ feed.from \in Nat /\ feed.since \in Nat /\ feed.dropped \in Nat
      /\ feed.sent \in SUBSET Nat
  BY <1>2 DEF FeedType
<1>4. first \in 1..len /\ first >= feed.from
  BY <1>1, <1>2, <1>3
<1>5. feed' = [feed EXCEPT
         !.batch = batch, !.at = len, !.dropped = @ + lost]
  BY DEF PollFeed
<1> HIDE DEF first
<1>6. batch \in Seq(Nat) /\ Len(batch) = len - first + 1 /\ lost \in Nat
  BY <1>1, <1>3, <1>4
<1>7. /\ feed' \in FeedType /\ feed'.on /\ feed'.since = feed.since /\ feed'.at = len
      /\ feed'.sent = feed.sent
      /\ feed'.batch = batch /\ feed'.dropped = feed.dropped + lost
  <2> HIDE DEF batch, lost
  <2>1. feed.dropped + lost \in Nat
    BY <1>3, <1>6
  <2> QED BY <1>1, <1>2, <1>5, <1>6, <2>1 DEF FeedType
<1>8. Len(feed'.batch) = len - first + 1
  BY <1>6, <1>7
<1>9. BatchOK'
  <2>1. len - first + 1 > 0 /\ len - first + 1 <= len
    BY <1>1, <1>4
  <2>2. \A i \in 1..(len - first + 1) : feed'.batch[i] = len - (len - first + 1) + i
    BY <1>1, <1>4, <1>7
  <2>3. \A i \in feed'.sent : i <= len /\ i <= len - (len - first + 1) + 1
    BY <1>1, <1>2, <1>3, <1>4, <1>7, SMTT(30)
  <2>4. len - first + 1 \in Nat \ {0}
    BY <1>1, <1>4
  <2> HIDE DEF batch, len
  <2> QED BY <1>7, <1>8, <2>1, <2>2, <2>3, <2>4 DEF BatchOK
<1>10. Missed' \subseteq Missed \cup ((feed.at + 1)..(first - 1))
  <2>1. ASSUME NEW i \in Missed', i \notin (feed.at + 1)..(first - 1)
        PROVE  i \in Missed
    <3>1. i \in (feed.since + 1)..len /\ i \notin feed.sent /\ i \notin RangeOf(feed'.batch)
      BY <1>7, <2>1 DEF Missed
    <3>2. ASSUME i >= first PROVE FALSE
      <4>1. i - first + 1 \in 1..(len - first + 1)
        BY <1>1, <1>3, <1>4, <3>1, <3>2
      <4>2. feed'.batch[i - first + 1] = i /\ DOMAIN feed'.batch = 1..(len - first + 1)
        BY <1>1, <1>3, <1>4, <1>7, <3>1, <4>1
      <4> QED BY <3>1, <4>1, <4>2 DEF RangeOf
    <3>3. i \in (feed.since + 1)..feed.at
      BY <1>1, <1>3, <1>4, <2>1, <3>1, <3>2
    <3>4. RangeOf(feed.batch) = {}
      BY <1>2 DEF RangeOf
    <3> QED BY <3>1, <3>3, <3>4 DEF Missed
  <2> QED BY <2>1
<1>11. Cardinality(Missed') <= feed'.dropped
  <2> DEFINE gap == (feed.at + 1)..(first - 1)
  <2>1. IsFiniteSet(Missed) /\ Cardinality(Missed) \in Nat
    BY <1>2, MissedFinite
  <2>2. IsFiniteSet(gap) /\ Cardinality(gap) = IF feed.at + 1 > first - 1 THEN 0 ELSE first - 1 - feed.at
    <3>1. feed.at + 1 \in Int /\ first - 1 \in Int
      BY <1>3, <1>4
    <3>2. IsFiniteSet(gap)
          /\ Cardinality(gap) = IF feed.at + 1 > first - 1 THEN 0 ELSE first - 1 - (feed.at + 1) + 1
      BY <3>1, FS_Interval
    <3> QED BY <1>3, <1>4, <3>2
  <2>3. Cardinality(gap) \in Nat /\ Cardinality(gap) <= lost
    BY <1>1, <1>2, <1>3, <1>4, <2>2, SMTT(30) DEF first
  <2> HIDE DEF gap, lost
  <2>4. IsFiniteSet(Missed \cup gap) /\ Cardinality(Missed \cup gap) <= Cardinality(Missed) + Cardinality(gap)
    <3>1. Cardinality(Missed \cup gap) = Cardinality(Missed) + Cardinality(gap) - Cardinality(Missed \cap gap)
          /\ IsFiniteSet(Missed \cup gap)
      BY <2>1, <2>2, FS_Union
    <3>2. Cardinality(Missed \cap gap) \in Nat
      BY <2>1, FS_Intersection, FS_CardinalityType
    <3> QED BY <2>1, <2>3, <3>1, <3>2
  <2>5. Cardinality(Missed') <= Cardinality(Missed \cup gap) /\ IsFiniteSet(Missed')
    BY <1>10, <2>4, FS_Subset DEF gap
  <2>6. Cardinality(Missed') \in Nat /\ Cardinality(Missed \cup gap) \in Nat
    BY <2>4, <2>5, FS_CardinalityType
  <2> DEFINE a == Cardinality(Missed)
             b == Cardinality(gap)
             c == Cardinality(Missed \cup gap)
             d == Cardinality(Missed')
  <2>7. a \in Nat /\ b \in Nat /\ c \in Nat /\ d \in Nat /\ lost \in Nat
        /\ d <= c /\ c <= a + b /\ b <= lost /\ a <= feed.dropped
    BY <1>2, <1>6, <2>1, <2>3, <2>4, <2>5, <2>6
  <2> HIDE DEF a, b, c, d
  <2>8. d <= feed.dropped + lost
    BY <1>3, <2>7
  <2> QED BY <1>7, <2>8 DEF d
<1> QED BY <1>1, <1>7, <1>9, <1>11 DEF FeedInv

LEMMA SendEventKeeps ==
  ASSUME AgentTyped, FeedInv, SendEvent
  PROVE  FeedInv'
<1> DEFINE n == Len(feed.batch)
<1>1. feed.batch # <<>> /\ journal' = journal /\ feed \in FeedType /\ feed.on
  BY DEF SendEvent, agent, FeedInv
<1>2. /\ feed.batch \in Seq(Nat) /\ n \in Nat \ {0} /\ feed.at \in Nat /\ n <= feed.at
      /\ feed.sent \in SUBSET Nat /\ feed.from \in Nat
      /\ \A i \in 1..n : feed.batch[i] = feed.at - n + i
      /\ \A i \in feed.sent : i <= feed.at - n + 1
  BY <1>1 DEF FeedType, FeedInv, BatchOK
<1>3. Head(feed.batch) = feed.at - n + 1
  BY <1>2
<1>4. /\ Tail(feed.batch) \in Seq(Nat) /\ Len(Tail(feed.batch)) = n - 1
      /\ DOMAIN feed.batch = 1..n /\ DOMAIN Tail(feed.batch) = 1..(n - 1)
      /\ Head(feed.batch) = feed.batch[1]
      /\ \A i \in 1..(n - 1) : Tail(feed.batch)[i] = feed.batch[i + 1]
  BY <1>1, <1>2, Dropping
<1>5. /\ feed' \in FeedType /\ feed'.on /\ feed'.since = feed.since /\ feed'.at = feed.at
      /\ feed'.sent = feed.sent \cup {Head(feed.batch)}
      /\ feed'.batch = Tail(feed.batch) /\ feed'.dropped = feed.dropped
      /\ feed'.from = Head(feed.batch)
  <2>1. Head(feed.batch) \in Nat
    BY <1>2, <1>3
  <2> QED BY <1>1, <1>2, <1>4, <2>1 DEF SendEvent, SeenAfter, FeedType
<1>6. BatchOK'
  <2>1. Len(feed'.batch) = n - 1
    BY <1>4, <1>5
  <2>2. \A i \in 1..(n - 1) : feed'.batch[i] = feed'.at - (n - 1) + i
    <3> SUFFICES ASSUME NEW i \in 1..(n - 1) PROVE feed'.batch[i] = feed'.at - (n - 1) + i
      OBVIOUS
    <3>1. i + 1 \in 1..n /\ i \in Nat
      BY <1>2
    <3>2. feed.batch[i + 1] = feed.at - n + (i + 1)
      BY <1>2, <3>1
    <3>3. feed'.batch[i] = feed.batch[i + 1]
      BY <1>4, <1>5
    <3>4. n \in Nat /\ feed.at \in Nat /\ feed'.at = feed.at
      BY <1>2, <1>5
    <3> HIDE DEF n
    <3> QED BY <3>1, <3>2, <3>3, <3>4
  <2>3. n - 1 = 0 => feed'.from = feed'.at /\ feed'.from >= 1
    BY <1>2, <1>3, <1>5, SMTT(30)
  <2>4. \A i \in feed'.sent : i <= feed'.at /\ (n - 1 > 0 => i <= feed'.at - (n - 1) + 1)
    BY <1>2, <1>3, <1>5, SMTT(30)
  <2>5. n - 1 \in Nat /\ n - 1 <= feed'.at
    BY <1>2, <1>5
  <2> HIDE DEF n
  <2> QED BY <2>1, <2>2, <2>3, <2>4, <2>5 DEF BatchOK
<1>7. Missed' = Missed
  <2>1. \A i \in 1..n : i = 1 \/ i - 1 \in 1..(n - 1)
    BY <1>2
  <2>2. RangeOf(feed.batch) = {Head(feed.batch)} \cup RangeOf(Tail(feed.batch))
    <3>1. ASSUME NEW i \in 1..n PROVE feed.batch[i] \in {Head(feed.batch)} \cup RangeOf(Tail(feed.batch))
      <4>1. CASE i = 1
        BY <1>4, <4>1
      <4>2. CASE i # 1
        <5>1. i - 1 \in 1..(n - 1) /\ (i - 1) + 1 = i
          BY <1>2, <4>2
        <5> QED BY <1>4, <5>1 DEF RangeOf
      <4> QED BY <4>1, <4>2
    <3>2. ASSUME NEW i \in 1..(n - 1) PROVE Tail(feed.batch)[i] \in RangeOf(feed.batch)
      <4>1. i + 1 \in 1..n
        BY <1>2
      <4> QED BY <1>4, <4>1 DEF RangeOf
    <3>3. 1 \in 1..n
      BY <1>2
    <3> QED BY <1>4, <3>1, <3>2, <3>3 DEF RangeOf
  <2> QED BY <1>5, <2>2 DEF Missed
<1> QED BY <1>1, <1>5, <1>6, <1>7 DEF FeedInv

(* Between two events sent, the live feed leaves out no more than came too  *)
(* many between two polls, and it goes back to none but the last.           *)
THEOREM FeedIsTold == Spec => []FeedTold
<1>1. Init => FeedInv
  BY DEF Init, NoFeed, FeedInv, FeedType
<1>2. AgentTyped /\ FeedInv /\ [Next]_vars => FeedInv'
  <2> SUFFICES ASSUME AgentTyped, FeedInv, [Next]_vars PROVE FeedInv'
    OBVIOUS
  <2>1. Grown
    BY StepGrows
  <2>2. CASE UNCHANGED feed
    <3>1. feed.at \in Nat
      BY DEF FeedInv, FeedType
    <3>2. Missed' = Missed /\ BatchOK' = BatchOK
      BY <2>2 DEF Missed, BatchOK
    <3> QED BY <2>1, <2>2, <3>1, <3>2 DEF Grown, FeedInv
  <2>3. CASE CloseFeed
    BY <2>3 DEF CloseFeed, NoFeed, FeedInv, FeedType
  <2>4. UNCHANGED feed \/ OpenFeed \/ PollFeed \/ SendEvent \/ CloseFeed
    BY DEF Next, vars, StartTick, SpawnGoal, TickReturns, ReportSpawn, EndTick, TickRaises, Killed,
           EnterGoal, SpawnBeside, WriteStatus, OpenPage, ReadStatus, ReadSpawns, ReadStarts,
           ReadRows, ClosePage, Read
  <2> QED BY <2>2, <2>3, <2>4, OpenFeedKeeps, PollFeedKeeps, SendEventKeeps
<1>3. FeedInv => FeedTold
  <2> SUFFICES ASSUME FeedInv, feed.on PROVE FeedTold
    BY DEF FeedTold
  <2>1. /\ feed.at \in Nat /\ Len(feed.batch) \in Nat /\ DOMAIN feed.batch = 1..Len(feed.batch)
        /\ feed.sent \in SUBSET Nat
    BY DEF FeedInv, FeedType
  <2>2. \A i \in feed.sent, j \in RangeOf(feed.batch) : i <= j
    <3> SUFFICES ASSUME NEW i \in feed.sent, NEW k \in 1..Len(feed.batch) PROVE i <= feed.batch[k]
      BY <2>1 DEF RangeOf
    <3>1. i <= feed.at - Len(feed.batch) + 1 /\ feed.batch[k] = feed.at - Len(feed.batch) + k
      BY <2>1 DEF FeedInv, BatchOK
    <3> QED BY <2>1, <3>1
  <2> QED BY <2>2 DEF FeedInv, FeedTold, Missed
<1>4. AgentTyped /\ [Next]_vars => AgentTyped'
  BY StepGrows
<1> QED BY InitTyped, <1>1, <1>2, <1>3, <1>4, PTL DEF Spec

-----------------------------------------------------------------------------
(* The journal and the goals that ticks spawn.                             *)
Told == {journal[i].goal : i \in EventsSince("goal_spawned", 0)}
TicksTold(s) == {journal[i].tick : i \in EventsSince("goal_spawned", s)}

(* A spawned goal is told once, is still to be told, or never will be.      *)
SpawnInv ==
  /\ Told \subseteq DOMAIN goals
  /\ \A i, j \in EventsSince("goal_spawned", 0) : journal[i].goal = journal[j].goal => i = j
  /\ \A i \in DOMAIN spawned : spawned[i] \in DOMAIN goals \ Told
  /\ \A i, j \in DOMAIN spawned : spawned[i] = spawned[j] => i = j
  /\ \A g \in DOMAIN goals :
       goals[g].by # "operator" => g \in Told \cup RangeOf(spawned) \cup unreported

LEMMA EventsAppended ==
  ASSUME AgentTyped, NEW ty \in EventTypes, NEW g \in Nat, journal' = Append(journal, Event(ty, g)),
         NEW type \in EventTypes, NEW s \in Nat
  PROVE  /\ type # ty => EventsSince(type, s)' = EventsSince(type, s)
         /\ s <= Len(journal) /\ type = ty =>
              EventsSince(type, s)' = EventsSince(type, s) \cup {Len(journal) + 1}
         /\ s > Len(journal) => EventsSince(type, s)' = {}
         /\ EventsSince(type, s) \subseteq 1..Len(journal)
         /\ \A i \in 1..Len(journal) : journal'[i] = journal[i]
         /\ journal'[Len(journal) + 1] = Event(ty, g)
         /\ Len(journal) \in Nat /\ Len(journal') = Len(journal) + 1
<1>1. Event(ty, g) \in EventRow /\ Event(ty, g).type = ty
  BY DEF Event, EventRow, AgentTyped
<1>2. /\ Len(journal) \in Nat /\ Len(journal') = Len(journal) + 1
      /\ DOMAIN journal = 1..Len(journal) /\ DOMAIN journal' = 1..(Len(journal) + 1)
      /\ \A i \in 1..Len(journal) : journal'[i] = journal[i]
      /\ journal'[Len(journal) + 1] = Event(ty, g)
  BY <1>1, Appending DEF AgentTyped
<1>3. EventsSince(type, s)' = {i \in 1..(Len(journal) + 1) : i > s /\ journal'[i].type = type}
  BY <1>2 DEF EventsSince
<1>4. EventsSince(type, s) = {i \in 1..Len(journal) : i > s /\ journal[i].type = type}
  BY <1>2 DEF EventsSince
<1>5. \A i \in 1..(Len(journal) + 1) : i \in 1..Len(journal) \/ i = Len(journal) + 1
  BY <1>2
<1>6. \A i \in 1..Len(journal) : journal'[i].type = journal[i].type /\ i \in 1..(Len(journal) + 1)
  BY <1>2
<1>7. journal'[Len(journal) + 1].type = ty /\ Len(journal) + 1 \in 1..(Len(journal) + 1)
      /\ Len(journal) + 1 \notin 1..Len(journal)
  BY <1>1, <1>2
<1>8. type # ty => EventsSince(type, s)' = EventsSince(type, s)
  BY <1>3, <1>4, <1>5, <1>6, <1>7
<1>9. s <= Len(journal) => Len(journal) + 1 > s
  BY <1>2
<1>10. s <= Len(journal) /\ type = ty =>
         EventsSince(type, s)' = EventsSince(type, s) \cup {Len(journal) + 1}
  BY <1>3, <1>4, <1>5, <1>6, <1>7, <1>9
<1>11. s > Len(journal) => EventsSince(type, s)' = {}
  BY <1>2, <1>3
<1> QED BY <1>2, <1>4, <1>8, <1>10, <1>11

(* What a step appends is no spawned goal, but for ReportSpawn.             *)
LEMMA ToldStays ==
  ASSUME AgentTyped,
         \/ journal' = journal
         \/ \E ty \in EventTypes \ {"goal_spawned"}, g \in Nat : journal' = Append(journal, Event(ty, g))
  PROVE  /\ Told' = Told
         /\ EventsSince("goal_spawned", 0)' = EventsSince("goal_spawned", 0)
         /\ \A i \in EventsSince("goal_spawned", 0) : journal'[i] = journal[i]
<1>1. CASE journal' = journal
  BY <1>1 DEF Told, EventsSince
<1>2. ASSUME NEW ty \in EventTypes \ {"goal_spawned"}, NEW g \in Nat,
             journal' = Append(journal, Event(ty, g))
      PROVE  /\ Told' = Told
             /\ EventsSince("goal_spawned", 0)' = EventsSince("goal_spawned", 0)
             /\ \A i \in EventsSince("goal_spawned", 0) : journal'[i] = journal[i]
  <2>1. "goal_spawned" \in EventTypes /\ ty \in EventTypes /\ ty # "goal_spawned" /\ 0 \in Nat
    BY DEF EventTypes
  <2>2. /\ EventsSince("goal_spawned", 0)' = EventsSince("goal_spawned", 0)
        /\ EventsSince("goal_spawned", 0) \subseteq 1..Len(journal)
        /\ \A i \in 1..Len(journal) : journal'[i] = journal[i]
    BY <1>2, <2>1, EventsAppended
  <2> QED BY <2>2, Zenon DEF Told
<1> QED BY <1>1, <1>2

(* Steps that neither spawn nor report.                                    *)
LEMMA SpawnInvStays ==
  ASSUME AgentTyped, SpawnInv, Grown,
         \/ journal' = journal
         \/ \E ty \in EventTypes \ {"goal_spawned"}, g \in Nat : journal' = Append(journal, Event(ty, g)),
         \/ spawned' = spawned /\ unreported \subseteq unreported'
         \/ spawned' = <<>> /\ unreported' = unreported \cup RangeOf(spawned),
         \A g \in DOMAIN goals' \ DOMAIN goals : goals'[g].by = "operator" \/ g \in unreported'
  PROVE  SpawnInv'
<1>1. /\ Told' = Told
      /\ EventsSince("goal_spawned", 0)' = EventsSince("goal_spawned", 0)
      /\ \A i \in EventsSince("goal_spawned", 0) : journal'[i] = journal[i]
  BY ToldStays
<1>2. DOMAIN goals \subseteq DOMAIN goals' /\ \A g \in DOMAIN goals : goals'[g].by = goals[g].by
  <2>1. 1..Len(goals) \subseteq 1..Len(goals')
    <3>1. Len(goals) \in Nat /\ Len(goals') \in Nat /\ Len(goals) <= Len(goals')
      BY DEF Grown
    <3> QED BY <3>1
  <2>2. DOMAIN goals = 1..Len(goals) /\ DOMAIN goals' = 1..Len(goals')
        /\ \A g \in 1..Len(goals) : goals'[g].by = goals[g].by
    BY DEF Grown
  <2> QED BY <2>1, <2>2, Zenon
<1>3. RangeOf(spawned) \cup unreported \subseteq RangeOf(spawned') \cup unreported'
  OBVIOUS
<1>4. spawned' = spawned \/ DOMAIN spawned' = {}
  OBVIOUS
<1>5. Told' \subseteq DOMAIN goals'
  BY <1>1, <1>2 DEF SpawnInv
<1>6. \A i, j \in EventsSince("goal_spawned", 0)' : journal'[i].goal = journal'[j].goal => i = j
  BY <1>1 DEF SpawnInv
<1>7. /\ \A i \in DOMAIN spawned' : spawned'[i] \in DOMAIN goals' \ Told'
      /\ \A i, j \in DOMAIN spawned' : spawned'[i] = spawned'[j] => i = j
  BY <1>1, <1>2, <1>4 DEF SpawnInv
<1>8. ASSUME NEW g \in DOMAIN goals', goals'[g].by # "operator"
      PROVE  g \in Told' \cup RangeOf(spawned') \cup unreported'
  <2>1. CASE g \in DOMAIN goals
    BY <1>1, <1>2, <1>3, <1>8, <2>1 DEF SpawnInv
  <2>2. CASE g \notin DOMAIN goals
    BY <1>8, <2>2
  <2> QED BY <2>1, <2>2
<1> QED BY <1>5, <1>6, <1>7, <1>8 DEF SpawnInv, RangeOf

LEMMA SpawnGoalKeeps ==
  ASSUME AgentTyped, SpawnInv, Grown, SpawnGoal
  PROVE  SpawnInv'
<1> DEFINE new == Len(goals) + 1
<1>1. /\ journal' = journal /\ unreported' = unreported /\ spawned' = Append(spawned, new)
  BY DEF SpawnGoal
<1>2. PICK by \in {"standing", "reflect"} : goals' = Append(goals, Row(by))
  BY DEF SpawnGoal
<1>3. /\ Len(goals) \in Nat /\ new \in Nat /\ DOMAIN goals = 1..Len(goals) /\ DOMAIN goals' = 1..new
      /\ \A g \in DOMAIN goals : goals'[g].by = goals[g].by
      /\ new \notin DOMAIN goals /\ new \in DOMAIN goals' /\ DOMAIN goals \subseteq DOMAIN goals'
  BY <1>2 DEF Grown, AgentTyped
<1>4. /\ Len(spawned) \in Nat /\ DOMAIN spawned = 1..Len(spawned) /\ DOMAIN spawned' = 1..(Len(spawned) + 1)
      /\ \A i \in 1..Len(spawned) : spawned'[i] = spawned[i]
      /\ spawned'[Len(spawned) + 1] = new
  BY <1>1, <1>3, Appending DEF AgentTyped
<1>5. Told' = Told /\ EventsSince("goal_spawned", 0)' = EventsSince("goal_spawned", 0)
  BY <1>1, ToldStays
<1> HIDE DEF new
<1>6. \A i \in DOMAIN spawned' : i \in DOMAIN spawned \/ i = Len(spawned) + 1
  BY <1>4
<1>7. RangeOf(spawned') = RangeOf(spawned) \cup {new}
  <2>1. \A i \in DOMAIN spawned : i \in DOMAIN spawned' /\ spawned'[i] = spawned[i]
    BY <1>4
  <2>2. Len(spawned) + 1 \in DOMAIN spawned'
    BY <1>4
  <2> QED BY <1>4, <1>6, <2>1, <2>2 DEF RangeOf
<1>8. \A g \in DOMAIN goals' : g \in DOMAIN goals \/ g = new
  BY <1>3 DEF new
<1>9. \A i \in DOMAIN spawned' : spawned'[i] \in DOMAIN goals' \ Told'
  BY <1>3, <1>4, <1>5, <1>6 DEF SpawnInv
<1>10. \A i, j \in DOMAIN spawned' : spawned'[i] = spawned'[j] => i = j
  BY <1>3, <1>4, <1>6 DEF SpawnInv
<1>11. \A g \in DOMAIN goals' :
         goals'[g].by # "operator" => g \in Told' \cup RangeOf(spawned') \cup unreported'
  BY <1>1, <1>3, <1>5, <1>7, <1>8 DEF SpawnInv
<1>12. Told' \subseteq DOMAIN goals'
  BY <1>3, <1>5 DEF SpawnInv
<1>13. \A i, j \in EventsSince("goal_spawned", 0)' : journal'[i].goal = journal'[j].goal => i = j
  BY <1>1, <1>5 DEF SpawnInv
<1> QED BY <1>9, <1>10, <1>11, <1>12, <1>13 DEF SpawnInv

LEMMA ReportSpawnKeeps ==
  ASSUME AgentTyped, SpawnInv, ReportSpawn
  PROVE  SpawnInv'
<1> DEFINE told == Head(spawned)
<1>1. spawned # <<>> /\ spawned' = Tail(spawned) /\ goals' = goals
  BY DEF ReportSpawn
<1>2. /\ told \in Nat /\ Len(spawned) \in Nat \ {0}
      /\ DOMAIN spawned = 1..Len(spawned) /\ DOMAIN spawned' = 1..(Len(spawned) - 1)
      /\ told = spawned[1] /\ \A i \in 1..(Len(spawned) - 1) : spawned'[i] = spawned[i + 1]
  BY <1>1, Dropping DEF AgentTyped
<1> HIDE DEF told
<1>3. 1 \in DOMAIN spawned /\ told \in DOMAIN goals \ Told
  BY <1>2 DEF SpawnInv
<1>4. \A i \in DOMAIN spawned' : i + 1 \in DOMAIN spawned /\ i + 1 # 1 /\ spawned'[i] = spawned[i + 1]
  BY <1>2
<1>5. RangeOf(spawned) \subseteq RangeOf(spawned') \cup {told}
  <2>1. \A i \in DOMAIN spawned : i = 1 \/ (i - 1 \in DOMAIN spawned' /\ spawned'[i - 1] = spawned[i])
    BY <1>2
  <2> QED BY <1>2, <2>1 DEF RangeOf
<1>6. \A i \in DOMAIN spawned' : spawned'[i] \in (DOMAIN goals \ Told) \ {told}
  BY <1>2, <1>3, <1>4 DEF SpawnInv
<1>7. \A i, j \in DOMAIN spawned' : spawned'[i] = spawned'[j] => i = j
  <2> SUFFICES ASSUME NEW i \in DOMAIN spawned', NEW j \in DOMAIN spawned', spawned'[i] = spawned'[j]
               PROVE  i = j
    OBVIOUS
  <2>1. i + 1 = j + 1
    BY <1>4 DEF SpawnInv
  <2> QED BY <1>2, <2>1
<1>8. CASE journal' = Append(journal, Event("goal_spawned", told)) /\ unreported' = unreported
  <2> DEFINE at == Len(journal) + 1
             E == EventsSince("goal_spawned", 0)
  <2>1. "goal_spawned" \in EventTypes /\ 0 \in Nat
    BY DEF EventTypes
  <2>2. /\ E' = E \cup {at} /\ E \subseteq 1..Len(journal) /\ at \notin 1..Len(journal)
        /\ \A i \in 1..Len(journal) : journal'[i] = journal[i]
        /\ journal'[at] = Event("goal_spawned", told)
    <3>1. Len(journal) \in Nat /\ 0 <= Len(journal)
      BY DEF AgentTyped
    <3> QED BY <1>2, <1>8, <2>1, <3>1, EventsAppended
  <2>3. journal'[at].goal = told
    BY <2>2 DEF Event
  <2>4. \A i \in E : journal'[i] = journal[i] /\ journal[i].goal \in Told
    BY <2>2 DEF Told
  <2>5. Told' = Told \cup {told}
    <3> HIDE DEF E
    <3>1. Told' = {journal'[i].goal : i \in E'}
      BY DEF Told, E
    <3>2. Told = {journal[i].goal : i \in E}
      BY DEF Told, E
    <3> HIDE DEF at
    <3> QED BY <2>2, <2>3, <2>4, <3>1, <3>2
  <2>6. \A i, j \in E' : journal'[i].goal = journal'[j].goal => i = j
    BY <1>3, <2>2, <2>3, <2>4 DEF SpawnInv
  <2>7. \A g \in DOMAIN goals' :
          goals'[g].by # "operator" => g \in Told' \cup RangeOf(spawned') \cup unreported'
    BY <1>1, <1>5, <1>8, <2>5 DEF SpawnInv
  <2>8. Told' \subseteq DOMAIN goals'
    BY <1>1, <1>3, <2>5 DEF SpawnInv
  <2>9. \A i \in DOMAIN spawned' : spawned'[i] \in DOMAIN goals' \ Told'
    BY <1>1, <1>6, <2>5
  <2> QED BY <1>7, <2>6, <2>7, <2>8, <2>9 DEF SpawnInv
<1>9. CASE journal' = journal /\ unreported' = unreported \cup {told}
  <2>1. Told' = Told /\ EventsSince("goal_spawned", 0)' = EventsSince("goal_spawned", 0)
    BY <1>9, ToldStays
  <2>2. \A g \in DOMAIN goals' :
          goals'[g].by # "operator" => g \in Told' \cup RangeOf(spawned') \cup unreported'
    BY <1>1, <1>5, <1>9, <2>1 DEF SpawnInv
  <2>3. \A i \in DOMAIN spawned' : spawned'[i] \in DOMAIN goals' \ Told'
    BY <1>1, <1>6, <2>1
  <2> QED BY <1>1, <1>7, <1>9, <2>1, <2>2, <2>3 DEF SpawnInv
<1> QED BY <1>8, <1>9 DEF ReportSpawn, Appended, AppendFails, told

LEMMA SpawnInvKept ==
  ASSUME AgentTyped, SpawnInv, [Next]_vars
  PROVE  SpawnInv'
<1>1. Grown
  BY StepGrows
<1> DEFINE Quiet ==
      /\ \/ journal' = journal
         \/ \E ty \in EventTypes \ {"goal_spawned"}, g \in Nat : journal' = Append(journal, Event(ty, g))
      /\ \/ spawned' = spawned /\ unreported \subseteq unreported'
         \/ spawned' = <<>> /\ unreported' = unreported \cup RangeOf(spawned)
      /\ \A g \in DOMAIN goals' \ DOMAIN goals : goals'[g].by = "operator" \/ g \in unreported'
<1>2. ASSUME Quiet PROVE SpawnInv'
  BY <1>1, <1>2, SpawnInvStays
<1>3. ASSUME goals' = goals PROVE \A g \in DOMAIN goals' \ DOMAIN goals : FALSE
  BY <1>3
<1>4. ASSUME NEW by \in Originator, goals' = Append(goals, Row(by))
      PROVE  \A g \in DOMAIN goals' \ DOMAIN goals : g = Len(goals) + 1 /\ goals'[g].by = by
  <2>1. goals \in Seq(GoalRow) /\ Row(by) \in GoalRow /\ Row(by).by = by
    BY DEF AgentTyped, Row, GoalRow, Statuses
  <2>2. /\ Len(goals) \in Nat /\ DOMAIN goals = 1..Len(goals) /\ DOMAIN goals' = 1..(Len(goals) + 1)
        /\ goals'[Len(goals) + 1] = Row(by)
    BY <1>4, <2>1, Appending
  <2> QED BY <2>1, <2>2
<1>5. /\ {"tick_started", "tick_ended", "error"} \subseteq EventTypes \ {"goal_spawned"} /\ 0 \in Nat
      /\ {"operator", "standing", "reflect"} \subseteq Originator
  BY DEF EventTypes, Originator
<1>6. CASE StartTick
  <2>1. goals' = goals /\ spawned' = spawned /\ unreported' = unreported
        /\ (journal' = Append(journal, Event("tick_started", 0)) \/ journal' = journal)
    BY <1>6 DEF StartTick, Appended, AppendFails
  <2> QED BY <1>2, <1>3, <1>5, <2>1
<1>7. CASE SpawnGoal
  BY <1>1, <1>7, SpawnGoalKeeps
<1>8. CASE ReportSpawn
  BY <1>8, ReportSpawnKeeps
<1>9. CASE EndTick
  <2>1. goals' = goals /\ spawned' = spawned /\ unreported' = unreported
        /\ (journal' = Append(journal, Event("tick_ended", 0)) \/ journal' = journal)
    BY <1>9 DEF EndTick, Appended, AppendFails
  <2> QED BY <1>2, <1>3, <1>5, <2>1
<1>10. CASE TickRaises
  <2>1. goals' = goals /\ spawned' = <<>> /\ unreported' = unreported \cup RangeOf(spawned)
        /\ (journal' = Append(journal, Event("error", 0)) \/ journal' = journal)
    BY <1>10 DEF TickRaises
  <2> QED BY <1>2, <1>3, <1>5, <2>1
<1>11. CASE Killed
  <2>1. goals' = goals /\ spawned' = <<>> /\ unreported' = unreported \cup RangeOf(spawned)
        /\ journal' = journal
    BY <1>11 DEF Killed
  <2> QED BY <1>2, <1>3, <2>1
<1>12. CASE EnterGoal
  <2>1. goals' = Append(goals, Row("operator")) /\ spawned' = spawned /\ unreported' = unreported
        /\ journal' = journal
    BY <1>12 DEF EnterGoal
  <2>2. \A g \in DOMAIN goals' \ DOMAIN goals : goals'[g].by = "operator"
    BY <1>4, <1>5, <2>1
  <2> QED BY <1>2, <2>1, <2>2
<1>13. CASE SpawnBeside
  <2>1. PICK by \in {"standing", "reflect"} : goals' = Append(goals, Row(by))
    BY <1>13 DEF SpawnBeside
  <2>2. spawned' = spawned /\ unreported' = unreported \cup {Len(goals) + 1} /\ journal' = journal
    BY <1>13 DEF SpawnBeside
  <2>3. \A g \in DOMAIN goals' \ DOMAIN goals : g \in unreported'
    BY <1>4, <1>5, <2>1, <2>2
  <2> QED BY <1>2, <2>2, <2>3
<1>14. CASE WriteStatus
  <2>1. spawned' = spawned /\ unreported' = unreported /\ journal' = journal
        /\ DOMAIN goals' = DOMAIN goals
    BY <1>14 DEF WriteStatus
  <2> QED BY <1>2, <2>1
<1>15. CASE UNCHANGED <<goals, journal, spawned, unreported>>
  BY <1>2, <1>15
<1>16. CASE TickReturns
  BY <1>15, <1>16 DEF TickReturns
<1>17. CASE OpenPage \/ ReadStatus \/ ReadSpawns \/ ReadStarts \/ ReadRows \/ ClosePage
  BY <1>15, <1>17 DEF OpenPage, ReadStatus, ReadSpawns, ReadStarts, ReadRows, ClosePage, Read, agent
<1>18. CASE OpenFeed \/ PollFeed \/ SendEvent \/ CloseFeed
  BY <1>15, <1>18 DEF OpenFeed, PollFeed, SendEvent, CloseFeed, agent
<1>19. CASE UNCHANGED vars
  BY <1>15, <1>19 DEF vars, agent
<1> QED BY <1>6, <1>7, <1>8, <1>9, <1>10, <1>11, <1>12, <1>13, <1>14, <1>16, <1>17, <1>18, <1>19
        DEF Next

-----------------------------------------------------------------------------
(* The rate of self-generation.  Whatever place of the journal the window   *)
(* begins after: of the ticks that told a goal since, all but one were      *)
(* started since, or could not write that they were.  A running tick is     *)
(* counted from its beginning.                                             *)
Allowed(s) == Cardinality(EventsSince("tick_started", s)) + unstarted + (IF s > 0 THEN 1 ELSE 0)

Spawning(s) == IF pc = "idle" THEN TicksTold(s) ELSE TicksTold(s) \cup {tick}

RateInv == \A s \in 0..Len(journal) : Cardinality(Spawning(s)) <= Allowed(s)

LEMMA EventsFinite ==
  ASSUME AgentTyped, NEW type, NEW s \in Nat
  PROVE  /\ IsFiniteSet(EventsSince(type, s)) /\ Cardinality(EventsSince(type, s)) \in Nat
         /\ IsFiniteSet(TicksTold(s)) /\ Cardinality(TicksTold(s)) \in Nat
         /\ Cardinality(TicksTold(s) \cup {tick}) \in Nat
         /\ Cardinality(TicksTold(s)) <= Cardinality(TicksTold(s) \cup {tick})
         /\ Cardinality(TicksTold(s) \cup {tick}) <= Cardinality(TicksTold(s)) + 1
<1>1. Len(journal) \in Nat /\ DOMAIN journal = 1..Len(journal)
  BY DEF AgentTyped
<1>2. \A t : EventsSince(t, s) \subseteq 1..Len(journal)
  BY <1>1 DEF EventsSince
<1>3. IsFiniteSet(1..Len(journal))
  BY <1>1, FS_Interval
<1>4. \A t : IsFiniteSet(EventsSince(t, s)) /\ Cardinality(EventsSince(t, s)) \in Nat
  BY <1>2, <1>3, FS_Subset, FS_CardinalityType
<1> DEFINE S == EventsSince("goal_spawned", s)
           f == [i \in S |-> journal[i].tick]
<1>5. TicksTold(s) = {f[i] : i \in S}
  BY DEF TicksTold
<1>6. IsFiniteSet(S)
  BY <1>4
<1> HIDE DEF S
<1>7. f \in Surjection(S, TicksTold(s))
  BY <1>5 DEF Surjection
<1> HIDE DEF f
<1>8. IsFiniteSet(TicksTold(s)) /\ Cardinality(TicksTold(s)) \in Nat
  BY <1>6, <1>7, FS_Surjection, FS_CardinalityType
<1>9. /\ IsFiniteSet(TicksTold(s) \cup {tick})
      /\ Cardinality(TicksTold(s) \cup {tick}) =
           IF tick \in TicksTold(s) THEN Cardinality(TicksTold(s)) ELSE Cardinality(TicksTold(s)) + 1
  BY <1>8, FS_AddElement
<1> QED BY <1>4, <1>8, <1>9

LEMMA RateInvKept ==
  ASSUME AgentTyped, RateInv, [Next]_vars
  PROVE  RateInv'
<1>0. AgentTyped' /\ Grown
  BY StepGrows
<1>1. Len(journal) \in Nat /\ Len(journal') \in Nat
  BY <1>0 DEF Grown
<1> DEFINE ticks(s) == Cardinality(TicksTold(s))
           running(s) == Cardinality(TicksTold(s) \cup {tick})
           starts(s) == Cardinality(EventsSince("tick_started", s))
(* Numbers, and what they bound.                                           *)
<1>2. \A s \in Nat : /\ ticks(s) \in Nat /\ running(s) \in Nat /\ starts(s) \in Nat
                     /\ ticks(s) <= running(s) /\ running(s) <= ticks(s) + 1
  BY EventsFinite
<1>3. \A s \in 0..Len(journal) :
        (IF pc = "idle" THEN ticks(s) ELSE running(s)) <= starts(s) + unstarted + (IF s > 0 THEN 1 ELSE 0)
  <2> SUFFICES ASSUME NEW s \in 0..Len(journal)
               PROVE  (IF pc = "idle" THEN ticks(s) ELSE running(s))
                        <= starts(s) + unstarted + (IF s > 0 THEN 1 ELSE 0)
    OBVIOUS
  <2>1. Cardinality(Spawning(s)) <= Allowed(s)
    BY DEF RateInv
  <2>2. Cardinality(Spawning(s)) = IF pc = "idle" THEN ticks(s) ELSE running(s)
    BY DEF Spawning
  <2> QED BY <2>1, <2>2 DEF Allowed
<1> DEFINE Counted(s) ==
      Cardinality(Spawning(s))' <= starts(s)' + unstarted' + (IF s > 0 THEN 1 ELSE 0)
<1>4. SUFFICES ASSUME NEW s \in 0..Len(journal') PROVE Counted(s)
  BY DEF RateInv, Allowed
<1>5. s \in Nat
  BY <1>1
(* A window that begins after the last event.                              *)
<1>6. ASSUME s > Len(journal) PROVE Counted(s)
  <2>1. PICK ty \in EventTypes, g \in Nat : journal' = Append(journal, Event(ty, g))
    BY <1>1, <1>6, StepShape DEF JournalStep
  <2>2. EventsSince("goal_spawned", s)' = {} /\ EventsSince("tick_started", s)' = {}
    <3>1. "goal_spawned" \in EventTypes /\ "tick_started" \in EventTypes
      BY DEF EventTypes
    <3> QED BY <1>5, <1>6, <2>1, <3>1, EventsAppended
  <2>3. TicksTold(s)' = {}
    BY <2>2 DEF TicksTold
  <2>4. starts(s)' = 0
    BY <2>2, FS_EmptySet
  <2>5. Cardinality(Spawning(s))' \in {0, 1}
    <3>1. Spawning(s)' = {} \/ Spawning(s)' = {tick'}
      BY <2>3 DEF Spawning
    <3> QED BY <3>1, FS_EmptySet, FS_Singleton
  <2>6. s > 0
    BY <1>1, <1>6, <1>5
  <2>7. unstarted' \in Nat
    BY <1>0 DEF AgentTyped
  <2> QED BY <2>4, <2>5, <2>6, <2>7
<1>7. ASSUME s <= Len(journal) PROVE Counted(s)
  <2>1. s \in 0..Len(journal)
    BY <1>1, <1>5, <1>7
  <2>2. /\ ticks(s) \in Nat /\ running(s) \in Nat /\ starts(s) \in Nat /\ unstarted \in Nat
        /\ ticks(s) <= running(s) /\ running(s) <= ticks(s) + 1
        /\ (IF pc = "idle" THEN ticks(s) ELSE running(s))
             <= starts(s) + unstarted + (IF s > 0 THEN 1 ELSE 0)
    BY <1>2, <1>3, <1>5, <2>1 DEF AgentTyped
  (* How a step moves the counts: nothing that is appended but a spawned     *)
  (* goal adds a tick, and nothing but a start adds a start.                 *)
  <2>3. ASSUME NEW ty \in EventTypes, NEW g \in Nat, journal' = Append(journal, Event(ty, g))
        PROVE  /\ TicksTold(s)' = IF ty = "goal_spawned" THEN TicksTold(s) \cup {tick} ELSE TicksTold(s)
               /\ starts(s)' = IF ty = "tick_started" THEN starts(s) + 1 ELSE starts(s)
    <3> DEFINE E == EventsSince("goal_spawned", s)
               F == EventsSince("tick_started", s)
               at == Len(journal) + 1
    <3>1. "goal_spawned" \in EventTypes /\ "tick_started" \in EventTypes
      BY DEF EventTypes
    <3>2. /\ ty # "goal_spawned" => E' = E
          /\ ty = "goal_spawned" => E' = E \cup {at}
          /\ ty # "tick_started" => F' = F
          /\ ty = "tick_started" => F' = F \cup {at}
          /\ E \subseteq 1..Len(journal) /\ F \subseteq 1..Len(journal)
          /\ \A i \in 1..Len(journal) : journal'[i] = journal[i]
          /\ journal'[at] = Event(ty, g)
      BY <1>5, <1>7, <2>3, <3>1, EventsAppended
    <3>3. journal'[at].tick = tick /\ at \notin 1..Len(journal)
      BY <1>1, <3>2 DEF Event
    <3>4. TicksTold(s) = {journal[i].tick : i \in E} /\ TicksTold(s)' = {journal'[i].tick : i \in E'}
      BY DEF TicksTold
    <3>5. IsFiniteSet(F)
      BY <1>5, EventsFinite
    <3>6. ty = "tick_started" => Cardinality(F') = Cardinality(F) + 1
      BY <3>2, <3>3, <3>5, FS_AddElement
    <3> HIDE DEF E, at
    <3>7. ty # "goal_spawned" => TicksTold(s)' = TicksTold(s)
      BY <3>2, <3>4
    <3>8. ASSUME ty = "goal_spawned" PROVE TicksTold(s)' = TicksTold(s) \cup {tick}
      <4>1. E' = E \cup {at} /\ \A i \in E : journal'[i].tick = journal[i].tick
        BY <3>2, <3>8
      <4> QED BY <3>3, <3>4, <4>1
    <3> QED BY <3>2, <3>6, <3>7, <3>8
  <2>4. ASSUME journal' = journal PROVE TicksTold(s)' = TicksTold(s) /\ starts(s)' = starts(s)
    BY <2>4 DEF TicksTold, EventsSince
  <2>5. /\ "tick_started" \in EventTypes /\ "tick_ended" \in EventTypes /\ "error" \in EventTypes
        /\ "goal_spawned" \in EventTypes /\ 0 \in Nat
    BY DEF EventTypes
  <2> HIDE DEF ticks, running, starts
  <2>6. CASE StartTick
    <3>1. pc = "idle" /\ pc' = "tick" /\ tick' = tick
      BY <2>6 DEF StartTick
    <3>2. \/ journal' = Append(journal, Event("tick_started", 0)) /\ unstarted' = unstarted
          \/ journal' = journal /\ unstarted' = unstarted + 1
      BY <2>6 DEF StartTick, Appended, AppendFails
    <3>3. TicksTold(s)' = TicksTold(s) /\ starts(s)' + unstarted' = starts(s) + unstarted + 1
      BY <2>2, <2>3, <2>4, <2>5, <3>2
    <3>4. Cardinality(Spawning(s))' = running(s)
      BY <3>1, <3>3 DEF Spawning, running
    <3>5. starts(s)' \in Int /\ unstarted' \in Int
      BY <2>2, <2>3, <2>4, <2>5, <3>2
    <3> QED BY <2>2, <3>1, <3>3, <3>4, <3>5
  <2>7. ASSUME pc # "idle", pc' # "idle", tick' = tick, unstarted' = unstarted,
               TicksTold(s)' \cup {tick} = TicksTold(s) \cup {tick}, starts(s)' = starts(s)
        PROVE  Counted(s)
    <3>1. Cardinality(Spawning(s))' = running(s)
      BY <2>7 DEF Spawning, running
    <3> QED BY <2>2, <2>7, <3>1
  <2>8. CASE ReportSpawn
    <3>1. pc = "report" /\ pc' = pc /\ tick' = tick /\ unstarted' = unstarted
      BY <2>8 DEF ReportSpawn
    <3>2. journal' = Append(journal, Event("goal_spawned", Head(spawned))) \/ journal' = journal
      BY <2>8 DEF ReportSpawn, Appended, AppendFails
    <3>3. Head(spawned) \in Nat
      BY <2>8, Dropping DEF ReportSpawn, AgentTyped
    <3>4. TicksTold(s)' \cup {tick} = TicksTold(s) \cup {tick} /\ starts(s)' = starts(s)
      <4>1. CASE journal' = journal
        BY <2>4, <4>1
      <4>2. CASE journal' = Append(journal, Event("goal_spawned", Head(spawned)))
        <5>1. TicksTold(s)' = TicksTold(s) \cup {tick} /\ starts(s)' = starts(s)
          BY <2>3, <2>5, <3>3, <4>2
        <5> QED BY <5>1, Zenon
      <4> QED BY <3>2, <4>1, <4>2
    <3> QED BY <2>7, <3>1, <3>4
  <2>9. CASE SpawnGoal \/ TickReturns
    <3>1. pc = "tick" /\ pc' # "idle" /\ tick' = tick /\ unstarted' = unstarted /\ journal' = journal
      BY <2>9 DEF SpawnGoal, TickReturns
    <3> QED BY <2>4, <2>7, <3>1
  <2>10. ASSUME pc' = "idle", unstarted' = unstarted,
                \/ journal' = journal
                \/ \E ty \in {"tick_ended", "error"} : journal' = Append(journal, Event(ty, 0))
         PROVE  Counted(s)
    <3>1. TicksTold(s)' = TicksTold(s) /\ starts(s)' = starts(s)
      BY <2>3, <2>4, <2>5, <2>10
    <3>2. Cardinality(Spawning(s))' = ticks(s)
      BY <2>10, <3>1 DEF Spawning, ticks
    <3> QED BY <2>2, <2>10, <3>1, <3>2
  <2>11. CASE EndTick \/ TickRaises \/ Killed
    BY <2>10, <2>11 DEF EndTick, TickRaises, Killed, Appended, AppendFails
  <2>12. CASE UNCHANGED <<journal, pc, tick, unstarted>>
    <3>1. TicksTold(s)' = TicksTold(s) /\ starts(s)' = starts(s)
      BY <2>4, <2>12
    <3>2. Cardinality(Spawning(s))' = IF pc = "idle" THEN ticks(s) ELSE running(s)
      BY <2>12, <3>1 DEF Spawning, ticks, running
    <3> QED BY <2>2, <2>12, <3>1, <3>2
  <2>13. CASE EnterGoal \/ SpawnBeside \/ WriteStatus
    BY <2>12, <2>13 DEF EnterGoal, SpawnBeside, WriteStatus
  <2>14. CASE UNCHANGED agent
    BY <2>12, <2>14 DEF agent
  <2>15. CASE OpenPage \/ ReadStatus \/ ReadSpawns \/ ReadStarts \/ ReadRows \/ ClosePage
    BY <2>14, <2>15 DEF OpenPage, ReadStatus, ReadSpawns, ReadStarts, ReadRows, ClosePage, Read
  <2>16. CASE OpenFeed \/ PollFeed \/ SendEvent \/ CloseFeed
    BY <2>14, <2>16 DEF OpenFeed, PollFeed, SendEvent, CloseFeed
  <2> QED BY <2>6, <2>8, <2>9, <2>11, <2>13, <2>14, <2>15, <2>16 DEF Next, vars
<1> QED BY <1>1, <1>5, <1>6, <1>7

-----------------------------------------------------------------------------
(* Pages.  A writer marks what it does to the goals of a scan; nobody else  *)
(* but the request touches its page.                                       *)
PageStep ==
  \/ OpenPage \/ ReadStatus \/ ReadSpawns \/ ReadStarts \/ ReadRows \/ ClosePage

LEMMA PageShape ==
  ASSUME [Next]_vars
  PROVE  \/ PageStep /\ UNCHANGED agent
         \/ WriteStatus
         \/ page' = page
  BY DEF PageStep, Next, vars, StartTick, SpawnGoal, TickReturns, ReportSpawn, EndTick, TickRaises, Killed,
         EnterGoal, SpawnBeside, OpenPage, ReadStatus, ReadSpawns, ReadStarts, ReadRows, ClosePage, Read,
         OpenFeed, PollFeed, SendEvent, CloseFeed

LEMMA OpenedPage ==
  ASSUME AgentTyped, OpenPage
  PROVE  \E v \in Views : \E since \in 0..Len(journal) :
           /\ page' \in PageType
           /\ page'.view = v /\ page'.since = since /\ page'.known = Len(goals) /\ page'.next = 1
           /\ page'.shown = {} /\ page'.events = {} /\ page'.gone = {} /\ page'.back = {}
           /\ v \in Scans => page'.wrote = [g \in DOMAIN goals |-> 0]
<1>1. Len(journal) \in Nat /\ Len(goals) \in Nat /\ DOMAIN goals = 1..Len(goals)
  BY DEF AgentTyped
<1> DEFINE Opened(v, since) ==
      page' = [NoPage EXCEPT !.view = v, !.since = since, !.known = Len(goals),
                             !.wrote = IF v \in Scans THEN [g \in DOMAIN goals |-> 0] ELSE <<>>]
<1>2. PICK v \in Views : \E since \in IF v \in Windowed THEN 0..Len(journal) ELSE {0} : Opened(v, since)
  BY DEF OpenPage
<1>3. PICK since \in 0..Len(journal) : Opened(v, since)
  <2> HIDE DEF Opened
  <2>1. 0 \in 0..Len(journal)
    BY <1>1
  <2> QED BY <1>2, <2>1
<1> DEFINE none == IF v \in Scans THEN [g \in DOMAIN goals |-> 0] ELSE <<>>
<1>4. none \in UNION {[1..n -> Nat] : n \in Nat}
  <2>1. [g \in DOMAIN goals |-> 0] \in [1..Len(goals) -> Nat]
    BY <1>1
  <2>2. <<>> \in [1..0 -> Nat]
    OBVIOUS
  <2> QED BY <1>1, <2>1, <2>2
<1> HIDE DEF none
<1>5. page' = [view |-> v, next |-> 1, known |-> Len(goals), since |-> since, at |-> 0,
               shown |-> {}, events |-> {}, starts |-> 0, gone |-> {},
               back |-> {}, wrote |-> none]
  BY <1>3 DEF NoPage, none
<1>6. page' \in PageType
  BY <1>1, <1>4, <1>5 DEF PageType
<1>7. v \in Scans => page'.wrote = [g \in DOMAIN goals |-> 0]
  BY <1>5 DEF none
<1> QED BY <1>5, <1>6, <1>7

(* The goals of the page that a write excuses.                              *)
Written(g, s) ==
  IF s \in Stale[goals[g].status] \/ ApprovedBetween(g, s) THEN page.back \cup {g} ELSE page.back

(* What a write does to the page.                                          *)
LEMMA WrittenPage ==
  ASSUME AgentTyped, page \in PageType, WriteStatus
  PROVE  /\ page' \in PageType
         /\ \E g \in DOMAIN goals : \E s \in Later[goals[g].status] \cup Stale[goals[g].status] :
              /\ goals' = [goals EXCEPT ![g].status = s]
              /\ \/ page' = page /\ (g \notin DOMAIN page.wrote \/ Done)
                 \/ /\ g \in DOMAIN page.wrote
                    /\ page'.wrote = [page.wrote EXCEPT ![g] = @ + 1]
                    /\ page'.back = Written(g, s)
                    /\ page'.view = page.view /\ page'.next = page.next /\ page'.known = page.known
                    /\ page'.since = page.since /\ page'.at = page.at /\ page'.shown = page.shown
                    /\ page'.events = page.events /\ page'.starts = page.starts /\ page'.gone = page.gone
<1>1. PICK g \in DOMAIN goals : \E s \in Later[goals[g].status] \cup Stale[goals[g].status] :
         /\ goals' = [goals EXCEPT ![g].status = s]
         /\ page' = IF g \notin DOMAIN page.wrote \/ Done THEN page
                    ELSE [page EXCEPT !.wrote[g] = @ + 1,
                            !.back = IF s \in Stale[goals[g].status] \/ ApprovedBetween(g, s)
                                    THEN @ \cup {g} ELSE @]
  BY DEF WriteStatus
<1>2. PICK s \in Later[goals[g].status] \cup Stale[goals[g].status] :
         /\ goals' = [goals EXCEPT ![g].status = s]
         /\ page' = IF g \notin DOMAIN page.wrote \/ Done THEN page
                    ELSE [page EXCEPT !.wrote[g] = @ + 1,
                            !.back = IF s \in Stale[goals[g].status] \/ ApprovedBetween(g, s)
                                    THEN @ \cup {g} ELSE @]
  BY <1>1
<1>3. CASE g \notin DOMAIN page.wrote \/ Done
  BY <1>2, <1>3
<1>4. CASE ~(g \notin DOMAIN page.wrote \/ Done)
  <2> DEFINE w == [page.wrote EXCEPT ![g] = @ + 1]
             b == Written(g, s)
  <2>1. page' = [page EXCEPT !.wrote = w, !.back = b]
    BY <1>2, <1>4 DEF Written
  <2>2. g \in Nat
    BY DEF AgentTyped
  <2>3. b \in SUBSET Nat
    BY <2>2 DEF PageType, Written
  <2>4. w \in UNION {[1..n -> Nat] : n \in Nat}
    <3>1. PICK n \in Nat : page.wrote \in [1..n -> Nat]
      BY DEF PageType
    <3>2. w \in [1..n -> Nat]
      BY <1>4, <3>1
    <3> QED BY <3>2
  <2> HIDE DEF w, b
  <2>5. page' \in PageType
    BY <2>1, <2>3, <2>4 DEF PageType
  <2>6. /\ page'.wrote = w /\ page'.back = b
        /\ page'.view = page.view /\ page'.next = page.next /\ page'.known = page.known
        /\ page'.since = page.since /\ page'.at = page.at /\ page'.shown = page.shown
        /\ page'.events = page.events /\ page'.starts = page.starts /\ page'.gone = page.gone
    BY <2>1 DEF PageType
  <2> QED BY <1>2, <1>4, <2>5, <2>6 DEF w, b
<1> QED BY <1>3, <1>4

-----------------------------------------------------------------------------
(* The dashboards.  What the first read took from the journal is what the   *)
(* window held then, however the journal grows.                            *)
Window(view, since, at) ==
  {i \in EventsSince("goal_spawned", since) : i <= at /\ Concerns(view, journal[i].goal)}
    \ Crowded(view, since, at)

TicksOf(events) == {journal[i].tick : i \in events}

Straddling == IF page.since > 0 THEN 1 ELSE 0

DashInv ==
  /\ page \in PageType
  /\ page.known <= Len(goals) /\ page.since <= Len(journal)
  /\ page.gone = {}
  /\ page.view \in Views \ Scans =>
       /\ page.next >= 1
       /\ page.next > 1 => /\ page.at <= Len(journal)
                           /\ page.events = Window(page.view, page.since, page.at)
       /\ page.view = "self_gen_dashboard" /\ page.next = 2 =>
            Cardinality(TicksOf(page.events)) <= Allowed(page.since)
       /\ page.view = "self_gen_dashboard" /\ page.next > 2 =>
            Cardinality(TicksOf(page.events)) <= page.starts + unstarted + Straddling

LEMMA WindowStays ==
  ASSUME AgentTyped, SpawnInv, Grown, NEW view \in Views \ Scans, NEW since \in Nat, NEW at \in Nat,
         at <= Len(journal)
  PROVE  /\ Window(view, since, at)' = Window(view, since, at)
         /\ \A i \in Window(view, since, at) :
              i \in DOMAIN journal /\ journal'[i] = journal[i] /\ journal[i].goal \in DOMAIN goals
<1>1. /\ Len(journal) \in Nat /\ Len(journal') \in Nat /\ Len(journal) <= Len(journal')
      /\ \A i \in 1..Len(journal) : journal'[i] = journal[i]
  BY DEF Grown
<1>2. DOMAIN journal = 1..Len(journal) /\ DOMAIN journal' = 1..Len(journal')
  BY DEF Grown
<1>3. \A g \in DOMAIN goals : goals'[g].by = goals[g].by
  BY DEF Grown
<1>4. \A g \in DOMAIN goals : Concerns(view, g)' <=> Concerns(view, g)
  BY <1>3 DEF Concerns, Views, Reads, Scans
<1>5. \A i : i \in EventsSince("goal_spawned", since) =>
         i \in 1..Len(journal) /\ journal[i].goal \in DOMAIN goals
  <2> SUFFICES ASSUME NEW i, i \in EventsSince("goal_spawned", since)
               PROVE  i \in 1..Len(journal) /\ journal[i].goal \in DOMAIN goals
    OBVIOUS
  <2>1. i \in 1..Len(journal) /\ i > since /\ journal[i].type = "goal_spawned"
    BY <1>2 DEF EventsSince
  <2>2. i \in EventsSince("goal_spawned", 0)
    BY <1>1, <1>2, <2>1 DEF EventsSince
  <2> QED BY <2>1, <2>2 DEF SpawnInv, Told
<1>6. \A i : i <= at => (i \in EventsSince("goal_spawned", since)' <=> i \in EventsSince("goal_spawned", since))
  <2> SUFFICES ASSUME NEW i, i <= at
               PROVE  i \in EventsSince("goal_spawned", since)' <=> i \in EventsSince("goal_spawned", since)
    OBVIOUS
  <2>1. i \in EventsSince("goal_spawned", since)' <=>
          i \in 1..Len(journal') /\ i > since /\ journal'[i].type = "goal_spawned"
    BY <1>2 DEF EventsSince
  <2>2. i \in EventsSince("goal_spawned", since) <=>
          i \in 1..Len(journal) /\ i > since /\ journal[i].type = "goal_spawned"
    BY <1>2 DEF EventsSince
  <2>3. i \in 1..Len(journal') <=> i \in 1..Len(journal)
    BY <1>1
  <2> QED BY <1>1, <2>1, <2>2, <2>3
<1>9. Crowded(view, since, at)' = Crowded(view, since, at)
  <2>1. \A i : {j \in EventsSince("goal_spawned", since)' : i < j /\ j <= at}
               = {j \in EventsSince("goal_spawned", since) : i < j /\ j <= at}
    BY <1>6
  <2> QED BY <2>1 DEF Crowded
<1>7. \A i : i \in Window(view, since, at)' <=> i \in Window(view, since, at)
  BY <1>1, <1>4, <1>5, <1>6, <1>9 DEF Window
<1>8. Window(view, since, at)' = Window(view, since, at)
  BY <1>7
<1> QED BY <1>1, <1>2, <1>5, <1>8 DEF Window

LEMMA TypedPage ==
  ASSUME page \in PageType
  PROVE  /\ page.view \in Views \cup {"none"} /\ page.next \in Nat /\ page.known \in Nat
         /\ page.since \in Nat /\ page.at \in Nat /\ page.starts \in Nat
         /\ page.shown \in SUBSET [goal : Nat, status : Statuses]
         /\ page.events \in SUBSET Nat
  BY DEF PageType

LEMMA AllowedGrows ==
  ASSUME AgentTyped, AgentTyped', Grown, NEW s \in Nat
  PROVE  Allowed(s) \in Nat /\ Allowed(s)' \in Nat /\ Allowed(s) <= Allowed(s)'
<1> DEFINE E == EventsSince("tick_started", s)
           c == Cardinality(E)
           d == Cardinality(E')
           k == IF s > 0 THEN 1 ELSE 0
<1>1. IsFiniteSet(E) /\ c \in Nat
  BY EventsFinite
<1>2. IsFiniteSet(E') /\ d \in Nat
  <2>1. /\ Len(journal') \in Nat /\ DOMAIN journal' = 1..Len(journal')
    BY DEF Grown
  <2>2. E' \subseteq 1..Len(journal')
    BY <2>1 DEF EventsSince
  <2>3. IsFiniteSet(1..Len(journal'))
    BY <2>1, FS_Interval
  <2> QED BY <2>2, <2>3, FS_Subset, FS_CardinalityType
<1>3. E \subseteq E'
  <2>1. /\ Len(journal) \in Nat /\ Len(journal') \in Nat /\ Len(journal) <= Len(journal')
        /\ \A i \in 1..Len(journal) : journal'[i] = journal[i]
    BY DEF Grown
  <2>2. DOMAIN journal = 1..Len(journal) /\ DOMAIN journal' = 1..Len(journal')
    BY DEF Grown
  <2> SUFFICES ASSUME NEW i \in E PROVE i \in E'
    OBVIOUS
  <2>3. i \in 1..Len(journal) /\ i > s /\ journal[i].type = "tick_started"
    BY <2>2 DEF EventsSince
  <2>4. i \in 1..Len(journal') /\ journal'[i].type = "tick_started"
    BY <2>1, <2>3
  <2> QED BY <2>2, <2>3, <2>4 DEF EventsSince
<1>4. c <= d
  BY <1>2, <1>3, FS_Subset
<1>5. PICK m \in Nat, n \in Nat, j \in Nat : m = c /\ n = d /\ j = k
  BY <1>1, <1>2
<1>6. Allowed(s) = m + unstarted + j /\ Allowed(s)' = n + unstarted' + j
  BY <1>5 DEF Allowed
<1>7. unstarted \in Nat /\ unstarted' \in Nat /\ unstarted <= unstarted'
  BY DEF Grown
<1>8. m <= n
  BY <1>4, <1>5
<1> QED BY <1>5, <1>6, <1>7, <1>8

(* The dashboards while no request reads: the journal only grows.           *)
LEMMA DashStays ==
  ASSUME AgentTyped, AgentTyped', SpawnInv, DashInv, Grown,
         page' \in PageType,
         page'.view = page.view, page'.next = page.next, page'.known = page.known,
         page'.since = page.since, page'.at = page.at, page'.events = page.events,
         page'.starts = page.starts, page'.gone = page.gone
  PROVE  DashInv'
<1>1. /\ page.view \in Views \cup {"none"} /\ page.next \in Nat /\ page.known \in Nat
      /\ page.since \in Nat /\ page.at \in Nat /\ page.starts \in Nat
  BY TypedPage DEF DashInv
<1>2. /\ Len(journal) \in Nat /\ Len(journal') \in Nat /\ Len(journal) <= Len(journal')
      /\ Len(goals) \in Nat /\ Len(goals') \in Nat /\ Len(goals) <= Len(goals')
      /\ unstarted \in Nat /\ unstarted' \in Nat /\ unstarted <= unstarted'
  BY DEF Grown
<1>3. page'.known <= Len(goals') /\ page'.since <= Len(journal') /\ page'.gone = {}
  BY <1>1, <1>2 DEF DashInv
<1>4. ASSUME page.view \in Views \ Scans, page.next > 1
      PROVE  /\ page'.at <= Len(journal')
             /\ page'.events = Window(page.view, page.since, page.at)'
             /\ page'.view = "self_gen_dashboard" /\ page'.next = 2 =>
                  Cardinality(TicksOf(page.events)') <= Allowed(page.since)'
             /\ page'.view = "self_gen_dashboard" /\ page'.next > 2 =>
                  Cardinality(TicksOf(page.events)') <= page'.starts + unstarted' + Straddling'
  <2>1. page.at <= Len(journal) /\ page.events = Window(page.view, page.since, page.at)
    BY <1>4 DEF DashInv
  <2>2. PICK v \in Views \ Scans, since \in Nat, at \in Nat :
          v = page.view /\ since = page.since /\ at = page.at
    BY <1>1, <1>4
  <2>3. /\ Window(v, since, at)' = Window(v, since, at)
        /\ \A i \in Window(v, since, at) : journal'[i] = journal[i]
    BY <2>1, <2>2, WindowStays
  <2>4. Window(page.view, page.since, page.at)' = Window(v, since, at)'
    BY <2>2 DEF Window, EventsSince, Concerns, Crowded
  <2>5. page'.events = Window(page.view, page.since, page.at)'
    BY <2>1, <2>2, <2>3, <2>4
  <2>6. TicksOf(page.events)' = TicksOf(page.events)
    BY <2>1, <2>2, <2>3 DEF TicksOf
  <2>7. Allowed(page.since)' = Allowed(since)'
    BY <2>2 DEF Allowed, EventsSince
  <2>8. Allowed(since) \in Nat /\ Allowed(since)' \in Nat /\ Allowed(since) <= Allowed(since)'
    BY AllowedGrows
  <2>9. Cardinality(TicksOf(page.events)) \in Nat
    <3>1. page.events \subseteq EventsSince("goal_spawned", since)
      BY <2>1, <2>2 DEF Window
    <3>2. IsFiniteSet(page.events)
      BY <3>1, EventsFinite, FS_Subset
    <3> DEFINE f == [i \in page.events |-> journal[i].tick]
    <3>3. f \in Surjection(page.events, TicksOf(page.events))
      BY DEF Surjection, TicksOf
    <3> HIDE DEF f
    <3> QED BY <3>2, <3>3, FS_Surjection, FS_CardinalityType
  <2>10. page.view = "self_gen_dashboard" /\ page.next = 2 =>
           Cardinality(TicksOf(page.events)') <= Allowed(page.since)'
    <3>1. page.view = "self_gen_dashboard" /\ page.next = 2 =>
            Cardinality(TicksOf(page.events)) <= Allowed(since)
      BY <1>4, <2>2 DEF DashInv
    <3> QED BY <2>6, <2>7, <2>8, <2>9, <3>1
  <2>11. page.view = "self_gen_dashboard" /\ page.next > 2 =>
           Cardinality(TicksOf(page.events)') <= page'.starts + unstarted' + Straddling'
    <3>1. page.view = "self_gen_dashboard" /\ page.next > 2 =>
            Cardinality(TicksOf(page.events)) <= page.starts + unstarted + Straddling
      BY <1>4 DEF DashInv
    <3>2. Straddling' = Straddling /\ Straddling \in Nat
      BY DEF Straddling
    <3> QED BY <1>1, <1>2, <2>6, <2>9, <3>1, <3>2, SMTT(30)
  <2>12. page'.at <= Len(journal')
    BY <1>1, <1>2, <2>1
  <2> QED BY <2>5, <2>10, <2>11, <2>12
<1>5. page.view \in Views \ Scans => page.next >= 1
  BY DEF DashInv
<1>6. page.next >= 1 => page.next = 1 \/ page.next > 1
  BY <1>1
<1> QED BY <1>3, <1>4, <1>5, <1>6 DEF DashInv

(* A page after a read.                                                    *)
LEMMA Advanced ==
  ASSUME NEW p \in PageType
  PROVE  LET q == [p EXCEPT !.next = @ + 1] IN
           /\ q \in PageType /\ q.next = p.next + 1
           /\ q.view = p.view /\ q.known = p.known /\ q.since = p.since /\ q.at = p.at
           /\ q.shown = p.shown /\ q.events = p.events /\ q.starts = p.starts
           /\ q.gone = p.gone /\ q.back = p.back /\ q.wrote = p.wrote
<1>1. p.next + 1 \in Nat
  BY DEF PageType
<1> QED BY <1>1 DEF PageType

(* Which read a page is about to make.                                     *)
LEMMA NextRead ==
  ASSUME page \in PageType, NEW r, NEW p, Read(r, p)
  PROVE  /\ page.view \in Views /\ r = Reads[page.view][page.next]
         /\ page' = [p EXCEPT !.next = @ + 1] /\ UNCHANGED agent
         /\ page.next <= Len(Reads[page.view])
         /\ page.view \in Scans => Reads[page.view] = ScanOrder
         /\ page.view \notin Scans => Reads[page.view] = <<"spawns", "rows">> \/
              (page.view = "self_gen_dashboard" /\ Reads[page.view] = <<"spawns", "starts", "rows">>)
         /\ page.view = "self_gen_dashboard" => Reads[page.view] = <<"spawns", "starts", "rows">>
<1>1. /\ page.view \in Views /\ ~Done /\ r = Reads[page.view][page.next]
      /\ page' = [p EXCEPT !.next = @ + 1] /\ UNCHANGED agent
  BY DEF Read
<1>2. page.next \in Nat
  BY TypedPage
<1>3. /\ page.view \in Scans => Reads[page.view] = ScanOrder
      /\ page.view \notin Scans => Reads[page.view] = <<"spawns", "rows">> \/
              (page.view = "self_gen_dashboard" /\ Reads[page.view] = <<"spawns", "starts", "rows">>)
      /\ page.view = "self_gen_dashboard" => Reads[page.view] = <<"spawns", "starts", "rows">>
  BY <1>1 DEF Views, Reads, Scans
<1>4. Len(Reads[page.view]) \in Nat
  BY <1>3 DEF ScanOrder
<1>5. page.next <= Len(Reads[page.view])
  BY <1>1, <1>2, <1>4 DEF Done
<1> QED BY <1>1, <1>3, <1>5

(* One after the other: a scan reads statuses only, a dashboard none.       *)
LEMMA DashReads ==
  ASSUME page \in PageType, page.next >= 1, NEW r, NEW p, Read(r, p), page.view \notin Scans
  PROVE  /\ r \notin Statuses
         /\ r = "spawns" <=> page.next = 1
         /\ r = "starts" <=> page.view = "self_gen_dashboard" /\ page.next = 2
         /\ r = "rows" /\ page.view = "self_gen_dashboard" => page.next = 3
<1>1. page.next \in Nat /\ page.next <= Len(Reads[page.view]) /\ r = Reads[page.view][page.next]
  BY TypedPage, NextRead
<1>2. CASE page.view = "self_gen_dashboard"
  <2>1. Reads[page.view] = <<"spawns", "starts", "rows">>
    BY <1>2, NextRead
  <2>2. page.next \in 1..3
    BY <1>1, <2>1
  <2>3. \/ page.next = 1 /\ r = "spawns"
        \/ page.next = 2 /\ r = "starts"
        \/ page.next = 3 /\ r = "rows"
    <3> DEFINE reads == <<"spawns", "starts", "rows">>
    <3>1. r = reads[page.next]
      BY <1>1, <2>1
    <3>2. page.next = 1 \/ page.next = 2 \/ page.next = 3
      BY <2>2
    <3>3. reads[1] = "spawns" /\ reads[2] = "starts" /\ reads[3] = "rows"
      OBVIOUS
    <3> HIDE DEF reads
    <3> QED BY <3>1, <3>2, <3>3
  <2> QED BY <1>2, <2>3 DEF Statuses
<1>3. CASE page.view # "self_gen_dashboard"
  <2>1. Reads[page.view] = <<"spawns", "rows">>
    BY <1>3, NextRead
  <2>2. page.next \in 1..2
    BY <1>1, <2>1
  <2>3. \/ page.next = 1 /\ r = "spawns"
        \/ page.next = 2 /\ r = "rows"
    <3> DEFINE reads == <<"spawns", "rows">>
    <3>1. r = reads[page.next]
      BY <1>1, <2>1
    <3>2. page.next = 1 \/ page.next = 2
      BY <2>2
    <3>3. reads[1] = "spawns" /\ reads[2] = "rows"
      OBVIOUS
    <3> HIDE DEF reads
    <3> QED BY <3>1, <3>2, <3>3
  <2> QED BY <1>3, <2>3 DEF Statuses
<1> QED BY <1>2, <1>3

LEMMA ScanReads ==
  ASSUME page \in PageType, page.next >= 1, NEW r, NEW p, Read(r, p), page.view \in Scans
  PROVE  page.next \in 1..6 /\ r = ScanOrder[page.next] /\ r \in Statuses
<1>1. page.next \in Nat /\ page.next <= Len(ScanOrder) /\ r = ScanOrder[page.next]
  BY TypedPage, NextRead
<1>2. page.next \in 1..6
  BY <1>1 DEF ScanOrder
<1> QED BY <1>1, <1>2 DEF ScanOrder, Statuses

LEMMA TicksFinite ==
  ASSUME AgentTyped, NEW since \in Nat, NEW events \in SUBSET EventsSince("goal_spawned", since)
  PROVE  /\ TicksOf(events) \subseteq Spawning(since) /\ Cardinality(TicksOf(events)) \in Nat
         /\ Cardinality(Spawning(since)) \in Nat
         /\ Cardinality(TicksOf(events)) <= Cardinality(Spawning(since))
<1>1. TicksOf(events) \subseteq TicksTold(since)
  BY DEF TicksOf, TicksTold
<1>2. IsFiniteSet(TicksTold(since)) /\ IsFiniteSet(TicksTold(since) \cup {tick})
  BY EventsFinite, FS_AddElement
<1>3. IsFiniteSet(Spawning(since)) /\ TicksOf(events) \subseteq Spawning(since)
  BY <1>1, <1>2 DEF Spawning
<1> QED BY <1>3, FS_Subset, FS_CardinalityType

LEMMA SpawnsReadKeeps ==
  ASSUME AgentTyped, SpawnInv, RateInv, DashInv, page.view \in Views => page.next >= 1, ReadSpawns
  PROVE  DashInv'
<1> DEFINE evs == {i \in EventsSince("goal_spawned", page.since) : Concerns(page.view, journal[i].goal)}
                    \ Crowded(page.view, page.since, Len(journal))
           p == [page EXCEPT !.at = Len(journal), !.events = evs]
<1>1. Read("spawns", p)
  BY DEF ReadSpawns
<1> HIDE DEF p
<1>2. /\ page \in PageType /\ page.view \in Views /\ page' = [p EXCEPT !.next = @ + 1] /\ UNCHANGED agent
      /\ page.known <= Len(goals) /\ page.since <= Len(journal) /\ page.gone = {}
  BY <1>1, NextRead DEF DashInv
<1>3. page.next \in Nat /\ page.since \in Nat /\ page.starts \in Nat
  BY <1>2, TypedPage
<1>4. page.view \notin Scans /\ page.next = 1
  <2>1. "spawns" \notin Statuses
    BY DEF Statuses
  <2>2. page.view \notin Scans
    BY <1>1, <1>2, <2>1, ScanReads
  <2> QED BY <1>1, <1>2, <2>2, DashReads
<1>5. Len(journal) \in Nat /\ DOMAIN journal = 1..Len(journal)
  BY DEF AgentTyped
<1>6. evs \in SUBSET Nat /\ evs \in SUBSET EventsSince("goal_spawned", page.since)
  BY <1>5 DEF EventsSince
<1>7. evs = Window(page.view, page.since, Len(journal))
  BY <1>5 DEF EventsSince, Window
<1> HIDE DEF evs
<1>8. /\ page' \in PageType /\ page'.view = page.view /\ page'.next = 2 /\ page'.known = page.known
      /\ page'.since = page.since /\ page'.at = Len(journal) /\ page'.events = evs /\ page'.gone = page.gone
  <2>1. /\ p \in PageType /\ p.view = page.view /\ p.next = page.next /\ p.known = page.known
        /\ p.since = page.since /\ p.at = Len(journal) /\ p.events = evs /\ p.gone = page.gone
    BY <1>2, <1>5, <1>6 DEF PageType, p
  <2> QED BY <1>2, <1>4, <2>1, Advanced
<1>9. goals' = goals /\ journal' = journal /\ unstarted' = unstarted
  BY <1>2 DEF agent
<1>10. page'.events = Window(page.view, page.since, page.at)'
  <2>1. Window(page.view, page.since, page.at)' = Window(page.view, page.since, Len(journal))
    BY <1>8, <1>9 DEF Window, EventsSince, Concerns, Crowded
  <2> QED BY <1>7, <1>8, <2>1
<1>11. Cardinality(TicksOf(page.events))' <= Allowed(page.since)'
  <2>1. TicksOf(page.events)' = TicksOf(evs)
    BY <1>8, <1>9 DEF TicksOf
  <2>2. Allowed(page.since)' = Allowed(page.since)
    BY <1>8, <1>9 DEF Allowed, EventsSince
  <2>3. Cardinality(Spawning(page.since)) <= Allowed(page.since)
    BY <1>2, <1>3, <1>5 DEF RateInv
  <2>4. Cardinality(TicksOf(evs)) <= Cardinality(Spawning(page.since))
        /\ Cardinality(TicksOf(evs)) \in Nat /\ Cardinality(Spawning(page.since)) \in Nat
    BY <1>3, <1>6, TicksFinite
  <2>5. Allowed(page.since) \in Nat
    <3>1. Cardinality(EventsSince("tick_started", page.since)) \in Nat
      BY <1>3, EventsFinite
    <3> QED BY <3>1 DEF Allowed, AgentTyped
  <2> QED BY <2>1, <2>2, <2>3, <2>4, <2>5
<1> QED BY <1>2, <1>5, <1>8, <1>9, <1>10, <1>11 DEF DashInv

LEMMA OtherReadsKeep ==
  ASSUME AgentTyped, SpawnInv, DashInv, page.view \in Views => page.next >= 1,
         ReadStarts \/ ReadRows \/ ReadStatus
  PROVE  DashInv'
<1>1. page \in PageType /\ page.known <= Len(goals) /\ page.since <= Len(journal) /\ page.gone = {}
  BY DEF DashInv
<1>2. page.next \in Nat /\ page.since \in Nat /\ page.starts \in Nat /\ page.at \in Nat
      /\ page.shown \in SUBSET [goal : Nat, status : Statuses]
  BY <1>1, TypedPage
<1>3. CASE ReadStatus
  <2>1. PICK s \in Statuses : Read(s, [page EXCEPT !.shown = @ \cup RowsWith(s)])
    BY <1>3 DEF ReadStatus
  <2> DEFINE q == page.shown \cup RowsWith(s)
             p == [page EXCEPT !.shown = q]
  <2>2. Read(s, p)
    BY <2>1
  <2> HIDE DEF p
  <2>3. page' = [p EXCEPT !.next = @ + 1] /\ UNCHANGED agent /\ page.view \in Scans
    BY <1>1, <2>2, NextRead, DashReads
  <2>4. q \in SUBSET [goal : Nat, status : Statuses]
    BY <1>2 DEF RowsWith, AgentTyped
  <2> HIDE DEF q
  <2>5. /\ page' \in PageType /\ page'.view = page.view /\ page'.known = page.known
        /\ page'.since = page.since /\ page'.gone = page.gone
    <3>1. /\ p \in PageType /\ p.view = page.view /\ p.known = page.known
          /\ p.since = page.since /\ p.gone = page.gone
      BY <1>1, <2>4 DEF PageType, p
    <3> QED BY <2>3, <3>1, Advanced
  <2> QED BY <1>1, <2>3, <2>5 DEF DashInv, agent
<1>4. CASE ReadStarts
  <2> DEFINE n == Cardinality(EventsSince("tick_started", page.since))
             p == [page EXCEPT !.starts = n]
  <2>1. Read("starts", p)
    BY <1>4 DEF ReadStarts
  <2> HIDE DEF p
  <2>2. page' = [p EXCEPT !.next = @ + 1] /\ UNCHANGED agent /\ page.view \in Views
    BY <1>1, <2>1, NextRead
  <2>3. page.view = "self_gen_dashboard" /\ page.next = 2 /\ page.view \notin Scans
    <3>1. "starts" \notin Statuses
      BY DEF Statuses
    <3> QED BY <1>1, <2>1, <2>2, <3>1, ScanReads, DashReads
  <2>4. n \in Nat
    BY <1>2, EventsFinite
  <2>5. Allowed(page.since) = n + unstarted + Straddling
    BY DEF Allowed, Straddling
  <2> HIDE DEF n
  <2>6. /\ page' \in PageType /\ page'.view = page.view /\ page'.next = 3 /\ page'.known = page.known
        /\ page'.since = page.since /\ page'.at = page.at /\ page'.events = page.events
        /\ page'.starts = n /\ page'.gone = page.gone
    <3>1. /\ p \in PageType /\ p.view = page.view /\ p.next = page.next /\ p.known = page.known
          /\ p.since = page.since /\ p.at = page.at /\ p.events = page.events
          /\ p.starts = n /\ p.gone = page.gone
      BY <1>1, <2>4 DEF PageType, p
    <3> QED BY <2>2, <2>3, <3>1, Advanced
  <2>7. goals' = goals /\ journal' = journal /\ unstarted' = unstarted
    BY <2>2 DEF agent
  <2>8. /\ Window(page.view, page.since, page.at)' = Window(page.view, page.since, page.at)
        /\ TicksOf(page.events)' = TicksOf(page.events)
        /\ Straddling' = Straddling
    BY <2>6, <2>7 DEF Window, EventsSince, Concerns, Crowded, TicksOf, Straddling
  <2>9. /\ page.at <= Len(journal) /\ page.events = Window(page.view, page.since, page.at)
        /\ Cardinality(TicksOf(page.events)) <= Allowed(page.since)
    BY <2>2, <2>3 DEF DashInv
  <2> QED BY <1>1, <2>3, <2>5, <2>6, <2>7, <2>8, <2>9 DEF DashInv
<1>5. CASE ReadRows
  <2> DEFINE lost == {i \in page.events : journal[i].goal \notin DOMAIN goals}
             p == [page EXCEPT !.gone = lost]
  <2>1. Read("rows", p)
    BY <1>5 DEF ReadRows
  <2> HIDE DEF p
  <2>2. page' = [p EXCEPT !.next = @ + 1] /\ UNCHANGED agent /\ page.view \in Views /\ page.next >= 1
    BY <1>1, <2>1, NextRead
  <2>3. page.view \notin Scans /\ page.next > 1 /\ (page.view = "self_gen_dashboard" => page.next = 3)
    <3>1. "rows" \notin Statuses /\ "rows" # "spawns"
      BY DEF Statuses
    <3>2. page.view \notin Scans
      BY <1>1, <2>1, <2>2, <3>1, ScanReads
    <3>3. page.next # 1 /\ (page.view = "self_gen_dashboard" => page.next = 3)
      BY <1>1, <2>1, <2>2, <3>1, <3>2, DashReads
    <3> QED BY <1>2, <2>2, <3>2, <3>3
  <2>4. page.at <= Len(journal) /\ page.events = Window(page.view, page.since, page.at)
    BY <2>2, <2>3 DEF DashInv
  <2>5. lost = {}
    <3>1. ASSUME NEW i \in page.events PROVE journal[i].goal \in DOMAIN goals
      <4>1. i \in EventsSince("goal_spawned", page.since)
        BY <2>4, <3>1 DEF Window
      <4>2. i \in EventsSince("goal_spawned", 0)
        BY <1>2, <4>1 DEF EventsSince, AgentTyped
      <4> QED BY <4>2 DEF SpawnInv, Told
    <3> QED BY <3>1
  <2> HIDE DEF lost
  <2>6. /\ page' \in PageType /\ page'.view = page.view /\ page'.next = page.next + 1
        /\ page'.known = page.known /\ page'.starts = page.starts
        /\ page'.since = page.since /\ page'.at = page.at /\ page'.events = page.events /\ page'.gone = {}
    <3>1. /\ p \in PageType /\ p.view = page.view /\ p.next = page.next
          /\ p.known = page.known /\ p.starts = page.starts
          /\ p.since = page.since /\ p.at = page.at /\ p.events = page.events /\ p.gone = {}
      BY <1>1, <2>5 DEF PageType, p
    <3> QED BY <2>2, <3>1, Advanced
  <2>7. goals' = goals /\ journal' = journal /\ unstarted' = unstarted
    BY <2>2 DEF agent
  <2>8. /\ Window(page.view, page.since, page.at)' = Window(page.view, page.since, page.at)
        /\ TicksOf(page.events)' = TicksOf(page.events)
        /\ Straddling' = Straddling
    BY <2>6, <2>7 DEF Window, EventsSince, Concerns, Crowded, TicksOf, Straddling
  <2>9. page.view = "self_gen_dashboard" =>
          page'.next = 4 /\ Cardinality(TicksOf(page.events)) <= page.starts + unstarted + Straddling
    BY <2>2, <2>3, <2>6 DEF DashInv
  <2>10. page'.next >= 1
    BY <1>2, <2>6
  <2> QED BY <1>1, <2>2, <2>4, <2>6, <2>7, <2>8, <2>9, <2>10 DEF DashInv
<1> QED BY <1>3, <1>4, <1>5

-----------------------------------------------------------------------------
(* The scans by status.  A goal that is not shown yet has a status that is  *)
(* still to be read, unless a write excuses it; the list shows it once for  *)
(* each write, and once more when its present status has been read.         *)
Rank == [s \in Statuses |->
  CASE s = "pending" -> 1 [] s = "pending_approval" -> 2 [] s = "active" -> 3
    [] s = "done" -> 4 [] s = "failed" -> 5 [] s = "abandoned" -> 6]

ShownOf(g) == {x \in page.shown : x.goal = g}

IsRead(g) == Rank[goals[g].status] < page.next

ShownOK(g) ==
  /\ IsFiniteSet(ShownOf(g))
  /\ g \in page.back \/ ShownOf(g) # {} \/ ~IsRead(g)
  /\ Cardinality(ShownOf(g)) <=
       IF page.view = "universal_search" THEN 1 ELSE page.wrote[g] + (IF IsRead(g) THEN 1 ELSE 0)

ScanInv ==
  /\ page.view \in Views => page.next >= 1
  /\ page.view \in Scans =>
       /\ page.wrote \in [1..page.known -> Nat]
       /\ \A g \in 1..page.known : ShownOK(g)

LEMMA RankFacts ==
  /\ \A s \in Statuses : Rank[s] \in 1..6 /\ ScanOrder[Rank[s]] = s
  /\ \A n \in 1..6 : ScanOrder[n] \in Statuses /\ Rank[ScanOrder[n]] = n
  /\ \A s \in Statuses : \A t \in Later[s] :
       /\ t \in Statuses
       /\ Rank[t] > Rank[s] \/ (s = "pending_approval" /\ t = "pending" /\ Rank[s] = 2 /\ Rank[t] = 1)
  /\ \A s \in Statuses : Stale[s] \subseteq Statuses
<1>1. \A s \in Statuses : Rank[s] \in 1..6 /\ ScanOrder[Rank[s]] = s
  BY DEF Statuses, Rank, ScanOrder
<1>2. \A n \in 1..6 : ScanOrder[n] \in Statuses /\ Rank[ScanOrder[n]] = n
  <2>1. \A n \in 1..6 : n = 1 \/ n = 2 \/ n = 3 \/ n = 4 \/ n = 5 \/ n = 6
    OBVIOUS
  <2> QED BY <2>1 DEF Statuses, Rank, ScanOrder
<1>3. \A s \in Statuses : \A t \in Later[s] :
        /\ t \in Statuses
        /\ Rank[t] > Rank[s] \/ (s = "pending_approval" /\ t = "pending" /\ Rank[s] = 2 /\ Rank[t] = 1)
  BY DEF Statuses, Rank, Later
<1>4. \A s \in Statuses : Stale[s] \subseteq Statuses
  BY DEF Statuses, Stale
<1> QED BY <1>1, <1>2, <1>3, <1>4

LEMMA StatusOf ==
  ASSUME AgentTyped, NEW g \in DOMAIN goals
  PROVE  goals[g].status \in Statuses
<1>1. goals[g] \in GoalRow
  BY DEF AgentTyped
<1> QED BY <1>1 DEF GoalRow

(* Rows that no writer touches.                                            *)
LEMMA RowsStay ==
  ASSUME AgentTyped, [Next]_vars, ~WriteStatus
  PROVE  \A g \in DOMAIN goals : goals'[g] = goals[g]
<1>1. goals' = goals \/ \E by \in Originator : goals' = Append(goals, Row(by))
  BY DEF Next, vars, agent, StartTick, SpawnGoal, TickReturns, ReportSpawn, EndTick, TickRaises, Killed,
         EnterGoal, SpawnBeside, OpenPage, ReadStatus, ReadSpawns, ReadStarts, ReadRows, ClosePage, Read,
         OpenFeed, PollFeed, SendEvent, CloseFeed, Originator
<1>2. ASSUME NEW by \in Originator, goals' = Append(goals, Row(by))
      PROVE  \A g \in DOMAIN goals : goals'[g] = goals[g]
  BY <1>2 DEF AgentTyped
<1> QED BY <1>1, <1>2

LEMMA ScanStays ==
  ASSUME AgentTyped, page \in PageType, page.known <= Len(goals), ScanInv, page' = page,
         \A g \in DOMAIN goals : goals'[g] = goals[g]
  PROVE  ScanInv'
<1>1. DOMAIN goals = 1..Len(goals) /\ Len(goals) \in Nat /\ page.known \in Nat
  BY TypedPage DEF AgentTyped
<1>2. \A g \in 1..page.known : g \in DOMAIN goals
  BY <1>1
<1>3. ASSUME NEW g \in 1..page.known, ShownOK(g) PROVE ShownOK(g)'
  <2>1. goals'[g] = goals[g]
    BY <1>2
  <2> QED BY <1>3, <2>1 DEF ShownOK, ShownOf, IsRead
<1> QED BY <1>3 DEF ScanInv

LEMMA ScanOpens ==
  ASSUME AgentTyped, OpenPage
  PROVE  ScanInv'
<1>1. /\ page'.next = 1 /\ page'.known = Len(goals) /\ page'.shown = {}
      /\ page'.view \in Scans => page'.wrote = [g \in DOMAIN goals |-> 0]
  BY OpenedPage
<1>2. DOMAIN goals = 1..Len(goals) /\ goals' = goals
  BY DEF AgentTyped, OpenPage, agent
<1>3. ASSUME page'.view \in Scans
      PROVE  /\ page'.wrote \in [1..page'.known -> Nat]
             /\ \A g \in 1..page'.known : ShownOK(g)'
  <2>1. page'.wrote \in [1..page'.known -> Nat] /\ \A g \in 1..page'.known : page'.wrote[g] = 0
    BY <1>1, <1>2, <1>3
  <2>2. ASSUME NEW g \in 1..page'.known PROVE ShownOK(g)'
    <3>1. ShownOf(g)' = {}
      BY <1>1 DEF ShownOf
    <3>2. goals'[g].status \in Statuses
      BY <1>1, <1>2, StatusOf
    <3>3. ~IsRead(g)'
      BY <1>1, <3>2, RankFacts DEF IsRead
    <3>4. IsFiniteSet(ShownOf(g)') /\ Cardinality(ShownOf(g)') = 0
      BY <3>1, FS_EmptySet
    <3> QED BY <2>1, <3>3, <3>4 DEF ShownOK
  <2> QED BY <2>1, <2>2
<1> QED BY <1>1, <1>3 DEF ScanInv

LEMMA ScanWritten ==
  ASSUME AgentTyped, page \in PageType, page.known <= Len(goals), ScanInv, WriteStatus
  PROVE  ScanInv'
<1>1. PICK h \in DOMAIN goals : \E s \in Later[goals[h].status] \cup Stale[goals[h].status] :
         /\ goals' = [goals EXCEPT ![h].status = s]
         /\ \/ page' = page /\ (h \notin DOMAIN page.wrote \/ Done)
            \/ /\ h \in DOMAIN page.wrote
               /\ page'.wrote = [page.wrote EXCEPT ![h] = @ + 1]
               /\ page'.back = Written(h, s)
               /\ page'.view = page.view /\ page'.next = page.next /\ page'.known = page.known
               /\ page'.shown = page.shown
  BY WrittenPage
<1>2. PICK s \in Later[goals[h].status] \cup Stale[goals[h].status] :
         /\ goals' = [goals EXCEPT ![h].status = s]
         /\ \/ page' = page /\ (h \notin DOMAIN page.wrote \/ Done)
            \/ /\ h \in DOMAIN page.wrote
               /\ page'.wrote = [page.wrote EXCEPT ![h] = @ + 1]
               /\ page'.back = Written(h, s)
               /\ page'.view = page.view /\ page'.next = page.next /\ page'.known = page.known
               /\ page'.shown = page.shown
  BY <1>1
<1>3. /\ DOMAIN goals = 1..Len(goals) /\ Len(goals) \in Nat
      /\ page.known \in Nat /\ page.next \in Nat
  BY TypedPage DEF AgentTyped
<1>4. /\ page'.view = page.view /\ page'.next = page.next /\ page'.known = page.known
      /\ page'.shown = page.shown
  BY <1>2
<1>5. /\ goals[h].status \in Statuses /\ s \in Statuses
      /\ s \in Later[goals[h].status] \/ s \in Stale[goals[h].status]
  BY <1>2, StatusOf, RankFacts
<1>6. /\ \A g \in DOMAIN goals \ {h} : goals'[g].status = goals[g].status
      /\ goals'[h].status = s
  <2>1. goals[h] \in GoalRow
    BY DEF AgentTyped
  <2>2. goals' = [goals EXCEPT ![h] = [goals[h] EXCEPT !.status = s]] /\ [goals[h] EXCEPT !.status = s].status = s
    BY <1>2, <2>1 DEF GoalRow
  <2> QED BY <2>2
<1>7. ASSUME page.view \in Scans
      PROVE  /\ page'.wrote \in [1..page'.known -> Nat]
             /\ \A g \in 1..page'.known : ShownOK(g)'
  <2>1. page.wrote \in [1..page.known -> Nat] /\ \A g \in 1..page.known : ShownOK(g)
    BY <1>7 DEF ScanInv
  <2>2. page'.wrote \in [1..page'.known -> Nat]
    <3>1. CASE page' = page
      BY <2>1, <3>1
    <3>2. CASE h \in DOMAIN page.wrote /\ page'.wrote = [page.wrote EXCEPT ![h] = @ + 1]
      <4>1. h \in 1..page.known /\ page.wrote[h] + 1 \in Nat
        <5>1. h \in DOMAIN page.wrote
          BY <3>2
        <5>2. h \in 1..page.known
          BY <2>1, <5>1
        <5>3. page.wrote[h] \in Nat
          BY <2>1, <5>2
        <5> QED BY <5>2, <5>3
      <4> QED BY <1>4, <2>1, <3>2, <4>1
    <3> QED BY <1>2, <3>1, <3>2
  <2>3. ASSUME NEW g \in 1..page.known PROVE ShownOK(g)'
    <3>1. g \in DOMAIN goals /\ ShownOK(g)
      BY <1>3, <2>1
    <3>2. ShownOf(g)' = ShownOf(g)
      BY <1>4 DEF ShownOf
    <3>3. Cardinality(ShownOf(g)) \in Nat /\ page.wrote[g] \in Nat
      BY <2>1, <3>1, FS_CardinalityType DEF ShownOK
    <3>4. CASE g # h
      <4>1. IsRead(g)' <=> IsRead(g)
        BY <1>4, <1>6, <3>1, <3>4 DEF IsRead
      <4>2. page'.wrote[g] = page.wrote[g] /\ (g \in page.back => g \in page'.back)
        BY <1>2, <2>1, <3>4 DEF Written
      <4> QED BY <1>4, <3>1, <3>2, <4>1, <4>2 DEF ShownOK
    <3>5. CASE g = h /\ page' = page
      <4>1. Done
        <5>1. h \in DOMAIN page.wrote
          BY <2>1, <3>5
        <5>2. ASSUME page'.wrote = [page.wrote EXCEPT ![h] = @ + 1] PROVE FALSE
          <6>1. page'.wrote[h] = page.wrote[h] + 1
            BY <5>1, <5>2
          <6> QED BY <3>3, <3>5, <6>1
        <5> QED BY <1>2, <5>1, <5>2
      <4>2. page.next >= 7
        <5>1. Reads[page.view] = ScanOrder
          BY <1>7 DEF Scans, Reads
        <5> QED BY <1>3, <4>1, <5>1 DEF Done, ScanOrder
      <4>3. IsRead(g) /\ IsRead(g)'
        <5>1. Rank[goals[h].status] \in 1..6 /\ Rank[s] \in 1..6
          BY <1>5, RankFacts
        <5>2. Rank[goals[h].status] < page.next /\ Rank[s] < page.next
          BY <1>3, <4>2, <5>1
        <5> QED BY <1>4, <1>6, <3>5, <5>2 DEF IsRead
      <4> QED BY <3>1, <3>2, <3>5, <4>3 DEF ShownOK
    <3>6. CASE g = h /\ page' # page
      <4>1. page'.wrote[g] = page.wrote[g] + 1
        BY <1>2, <2>1, <3>6
      <4>2. g \in page'.back \/ ShownOf(g)' # {} \/ ~IsRead(g)'
        <5>1. CASE s \in Later[goals[h].status] /\ ~ApprovedBetween(h, s)
          <6>1. page.back \subseteq page'.back
            BY <1>2, <3>6 DEF Written
          <6>2. IsRead(g)' => IsRead(g)
            <7>1. Rank[s] \in 1..6 /\ Rank[goals[h].status] \in 1..6
              BY <1>5, RankFacts
            <7>2. \/ Rank[s] > Rank[goals[h].status]
                  \/ page.next # 2 /\ Rank[goals[h].status] = 2 /\ Rank[s] = 1
              BY <1>5, <5>1, RankFacts DEF ApprovedBetween
            <7> QED BY <1>3, <1>4, <1>6, <3>6, <7>1, <7>2 DEF IsRead
          <6> QED BY <3>1, <3>2, <6>1, <6>2 DEF ShownOK
        <5>2. CASE s \in Stale[goals[h].status] \/ ApprovedBetween(h, s)
          BY <1>2, <3>6, <5>2 DEF Written
        <5> QED BY <1>5, <5>1, <5>2
      <4>3. Cardinality(ShownOf(g)) <= IF page.view = "universal_search" THEN 1 ELSE page.wrote[g] + 1
        BY <3>1, <3>3 DEF ShownOK
      <4>4. Cardinality(ShownOf(g)) <=
              IF page.view = "universal_search" THEN 1
              ELSE page'.wrote[g] + (IF IsRead(g)' THEN 1 ELSE 0)
        BY <3>3, <4>1, <4>3
      <4>5. IsFiniteSet(ShownOf(g))
        BY <3>1 DEF ShownOK
      <4> QED BY <1>4, <3>2, <4>2, <4>4, <4>5 DEF ShownOK
    <3> QED BY <3>4, <3>5, <3>6
  <2> QED BY <1>4, <2>2, <2>3
<1> QED BY <1>4, <1>7 DEF ScanInv

LEMMA ScanRead ==
  ASSUME AgentTyped, page \in PageType, page.known <= Len(goals), ScanInv, ReadStatus
  PROVE  ScanInv'
<1>1. PICK s \in Statuses : Read(s, [page EXCEPT !.shown = @ \cup RowsWith(s)])
  BY DEF ReadStatus
<1> DEFINE q == page.shown \cup RowsWith(s)
           p == [page EXCEPT !.shown = q]
<1>2. Read(s, p)
  BY <1>1
<1> HIDE DEF p
<1>3. page' = [p EXCEPT !.next = @ + 1] /\ UNCHANGED agent /\ page.view \in Views /\ page.next >= 1
  BY <1>2, NextRead DEF ScanInv
<1>4. page.view \in Scans /\ page.next \in 1..6 /\ s = ScanOrder[page.next]
  BY <1>2, <1>3, DashReads, ScanReads
<1>5. /\ DOMAIN goals = 1..Len(goals) /\ Len(goals) \in Nat
      /\ page.known \in Nat /\ page.next \in Nat
      /\ page.shown \in SUBSET [goal : Nat, status : Statuses]
  BY TypedPage DEF AgentTyped
<1>6. q \in SUBSET [goal : Nat, status : Statuses]
  BY <1>5 DEF RowsWith
<1> HIDE DEF q
<1>7. /\ page'.view = page.view /\ page'.next = page.next + 1 /\ page'.known = page.known
      /\ page'.shown = q /\ page'.back = page.back /\ page'.wrote = page.wrote
  <2>1. /\ p \in PageType /\ p.view = page.view /\ p.next = page.next /\ p.known = page.known
        /\ p.shown = q /\ p.back = page.back /\ p.wrote = page.wrote
    BY <1>6 DEF PageType, p
  <2> QED BY <1>3, <2>1, Advanced
<1>8. page.wrote \in [1..page.known -> Nat] /\ \A g \in 1..page.known : ShownOK(g)
  BY <1>4 DEF ScanInv
<1>9. ASSUME NEW g \in 1..page.known PROVE ShownOK(g)'
  <2>1. g \in DOMAIN goals /\ ShownOK(g) /\ goals' = goals
    BY <1>3, <1>5, <1>8 DEF agent
  <2>2. goals[g].status \in Statuses /\ Rank[goals[g].status] \in 1..6 /\ Rank[s] = page.next
    BY <1>4, <2>1, StatusOf, RankFacts
  <2>3. goals[g].status = s <=> Rank[goals[g].status] = page.next
    BY <1>4, <2>2, RankFacts
  <2>4. IsRead(g)' <=> IsRead(g) \/ goals[g].status = s
    BY <1>5, <1>7, <2>1, <2>2, <2>3 DEF IsRead
  <2>5. goals[g].status = s => ~IsRead(g)
    BY <1>5, <2>2, <2>3 DEF IsRead
  <2>6. Cardinality(ShownOf(g)) \in Nat /\ page.wrote[g] \in Nat /\ IsFiniteSet(ShownOf(g))
    BY <1>8, <2>1, FS_CardinalityType DEF ShownOK
  <2>7. ASSUME NEW x \in RowsWith(s), x.goal = g
        PROVE  /\ x = [goal |-> g, status |-> s] /\ goals[g].status = s
               /\ page.view = "universal_search" => ShownOf(g) = {}
    BY <2>7 DEF RowsWith, ShownOf
  <2>8. CASE goals[g].status = s /\ (page.view = "universal_search" => ShownOf(g) = {})
    <3> DEFINE row == [goal |-> g, status |-> s]
    <3>1. row \in RowsWith(s) /\ row.goal = g
      BY <2>1, <2>8 DEF RowsWith, ShownOf
    <3>2. ShownOf(g)' = ShownOf(g) \cup {row}
      <4>1. ShownOf(g)' = {x \in page.shown \cup RowsWith(s) : x.goal = g}
        BY <1>7 DEF ShownOf, q
      <4> HIDE DEF row
      <4>2. \A x \in RowsWith(s) : x.goal = g => x = row
        BY <2>7 DEF row
      <4> QED BY <3>1, <4>1, <4>2 DEF ShownOf
    <3> HIDE DEF row
    <3>3. IsFiniteSet(ShownOf(g)') /\ Cardinality(ShownOf(g)') <= Cardinality(ShownOf(g)) + 1
          /\ Cardinality(ShownOf(g)') \in Nat
      <4>1. /\ IsFiniteSet(ShownOf(g) \cup {row})
            /\ Cardinality(ShownOf(g) \cup {row}) =
                 IF row \in ShownOf(g) THEN Cardinality(ShownOf(g)) ELSE Cardinality(ShownOf(g)) + 1
        BY <2>6, FS_AddElement
      <4> QED BY <2>6, <3>2, <4>1
    <3>4. page.view = "universal_search" => Cardinality(ShownOf(g)) = 0
      BY <2>8, FS_EmptySet
    <3>5. page.view # "universal_search" => Cardinality(ShownOf(g)) <= page.wrote[g]
      BY <2>1, <2>5, <2>6, <2>8 DEF ShownOK
    <3>6. ShownOf(g)' # {}
      BY <3>2
    <3>7. IsRead(g)'
      BY <2>4, <2>8
    <3>8. Cardinality(ShownOf(g)') <= IF page'.view = "universal_search" THEN 1 ELSE page'.wrote[g] + 1
      BY <1>7, <2>6, <3>3, <3>4, <3>5
    <3> QED BY <3>3, <3>6, <3>7, <3>8 DEF ShownOK
  <2>9. CASE ~(goals[g].status = s /\ (page.view = "universal_search" => ShownOf(g) = {}))
    <3>1. ShownOf(g)' = ShownOf(g)
      <4>1. ShownOf(g)' = {x \in page.shown \cup RowsWith(s) : x.goal = g}
        BY <1>7 DEF ShownOf, q
      <4>2. \A x \in RowsWith(s) : x.goal # g
        BY <2>7, <2>9
      <4> QED BY <4>1, <4>2 DEF ShownOf
    <3>2. CASE goals[g].status # s
      <4>1. IsRead(g)' <=> IsRead(g)
        BY <2>4, <3>2
      <4> QED BY <1>7, <2>1, <3>1, <4>1 DEF ShownOK
    <3>3. CASE page.view = "universal_search" /\ ShownOf(g) # {}
      BY <1>7, <2>1, <3>1, <3>3 DEF ShownOK
    <3> QED BY <2>9, <3>2, <3>3
  <2> QED BY <2>8, <2>9
<1> QED BY <1>4, <1>5, <1>7, <1>8, <1>9 DEF ScanInv

(* All that the pages rest on.                                             *)
ViewsInv == AgentTyped /\ SpawnInv /\ RateInv /\ DashInv /\ ScanInv

LEMMA ViewsInit == Init => ViewsInv
<1> SUFFICES ASSUME Init PROVE ViewsInv
  OBVIOUS
<1>1. AgentTyped
  BY InitTyped
<1>2. /\ journal = <<>> /\ spawned = <<>> /\ pc = "idle" /\ unstarted = 0 /\ unreported = {}
      /\ page = NoPage
  BY DEF Init
<1>3. \A t, s : EventsSince(t, s) = {}
  BY <1>2 DEF EventsSince
<1>4. SpawnInv
  <2>1. \A g \in DOMAIN goals : goals[g].by = "operator"
    BY DEF Init
  <2> QED BY <1>2, <1>3, <2>1 DEF SpawnInv, Told
<1>5. RateInv
  <2> SUFFICES ASSUME NEW s \in 0..Len(journal) PROVE Cardinality(Spawning(s)) <= Allowed(s)
    BY DEF RateInv
  <2>1. s = 0
    BY <1>2
  <2>2. Spawning(s) = {}
    BY <1>2, <1>3 DEF Spawning, TicksTold
  <2>3. Cardinality(EventsSince("tick_started", s)) = 0 /\ Cardinality(Spawning(s)) = 0
    BY <1>3, <2>2, FS_EmptySet
  <2> QED BY <1>2, <2>1, <2>3 DEF Allowed
<1>6. DashInv /\ ScanInv
  <2>1. page \in PageType
    <3>1. <<>> \in UNION {[1..n -> Nat] : n \in Nat}
      <4>1. <<>> \in [1..0 -> Nat]
        OBVIOUS
      <4> QED BY <4>1
    <3> QED BY <1>2, <3>1 DEF NoPage, PageType
  <2>2. page.view = "none" /\ page.known = 0 /\ page.since = 0 /\ page.gone = {}
    BY <1>2 DEF NoPage
  <2>3. "none" \notin Views /\ "none" \notin Scans
    BY DEF Views, Scans, Reads
  <2>4. 0 <= Len(goals) /\ 0 <= Len(journal)
    BY <1>1 DEF AgentTyped
  <2> QED BY <2>1, <2>2, <2>3, <2>4 DEF DashInv, ScanInv
<1> QED BY <1>1, <1>4, <1>5, <1>6 DEF ViewsInv

LEMMA ViewsKept == ViewsInv /\ [Next]_vars => ViewsInv'
<1> SUFFICES ASSUME ViewsInv, [Next]_vars PROVE ViewsInv'
  OBVIOUS
<1>1. /\ AgentTyped /\ SpawnInv /\ RateInv /\ DashInv /\ ScanInv
      /\ page \in PageType /\ page.known <= Len(goals)
      /\ page.view \in Views => page.next >= 1
  BY DEF ViewsInv, DashInv, ScanInv
<1>2. AgentTyped' /\ Grown
  BY <1>1, StepGrows
<1>3. SpawnInv' /\ RateInv'
  BY <1>1, SpawnInvKept, RateInvKept
<1>4. CASE page' = page
  <2>1. DashInv'
    BY <1>1, <1>2, <1>4, DashStays
  <2>2. ASSUME WriteStatus PROVE ScanInv'
    BY <1>1, <2>2, ScanWritten
  <2>3. ASSUME ~WriteStatus PROVE ScanInv'
    <3>1. \A g \in DOMAIN goals : goals'[g] = goals[g]
      BY <1>1, <2>3, RowsStay
    <3> QED BY <1>1, <1>4, <3>1, ScanStays
  <2> QED BY <1>2, <1>3, <2>1, <2>2, <2>3 DEF ViewsInv
<1>5. CASE WriteStatus
  <2>1. /\ page' \in PageType
        /\ page'.view = page.view /\ page'.next = page.next /\ page'.known = page.known
        /\ page'.since = page.since /\ page'.at = page.at /\ page'.events = page.events
        /\ page'.starts = page.starts /\ page'.gone = page.gone
    BY <1>1, <1>5, WrittenPage
  <2>2. DashInv'
    BY <1>1, <1>2, <2>1, DashStays
  <2> QED BY <1>1, <1>2, <1>3, <1>5, <2>2, ScanWritten DEF ViewsInv
<1>6. CASE PageStep /\ UNCHANGED agent
  <2>1. goals' = goals /\ journal' = journal
    BY <1>6 DEF agent
  <2>2. CASE OpenPage
    <3>1. PICK v \in Views, since \in 0..Len(journal) :
            /\ page' \in PageType
            /\ page'.view = v /\ page'.since = since /\ page'.known = Len(goals) /\ page'.next = 1
            /\ page'.gone = {}
      BY <1>1, <2>2, OpenedPage
    <3>2. Len(goals) \in Nat /\ Len(journal) \in Nat
      BY <1>1 DEF AgentTyped
    <3>3. DashInv'
      BY <2>1, <3>1, <3>2 DEF DashInv
    <3> QED BY <1>1, <1>2, <1>3, <2>2, <3>3, ScanOpens DEF ViewsInv
  <2>3. CASE ClosePage
    <3>1. page' = NoPage
      BY <2>3 DEF ClosePage
    <3>2. page' \in PageType
      <4>1. <<>> \in UNION {[1..n -> Nat] : n \in Nat}
        <5>1. <<>> \in [1..0 -> Nat]
          OBVIOUS
        <5> QED BY <5>1
      <4> QED BY <3>1, <4>1 DEF NoPage, PageType
    <3>3. page'.view = "none" /\ page'.known = 0 /\ page'.since = 0 /\ page'.gone = {}
      BY <3>1 DEF NoPage
    <3>4. "none" \notin Views /\ "none" \notin Scans
      BY DEF Views, Scans, Reads
    <3>5. 0 <= Len(goals) /\ 0 <= Len(journal)
      BY <1>1 DEF AgentTyped
    <3>6. DashInv' /\ ScanInv'
      BY <2>1, <3>2, <3>3, <3>4, <3>5 DEF DashInv, ScanInv
    <3> QED BY <1>2, <1>3, <3>6 DEF ViewsInv
  <2>4. CASE ReadStatus
    BY <1>1, <1>2, <1>3, <2>4, ScanRead, OtherReadsKeep DEF ViewsInv
  <2>5. ASSUME NEW r \in {"spawns", "starts", "rows"}, NEW p, Read(r, p),
               p.view = page.view, p.next = page.next, p \in PageType
        PROVE  ScanInv'
    <3>1. page' = [p EXCEPT !.next = @ + 1] /\ page.view \in Views
      BY <1>1, <2>5, NextRead
    <3>2. page'.view = page.view /\ page'.next = page.next + 1 /\ page.next \in Nat
      BY <1>1, <2>5, <3>1, Advanced, TypedPage
    <3>3. page.view \notin Scans
      BY <1>1, <2>5, <3>1, ScanReads DEF Statuses
    <3> QED BY <3>2, <3>3 DEF ScanInv
  <2>6. CASE ReadSpawns
    <3> DEFINE evs == {i \in EventsSince("goal_spawned", page.since) : Concerns(page.view, journal[i].goal)}
                        \ Crowded(page.view, page.since, Len(journal))
               p == [page EXCEPT !.at = Len(journal), !.events = evs]
    <3>1. Read("spawns", p)
      BY <2>6 DEF ReadSpawns
    <3>2. evs \in SUBSET Nat /\ Len(journal) \in Nat
      BY <1>1 DEF EventsSince, AgentTyped
    <3> HIDE DEF evs
    <3>3. p.view = page.view /\ p.next = page.next /\ p \in PageType
      BY <1>1, <3>2 DEF PageType
    <3> HIDE DEF p
    <3>4. ScanInv'
      BY <2>5, <3>1, <3>3
    <3> QED BY <1>1, <1>2, <1>3, <2>6, <3>4, SpawnsReadKeeps DEF ViewsInv
  <2>7. CASE ReadStarts
    <3> DEFINE n == Cardinality(EventsSince("tick_started", page.since))
               p == [page EXCEPT !.starts = n]
    <3>1. Read("starts", p)
      BY <2>7 DEF ReadStarts
    <3>2. n \in Nat
      BY <1>1, EventsFinite, TypedPage
    <3> HIDE DEF n
    <3>3. p.view = page.view /\ p.next = page.next /\ p \in PageType
      BY <1>1, <3>2 DEF PageType
    <3> HIDE DEF p
    <3>4. ScanInv'
      BY <2>5, <3>1, <3>3
    <3> QED BY <1>1, <1>2, <1>3, <2>7, <3>4, OtherReadsKeep DEF ViewsInv
  <2>8. CASE ReadRows
    <3> DEFINE lost == {i \in page.events : journal[i].goal \notin DOMAIN goals}
               p == [page EXCEPT !.gone = lost]
    <3>1. Read("rows", p)
      BY <2>8 DEF ReadRows
    <3>2. lost \in SUBSET Nat
      BY <1>1, TypedPage
    <3> HIDE DEF lost
    <3>3. p.view = page.view /\ p.next = page.next /\ p \in PageType
      BY <1>1, <3>2 DEF PageType
    <3> HIDE DEF p
    <3>4. ScanInv'
      BY <2>5, <3>1, <3>3
    <3> QED BY <1>1, <1>2, <1>3, <2>8, <3>4, OtherReadsKeep DEF ViewsInv
  <2> QED BY <1>6, <2>2, <2>3, <2>4, <2>6, <2>7, <2>8 DEF PageStep
<1> QED BY <1>4, <1>5, <1>6, PageShape

(* The list of goals and the search show each goal that was there, however  *)
(* statuses are written meanwhile, but for one that a stale copy was written *)
(* over and one that was approved between the first two queries; the search *)
(* once, the list at most once more for each write.                         *)
THEOREM GoalsAreShown == Spec => []GoalsShown
<1>1. ViewsInv => GoalsShown
  <2> SUFFICES ASSUME ViewsInv, Done, page.view \in Scans, NEW g \in 1..page.known
               PROVE  /\ g \notin page.back => Cardinality(ShownOf(g)) > 0
                      /\ Cardinality(ShownOf(g)) <=
                           IF page.view = "universal_search" THEN 1 ELSE 1 + page.wrote[g]
    BY DEF GoalsShown, ShownOf
  <2>1. /\ AgentTyped /\ page \in PageType /\ page.known <= Len(goals)
        /\ page.wrote \in [1..page.known -> Nat] /\ ShownOK(g)
    BY DEF ViewsInv, DashInv, ScanInv
  <2>2. page.next \in Nat /\ page.known \in Nat
    BY <2>1, TypedPage
  <2>3. page.next > 6
    <3>1. Reads[page.view] = ScanOrder
      BY DEF Scans, Reads
    <3> QED BY <3>1 DEF Done, ScanOrder
  <2>4. g \in DOMAIN goals
    BY <2>1, <2>2 DEF AgentTyped
  <2>5. IsRead(g)
    <3>1. Rank[goals[g].status] \in 1..6
      BY <2>1, <2>4, StatusOf, RankFacts
    <3> QED BY <2>2, <2>3, <3>1 DEF IsRead
  <2>6. Cardinality(ShownOf(g)) \in Nat /\ (Cardinality(ShownOf(g)) = 0 <=> ShownOf(g) = {})
    BY <2>1, FS_CardinalityType, FS_EmptySet DEF ShownOK
  <2>7. page.wrote[g] \in Nat
    BY <2>1
  <2> QED BY <2>1, <2>5, <2>6, <2>7 DEF ShownOK
<1> QED BY <1>1, ViewsInit, ViewsKept, PTL DEF Spec

(* The dashboards count each spawned goal once and find its row; a goal is  *)
(* left out only for its event's sake, or because SpawnLimit later events   *)
(* crowd it out of the reflect explorer.                                    *)
THEOREM SpawnsAreTold == Spec => []SpawnsTold
<1>1. ViewsInv => SpawnsTold
  <2> SUFFICES ASSUME ViewsInv, Done, page.view \notin Scans
               PROVE  /\ \A i, j \in page.events : journal[i].goal = journal[j].goal => i = j
                      /\ page.gone = {}
                      /\ \A g \in 1..page.known : Concerns(page.view, g) =>
                           \/ \E i \in page.events : journal[i].goal = g
                           \/ g \in unreported \cup RangeOf(spawned)
                           \/ \E i \in EventsSince("goal_spawned", 0) :
                                journal[i].goal = g /\ i \notin ((page.since + 1)..page.at)
                                                                  \ Crowded(page.view, page.since, page.at)
    BY DEF SpawnsTold
  <2>1. AgentTyped /\ SpawnInv /\ DashInv /\ page \in PageType /\ page.view \in Views \ Scans
    BY DEF ViewsInv, DashInv, Done
  <2>2. page.next \in Nat /\ page.known \in Nat /\ page.since \in Nat /\ page.at \in Nat
    BY <2>1, TypedPage
  <2>3. page.next > 1
    <3>1. Len(Reads[page.view]) > 1 /\ Len(Reads[page.view]) \in Nat
      BY <2>1, SMTT(30) DEF Views, Reads, Scans
    <3>2. page.next > Len(Reads[page.view])
      BY DEF Done
    <3> QED BY <2>2, <3>1, <3>2
  <2>4. page.events = Window(page.view, page.since, page.at) /\ page.gone = {} /\ page.known <= Len(goals)
    BY <2>1, <2>3 DEF DashInv
  <2>5. \A i \in EventsSince("goal_spawned", page.since) : i \in EventsSince("goal_spawned", 0)
    BY <2>1, <2>2 DEF EventsSince, AgentTyped
  <2>6. \A i, j \in page.events : journal[i].goal = journal[j].goal => i = j
    BY <2>1, <2>4, <2>5 DEF Window, SpawnInv
  <2>7. ASSUME NEW g \in 1..page.known, Concerns(page.view, g)
        PROVE  \/ \E i \in page.events : journal[i].goal = g
               \/ g \in unreported \cup RangeOf(spawned)
               \/ \E i \in EventsSince("goal_spawned", 0) :
                    journal[i].goal = g /\ i \notin ((page.since + 1)..page.at)
                                                      \ Crowded(page.view, page.since, page.at)
    <3>1. g \in DOMAIN goals
      BY <2>1, <2>2, <2>4 DEF AgentTyped
    <3>2. goals[g].by # "operator"
      BY <2>1, <2>7 DEF Concerns, Views, Reads, Scans
    <3>3. g \in Told \cup RangeOf(spawned) \cup unreported
      BY <2>1, <3>1, <3>2 DEF SpawnInv
    <3>4. CASE g \in Told
      <4>1. PICK i \in EventsSince("goal_spawned", 0) : journal[i].goal = g
        BY <3>4 DEF Told
      <4>2. CASE i \in ((page.since + 1)..page.at) \ Crowded(page.view, page.since, page.at)
        <5>1. i \in EventsSince("goal_spawned", page.since) /\ i <= page.at
          BY <2>2, <4>2 DEF EventsSince
        <5> QED BY <2>4, <2>7, <4>1, <5>1 DEF Window
      <4> QED BY <4>1, <4>2
    <3> QED BY <3>3, <3>4
  <2> QED BY <2>4, <2>6, <2>7
<1> QED BY <1>1, ViewsInit, ViewsKept, PTL DEF Spec

(* The rate of self-generation stays within 100 percent, but for the ticks  *)
(* whose start the window or a failed append hides.                        *)
THEOREM RateIsBounded == Spec => []RateBounded
<1>1. ViewsInv => RateBounded
  <2> SUFFICES ASSUME ViewsInv, Done, page.view = "self_gen_dashboard"
               PROVE  Cardinality(TicksOf(page.events)) <= page.starts + unstarted + Straddling
    BY DEF RateBounded, TicksOf, Straddling
  <2>1. DashInv /\ page \in PageType /\ page.view \in Views \ Scans
    BY DEF ViewsInv, DashInv, Done, Scans
  <2>2. page.next \in Nat
    BY <2>1, TypedPage
  <2>3. page.next > 2
    <3>1. Len(Reads[page.view]) = 3
      BY DEF Reads
    <3> QED BY <2>2, <3>1 DEF Done
  <2> QED BY <2>1, <2>3 DEF DashInv
<1> QED BY <1>1, ViewsInit, ViewsKept, PTL DEF Spec
=============================================================================
