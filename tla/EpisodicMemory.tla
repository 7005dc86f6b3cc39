---------------------------- MODULE EpisodicMemory ----------------------------
(***************************************************************************)
(* The memory of harnes: the episodic store (memory/episodic.py) that      *)
(* every tick writes its trajectory to, the embeddings it is indexed with  *)
(* (llm/embeddings.py), the world model (memory/world.py), recall          *)
(* (memory/router.py, tools/builtin/recall.py) and the console views that  *)
(* join the tables.  Several processes tick on the same stores.  A tick    *)
(* appends a trajectory to three tables, one after the other, with no      *)
(* transaction around them.                                                *)
(***************************************************************************)
EXTENDS Integers, Sequences, FiniteSets

CONSTANTS
  Procs,         \* processes that run ticks
  Readers,       \* console requests
  Topics,        \* what a step may be about, and what a query may ask for
  Stopwords,     \* a query without a content word
  K,             \* how many hits a recall returns
  Factor,        \* recent_steps reads limit * Factor rows: 10 in the code
  ScanLimit,     \* rows that a keyword search scans: 5000 in the code
  LocalModels,   \* what the local embedding model may be, see Usable
  UseServer,     \* settings.embeddings.use_server
  MaxSteps,      \* bound: steps made by all ticks together
  MaxTicks,      \* bound: trajectories
  MaxCrashes,    \* bound: processes killed
  MaxOutages     \* bound: times the embedding server fails

ASSUME MemoryAssumption ==
  /\ Stopwords \notin Topics
  /\ {K, Factor, ScanLimit} \subseteq Nat \ {0}
  /\ LocalModels \subseteq {"fits", "other", "absent"}
  /\ UseServer \in BOOLEAN
  /\ {MaxSteps, MaxTicks, MaxCrashes, MaxOutages} \subseteq Nat

Step == [at : Nat, traj : Nat, topic : Topics, text : BOOLEAN]

VARIABLES
  trajs,     \* table trajectories: ids in storage order
  steps,     \* table steps: rows in storage order, which is not the order of time
  index,     \* table step_embeddings: steps with the model that embedded them
  episodes,  \* trajectories told to the world model
  up,        \* the embedding server answers
  local,     \* the local embedding model that fastembed offers
  broken,    \* broken[p]: p's embeddings._broken_until lies in the future
  pc,        \* pc[p]: the stage of p's tick
  draft,     \* draft[p]: the trajectory in p's memory, its id and its steps
  ask,       \* ask[p]: p's latest recall, with what was stored when it began
  found,     \* found[p]: the rows it returned, and which search they come from
  model,     \* model[p]: what embedded p's latest texts
  view,      \* view[r]: tables a console request has read, trajectories it holds and misses
  made,      \* history: all steps ever made; their number is the clock
  begun,     \* history: number of trajectories begun
  died,      \* history: trajectories whose tick died
  givenUp,   \* history: trajectories whose indexing was given up
  outages    \* history: failures of the server

tables == <<trajs, steps, index, episodes>>
services == <<up, local, broken>>
recall == <<ask, found, model>>
history == <<made, begun, died, givenUp, outages>>
vars == <<tables, services, pc, draft, recall, view, history>>

Stored == {steps[i] : i \in DOMAIN steps}
Written == {trajs[i] : i \in DOMAIN trajs}
Indexed == {e.step : e \in index}

NoDraft == [traj |-> 0, steps |-> <<>>]
NoAsk == [topic |-> Stopwords, stored |-> {}, scanned |-> {}, indexed |-> {}]
Nothing == [rows |-> {}, by |-> "nobody"]
NoView == [read |-> 0, held |-> {}, unknown |-> {}]

Init ==
  /\ trajs = <<>> /\ steps = <<>> /\ index = {} /\ episodes = {}
  /\ up = TRUE
  /\ local \in LocalModels
  /\ broken = [p \in Procs |-> FALSE]
  /\ pc = [p \in Procs |-> "idle"]
  /\ draft = [p \in Procs |-> NoDraft]
  /\ ask = [p \in Procs |-> NoAsk]
  /\ found = [p \in Procs |-> Nothing]
  /\ model = [p \in Procs |-> "none"]
  /\ view = [r \in Readers |-> NoView]
  /\ made = {} /\ begun = 0 /\ died = {} /\ givenUp = {} /\ outages = 0

Goto(p, stage) == pc' = [pc EXCEPT ![p] = stage]

-----------------------------------------------------------------------------
(* Embeddings.  A failing server is left alone until its time is over, and  *)
(* a local model answers: one with the dimension of the table ("fits"), one *)
(* with another ("other"), or none that can be loaded ("absent").           *)

AsksServer(p) == UseServer /\ ~broken[p]
Embedder(p) == IF AsksServer(p) /\ up THEN "server" ELSE local

Usable(m) == m \in {"server", "fits"}

ServerBreaks(p) ==
  broken' = [broken EXCEPT ![p] = @ \/ (AsksServer(p) /\ ~up)]

BrokenTimeEnds(p) ==
  /\ broken[p]
  /\ broken' = [broken EXCEPT ![p] = FALSE]
  /\ UNCHANGED <<tables, up, local, pc, draft, recall, view, history>>

-----------------------------------------------------------------------------
(* Reading the tables.  A read without a vector returns rows in storage     *)
(* order, cut at a limit; sorting comes after the cut.                      *)

FirstRows(n) == {steps[i] : i \in {j \in DOMAIN steps : j <= n}}
Latest(rows, n) == {r \in rows : Cardinality({o \in rows : o.at > r.at}) < n}

RecentSteps(n) == Latest(FirstRows(n * Factor), n)
SearchByTerms(topic, n) == Latest({r \in FirstRows(ScanLimit) : r.topic = topic}, n)

IsNear(e, m, topic) == e.model = m /\ e.step.topic = topic
Nearest(es, n, m, topic) ==
  {S \in SUBSET es :
     /\ Cardinality(S) = IF Cardinality(es) < n THEN Cardinality(es) ELSE n
     /\ \A e \in S, o \in es \ S : IsNear(o, m, topic) => IsNear(e, m, topic)}
SearchByVectorUnranked(m, topic, n) ==
  IF ~Usable(m) THEN {{}}
  ELSE {Latest({e.step : e \in {d \in index : d.step \in Stored}}, n)}

SearchByVector(m, topic, n) ==
  IF ~Usable(m) THEN {{}}
  ELSE UNION {{{e.step : e \in T} :
                 T \in Nearest({e \in S : e.step \in Stored}, n, m, topic)} :
                 S \in Nearest(index, 2 * n, m, topic)}

-----------------------------------------------------------------------------
(* Recall: vectors, then keywords, then the latest steps.                   *)
(* The tick recalls once, its recall_memory tool any number of times.       *)

BeginRecall(p, topic) ==
  /\ ask' = [ask EXCEPT ![p] = [topic |-> topic, stored |-> Stored,
                                scanned |-> FirstRows(ScanLimit), indexed |-> index]]
  /\ found' = [found EXCEPT ![p] = Nothing]

StartTick(p) ==
  /\ pc[p] = "idle" /\ begun < MaxTicks
  /\ \E q \in Topics \cup {Stopwords} : BeginRecall(p, q)
  /\ begun' = begun + 1
  /\ draft' = [draft EXCEPT ![p] = [traj |-> begun + 1, steps |-> <<>>]]
  /\ Goto(p, "vector")
  /\ UNCHANGED <<tables, services, model, view, made, died, givenUp, outages>>

RecallTool(p) ==
  /\ pc[p] = "react"
  /\ \E q \in Topics \cup {Stopwords} : BeginRecall(p, q)
  /\ Goto(p, "vector")
  /\ UNCHANGED <<tables, services, draft, model, view, history>>

Answer(p, rows, by) ==
  /\ found' = [found EXCEPT ![p] = [rows |-> rows, by |-> by]]
  /\ Goto(p, "react")

VectorSearch(p) ==
  /\ pc[p] = "vector"
  /\ ServerBreaks(p)
  /\ model' = [model EXCEPT ![p] = Embedder(p)]
  /\ \E rows \in SearchByVector(Embedder(p), ask[p].topic, K) :
       IF rows # {}
       THEN Answer(p, rows, "vector")
       ELSE UNCHANGED found /\ Goto(p, IF ask[p].topic = Stopwords THEN "recent" ELSE "terms")
  /\ UNCHANGED <<tables, up, local, draft, ask, view, history>>

TermSearch(p) ==
  /\ pc[p] = "terms"
  /\ LET rows == SearchByTerms(ask[p].topic, K) IN
       IF rows # {}
       THEN Answer(p, rows, "terms")
       ELSE UNCHANGED found /\ Goto(p, "recent")
  /\ UNCHANGED <<tables, services, draft, ask, model, view, history>>

TakeRecent(p) ==
  /\ pc[p] = "recent"
  /\ Answer(p, RecentSteps(K), "recent")
  /\ UNCHANGED <<tables, services, draft, ask, model, view, history>>

-----------------------------------------------------------------------------
(* A tick makes steps, tells the world model and writes its trajectory.     *)

MakeStep(p) ==
  /\ pc[p] = "react" /\ Cardinality(made) < MaxSteps
  /\ \E topic \in Topics, text \in BOOLEAN :
       LET s == [at |-> Cardinality(made) + 1, traj |-> draft[p].traj,
                 topic |-> topic, text |-> text] IN
         /\ made' = made \cup {s}
         /\ draft' = [draft EXCEPT ![p].steps = Append(@, s)]
  /\ UNCHANGED <<tables, services, pc, recall, view, begun, died, givenUp, outages>>

EndReact(p) ==
  /\ pc[p] = "react"
  /\ Goto(p, "episode")
  /\ ask' = [ask EXCEPT ![p] = NoAsk]
  /\ found' = [found EXCEPT ![p] = Nothing]
  /\ model' = [model EXCEPT ![p] = "none"]
  /\ UNCHANGED <<tables, services, draft, view, history>>

(* The world model fails open: unreachable, given up or failing, it is told *)
(* nothing and the tick goes on.                                            *)
AddEpisode(p) ==
  /\ pc[p] = "episode"
  /\ episodes' \in {episodes, episodes \cup {draft[p].traj}}
  /\ Goto(p, "meta")
  /\ UNCHANGED <<trajs, steps, index, services, draft, recall, view, history>>

WriteMeta(p) ==
  /\ pc[p] = "meta"
  /\ trajs' = Append(trajs, draft[p].traj)
  /\ Goto(p, "steps")
  /\ UNCHANGED <<steps, index, episodes, services, draft, recall, view, history>>

WriteStepsFailSoft(p) ==
  /\ pc[p] = "steps"
  /\ steps' \in {steps, steps \o draft[p].steps}
  /\ Goto(p, "embed")
  /\ UNCHANGED <<trajs, index, episodes, services, draft, recall, view, history>>

WriteSteps(p) ==
  /\ pc[p] = "steps"
  /\ steps' = steps \o draft[p].steps
  /\ Goto(p, "embed")
  /\ UNCHANGED <<trajs, index, episodes, services, draft, recall, view, history>>

DraftSteps(p) == {draft[p].steps[i] : i \in DOMAIN draft[p].steps}

Indexable(p) == {s \in DraftSteps(p) : s.text}

EndTick(p) ==
  /\ Goto(p, "idle")
  /\ draft' = [draft EXCEPT ![p] = NoDraft]
  /\ model' = [model EXCEPT ![p] = "none"]
  /\ ask' = [ask EXCEPT ![p] = NoAsk]
  /\ found' = [found EXCEPT ![p] = Nothing]

GiveUp(p) == givenUp' = givenUp \cup {draft[p].traj}

NothingToIndex(p) ==
  /\ pc[p] = "embed" /\ Indexable(p) = {}
  /\ EndTick(p)
  /\ UNCHANGED <<tables, services, view, history>>

EmbedSteps(p) ==
  /\ pc[p] = "embed" /\ Indexable(p) # {}
  /\ ServerBreaks(p)
  /\ IF Usable(Embedder(p))
     THEN /\ model' = [model EXCEPT ![p] = Embedder(p)]
          /\ Goto(p, "index")
          /\ UNCHANGED <<draft, ask, found, givenUp>>
     ELSE EndTick(p) /\ GiveUp(p)
  /\ UNCHANGED <<tables, up, local, view, made, begun, died, outages>>

EntriesOfFirst(p) ==
  {[step |-> s, model |-> model[p]] :
     s \in {r \in Indexable(p) : \A o \in Indexable(p) : r.at <= o.at}}

EntriesOf(p) == {[step |-> s, model |-> model[p]] : s \in Indexable(p)}

WriteIndex(p) ==
  /\ pc[p] = "index"
  /\ index' = index \cup EntriesOf(p)
  /\ EndTick(p)
  /\ UNCHANGED <<trajs, steps, episodes, services, view, history>>

IndexFails(p) ==
  /\ pc[p] = "index"
  /\ EndTick(p)
  /\ GiveUp(p)
  /\ UNCHANGED <<tables, services, view, made, begun, died, outages>>

-----------------------------------------------------------------------------
(* Console: the cost dashboard reads the steps, then the trajectories, and  *)
(* looks each step's trajectory up.                                         *)

ReadOrderSwapped == <<"trajs", "steps">>

ReadOrder == <<"steps", "trajs">>

IdsIn(table) == IF table = "steps" THEN {s.traj : s \in Stored} ELSE Written

ReadFirst(r) ==
  /\ view[r].read = 0
  /\ view' = [view EXCEPT ![r] = [read |-> 1, held |-> IdsIn(ReadOrder[1]), unknown |-> {}]]
  /\ UNCHANGED <<tables, services, pc, draft, recall, history>>

ReadAndJoin(r) ==
  /\ view[r].read = 1
  /\ LET now == IdsIn(ReadOrder[2]) IN
       view' = [view EXCEPT ![r] =
         [read |-> 0, held |-> {},
          unknown |-> IF ReadOrder[1] = "steps" THEN @.held \ now ELSE now \ @.held]]
  /\ UNCHANGED <<tables, services, pc, draft, recall, history>>

-----------------------------------------------------------------------------
(* What may go wrong outside: a process is killed at any point of its tick  *)
(* and comes back with fresh module state (one killed between ticks loses  *)
(* only broken, which BrokenTimeEnds covers); a tick raises and the process    *)
(* goes on; the server fails and returns.                                  *)

Forget(p) == broken' = [broken EXCEPT ![p] = FALSE]

Dies(p) ==
  /\ pc[p] # "idle" /\ Cardinality(died) < MaxCrashes
  /\ died' = died \cup {draft[p].traj}
  /\ EndTick(p)
  /\ UNCHANGED <<tables, up, local, view, made, begun, givenUp, outages>>

Killed(p) == Dies(p) /\ Forget(p)
TickRaises(p) == Dies(p) /\ UNCHANGED broken

ServerFails ==
  /\ up /\ outages < MaxOutages
  /\ up' = FALSE
  /\ outages' = outages + 1
  /\ UNCHANGED <<tables, local, broken, pc, draft, recall, view, made, begun, died, givenUp>>

ServerReturns ==
  /\ ~up
  /\ up' = TRUE
  /\ UNCHANGED <<tables, local, broken, pc, draft, recall, view, history>>

Tick(p) ==
  \/ StartTick(p) \/ VectorSearch(p) \/ TermSearch(p) \/ TakeRecent(p)
  \/ MakeStep(p) \/ RecallTool(p) \/ EndReact(p) \/ AddEpisode(p)
  \/ WriteMeta(p) \/ WriteSteps(p) \/ NothingToIndex(p) \/ EmbedSteps(p) \/ WriteIndex(p)
  \/ IndexFails(p)

Next ==
  \/ \E p \in Procs : Tick(p) \/ BrokenTimeEnds(p) \/ Killed(p) \/ TickRaises(p)
  \/ \E r \in Readers : ReadFirst(r) \/ ReadAndJoin(r)
  \/ ServerFails \/ ServerReturns

Spec == Init /\ [][Next]_vars

-----------------------------------------------------------------------------
(* Types, and bounds of the histories.                                      *)
TypeOK ==
  /\ trajs \in Seq(1..MaxTicks) /\ steps \in Seq(Step) /\ episodes \subseteq 1..MaxTicks
  /\ index \subseteq [step : Step, model : {"server", "fits"}]
  /\ up \in BOOLEAN /\ local \in LocalModels
  /\ broken \in [Procs -> BOOLEAN]
  /\ pc \in [Procs -> {"idle", "vector", "terms", "recent", "react", "episode",
                       "meta", "steps", "embed", "index"}]
  /\ draft \in [Procs -> [traj : 0..MaxTicks, steps : Seq(Step)]]
  /\ found \in [Procs -> [rows : SUBSET Step, by : {"nobody", "vector", "terms", "recent"}]]
  /\ model \in [Procs -> {"none", "server", "fits", "other", "absent"}]
  /\ view \in [Readers -> [read : 0..1, held : SUBSET (1..MaxTicks), unknown : SUBSET (1..MaxTicks)]]
  /\ made \subseteq Step /\ begun \in 0..MaxTicks
  /\ died \cup givenUp \subseteq 1..MaxTicks /\ outages \in 0..MaxOutages

(* Whatever is killed or fails between the three appends: an embedding      *)
(* belongs to a stored step, so that the join of a vector search drops      *)
(* nothing, and a stored step belongs to a stored trajectory.               *)
StoredInOrder ==
  /\ Indexed \subseteq Stored
  /\ \A s \in Stored : s.traj \in Written

(* What is lost has a reason.  A trajectory whose steps are missing is      *)
(* being written or belongs to a tick that died; so does an episode of the  *)
(* world model without a trajectory; a step with text but without an        *)
(* embedding may besides belong to a trajectory whose indexing was given up.*)
InStage(stages) == {draft[p].traj : p \in {q \in Procs : pc[q] \in stages}}
StepLess == {t \in Written : \E s \in made : s.traj = t /\ s \notin Stored}
Unindexed == {s.traj : s \in {r \in Stored : r.text /\ r \notin Indexed}}
LossAccounted ==
  /\ StepLess \subseteq died \cup InStage({"steps"})
  /\ episodes \ Written \subseteq died \cup InStage({"meta"})
  /\ Unindexed \subseteq died \cup givenUp \cup InStage({"embed", "index"})

(* A recall returns something whenever something was stored when it began. *)
(* One that answers from vectors returns a step about the topic of the     *)
(* query when one is indexed by the model that embedded the query; one     *)
(* that answers otherwise, when one is among the rows that a keyword       *)
(* search scans.  UnindexedRecalled is the promise of the code's texts,    *)
(* which have no such exceptions.                                          *)
Reach(p) ==
  IF found[p].by = "vector" THEN {e.step : e \in {d \in ask[p].indexed : d.model = model[p]}}
                            ELSE ask[p].scanned
About(rows, topic) == \E r \in rows : r.topic = topic
RecallAnswers ==
  \A p \in Procs : found[p].by # "nobody" =>
    /\ ask[p].stored # {} => found[p].rows # {}
    /\ About(Reach(p), ask[p].topic) => About(found[p].rows, ask[p].topic)

(* The cost dashboard attributes every step it counts: the trajectory of    *)
(* each is among those it read, although ticks write between its two reads. *)
(* The tables are within its limits, 10,000 steps and 2,000 trajectories.   *)
CostAttributed ==
  \A r \in Readers : view[r].unknown = {}

(* episodic.py:10: a step without an embedding is picked up by the fallback *)
(* to keywords.  Violated: one indexed step, about whatever, and the search *)
(* by vectors answers.                                                      *)
UnindexedRecalled ==
  \A p \in Procs :
    found[p].by # "nobody" /\ About(ask[p].scanned \ {e.step : e \in ask[p].indexed}, ask[p].topic)
      => About(found[p].rows, ask[p].topic)

(* episodic.py:322: recent_steps are the last ones.  Violated: the rows are *)
(* cut in storage order before they are sorted.                             *)
RecentIsLatest ==
  \A p \in Procs :
    found[p].by = "recent"
      => \A s \in ask[p].stored : \E r \in found[p].rows : r.at >= s.at
=============================================================================
