------------------------ MODULE EpisodicMemoryProofs ------------------------
(***************************************************************************)
(* Proofs about EpisodicMemory, for any processes, readers, topics and      *)
(* bounds: types, the order in which the tables are written, what is lost   *)
(* when ticks die or indexing fails, and what the cost dashboard shows.     *)
(***************************************************************************)
EXTENDS EpisodicMemory, FiniteSetTheorems, WellFoundedInduction, TLAPS

Stages == {"idle", "vector", "terms", "recent", "react", "episode",
           "meta", "steps", "embed", "index"}

(* Stages before the first table is written, and after it.                  *)
Before == {"vector", "terms", "recent", "react", "episode", "meta"}
After == {"steps", "embed", "index"}

(* The trajectory of a running tick is a new one and differs from those of *)
(* other ticks; it is stored from the first append on, its steps from the  *)
(* second.                                                                  *)
IdOf(p) ==
  /\ pc[p] # "idle" => draft[p].traj \in 1..begun
  /\ pc[p] = "idle" => draft[p] = NoDraft
  /\ pc[p] \in Before => draft[p].traj \notin Written
  /\ pc[p] \in After => draft[p].traj \in Written
  /\ \A s \in DraftSteps(p) : s \in made /\ s.traj = draft[p].traj
  /\ pc[p] \in {"embed", "index"} => DraftSteps(p) \subseteq Stored
  /\ pc[p] = "index" => model[p] \in {"server", "fits"}

Distinct ==
  \A p \in Procs, q \in Procs :
    p # q /\ pc[p] # "idle" /\ pc[q] # "idle" => draft[p].traj # draft[q].traj

IdsOK == Written \subseteq 1..begun /\ Distinct /\ \A p \in Procs : IdOf(p)

(* Whatever was made is stored, or in a draft, or its tick died; so for     *)
(* episodes and embeddings.                                                 *)
StepKept(s) ==
  \/ s \in Stored
  \/ s.traj \in died
  \/ \E p \in Procs : pc[p] \in Before \cup {"steps"} /\ s \in DraftSteps(p)
EpisodeKept(t) ==
  \/ t \in Written \cup died
  \/ \E p \in Procs : pc[p] = "meta" /\ draft[p].traj = t
IndexKept(s) ==
  \/ ~s.text \/ s \in Indexed
  \/ s.traj \in died \cup givenUp
  \/ \E p \in Procs : pc[p] \in {"embed", "index"} /\ s \in DraftSteps(p)
AllKept ==
  /\ \A s \in made : StepKept(s)
  /\ \A t \in episodes : EpisodeKept(t)
  /\ \A s \in Stored : IndexKept(s)

HeldOK == \A r \in Readers : view[r].held \subseteq Written /\ view[r].unknown = {}

Rest == IdsOK /\ StoredInOrder /\ AllKept /\ HeldOK

IInv == TypeOK /\ IsFiniteSet(made) /\ Rest

-----------------------------------------------------------------------------
(* What two operators on sequences do to the set of members.                *)
Members(s) == {s[i] : i \in DOMAIN s}

LEMMA MembersAre ==
  Stored = Members(steps) /\ Written = Members(trajs)
    /\ \A p \in Procs : DraftSteps(p) = Members(draft[p].steps)
BY Zenon DEF Stored, Written, DraftSteps, Members

LEMMA MembersAreThen ==
  Stored' = Members(steps') /\ Written' = Members(trajs')
    /\ \A p \in Procs : DraftSteps(p)' = Members(draft'[p].steps)
BY Zenon DEF Stored, Written, DraftSteps, Members

LEMMA MembersOfAppend ==
  ASSUME NEW S, NEW s \in Seq(S), NEW e
  PROVE  Members(Append(s, e)) = Members(s) \cup {e}
<1>1. DOMAIN Append(s, e) = 1..(Len(s) + 1) /\ DOMAIN s = 1..Len(s) /\ Len(s) \in Nat
  OBVIOUS
<1>2. \A i \in 1..Len(s) : Append(s, e)[i] = s[i]
  OBVIOUS
<1>3. Append(s, e)[Len(s) + 1] = e
  OBVIOUS
<1>4. 1..(Len(s) + 1) = (1..Len(s)) \cup {Len(s) + 1}
  BY <1>1
<1> QED BY <1>1, <1>2, <1>3, <1>4, ZenonT(60) DEF Members

LEMMA MembersOfConcat ==
  ASSUME NEW S, NEW s \in Seq(S), NEW t \in Seq(S)
  PROVE  Members(s \o t) = Members(s) \cup Members(t)
<1>1. /\ DOMAIN (s \o t) = 1..(Len(s) + Len(t)) /\ DOMAIN s = 1..Len(s) /\ DOMAIN t = 1..Len(t)
      /\ Len(s) \in Nat /\ Len(t) \in Nat
  OBVIOUS
<1>2. \A i \in 1..(Len(s) + Len(t)) :
        (s \o t)[i] = IF i <= Len(s) THEN s[i] ELSE t[i - Len(s)]
  OBVIOUS
<1>3. ASSUME NEW i \in DOMAIN t
      PROVE  i + Len(s) \in DOMAIN (s \o t) /\ (s \o t)[i + Len(s)] = t[i]
  BY <1>1, <1>2
<1>4. ASSUME NEW i \in DOMAIN s
      PROVE  i \in DOMAIN (s \o t) /\ (s \o t)[i] = s[i]
  BY <1>1, <1>2
<1>5. ASSUME NEW i \in DOMAIN (s \o t)
      PROVE  \/ i \in DOMAIN s /\ (s \o t)[i] = s[i]
             \/ i - Len(s) \in DOMAIN t /\ (s \o t)[i] = t[i - Len(s)]
  BY <1>1, <1>2
<1> DEFINE L == {(s \o t)[i] : i \in DOMAIN (s \o t)}
           R == {s[i] : i \in DOMAIN s} \cup {t[i] : i \in DOMAIN t}
<1>6. ASSUME NEW e \in L PROVE e \in R
  <2>1. PICK i \in DOMAIN (s \o t) : e = (s \o t)[i]
    BY <1>6, Zenon
  <2> QED BY <2>1, <1>5, Zenon
<1>7. ASSUME NEW e \in R PROVE e \in L
  <2>1. CASE \E i \in DOMAIN s : e = s[i]
    BY <2>1, <1>4, Zenon
  <2>2. CASE \E i \in DOMAIN t : e = t[i]
    BY <2>2, <1>3, Zenon
  <2> QED BY <1>7, <2>1, <2>2, Zenon
<1> QED BY <1>6, <1>7, Zenon DEF Members

(* A vector search returns steps that are indexed.                          *)
LEMMA VectorRows ==
  ASSUME NEW m, NEW topic, NEW n, NEW rows \in SearchByVector(m, topic, n)
  PROVE  rows \subseteq Indexed
<1>1. CASE ~Usable(m)
  BY <1>1 DEF SearchByVector
<1>2. CASE Usable(m)
  <2>1. PICK S \in Nearest(index, 2 * n, m, topic) :
          rows \in {{e.step : e \in T} : T \in Nearest({e \in S : e.step \in Stored}, n, m, topic)}
    BY <1>2, Zenon DEF SearchByVector
  <2>2. PICK T \in Nearest({e \in S : e.step \in Stored}, n, m, topic) : rows = {e.step : e \in T}
    BY <2>1, Zenon
  <2>3. S \subseteq index /\ T \subseteq S
    BY <2>1, <2>2, Zenon DEF Nearest
  <2> QED BY <2>2, <2>3 DEF Indexed
<1> QED BY <1>1, <1>2

LEMMA TermRows ==
  ASSUME NEW topic, NEW n
  PROVE  SearchByTerms(topic, n) \subseteq Stored /\ RecentSteps(n) \subseteq Stored
BY DEF SearchByTerms, RecentSteps, Latest, FirstRows, Stored

-----------------------------------------------------------------------------
(* A step of p alone, in which tables and histories only grow.              *)
OnlyOf(p) ==
  /\ \A q \in Procs \ {p} : pc'[q] = pc[q] /\ draft'[q] = draft[q] /\ model'[q] = model[q]
  /\ Written \subseteq Written' /\ Stored \subseteq Stored' /\ Indexed \subseteq Indexed'
  /\ made \subseteq made' /\ begun' \in {begun, begun + 1}
  /\ died \subseteq died' /\ givenUp \subseteq givenUp'

LEMMA Others ==
  ASSUME NEW p \in Procs, OnlyOf(p), NEW q \in Procs \ {p}
  PROVE  DraftSteps(q)' = DraftSteps(q)
BY DEF OnlyOf, DraftSteps

(* Such a step keeps IdsOK if it does for p.                                *)
LEMMA IdsKept ==
  ASSUME TypeOK, IdsOK, NEW p \in Procs, OnlyOf(p), IdOf(p)',
         Written' \subseteq Written \cup {draft[p].traj},
         pc[p] = "idle" => Written' = Written,
         \/ pc'[p] = "idle"
         \/ pc[p] # "idle" /\ draft'[p].traj = draft[p].traj
         \/ begun' = begun + 1 /\ draft'[p].traj = begun + 1
  PROVE  IdsOK'
<1> begun \in Nat
  BY MemoryAssumption DEF TypeOK
<1>1. Written' \subseteq 1..begun'
  BY DEF IdsOK, IdOf, OnlyOf
<1>2. ASSUME NEW q \in Procs \ {p} PROVE IdOf(q)'
  <2>1. DraftSteps(q)' = DraftSteps(q)
    BY Others
  <2>2. pc'[q] = pc[q] /\ draft'[q] = draft[q] /\ model'[q] = model[q]
    BY DEF OnlyOf
  <2>3. pc[q] \in Before => draft[q].traj \notin Written'
    <3> SUFFICES ASSUME pc[q] \in Before, pc[p] # "idle" PROVE draft[q].traj # draft[p].traj
      BY DEF IdsOK, IdOf
    <3> pc[q] # "idle"
      BY DEF Before
    <3> QED BY DEF IdsOK, Distinct
  <2>4. IdOf(q)
    BY DEF IdsOK
  <2> QED BY <2>1, <2>2, <2>3, <2>4 DEF IdOf, OnlyOf
<1>3. Distinct'
  <2> SUFFICES ASSUME NEW q \in Procs \ {p}, pc'[q] # "idle", pc'[p] # "idle"
               PROVE  draft'[q].traj # draft'[p].traj
    BY DEF IdsOK, Distinct, OnlyOf
  <2>1. draft'[q] = draft[q] /\ draft[q].traj \in 1..begun /\ pc[q] # "idle"
    BY DEF OnlyOf, IdsOK, IdOf
  <2> QED BY <2>1 DEF IdsOK, Distinct
<1> QED BY <1>1, <1>2, <1>3 DEF IdsOK

(* Such a step keeps AllKept if it does for what p makes, holds and stores. *)
LEMMA AllStayKept ==
  ASSUME AllKept, NEW p \in Procs, OnlyOf(p),
         \A s \in made' \ made : StepKept(s)',
         pc[p] \in Before \cup {"steps"} => \A s \in DraftSteps(p) : StepKept(s)',
         \A t \in episodes' \ episodes : EpisodeKept(t)',
         \A t : pc[p] = "meta" /\ draft[p].traj = t => EpisodeKept(t)',
         \A s \in Stored' \ Stored : IndexKept(s)',
         pc[p] \in {"embed", "index"} => \A s \in DraftSteps(p) : IndexKept(s)'
  PROVE  AllKept'
<1>1. ASSUME NEW q \in Procs \ {p}
      PROVE  pc'[q] = pc[q] /\ draft'[q] = draft[q] /\ DraftSteps(q)' = DraftSteps(q)
  BY Others DEF OnlyOf
<1>2. ASSUME NEW s \in made PROVE StepKept(s)'
  <2>1. StepKept(s)
    BY DEF AllKept
  <2> QED BY <2>1, <1>1 DEF StepKept, OnlyOf
<1>3. ASSUME NEW t \in episodes PROVE EpisodeKept(t)'
  <2>1. CASE t \in Written \cup died
    BY <2>1 DEF EpisodeKept, OnlyOf
  <2>2. CASE \E q \in Procs : pc[q] = "meta" /\ draft[q].traj = t
    BY <2>2, <1>1 DEF EpisodeKept
  <2> QED BY <2>1, <2>2 DEF AllKept, EpisodeKept
<1>4. ASSUME NEW s \in Stored PROVE IndexKept(s)'
  <2>1. IndexKept(s)
    BY DEF AllKept
  <2> QED BY <2>1, <1>1 DEF IndexKept, OnlyOf
<1> QED BY <1>2, <1>3, <1>4 DEF AllKept

(* A step that writes no table and no history, and moves a tick only among  *)
(* the stages of recall and of the agent, keeps all but types.              *)
InRecall == {"vector", "terms", "recent", "react", "episode"}
Quiet ==
  /\ trajs' = trajs /\ steps' = steps /\ index' = index /\ episodes' = episodes
  /\ draft' = draft /\ view' = view /\ made' = made /\ begun' = begun
  /\ died' = died /\ givenUp' = givenUp
  /\ \A q \in Procs : \/ pc'[q] = pc[q] /\ model'[q] = model[q]
                      \/ pc[q] \in InRecall /\ pc'[q] \in InRecall

LEMMA QuietKeeps ==
  ASSUME Rest, Quiet
  PROVE  Rest'
<1> USE DEF Quiet, tables
<1>1. Written' = Written /\ Stored' = Stored /\ Indexed' = Indexed
  BY DEF Written, Stored, Indexed
<1>2. \A q \in Procs : DraftSteps(q)' = DraftSteps(q)
  BY DEF DraftSteps
<1>3. IdsOK'
  <2>1. ASSUME NEW q \in Procs PROVE IdOf(q)'
    <3>1. IdOf(q)
      BY DEF Rest, IdsOK
    <3> QED BY <3>1, <1>1, <1>2 DEF IdOf, InRecall, Before, After
  <2>2. Distinct'
    BY DEF Rest, IdsOK, Distinct, InRecall
  <2> QED BY <2>1, <2>2, <1>1 DEF Rest, IdsOK
<1>4. StoredInOrder'
  BY <1>1 DEF Rest, StoredInOrder
<1>5. AllKept'
  <2>1. ASSUME NEW s \in made PROVE StepKept(s)'
    <3>1. StepKept(s)
      BY DEF Rest, AllKept
    <3> QED BY <3>1, <1>1, <1>2 DEF StepKept, InRecall, Before
  <2>2. ASSUME NEW t \in episodes PROVE EpisodeKept(t)'
    <3>1. EpisodeKept(t)
      BY DEF Rest, AllKept
    <3> QED BY <3>1, <1>1 DEF EpisodeKept, InRecall
  <2>3. ASSUME NEW s \in Stored PROVE IndexKept(s)'
    <3>1. IndexKept(s)
      BY DEF Rest, AllKept
    <3> QED BY <3>1, <1>1, <1>2 DEF IndexKept, InRecall
  <2> QED BY <2>1, <2>2, <2>3, <1>1 DEF AllKept
<1>6. HeldOK'
  BY <1>1 DEF Rest, HeldOK
<1> QED BY <1>3, <1>4, <1>5, <1>6 DEF Rest

-----------------------------------------------------------------------------
(* Types.                                                                   *)
LEMMA EmbedderType ==
  ASSUME TypeOK, NEW p \in Procs
  PROVE  /\ Embedder(p) \in {"server", "fits", "other", "absent"}
         /\ Usable(Embedder(p)) => Embedder(p) \in {"server", "fits"}
BY MemoryAssumption DEF TypeOK, Embedder, Usable

(* A tick ends with nothing in memory.                                      *)
LEMMA EndTickTypes ==
  ASSUME TypeOK, NEW p \in Procs, EndTick(p)
  PROVE  /\ pc' \in [Procs -> Stages]
         /\ draft' \in [Procs -> [traj : 0..MaxTicks, steps : Seq(Step)]]
         /\ found' \in [Procs -> [rows : SUBSET Step,
                                  by : {"nobody", "vector", "terms", "recent"}]]
         /\ model' \in [Procs -> {"none", "server", "fits", "other", "absent"}]
<1>1. NoDraft \in [traj : 0..MaxTicks, steps : Seq(Step)]
  BY MemoryAssumption DEF NoDraft
<1>2. Nothing \in [rows : SUBSET Step, by : {"nobody", "vector", "terms", "recent"}]
  BY DEF Nothing
<1> QED BY <1>1, <1>2 DEF TypeOK, EndTick, Goto, Stages

LEMMA StoredSteps ==
  ASSUME TypeOK
  PROVE  Stored \subseteq Step /\ Indexed \subseteq Step /\ Written \subseteq 1..MaxTicks
<1>1. ASSUME NEW i \in DOMAIN steps PROVE steps[i] \in Step
  <2>1. steps \in Seq(Step)
    BY DEF TypeOK
  <2> QED BY <2>1
<1>2. ASSUME NEW i \in DOMAIN trajs PROVE trajs[i] \in 1..MaxTicks
  <2> DEFINE ids == 1..MaxTicks
  <2>1. trajs \in Seq(ids)
    BY DEF TypeOK
  <2> HIDE DEF ids
  <2>2. trajs[i] \in ids
    BY <2>1
  <2> QED BY <2>2 DEF ids
<1>3. \A e \in index : e.step \in Step
  BY DEF TypeOK
<1> QED BY <1>1, <1>2, <1>3, Zenon DEF Stored, Indexed, Written

LEMMA DraftType ==
  ASSUME TypeOK, NEW p \in Procs
  PROVE  /\ draft[p] \in [traj : 0..MaxTicks, steps : Seq(Step)]
         /\ draft[p].steps \in Seq(Step) /\ DraftSteps(p) \subseteq Step
         /\ pc[p] \in Stages /\ model[p] \in {"none", "server", "fits", "other", "absent"}
         /\ found[p].rows \subseteq Step
BY DEF TypeOK, DraftSteps, Stages

(* The answer of a recall is made of stored steps.                          *)
LEMMA AnswerTypes ==
  ASSUME TypeOK, NEW p \in Procs, NEW rows \in SUBSET Step,
         NEW by \in {"nobody", "vector", "terms", "recent"}, Answer(p, rows, by)
  PROVE  /\ pc' \in [Procs -> Stages]
         /\ found' \in [Procs -> [rows : SUBSET Step,
                                  by : {"nobody", "vector", "terms", "recent"}]]
BY DEF TypeOK, Answer, Goto, Stages

LEMMA TypeStep ==
  ASSUME IInv, Next
  PROVE  TypeOK' /\ IsFiniteSet(made')
<1> USE DEF tables, services, recall, history
<1>a. TypeOK /\ IsFiniteSet(made) /\ Rest
  BY DEF IInv
<1>0. /\ Cardinality(made) \in Nat /\ MaxTicks \in Nat /\ MaxOutages \in Nat
      /\ begun \in 0..MaxTicks
  BY <1>a, FS_CardinalityType, MemoryAssumption DEF TypeOK
<1>n. Nothing \in [rows : SUBSET Step, by : {"nobody", "vector", "terms", "recent"}]
  BY DEF Nothing
<1>1. ASSUME NEW p \in Procs, StartTick(p) PROVE TypeOK' /\ IsFiniteSet(made')
  <2>1. begun + 1 \in 0..MaxTicks
    BY <1>0, <1>1 DEF StartTick
  <2>2. [traj |-> begun + 1, steps |-> <<>>] \in [traj : 0..MaxTicks, steps : Seq(Step)]
    BY <2>1
  <2> QED BY <1>a, <1>n, <1>1, <2>1, <2>2 DEF TypeOK, StartTick, BeginRecall, Goto
<1>2. ASSUME NEW p \in Procs, VectorSearch(p) PROVE TypeOK' /\ IsFiniteSet(made')
  <2>1. PICK rows \in SearchByVector(Embedder(p), ask[p].topic, K) :
          IF rows # {}
          THEN Answer(p, rows, "vector")
          ELSE UNCHANGED found /\ Goto(p, IF ask[p].topic = Stopwords THEN "recent" ELSE "terms")
    BY <1>2 DEF VectorSearch
  <2>2. rows \in SUBSET Step
    BY <1>a, VectorRows, StoredSteps
  <2>3. /\ pc' \in [Procs -> Stages]
        /\ found' \in [Procs -> [rows : SUBSET Step,
                                 by : {"nobody", "vector", "terms", "recent"}]]
    <3>1. CASE rows # {}
      BY <1>a, <2>1, <2>2, <3>1, AnswerTypes
    <3>2. CASE rows = {}
      BY <1>a, <2>1, <3>2 DEF TypeOK, Goto, Stages
    <3> QED BY <3>1, <3>2
  <2>4. broken' \in [Procs -> BOOLEAN]
    BY <1>a, <1>2 DEF TypeOK, VectorSearch, ServerBreaks, AsksServer
  <2>5. model' \in [Procs -> {"none", "server", "fits", "other", "absent"}]
    BY <1>a, <1>2, EmbedderType DEF TypeOK, VectorSearch
  <2> QED BY <1>a, <1>2, <2>3, <2>4, <2>5 DEF TypeOK, VectorSearch, Stages
<1>3. ASSUME NEW p \in Procs, TermSearch(p) PROVE TypeOK' /\ IsFiniteSet(made')
  <2> DEFINE rows == SearchByTerms(ask[p].topic, K)
  <2>2. rows \in SUBSET Step
    BY <1>a, TermRows, StoredSteps
  <2>3. /\ pc' \in [Procs -> Stages]
        /\ found' \in [Procs -> [rows : SUBSET Step,
                                 by : {"nobody", "vector", "terms", "recent"}]]
    <3>1. CASE rows # {}
      BY <1>a, <1>3, <2>2, <3>1, AnswerTypes DEF TermSearch
    <3>2. CASE rows = {}
      BY <1>a, <1>3, <3>2 DEF TypeOK, TermSearch, Goto, Stages
    <3> QED BY <3>1, <3>2
  <2> QED BY <1>a, <1>3, <2>3 DEF TypeOK, TermSearch, Stages
<1>4. ASSUME NEW p \in Procs, TakeRecent(p) PROVE TypeOK' /\ IsFiniteSet(made')
  <2>2. RecentSteps(K) \in SUBSET Step
    BY <1>a, TermRows, StoredSteps
  <2>3. /\ pc' \in [Procs -> Stages]
        /\ found' \in [Procs -> [rows : SUBSET Step,
                                 by : {"nobody", "vector", "terms", "recent"}]]
    BY <1>a, <1>4, <2>2, AnswerTypes DEF TakeRecent
  <2> QED BY <1>a, <1>4, <2>3 DEF TypeOK, TakeRecent, Stages
<1>5. ASSUME NEW p \in Procs, MakeStep(p) PROVE TypeOK' /\ IsFiniteSet(made')
  <2>1. PICK topic \in Topics, text \in BOOLEAN :
          LET s == [at |-> Cardinality(made) + 1, traj |-> draft[p].traj,
                    topic |-> topic, text |-> text] IN
            made' = made \cup {s} /\ draft' = [draft EXCEPT ![p].steps = Append(@, s)]
    BY <1>5 DEF MakeStep
  <2> DEFINE s == [at |-> Cardinality(made) + 1, traj |-> draft[p].traj,
                   topic |-> topic, text |-> text]
  <2>2. made' = made \cup {s} /\ draft' = [draft EXCEPT ![p].steps = Append(@, s)]
    BY <2>1
  <2>3. draft[p] \in [traj : 0..MaxTicks, steps : Seq(Step)]
    BY <1>a, DraftType
  <2>4. s \in Step
    BY <1>0, <2>3 DEF Step
  <2>5. [draft[p] EXCEPT !.steps = Append(@, s)] \in [traj : 0..MaxTicks, steps : Seq(Step)]
    <3> HIDE DEF s
    <3>1. Append(draft[p].steps, s) \in Seq(Step)
      BY <2>3, <2>4
    <3> QED BY <2>3, <3>1
  <2>6. draft' \in [Procs -> [traj : 0..MaxTicks, steps : Seq(Step)]]
    <3> HIDE DEF s
    <3> QED BY <1>a, <2>2, <2>5 DEF TypeOK
  <2>7. made' \subseteq Step /\ IsFiniteSet(made')
    <3> HIDE DEF s
    <3> QED BY <1>a, <2>2, <2>4, FS_AddElement DEF TypeOK
  <2> QED BY <1>a, <1>5, <2>6, <2>7 DEF TypeOK, MakeStep
<1>6. ASSUME NEW p \in Procs, RecallTool(p) PROVE TypeOK' /\ IsFiniteSet(made')
  BY <1>a, <1>n, <1>6 DEF TypeOK, RecallTool, BeginRecall, Goto
<1>7. ASSUME NEW p \in Procs, EndReact(p) PROVE TypeOK' /\ IsFiniteSet(made')
  BY <1>a, <1>n, <1>7 DEF TypeOK, EndReact, Goto
<1>8. ASSUME NEW p \in Procs, AddEpisode(p) PROVE TypeOK' /\ IsFiniteSet(made')
  <2>1. draft[p].traj \in 1..MaxTicks
    BY <1>a, <1>0, <1>8 DEF AddEpisode, Rest, IdsOK, IdOf
  <2> QED BY <1>a, <1>8, <2>1 DEF TypeOK, AddEpisode, Goto
<1>9. ASSUME NEW p \in Procs, WriteMeta(p) PROVE TypeOK' /\ IsFiniteSet(made')
  <2>1. draft[p].traj \in 1..MaxTicks
    BY <1>a, <1>0, <1>9 DEF WriteMeta, Rest, IdsOK, IdOf
  <2>2. trajs' \in Seq(1..MaxTicks)
    BY <1>a, <1>9, <2>1 DEF TypeOK, WriteMeta
  <2> QED BY <1>a, <1>9, <2>2 DEF TypeOK, WriteMeta, Goto
<1>10. ASSUME NEW p \in Procs, WriteSteps(p) PROVE TypeOK' /\ IsFiniteSet(made')
  <2>1. steps' \in Seq(Step)
    BY <1>a, <1>10, DraftType DEF TypeOK, WriteSteps
  <2> QED BY <1>a, <1>10, <2>1 DEF TypeOK, WriteSteps, Goto
<1>11. ASSUME NEW p \in Procs, NothingToIndex(p) PROVE TypeOK' /\ IsFiniteSet(made')
  BY <1>a, <1>11, EndTickTypes DEF TypeOK, NothingToIndex, Stages
<1>g. ASSUME NEW p \in Procs, pc[p] # "idle" PROVE draft[p].traj \in 1..MaxTicks
  BY <1>a, <1>0, <1>g DEF Rest, IdsOK, IdOf
<1>12. ASSUME NEW p \in Procs, EmbedSteps(p) PROVE TypeOK' /\ IsFiniteSet(made')
  <2>1. broken' \in [Procs -> BOOLEAN]
    BY <1>a, <1>12 DEF TypeOK, EmbedSteps, ServerBreaks, AsksServer
  <2>2. CASE Usable(Embedder(p))
    <3>1. pc' \in [Procs -> Stages]
      BY <1>a, <1>12, <2>2, ZenonT(60) DEF TypeOK, EmbedSteps, Goto, Stages
    <3>2. model' \in [Procs -> {"none", "server", "fits", "other", "absent"}]
      BY <1>a, <1>12, <2>2, EmbedderType DEF TypeOK, EmbedSteps
    <3> QED BY <1>a, <1>12, <2>1, <2>2, <3>1, <3>2 DEF TypeOK, EmbedSteps, Stages
  <2>3. CASE ~Usable(Embedder(p))
    <3>1. EndTick(p) /\ GiveUp(p)
      BY <1>12, <2>3 DEF EmbedSteps
    <3>2. givenUp' \subseteq 1..MaxTicks
      BY <1>a, <1>g, <1>12, <3>1 DEF TypeOK, GiveUp, EmbedSteps
    <3> QED BY <1>a, <1>12, <2>1, <3>1, <3>2, EndTickTypes DEF TypeOK, EmbedSteps, Stages
  <2> QED BY <2>2, <2>3
<1>13. ASSUME NEW p \in Procs, WriteIndex(p) PROVE TypeOK' /\ IsFiniteSet(made')
  <2>1. EntriesOf(p) \subseteq [step : Step, model : {"server", "fits"}]
    BY <1>a, <1>13, DraftType DEF WriteIndex, EntriesOf, Indexable, Rest, IdsOK, IdOf
  <2> QED BY <1>a, <1>13, <2>1, EndTickTypes DEF TypeOK, WriteIndex, Stages
<1>14. ASSUME NEW p \in Procs, IndexFails(p) PROVE TypeOK' /\ IsFiniteSet(made')
  BY <1>a, <1>g, <1>14, EndTickTypes DEF TypeOK, IndexFails, GiveUp, Stages
<1>15. ASSUME NEW p \in Procs, Dies(p), UNCHANGED broken \/ Forget(p)
       PROVE  TypeOK' /\ IsFiniteSet(made')
  <2>1. broken' \in [Procs -> BOOLEAN]
    BY <1>a, <1>15 DEF TypeOK, Forget
  <2> QED BY <1>a, <1>g, <1>15, <2>1, EndTickTypes DEF TypeOK, Dies, Stages
<1>16. ASSUME NEW p \in Procs, BrokenTimeEnds(p) PROVE TypeOK' /\ IsFiniteSet(made')
  BY <1>a, <1>16 DEF TypeOK, BrokenTimeEnds
<1>17. ASSUME NEW r \in Readers, ReadFirst(r) \/ ReadAndJoin(r)
       PROVE  TypeOK' /\ IsFiniteSet(made')
  <2>1. IdsIn(ReadOrder[1]) \subseteq 1..MaxTicks /\ IdsIn(ReadOrder[2]) \subseteq 1..MaxTicks
    BY <1>a, StoredSteps DEF IdsIn, ReadOrder, Rest, StoredInOrder
  <2>2. view' \in [Readers -> [read : 0..1, held : SUBSET (1..MaxTicks),
                              unknown : SUBSET (1..MaxTicks)]]
    <3>1. CASE ReadFirst(r)
      BY <1>a, <3>1, <2>1 DEF TypeOK, ReadFirst
    <3>2. CASE ReadAndJoin(r)
      BY <1>a, <3>2, <2>1 DEF TypeOK, ReadAndJoin
    <3> QED BY <1>17, <3>1, <3>2
  <2> QED BY <1>a, <1>17, <2>2 DEF TypeOK, ReadFirst, ReadAndJoin
<1>18. CASE ServerFails
  <2>1. outages' \in 0..MaxOutages
    BY <1>a, <1>0, <1>18 DEF TypeOK, ServerFails
  <2> QED BY <1>a, <1>18, <2>1 DEF TypeOK, ServerFails
<1>19. CASE ServerReturns
  BY <1>a, <1>19 DEF TypeOK, ServerReturns
<1> QED
  BY <1>1, <1>2, <1>3, <1>4, <1>5, <1>6, <1>7, <1>8, <1>9, <1>10, <1>11, <1>12, <1>13, <1>14,
     <1>15, <1>16, <1>17, <1>18, <1>19 DEF Next, Tick, Killed, TickRaises

-----------------------------------------------------------------------------
(* The rest of the invariant, action by action.                             *)
LEMMA QuietSteps ==
  ASSUME IInv,
         \/ \E p \in Procs : \/ VectorSearch(p) \/ TermSearch(p) \/ TakeRecent(p)
                             \/ RecallTool(p) \/ EndReact(p) \/ BrokenTimeEnds(p)
         \/ ServerFails \/ ServerReturns
  PROVE  Rest'
<1> USE DEF tables, services, recall, history, Quiet, InRecall
<1>a. TypeOK /\ Rest
  BY DEF IInv
<1>b. pc \in [Procs -> Stages] /\ DOMAIN model = Procs
  BY <1>a DEF TypeOK, Stages
<1>1. ASSUME NEW p \in Procs, VectorSearch(p) PROVE Quiet
  BY <1>b, <1>1 DEF VectorSearch, Answer, Goto
<1>2. ASSUME NEW p \in Procs, TermSearch(p) PROVE Quiet
  BY <1>b, <1>2 DEF TermSearch, Answer, Goto
<1>3. ASSUME NEW p \in Procs, TakeRecent(p) PROVE Quiet
  BY <1>b, <1>3 DEF TakeRecent, Answer, Goto
<1>4. ASSUME NEW p \in Procs, RecallTool(p) PROVE Quiet
  BY <1>b, <1>4 DEF RecallTool, Goto
<1>5. ASSUME NEW p \in Procs, EndReact(p) PROVE Quiet
  BY <1>b, <1>5 DEF EndReact, Goto
<1>6. ASSUME NEW p \in Procs, BrokenTimeEnds(p) PROVE Quiet
  BY <1>6 DEF BrokenTimeEnds
<1>7. ASSUME ServerFails \/ ServerReturns PROVE Quiet
  BY <1>7 DEF ServerFails, ServerReturns
<1> QED BY <1>a, <1>1, <1>2, <1>3, <1>4, <1>5, <1>6, <1>7, QuietKeeps

LEMMA StartTickKeeps ==
  ASSUME IInv, NEW p \in Procs, StartTick(p)
  PROVE  Rest'
<1> USE DEF tables
<1>a. TypeOK /\ Rest /\ begun \in Nat
  BY MemoryAssumption, SMTT(30) DEF IInv, TypeOK
<1>1. /\ UNCHANGED <<tables, view, made, died, givenUp, model>> /\ begun' = begun + 1
      /\ pc[p] = "idle" /\ pc' = [pc EXCEPT ![p] = "vector"]
      /\ draft' = [draft EXCEPT ![p] = [traj |-> begun + 1, steps |-> <<>>]]
  BY DEF StartTick, Goto
<1>2. Written' = Written /\ Stored' = Stored /\ Indexed' = Indexed
  BY <1>1 DEF Written, Stored, Indexed
<1>3. OnlyOf(p)
  BY <1>a, <1>1, <1>2 DEF OnlyOf, TypeOK
<1>4. pc'[p] = "vector" /\ draft'[p] = [traj |-> begun + 1, steps |-> <<>>] /\ DraftSteps(p)' = {}
  BY <1>a, <1>1 DEF TypeOK, DraftSteps
<1>5. IdsOK'
  <2>1. begun + 1 \notin Written /\ begun + 1 \in 1..(begun + 1)
    BY <1>a DEF Rest, IdsOK
  <2>2. IdOf(p)'
    BY <1>1, <1>2, <1>4, <2>1 DEF IdOf, Before, After
  <2> QED BY <1>a, <1>1, <1>2, <1>3, <1>4, <2>2, IdsKept DEF Rest
<1>6. AllKept'
  BY <1>a, <1>1, <1>2, <1>3, AllStayKept DEF Rest, Before
<1> QED BY <1>a, <1>1, <1>2, <1>5, <1>6 DEF Rest, StoredInOrder, HeldOK

LEMMA MakeStepKeeps ==
  ASSUME IInv, NEW p \in Procs, MakeStep(p)
  PROVE  Rest'
<1> USE DEF tables
<1>a. TypeOK /\ Rest
  BY DEF IInv
<1>1. PICK s : /\ s.traj = draft[p].traj
               /\ made' = made \cup {s}
               /\ draft' = [draft EXCEPT ![p].steps = Append(@, s)]
  BY DEF MakeStep
<1>2. UNCHANGED <<tables, view, begun, died, givenUp, model, pc>> /\ pc[p] = "react"
  BY DEF MakeStep, recall
<1>3. Written' = Written /\ Stored' = Stored /\ Indexed' = Indexed
  BY <1>2 DEF Written, Stored, Indexed
<1>4. OnlyOf(p)
  BY <1>a, <1>1, <1>2, <1>3 DEF OnlyOf, TypeOK
<1>5. draft'[p].traj = draft[p].traj /\ draft'[p].steps = Append(draft[p].steps, s)
  BY <1>a, <1>1 DEF TypeOK
<1>6. DraftSteps(p)' = DraftSteps(p) \cup {s}
  <2>1. draft[p].steps \in Seq(Step)
    BY <1>a, DraftType
  <2>2. DraftSteps(p)' = Members(Append(draft[p].steps, s))
    BY <1>5, MembersAreThen, Zenon
  <2>3. DraftSteps(p) = Members(draft[p].steps)
    BY MembersAre, Zenon
  <2> QED BY <2>1, <2>2, <2>3, MembersOfAppend
<1>7. IdsOK'
  <2>1. IdOf(p)
    BY <1>a DEF Rest, IdsOK
  <2>2. IdOf(p)'
    BY <1>1, <1>2, <1>3, <1>5, <1>6, <2>1 DEF IdOf, Before, After
  <2> QED BY <1>a, <1>2, <1>3, <1>4, <1>5, <2>2, IdsKept DEF Rest
<1>8. AllKept'
  <2>1. \A e \in DraftSteps(p)' : StepKept(e)'
    BY <1>2, Zenon DEF StepKept, Before
  <2>2. s \in DraftSteps(p)' /\ DraftSteps(p) \subseteq DraftSteps(p)'
    BY <1>6
  <2> QED BY <1>a, <1>1, <1>2, <1>3, <1>4, <2>1, <2>2, AllStayKept DEF Rest
<1> QED BY <1>a, <1>2, <1>3, <1>7, <1>8 DEF Rest, StoredInOrder, HeldOK

LEMMA AddEpisodeKeeps ==
  ASSUME IInv, NEW p \in Procs, AddEpisode(p)
  PROVE  Rest'
<1> USE DEF tables, history, recall
<1>a. TypeOK /\ Rest
  BY DEF IInv
<1>1. /\ UNCHANGED <<trajs, steps, index, draft, view, begun, died, givenUp, model, made>>
      /\ pc[p] = "episode" /\ pc' = [pc EXCEPT ![p] = "meta"]
      /\ episodes' \in {episodes, episodes \cup {draft[p].traj}}
  BY DEF AddEpisode, Goto
<1>2. Written' = Written /\ Stored' = Stored /\ Indexed' = Indexed
  BY <1>1 DEF Written, Stored, Indexed
<1>3. OnlyOf(p)
  BY <1>a, <1>1, <1>2 DEF OnlyOf, TypeOK
<1>4. pc'[p] = "meta" /\ draft'[p] = draft[p] /\ DraftSteps(p)' = DraftSteps(p)
  BY <1>a, <1>1 DEF TypeOK, DraftSteps
<1>5. IdsOK'
  <2>1. IdOf(p)
    BY <1>a DEF Rest, IdsOK
  <2>2. IdOf(p)'
    BY <1>1, <1>2, <1>4, <2>1 DEF IdOf, Before, After
  <2> QED BY <1>a, <1>1, <1>2, <1>3, <1>4, <2>2, IdsKept DEF Rest
<1>6. AllKept'
  <2>1. \A e \in DraftSteps(p) : StepKept(e)'
    BY <1>4, Zenon DEF StepKept, Before
  <2>2. \A t \in episodes' \ episodes : EpisodeKept(t)'
    BY <1>1, <1>4 DEF EpisodeKept
  <2> QED BY <1>a, <1>1, <1>2, <1>3, <2>1, <2>2, AllStayKept DEF Rest
<1> QED BY <1>a, <1>1, <1>2, <1>5, <1>6 DEF Rest, StoredInOrder, HeldOK

LEMMA WriteMetaKeeps ==
  ASSUME IInv, NEW p \in Procs, WriteMeta(p)
  PROVE  Rest'
<1> USE DEF history, recall
<1>a. TypeOK /\ Rest
  BY DEF IInv
<1>1. /\ UNCHANGED <<steps, index, episodes, draft, view, begun, died, givenUp, model, made>>
      /\ pc[p] = "meta" /\ pc' = [pc EXCEPT ![p] = "steps"]
      /\ trajs' = Append(trajs, draft[p].traj)
  BY DEF WriteMeta, Goto
<1>2. Written' = Written \cup {draft[p].traj}
  <2>1. trajs \in Seq(1..MaxTicks)
    BY <1>a DEF TypeOK
  <2> QED BY <2>1, <1>1, MembersOfAppend, MembersAre, MembersAreThen
<1>3. Stored' = Stored /\ Indexed' = Indexed
  BY <1>1 DEF Stored, Indexed
<1>4. OnlyOf(p)
  BY <1>a, <1>1, <1>2, <1>3 DEF OnlyOf, TypeOK
<1>5. pc'[p] = "steps" /\ draft'[p] = draft[p] /\ DraftSteps(p)' = DraftSteps(p)
  BY <1>a, <1>1 DEF TypeOK, DraftSteps
<1>6. IdsOK'
  <2>1. IdOf(p)
    BY <1>a DEF Rest, IdsOK
  <2>2. IdOf(p)'
    BY <1>1, <1>2, <1>3, <1>5, <2>1 DEF IdOf, Before, After
  <2> QED BY <1>a, <1>1, <1>2, <1>4, <1>5, <2>2, IdsKept DEF Rest
<1>7. AllKept'
  <2>1. \A e \in DraftSteps(p) : StepKept(e)'
    BY <1>5, Zenon DEF StepKept
  <2>2. \A t : t = draft[p].traj => EpisodeKept(t)'
    BY <1>2 DEF EpisodeKept
  <2> QED BY <1>a, <1>1, <1>3, <1>4, <2>1, <2>2, AllStayKept DEF Rest
<1> QED BY <1>a, <1>1, <1>2, <1>3, <1>6, <1>7 DEF Rest, StoredInOrder, HeldOK

LEMMA WriteStepsKeeps ==
  ASSUME IInv, NEW p \in Procs, WriteSteps(p)
  PROVE  Rest'
<1> USE DEF history, recall
<1>a. TypeOK /\ Rest
  BY DEF IInv
<1>1. /\ UNCHANGED <<trajs, index, episodes, draft, view, begun, died, givenUp, model, made>>
      /\ pc[p] = "steps" /\ pc' = [pc EXCEPT ![p] = "embed"]
      /\ steps' = steps \o draft[p].steps
  BY DEF WriteSteps, Goto
<1>2. Stored' = Stored \cup DraftSteps(p)
  <2>1. steps \in Seq(Step) /\ draft[p].steps \in Seq(Step)
    BY <1>a, DraftType DEF TypeOK
  <2> QED BY <2>1, <1>1, MembersOfConcat, MembersAre, MembersAreThen
<1>3. Written' = Written /\ Indexed' = Indexed
  BY <1>1 DEF Written, Indexed
<1>4. OnlyOf(p)
  BY <1>a, <1>1, <1>2, <1>3 DEF OnlyOf, TypeOK
<1>5. pc'[p] = "embed" /\ draft'[p] = draft[p] /\ DraftSteps(p)' = DraftSteps(p)
  BY <1>a, <1>1 DEF TypeOK, DraftSteps
<1>o. IdOf(p)
  BY <1>a DEF Rest, IdsOK
<1>6. IdsOK'
  <2>2. IdOf(p)'
    BY <1>1, <1>2, <1>3, <1>5, <1>o DEF IdOf, Before, After
  <2> QED BY <1>a, <1>1, <1>3, <1>4, <1>5, <2>2, IdsKept DEF Rest
<1>7. AllKept'
  <2>1. \A e \in DraftSteps(p) : StepKept(e)' /\ IndexKept(e)'
    BY <1>2, <1>5, Zenon DEF StepKept, IndexKept
  <2> QED BY <1>a, <1>1, <1>2, <1>4, <2>1, AllStayKept DEF Rest
<1>8. StoredInOrder'
  <2>1. \A s \in DraftSteps(p) : s.traj \in Written
    BY <1>1, <1>o DEF IdOf, After
  <2> QED BY <1>a, <1>2, <1>3, <2>1 DEF Rest, StoredInOrder
<1> QED BY <1>a, <1>1, <1>3, <1>6, <1>7, <1>8 DEF Rest, HeldOK

(* A tick ends: whatever it drafted is kept by other means.                 *)
LEMMA EndKeeps ==
  ASSUME IInv, NEW p \in Procs, EndTick(p), OnlyOf(p), pc[p] # "idle",
         Written' = Written, Stored' = Stored, Indexed' \subseteq Stored,
         begun' = begun, made' = made, episodes' = episodes, view' = view,
         \/ draft[p].traj \in died'
         \/ pc[p] \in {"embed", "index"} /\ \A s \in DraftSteps(p) : IndexKept(s)'
  PROVE  Rest'
<1>a. TypeOK /\ Rest
  BY DEF IInv
<1>1. pc'[p] = "idle" /\ draft'[p] = NoDraft
  BY <1>a DEF EndTick, Goto, TypeOK
<1>2. DraftSteps(p)' = {}
  <2>1. draft'[p].steps = <<>>
    BY <1>1 DEF NoDraft
  <2> QED BY <2>1 DEF DraftSteps
<1>3. IdsOK'
  <2>1. IdOf(p)'
    BY <1>1, <1>2 DEF IdOf, Before, After
  <2> QED BY <1>a, <1>1, <2>1, IdsKept DEF Rest
<1>o. \A s \in DraftSteps(p) : s.traj = draft[p].traj
  BY <1>a DEF Rest, IdsOK, IdOf
<1>4. AllKept'
  <2>1. pc[p] \in Before \cup {"steps"} => \A s \in DraftSteps(p) : StepKept(s)'
    BY <1>o DEF StepKept, Before
  <2>2. \A t : pc[p] = "meta" /\ draft[p].traj = t => EpisodeKept(t)'
    BY DEF EpisodeKept
  <2>3. pc[p] \in {"embed", "index"} => \A s \in DraftSteps(p) : IndexKept(s)'
    BY <1>o DEF IndexKept
  <2> QED BY <1>a, <2>1, <2>2, <2>3, AllStayKept DEF Rest
<1> QED BY <1>a, <1>3, <1>4 DEF Rest, StoredInOrder, HeldOK

LEMMA EndsKeep ==
  ASSUME IInv, NEW p \in Procs,
         \/ NothingToIndex(p) \/ WriteIndex(p) \/ IndexFails(p) \/ Dies(p)
         \/ EmbedSteps(p) /\ ~Usable(Embedder(p))
  PROVE  Rest'
<1> USE DEF tables, history
<1>a. TypeOK /\ Rest
  BY DEF IInv
<1>o. IdOf(p)
  BY <1>a DEF Rest, IdsOK
<1>e. EndTick(p) => \A q \in Procs \ {p} : pc'[q] = pc[q] /\ draft'[q] = draft[q] /\ model'[q] = model[q]
  BY <1>a DEF EndTick, Goto, TypeOK
<1>t. trajs' = trajs /\ steps' = steps => Written' = Written /\ Stored' = Stored
  BY DEF Written, Stored
<1>i. index' = index => Indexed' = Indexed
  BY DEF Indexed
<1>s. Indexed \subseteq Stored
  BY <1>a DEF Rest, StoredInOrder
<1>1. CASE NothingToIndex(p)
  <2>1. OnlyOf(p)
    BY <1>1, <1>e, <1>t, <1>i DEF OnlyOf, NothingToIndex
  <2>2. \A s \in DraftSteps(p) : IndexKept(s)'
    BY <1>1 DEF NothingToIndex, Indexable, IndexKept
  <2> QED BY <1>1, <1>t, <1>i, <1>s, <2>1, <2>2, EndKeeps DEF NothingToIndex
<1>2. CASE WriteIndex(p)
  <2> DEFINE entry(s) == [step |-> s, model |-> model[p]]
  <2>i. index' = index \cup {entry(s) : s \in Indexable(p)} /\ \A s : entry(s).step = s
    BY <1>2 DEF WriteIndex, EntriesOf
  <2>1. Indexed' = Indexed \cup Indexable(p)
    <3> HIDE DEF entry
    <3> QED BY <2>i, ZenonT(60) DEF Indexed
  <2>2. OnlyOf(p)
    BY <1>2, <1>e, <1>t, <2>1 DEF OnlyOf, WriteIndex
  <2>3. \A s \in DraftSteps(p) : IndexKept(s)'
    BY <2>1 DEF Indexable, IndexKept
  <2>4. Indexable(p) \subseteq Stored
    BY <1>2, <1>o DEF WriteIndex, IdOf, Indexable
  <2> QED BY <1>2, <1>t, <1>s, <2>1, <2>2, <2>3, <2>4, EndKeeps DEF WriteIndex
<1>3. CASE IndexFails(p) \/ (EmbedSteps(p) /\ ~Usable(Embedder(p)))
  <2>1. /\ pc[p] \in {"embed", "index"} /\ EndTick(p) /\ GiveUp(p)
        /\ UNCHANGED <<tables, view, made, begun, died>>
    BY <1>3 DEF IndexFails, EmbedSteps
  <2>2. OnlyOf(p)
    BY <1>e, <1>t, <1>i, <2>1 DEF OnlyOf, GiveUp
  <2>3. \A s \in DraftSteps(p) : IndexKept(s)'
    BY <1>o, <2>1 DEF IdOf, IndexKept, GiveUp
  <2> QED BY <1>t, <1>i, <1>s, <2>1, <2>2, <2>3, EndKeeps
<1>4. CASE Dies(p)
  <2>1. OnlyOf(p)
    BY <1>4, <1>e, <1>t, <1>i DEF OnlyOf, Dies
  <2>2. /\ EndTick(p) /\ pc[p] # "idle" /\ draft[p].traj \in died'
        /\ UNCHANGED <<tables, view, made, begun>>
    BY <1>4 DEF Dies
  <2>3. /\ Written' = Written /\ Stored' = Stored /\ Indexed' \subseteq Stored
        /\ begun' = begun /\ made' = made /\ episodes' = episodes /\ view' = view
    BY <1>t, <1>i, <1>s, <2>2
  <2> QED BY <2>1, <2>2, <2>3, EndKeeps, Zenon
<1> QED BY <1>1, <1>2, <1>3, <1>4

LEMMA EmbedKeeps ==
  ASSUME IInv, NEW p \in Procs, EmbedSteps(p), Usable(Embedder(p))
  PROVE  Rest'
<1> USE DEF tables
<1>a. TypeOK /\ Rest
  BY DEF IInv
<1>1. /\ UNCHANGED <<tables, draft, view, begun, died, givenUp, made>>
      /\ pc[p] = "embed" /\ pc' = [pc EXCEPT ![p] = "index"]
      /\ model' = [model EXCEPT ![p] = Embedder(p)]
  BY DEF EmbedSteps, Goto
<1>2. Written' = Written /\ Stored' = Stored /\ Indexed' = Indexed
  BY <1>1 DEF Written, Stored, Indexed
<1>3. OnlyOf(p)
  BY <1>a, <1>1, <1>2 DEF OnlyOf, TypeOK
<1>4. /\ pc'[p] = "index" /\ draft'[p] = draft[p] /\ DraftSteps(p)' = DraftSteps(p)
      /\ model'[p] \in {"server", "fits"}
  BY <1>a, <1>1, EmbedderType DEF TypeOK, DraftSteps
<1>5. IdsOK'
  <2>1. IdOf(p)
    BY <1>a DEF Rest, IdsOK
  <2>2. IdOf(p)'
    BY <1>1, <1>2, <1>4, <2>1 DEF IdOf, Before, After
  <2> QED BY <1>a, <1>1, <1>2, <1>3, <1>4, <2>2, IdsKept DEF Rest
<1>6. AllKept'
  <2>1. \A e \in DraftSteps(p) : IndexKept(e)'
    BY <1>4, Zenon DEF IndexKept
  <2> QED BY <1>a, <1>1, <1>2, <1>3, <2>1, AllStayKept DEF Rest, Before
<1> QED BY <1>a, <1>1, <1>2, <1>5, <1>6 DEF Rest, StoredInOrder, HeldOK

LEMMA ReadKeeps ==
  ASSUME IInv, NEW r \in Readers, ReadFirst(r) \/ ReadAndJoin(r)
  PROVE  Rest'
<1> USE DEF tables, recall, history
<1>a. TypeOK /\ Rest
  BY DEF IInv
<1>1. UNCHANGED <<tables, draft, pc, begun, died, givenUp, made, model>>
  BY DEF ReadFirst, ReadAndJoin
<1>2. HeldOK'
  <2>1. IdsIn("steps") \subseteq Written /\ IdsIn("trajs") = Written /\ Written' = Written
    BY <1>a, <1>1 DEF IdsIn, Rest, StoredInOrder, Written
  <2>2. CASE ReadFirst(r)
    BY <1>a, <2>1, <2>2 DEF Rest, HeldOK, ReadFirst, ReadOrder, TypeOK
  <2>3. CASE ReadAndJoin(r)
    BY <1>a, <2>1, <2>3 DEF Rest, HeldOK, ReadAndJoin, ReadOrder, TypeOK
  <2> QED BY <2>2, <2>3
<1>3. UNCHANGED <<Written, Stored, Indexed>> /\ \A q \in Procs : DraftSteps(q)' = DraftSteps(q)
  BY <1>1 DEF Written, Stored, Indexed, DraftSteps
<1>4. IdsOK'
  BY <1>a, <1>1, <1>3 DEF Rest, IdsOK, IdOf, Distinct
<1>5. AllKept'
  BY <1>a, <1>1, <1>3 DEF Rest, AllKept, StepKept, EpisodeKept, IndexKept
<1> QED BY <1>a, <1>2, <1>3, <1>4, <1>5 DEF Rest, StoredInOrder

-----------------------------------------------------------------------------
(* The invariant, and what follows from it.                                 *)
LEMMA InitIInv ==
  ASSUME Init
  PROVE  IInv
<1>1. TypeOK
  <2>1. NoDraft \in [traj : 0..MaxTicks, steps : Seq(Step)]
    BY MemoryAssumption DEF NoDraft
  <2>2. Nothing \in [rows : SUBSET Step, by : {"nobody", "vector", "terms", "recent"}]
    BY DEF Nothing
  <2>3. NoView \in [read : 0..1, held : SUBSET (1..MaxTicks), unknown : SUBSET (1..MaxTicks)]
    BY DEF NoView
  <2> QED BY <2>1, <2>2, <2>3, MemoryAssumption DEF Init, TypeOK
<1>2. IsFiniteSet(made)
  BY FS_EmptySet DEF Init
<1>3. Written = {} /\ Stored = {} /\ Indexed = {} /\ \A p \in Procs : DraftSteps(p) = {}
  BY DEF Init, Written, Stored, Indexed, DraftSteps, NoDraft
<1>4. IdsOK
  BY <1>3 DEF Init, IdsOK, IdOf, Distinct, Before, After
<1>5. StoredInOrder /\ AllKept /\ HeldOK
  BY <1>3 DEF Init, StoredInOrder, AllKept, HeldOK, NoView
<1> QED BY <1>1, <1>2, <1>4, <1>5 DEF IInv, Rest

LEMMA StutterIInv ==
  ASSUME IInv, UNCHANGED vars
  PROVE  IInv'
<1>1. /\ UNCHANGED <<trajs, steps, index, episodes, up, local, broken, pc, draft, ask, found,
                     model, view, made, begun, died, givenUp, outages>>
  BY DEF vars, tables, services, recall, history
<1>2. TypeOK' /\ IsFiniteSet(made')
  BY <1>1 DEF IInv, TypeOK
<1>3. Quiet
  BY <1>1 DEF Quiet
<1> QED BY <1>2, <1>3, QuietKeeps DEF IInv

LEMMA NextIInv ==
  ASSUME IInv, Next
  PROVE  IInv'
<1>1. TypeOK' /\ IsFiniteSet(made')
  BY TypeStep
<1>2. Rest'
  <2>1. ASSUME NEW p \in Procs, Tick(p) \/ BrokenTimeEnds(p) \/ Killed(p) \/ TickRaises(p)
        PROVE  Rest'
    BY <2>1, QuietSteps, StartTickKeeps, MakeStepKeeps, AddEpisodeKeeps, WriteMetaKeeps,
       WriteStepsKeeps, EndsKeep, EmbedKeeps DEF Tick, Killed, TickRaises
  <2>2. ASSUME NEW r \in Readers, ReadFirst(r) \/ ReadAndJoin(r) PROVE Rest'
    BY <2>2, ReadKeeps
  <2>3. CASE ServerFails \/ ServerReturns
    BY <2>3, QuietSteps
  <2> QED BY <2>1, <2>2, <2>3 DEF Next
<1> QED BY <1>1, <1>2 DEF IInv

LEMMA IInvKept == Spec => []IInv
<1>1. IInv /\ [Next]_vars => IInv'
  BY NextIInv, StutterIInv
<1> QED BY InitIInv, <1>1, PTL DEF Spec

LEMMA KeptAccounted ==
  ASSUME IInv
  PROVE  LossAccounted
<1>a. IdsOK /\ AllKept
  BY DEF IInv, Rest
<1>1. ASSUME NEW t \in StepLess PROVE t \in died \cup InStage({"steps"})
  <2>1. PICK s \in made : s.traj = t /\ s \notin Stored /\ t \in Written
    BY <1>1 DEF StepLess
  <2>2. StepKept(s)
    BY <1>a DEF AllKept
  <2>3. ASSUME NEW p \in Procs, pc[p] \in Before \cup {"steps"}, s \in DraftSteps(p)
        PROVE  t \in InStage({"steps"})
    <3>1. draft[p].traj = t /\ pc[p] = "steps"
      BY <1>a, <2>1, <2>3 DEF IdsOK, IdOf
    <3> QED BY <3>1 DEF InStage
  <2> QED BY <2>1, <2>2, <2>3 DEF StepKept
<1>2. ASSUME NEW t \in episodes \ Written PROVE t \in died \cup InStage({"meta"})
  BY <1>a, <1>2 DEF AllKept, EpisodeKept, InStage
<1>3. ASSUME NEW t \in Unindexed PROVE t \in died \cup givenUp \cup InStage({"embed", "index"})
  <2>1. PICK s \in Stored : s.traj = t /\ s.text /\ s \notin Indexed
    BY <1>3 DEF Unindexed
  <2>2. IndexKept(s)
    BY <1>a DEF AllKept
  <2>3. ASSUME NEW p \in Procs, pc[p] \in {"embed", "index"}, s \in DraftSteps(p)
        PROVE  t \in InStage({"embed", "index"})
    <3>1. draft[p].traj = t
      BY <1>a, <2>1, <2>3 DEF IdsOK, IdOf
    <3> QED BY <2>3, <3>1 DEF InStage
  <2> QED BY <2>1, <2>2, <2>3 DEF IndexKept
<1> QED BY <1>1, <1>2, <1>3 DEF LossAccounted

(* The state of memory has the shape TypeOK describes, for any numbers of   *)
(* processes, requests, topics, steps, ticks and failures.                  *)
THEOREM MemoryTypeCorrect == Spec => []TypeOK
<1>1. IInv => TypeOK
  BY DEF IInv
<1> QED BY <1>1, IInvKept, PTL

(* An embedding belongs to a stored step and a stored step to a stored      *)
(* trajectory, wherever ticks of any processes die between the three        *)
(* appends of EpisodicStore.write_trajectory.                               *)
THEOREM AppendsInOrder == Spec => []StoredInOrder
<1>1. IInv => StoredInOrder
  BY DEF IInv, Rest
<1> QED BY <1>1, IInvKept, PTL

(* Missing steps, trajectories and embeddings belong to a trajectory being  *)
(* written, to a tick that died or to an indexing that was given up.        *)
THEOREM LossesAccounted == Spec => []LossAccounted
<1>1. IInv => LossAccounted
  BY KeptAccounted
<1> QED BY <1>1, IInvKept, PTL

(* The cost dashboard finds the trajectory of every step it counts, since   *)
(* it reads the steps first and ticks write them last.                      *)
THEOREM CostsAttributed == Spec => []CostAttributed
<1>1. IInv => CostAttributed
  BY DEF IInv, Rest, HeldOK, CostAttributed
<1> QED BY <1>1, IInvKept, PTL

-----------------------------------------------------------------------------
(* Recalls answer (RecallAnswers), for any limits and failures.             *)

(* Sets of numbers have a first and, when bounded, a last element.         *)
LEMMA FirstOf ==
  ASSUME NEW T \in SUBSET Nat, T # {}
  PROVE  \E x \in T : \A y \in T : x <= y
<1> DEFINE R == OpToRel(<, Nat)
<1>1. IsWellFoundedOn(R, Nat)
  BY NatLessThanWellFounded
<1>2. \A x, y \in Nat : y < x => <<y, x>> \in R
  BY DEF OpToRel
<1> HIDE DEF R
<1>3. PICK x \in T : \A y \in T : ~(<<y, x>> \in R)
  BY <1>1, WFMin
<1>4. \A y \in T : ~(y < x)
  BY <1>2, <1>3
<1> QED BY <1>4

LEMMA LastOf ==
  ASSUME NEW n \in Nat, NEW T \in SUBSET (0..n), T # {}
  PROVE  \E x \in T : \A y \in T : y <= x
<1> DEFINE U == {n - y : y \in T}
<1>1. \A y \in T : y \in Nat /\ n - y \in Nat
  OBVIOUS
<1>2. U \in SUBSET Nat /\ U # {} /\ \A y \in T : n - y \in U
  BY <1>1, Zenon
<1> HIDE DEF U
<1>3. PICK u \in U : \A v \in U : u <= v
  BY <1>2, FirstOf
<1>4. PICK x \in T : u = n - x
  BY <1>3 DEF U
<1>5. \A y \in T : n - x <= n - y
  BY <1>2, <1>3, <1>4
<1> QED BY <1>1, <1>4, <1>5

(* What was stored when a recall began is still stored and still within the *)
(* rows that are read; whoever falls back to the latest steps has found     *)
(* nothing about the topic among the rows scanned.                         *)
Answered(p) ==
  /\ ask[p].stored # {} => found[p].rows # {}
  /\ About(Reach(p), ask[p].topic) => About(found[p].rows, ask[p].topic)

AskOK(p) ==
  /\ ask[p].stored \subseteq Stored
  /\ ask[p].scanned \subseteq FirstRows(ScanLimit)
  /\ ask[p].indexed \subseteq index
  /\ pc[p] # "react" => found[p].by = "nobody"
  /\ pc[p] = "recent" => ~About(ask[p].scanned, ask[p].topic)
  /\ found[p].by # "nobody" => Answered(p)

TablesOK ==
  /\ IsFiniteSet(index)
  /\ Stored \subseteq made
  /\ \A s \in made : s.at <= Cardinality(made)

RInv ==
  /\ TablesOK
  /\ DOMAIN ask = Procs
  /\ \A p \in Procs : AskOK(p)

-----------------------------------------------------------------------------
(* The searches.                                                           *)
LEMMA LatestThere ==
  ASSUME NEW rows \in SUBSET Step, rows # {}, NEW m \in Nat, \A r \in rows : r.at <= m,
         NEW n \in Nat \ {0}
  PROVE  Latest(rows, n) # {}
<1> DEFINE ats == {r.at : r \in rows}
<1>1. ats \in SUBSET (0..m) /\ ats # {}
  BY DEF Step
<1>2. PICK a \in ats : \A b \in ats : b <= a
  BY <1>1, LastOf
<1>3. PICK r \in rows : r.at = a
  BY <1>2
<1>4. \A o \in rows : o.at \in ats
  OBVIOUS
<1>5. \A o \in rows : ~(o.at > r.at)
  <2> SUFFICES ASSUME NEW o \in rows PROVE ~(o.at > r.at)
    OBVIOUS
  <2>1. o.at <= r.at /\ o.at \in Nat /\ r.at \in Nat
    BY <1>2, <1>3, <1>4 DEF Step
  <2> QED BY <2>1
<1> DEFINE later == {o \in rows : o.at > r.at}
<1>6. later = {}
  BY <1>5, Zenon
<1>7. Cardinality(later) < n
  <2> HIDE DEF later
  <2>1. Cardinality(later) = 0
    BY <1>6, FS_EmptySet
  <2> QED BY <2>1
<1> QED BY <1>3, <1>7 DEF Latest

LEMMA NearThere ==
  ASSUME NEW es, IsFiniteSet(es), NEW n \in Nat \ {0}, NEW m, NEW topic,
         NEW T \in Nearest(es, n, m, topic), NEW e \in es, IsNear(e, m, topic)
  PROVE  \E t \in T : IsNear(t, m, topic)
<1>1. CASE e \in T
  BY <1>1
<1>2. CASE e \notin T
  <2>1. \A t \in T : IsNear(t, m, topic)
    BY <1>2, Zenon DEF Nearest
  <2>2. Cardinality(es) \in Nat /\ Cardinality(es) # 0
    BY FS_CardinalityType, FS_EmptySet
  <2>3. Cardinality(T) # 0
    BY <2>2 DEF Nearest
  <2>4. T # {}
    BY <2>3, FS_EmptySet
  <2> QED BY <2>1, <2>4
<1> QED BY <1>1, <1>2

LEMMA VectorsAnswer ==
  ASSUME IsFiniteSet(index), Indexed \subseteq Stored, NEW m, Usable(m), NEW topic,
         NEW rows \in SearchByVector(m, topic, K),
         NEW e \in index, e.model = m, e.step.topic = topic
  PROVE  About(rows, topic)
<1>0. K \in Nat \ {0} /\ 2 * K \in Nat \ {0}
  BY MemoryAssumption
<1>1. PICK S \in Nearest(index, 2 * K, m, topic) :
        rows \in {{d.step : d \in T} : T \in Nearest({d \in S : d.step \in Stored}, K, m, topic)}
  BY Zenon DEF SearchByVector
<1>2. PICK T \in Nearest({d \in S : d.step \in Stored}, K, m, topic) : rows = {d.step : d \in T}
  BY <1>1, Zenon
<1>3. S \subseteq index
  BY <1>1, Zenon DEF Nearest
<1>4. {d \in S : d.step \in Stored} = S
  BY <1>3 DEF Indexed
<1>5. PICK d \in S : IsNear(d, m, topic)
  BY <1>0, NearThere DEF IsNear
<1>6. IsFiniteSet(S)
  BY <1>3, FS_Subset
<1>7. T \in Nearest(S, K, m, topic)
  BY <1>2, <1>4, Zenon
<1>8. PICK t \in T : IsNear(t, m, topic)
  BY <1>0, <1>5, <1>6, <1>7, NearThere
<1> QED BY <1>2, <1>8 DEF About, IsNear

-----------------------------------------------------------------------------
(* What the invariant of EpisodicMemoryProofs gives to the searches.        *)
LEMMA StoredTimes ==
  ASSUME IInv, RInv
  PROVE  /\ Stored \subseteq made /\ made \in SUBSET Step /\ Cardinality(made) \in Nat
         /\ \A n : FirstRows(n) \subseteq Stored
         /\ \A s \in Stored : s.at <= Cardinality(made)
<1>1. made \in SUBSET Step /\ Cardinality(made) \in Nat
  BY FS_CardinalityType DEF IInv, TypeOK
<1>2. Stored \subseteq made
  BY DEF RInv, TablesOK
<1>3. \A n : FirstRows(n) \subseteq Stored
  BY DEF FirstRows, Stored
<1> QED BY <1>1, <1>2, <1>3 DEF RInv, TablesOK

(* A keyword search finds something when a row it scans has the topic.      *)
LEMMA TermsAnswer ==
  ASSUME IInv, RInv, NEW topic, About(FirstRows(ScanLimit), topic)
  PROVE  SearchByTerms(topic, K) # {}
<1> DEFINE rows == {r \in FirstRows(ScanLimit) : r.topic = topic}
<1>1. rows # {}
  BY DEF About
<1>2. rows \in SUBSET Step /\ \A r \in rows : r.at <= Cardinality(made)
  BY StoredTimes
<1>3. K \in Nat \ {0} /\ Cardinality(made) \in Nat
  BY MemoryAssumption, StoredTimes
<1> HIDE DEF rows
<1>4. Latest(rows, K) # {}
  BY <1>1, <1>2, <1>3, LatestThere
<1> QED BY <1>4 DEF SearchByTerms, rows

(* The latest steps are there when anything is stored.                      *)
LEMMA RecentAnswers ==
  ASSUME IInv, RInv, Stored # {}
  PROVE  RecentSteps(K) # {}
<1>1. K * Factor \in Nat /\ K * Factor >= 1 /\ K \in Nat \ {0}
  <2>1. \A a, b \in Nat \ {0} : a * b \in Nat /\ a * b >= 1
    OBVIOUS
  <2> QED BY <2>1, MemoryAssumption
<1>2. FirstRows(K * Factor) # {}
  <2>1. steps \in Seq(Step) /\ DOMAIN steps # {}
    BY DEF IInv, TypeOK, Stored
  <2>2. 1 \in DOMAIN steps
    BY <2>1
  <2>3. steps[1] \in FirstRows(K * Factor)
    BY <1>1, <2>2 DEF FirstRows
  <2> QED BY <2>3
<1>3. Latest(FirstRows(K * Factor), K) # {}
  BY <1>1, <1>2, StoredTimes, LatestThere
<1> QED BY <1>3 DEF RecentSteps

-----------------------------------------------------------------------------
(* One process: what a step does to its latest recall.                      *)
Grown ==
  /\ Stored \subseteq Stored'
  /\ FirstRows(ScanLimit) \subseteq FirstRows(ScanLimit)'
  /\ index \subseteq index'

LEMMA AskStays ==
  ASSUME Grown, NEW q \in Procs, AskOK(q), ask'[q] = ask[q], found'[q] = found[q],
         model'[q] = model[q] \/ found[q].by = "nobody",
         pc'[q] = pc[q] \/ (found[q].by = "nobody" /\ pc'[q] # "recent")
  PROVE  AskOK(q)'
<1>1. found[q].by # "nobody" => Answered(q)'
  BY DEF AskOK, Answered, Reach, About
<1> QED BY <1>1 DEF AskOK, Grown, About

LEMMA AskCleared ==
  ASSUME NEW q \in Procs, ask'[q] = NoAsk, found'[q] = Nothing, pc'[q] # "recent"
  PROVE  AskOK(q)'
BY DEF AskOK, NoAsk, Nothing

LEMMA AskBegins ==
  ASSUME Grown, NEW q \in Procs, found'[q] = Nothing, pc'[q] # "recent",
         ask'[q].stored = Stored, ask'[q].scanned = FirstRows(ScanLimit), ask'[q].indexed = index
  PROVE  AskOK(q)'
BY DEF AskOK, Grown, Nothing

LEMMA AskAnswered ==
  ASSUME Grown, NEW q \in Procs, AskOK(q), ask'[q] = ask[q], pc'[q] = "react", Answered(q)'
  PROVE  AskOK(q)'
BY DEF AskOK, Grown

LEMMA VectorSearchKeeps ==
  ASSUME IInv, RInv, NEW p \in Procs, VectorSearch(p), Grown
  PROVE  AskOK(p)'
<1> DEFINE m == Embedder(p)
           topic == ask[p].topic
<1>0. AskOK(p) /\ pc[p] = "vector" /\ ask' = ask /\ model'[p] = m
  BY DEF RInv, VectorSearch, IInv, TypeOK
<1>1. PICK rows \in SearchByVector(m, topic, K) :
        IF rows # {}
        THEN Answer(p, rows, "vector")
        ELSE UNCHANGED found /\ Goto(p, IF topic = Stopwords THEN "recent" ELSE "terms")
  BY DEF VectorSearch
<1>n. found[p].by = "nobody"
  BY <1>0 DEF AskOK
<1>2. CASE rows # {}
  <2>1. found'[p] = [rows |-> rows, by |-> "vector"] /\ pc'[p] = "react"
    BY <1>1, <1>2 DEF Answer, Goto, IInv, TypeOK
  <2>2. Usable(m)
    BY <1>2 DEF SearchByVector
  <2>3. ASSUME NEW e \in ask[p].indexed, e.model = m, e.step.topic = topic
        PROVE  About(rows, topic)
    <3>1. e \in index /\ IsFiniteSet(index) /\ Indexed \subseteq Stored
      BY <1>0 DEF AskOK, RInv, TablesOK, IInv, Rest, StoredInOrder
    <3> QED BY <2>2, <2>3, <3>1, VectorsAnswer
  <2>4. About(Reach(p)', topic) => About(rows, topic)
    BY <1>0, <2>1, <2>3 DEF About, Reach
  <2>5. Answered(p)'
    BY <1>0, <1>2, <2>1, <2>4 DEF Answered, About
  <2> QED BY <1>0, <2>1, <2>5, AskAnswered
<1>3. CASE rows = {}
  <2>1. found' = found /\ pc'[p] = IF topic = Stopwords THEN "recent" ELSE "terms"
    BY <1>1, <1>3 DEF Goto, IInv, TypeOK
  <2>2. CASE topic = Stopwords
    <3>1. ask[p].scanned \subseteq Step
      BY <1>0, StoredTimes DEF AskOK
    <3>2. ~About(ask[p].scanned, topic)
      BY <2>2, <3>1, MemoryAssumption DEF About, Step
    <3> QED BY <1>0, <1>n, <2>1, <3>2 DEF AskOK, Grown, About
  <2>3. CASE topic # Stopwords
    BY <1>0, <1>n, <2>1, <2>3, AskStays
  <2> QED BY <2>2, <2>3
<1> QED BY <1>2, <1>3

LEMMA TermSearchKeeps ==
  ASSUME IInv, RInv, NEW p \in Procs, TermSearch(p), Grown
  PROVE  AskOK(p)'
<1> DEFINE topic == ask[p].topic
           rows == SearchByTerms(topic, K)
<1>0. AskOK(p) /\ pc[p] = "terms" /\ ask' = ask /\ model' = model
  BY DEF RInv, TermSearch
<1>n. found[p].by = "nobody"
  BY <1>0 DEF AskOK
<1>1. IF rows # {} THEN Answer(p, rows, "terms") ELSE UNCHANGED found /\ Goto(p, "recent")
  BY DEF TermSearch
<1>t. \A r \in rows : r.topic = topic
  BY DEF SearchByTerms, Latest
<1>f. About(ask[p].scanned, topic) => rows # {}
  BY <1>0, TermsAnswer DEF AskOK, About
<1> HIDE DEF rows
<1>2. CASE rows # {}
  <2>1. found'[p] = [rows |-> rows, by |-> "terms"] /\ pc'[p] = "react"
    BY <1>1, <1>2 DEF Answer, Goto, IInv, TypeOK
  <2>2. Answered(p)'
    BY <1>0, <1>2, <1>t, <2>1 DEF Answered, About
  <2> QED BY <1>0, <2>1, <2>2, AskAnswered
<1>3. CASE rows = {}
  <2>1. found' = found /\ pc'[p] = "recent"
    BY <1>1, <1>3 DEF Goto, IInv, TypeOK
  <2> QED BY <1>0, <1>n, <1>f, <1>3, <2>1 DEF AskOK, Grown, About
<1> QED BY <1>2, <1>3

LEMMA TakeRecentKeeps ==
  ASSUME IInv, RInv, NEW p \in Procs, TakeRecent(p), Grown
  PROVE  AskOK(p)'
<1> DEFINE rows == RecentSteps(K)
<1>0. AskOK(p) /\ pc[p] = "recent" /\ ask' = ask
  BY DEF RInv, TakeRecent
<1>1. found'[p] = [rows |-> rows, by |-> "recent"] /\ pc'[p] = "react"
  BY DEF TakeRecent, Answer, Goto, IInv, TypeOK
<1>2. ask[p].stored # {} => rows # {}
  BY <1>0, RecentAnswers DEF AskOK
<1>3. ~About(ask[p].scanned, ask[p].topic)
  BY <1>0 DEF AskOK
<1> HIDE DEF rows
<1>4. Answered(p)'
  BY <1>0, <1>1, <1>2, <1>3 DEF Answered, Reach, About
<1> QED BY <1>0, <1>1, <1>4, AskAnswered

-----------------------------------------------------------------------------
(* The tables: three actions write what recall reads, and each only adds.   *)
LEMMA SameTables ==
  ASSUME RInv, UNCHANGED <<steps, index, made>>
  PROVE  Grown /\ TablesOK'
<1>1. Stored' = Stored /\ FirstRows(ScanLimit)' = FirstRows(ScanLimit)
  BY DEF Stored, FirstRows
<1> QED BY <1>1 DEF Grown, RInv, TablesOK

LEMMA MakeStepTables ==
  ASSUME IInv, RInv, NEW p \in Procs, MakeStep(p)
  PROVE  Grown /\ TablesOK'
<1> DEFINE n == Cardinality(made)
<1>1. PICK s : made' = made \cup {s} /\ s.at = n + 1
  BY DEF MakeStep
<1>2. UNCHANGED <<steps, index>>
  BY DEF MakeStep, tables
<1>3. Stored' = Stored /\ FirstRows(ScanLimit)' = FirstRows(ScanLimit)
  BY <1>2 DEF Stored, FirstRows
<1>4. n \in Nat /\ (\A r \in made : r.at <= n) /\ Stored \subseteq made /\ made \subseteq Step
  BY StoredTimes DEF RInv, TablesOK
<1>5. s \notin made
  BY <1>1, <1>4
<1>6. Cardinality(made') = n + 1
  BY <1>1, <1>5, FS_AddElement DEF IInv
<1>7. \A r \in made' : r.at <= Cardinality(made')
  <2>1. \A r \in made : r.at \in Nat
    BY <1>4 DEF Step
  <2> QED BY <2>1, <1>1, <1>4, <1>6
<1> QED BY <1>1, <1>2, <1>3, <1>4, <1>7 DEF Grown, RInv, TablesOK

LEMMA WriteStepsTables ==
  ASSUME IInv, RInv, NEW p \in Procs, WriteSteps(p)
  PROVE  Grown /\ TablesOK'
<1> DEFINE t == draft[p].steps
<1>1. steps' = steps \o t /\ UNCHANGED <<index, made>>
  BY DEF WriteSteps, history
<1>2. steps \in Seq(Step) /\ t \in Seq(Step)
  BY DraftType DEF IInv, TypeOK
<1>3. Stored' = Stored \cup DraftSteps(p)
  BY <1>1, <1>2, MembersOfConcat, MembersAre, MembersAreThen
<1>4. DraftSteps(p) \subseteq made
  BY DEF IInv, Rest, IdsOK, IdOf
<1>5. \A i \in DOMAIN steps : i \in DOMAIN steps' /\ steps'[i] = steps[i]
  <2> HIDE DEF t
  <2> QED BY <1>1, <1>2
<1>6. FirstRows(ScanLimit) \subseteq FirstRows(ScanLimit)'
  BY <1>5, Zenon DEF FirstRows
<1> QED BY <1>1, <1>3, <1>4, <1>6 DEF Grown, RInv, TablesOK

LEMMA WriteIndexTables ==
  ASSUME IInv, RInv, NEW p \in Procs, WriteIndex(p)
  PROVE  Grown /\ TablesOK'
<1>1. index' = index \cup EntriesOf(p) /\ UNCHANGED <<steps, made>>
  BY DEF WriteIndex, history
<1>2. Stored' = Stored /\ FirstRows(ScanLimit)' = FirstRows(ScanLimit)
  BY <1>1 DEF Stored, FirstRows
<1>3. IsFiniteSet(Indexable(p))
  <2>1. Indexable(p) \in SUBSET made
    BY DEF Indexable, IInv, Rest, IdsOK, IdOf
  <2> QED BY <2>1, FS_Subset DEF IInv
<1>4. IsFiniteSet(EntriesOf(p))
  <2> DEFINE f == [s \in Indexable(p) |-> [step |-> s, model |-> model[p]]]
  <2>1. f \in [Indexable(p) -> EntriesOf(p)]
    BY DEF EntriesOf
  <2>2. \A e \in EntriesOf(p) : \E s \in Indexable(p) : f[s] = e
    BY DEF EntriesOf
  <2>3. f \in Surjection(Indexable(p), EntriesOf(p))
    BY <2>1, <2>2 DEF Surjection
  <2> QED BY <1>3, <2>3, FS_Surjection
<1>5. IsFiniteSet(index')
  BY <1>1, <1>4, FS_Union DEF RInv, TablesOK
<1> QED BY <1>1, <1>2, <1>5 DEF Grown, RInv, TablesOK

LEMMA TablesStep ==
  ASSUME IInv, RInv, Next
  PROVE  Grown /\ TablesOK'
<1> USE DEF tables, history
<1>1. ASSUME NEW p \in Procs, Tick(p) \/ BrokenTimeEnds(p) \/ Killed(p) \/ TickRaises(p)
      PROVE  Grown /\ TablesOK'
  <2>1. CASE MakeStep(p)
    BY <2>1, MakeStepTables
  <2>2. CASE WriteSteps(p)
    BY <2>2, WriteStepsTables
  <2>3. CASE WriteIndex(p)
    BY <2>3, WriteIndexTables
  <2>4. CASE \/ StartTick(p) \/ VectorSearch(p) \/ TermSearch(p) \/ TakeRecent(p)
             \/ RecallTool(p) \/ EndReact(p) \/ AddEpisode(p) \/ WriteMeta(p)
    BY <2>4, SameTables DEF StartTick, VectorSearch, TermSearch, TakeRecent, RecallTool,
       EndReact, AddEpisode, WriteMeta
  <2>5. CASE \/ NothingToIndex(p) \/ EmbedSteps(p) \/ IndexFails(p)
             \/ BrokenTimeEnds(p) \/ Dies(p)
    BY <2>5, SameTables DEF NothingToIndex, EmbedSteps, IndexFails, BrokenTimeEnds, Dies
  <2> QED BY <1>1, <2>1, <2>2, <2>3, <2>4, <2>5 DEF Tick, Killed, TickRaises
<1>2. ASSUME NEW r \in Readers, ReadFirst(r) \/ ReadAndJoin(r) PROVE Grown /\ TablesOK'
  BY <1>2, SameTables DEF ReadFirst, ReadAndJoin
<1>3. CASE ServerFails \/ ServerReturns
  BY <1>3, SameTables DEF ServerFails, ServerReturns
<1> QED BY <1>1, <1>2, <1>3 DEF Next

-----------------------------------------------------------------------------
(* Recalls: those of other processes stay, that of the one that steps is    *)
(* kept by each of its actions.                                             *)
SameAsk(q) ==
  pc'[q] = pc[q] /\ ask'[q] = ask[q] /\ found'[q] = found[q] /\ model'[q] = model[q]

LEMMA OthersAsk ==
  ASSUME IInv, RInv, NEW p \in Procs, Tick(p) \/ BrokenTimeEnds(p) \/ Dies(p)
  PROVE  DOMAIN ask' = Procs /\ \A q \in Procs \ {p} : SameAsk(q)
<1> USE DEF recall, SameAsk, Goto, EndTick, BeginRecall, Answer
<1>0. /\ DOMAIN pc = Procs /\ DOMAIN ask = Procs /\ DOMAIN found = Procs /\ DOMAIN model = Procs
      /\ \A q \in Procs \ {p} : q # p
  BY DEF IInv, RInv, TypeOK
<1>1. CASE StartTick(p) \/ RecallTool(p)
  BY <1>0, <1>1 DEF StartTick, RecallTool
<1>2. CASE VectorSearch(p)
  BY <1>0, <1>2 DEF VectorSearch
<1>3. CASE TermSearch(p) \/ TakeRecent(p)
  BY <1>0, <1>3 DEF TermSearch, TakeRecent
<1>4. CASE \/ MakeStep(p) \/ EndReact(p) \/ AddEpisode(p) \/ WriteMeta(p) \/ WriteSteps(p)
           \/ BrokenTimeEnds(p)
  BY <1>0, <1>4 DEF MakeStep, EndReact, AddEpisode, WriteMeta, WriteSteps, BrokenTimeEnds
<1>5. CASE NothingToIndex(p) \/ WriteIndex(p) \/ IndexFails(p) \/ Dies(p)
  BY <1>0, <1>5 DEF NothingToIndex, WriteIndex, IndexFails, Dies
<1>6. CASE EmbedSteps(p)
  BY <1>0, <1>6 DEF EmbedSteps
<1> QED BY <1>1, <1>2, <1>3, <1>4, <1>5, <1>6 DEF Tick

LEMMA OwnAsk ==
  ASSUME IInv, RInv, Grown, NEW p \in Procs, Tick(p) \/ BrokenTimeEnds(p) \/ Dies(p)
  PROVE  AskOK(p)'
<1> USE DEF recall, Goto, EndTick, BeginRecall
<1>0. /\ DOMAIN pc = Procs /\ DOMAIN ask = Procs /\ DOMAIN found = Procs /\ DOMAIN model = Procs
      /\ AskOK(p)
  BY DEF IInv, RInv, TypeOK
<1>n. pc[p] # "react" => found[p].by = "nobody"
  BY <1>0 DEF AskOK
<1>1. CASE StartTick(p) \/ RecallTool(p)
  BY <1>0, <1>1, AskBegins DEF StartTick, RecallTool
<1>2. CASE VectorSearch(p)
  BY <1>2, VectorSearchKeeps
<1>3. CASE TermSearch(p) \/ TakeRecent(p)
  BY <1>3, TermSearchKeeps, TakeRecentKeeps
<1>4. CASE MakeStep(p) \/ BrokenTimeEnds(p)
  BY <1>0, <1>4, AskStays DEF MakeStep, BrokenTimeEnds
<1>5. CASE AddEpisode(p) \/ WriteMeta(p) \/ WriteSteps(p)
  BY <1>0, <1>n, <1>5, AskStays DEF AddEpisode, WriteMeta, WriteSteps
<1>6. CASE NothingToIndex(p) \/ WriteIndex(p) \/ IndexFails(p) \/ Dies(p) \/ EndReact(p)
  BY <1>0, <1>6, AskCleared DEF NothingToIndex, WriteIndex, IndexFails, Dies, EndReact
<1>7. CASE EmbedSteps(p) /\ Usable(Embedder(p))
  BY <1>0, <1>n, <1>7, AskStays DEF EmbedSteps
<1>8. CASE EmbedSteps(p) /\ ~Usable(Embedder(p))
  BY <1>0, <1>8, AskCleared DEF EmbedSteps
<1> QED BY <1>1, <1>2, <1>3, <1>4, <1>5, <1>6, <1>7, <1>8 DEF Tick

LEMMA NextRInv ==
  ASSUME IInv, RInv, Next
  PROVE  RInv'
<1>g. Grown /\ TablesOK'
  BY TablesStep
<1>0. DOMAIN ask = Procs /\ \A q \in Procs : AskOK(q)
  BY DEF RInv
<1>1. ASSUME NEW p \in Procs, Tick(p) \/ BrokenTimeEnds(p) \/ Dies(p)
      PROVE  RInv'
  <2>1. DOMAIN ask' = Procs /\ \A q \in Procs \ {p} : AskOK(q)'
    BY <1>g, <1>0, <1>1, OthersAsk, AskStays DEF SameAsk
  <2>2. AskOK(p)'
    BY <1>g, <1>1, OwnAsk
  <2> QED BY <1>g, <2>1, <2>2 DEF RInv
<1>2. ASSUME UNCHANGED <<pc, recall>> PROVE RInv'
  BY <1>g, <1>0, <1>2, AskStays DEF RInv, recall
<1>3. CASE \E r \in Readers : ReadFirst(r) \/ ReadAndJoin(r)
  BY <1>2, <1>3 DEF ReadFirst, ReadAndJoin
<1>4. CASE ServerFails \/ ServerReturns
  BY <1>2, <1>4 DEF ServerFails, ServerReturns
<1> QED BY <1>1, <1>3, <1>4 DEF Next, Killed, TickRaises

LEMMA RInvKept == Spec => [](IInv /\ RInv)
<1>1. Init => IInv /\ RInv
  <2>1. ASSUME Init PROVE RInv
    <3>1. IsFiniteSet(index) /\ made = {} /\ Stored = {} /\ DOMAIN ask = Procs
      BY <2>1, FS_EmptySet DEF Init, Stored
    <3>2. \A p \in Procs : ask[p] = NoAsk /\ found[p] = Nothing /\ pc[p] = "idle"
      BY <2>1 DEF Init
    <3>3. \A p \in Procs : AskOK(p)
      BY <3>2 DEF AskOK, NoAsk, Nothing
    <3> QED BY <3>1, <3>3 DEF RInv, TablesOK
  <2> QED BY <2>1, InitIInv
<1>2. IInv /\ RInv /\ [Next]_vars => (IInv /\ RInv)'
  <2>1. ASSUME IInv, RInv, UNCHANGED vars PROVE RInv'
    <3>1. UNCHANGED <<steps, index, made, pc, ask, found, model>>
      BY <2>1 DEF vars, tables, services, recall, history
    <3>2. Grown /\ TablesOK'
      BY <2>1, <3>1, SameTables
    <3> QED BY <2>1, <3>1, <3>2, AskStays DEF RInv
  <2> QED BY <2>1, NextRInv, NextIInv, StutterIInv
<1> QED BY <1>1, <1>2, PTL DEF Spec

(* A recall finds something whenever something was stored when it began,    *)
(* and finds a step about its topic whenever one was within its reach, for  *)
(* any processes that write meanwhile, any limits, and however the          *)
(* embedding server and the local model alternate.                          *)
THEOREM RecallsAnswer == Spec => []RecallAnswers
<1>1. IInv /\ RInv => RecallAnswers
  BY DEF RInv, RecallAnswers, AskOK, Answered
<1> QED BY <1>1, RInvKept, PTL
=============================================================================
