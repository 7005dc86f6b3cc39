# harnes: a verification project

TLA+ specifications of *harnes*, an autonomous agent that runs one *metacycle
tick* after another: it picks a goal, lets a language model work on it with
tools (ReAct), verifies the result and stores it.  An operator works on the same
stores through a CLI and a web console.  The specifications are written from the
code under `src/harnes/`; TLC checks them on small instances, and TLAPS proves the
most important invariants for every instance.

## 1. The system

| component | state it keeps | operations | interacts with |
|---|---|---|---|
| Goal repository (`goals/`) | rows of the SQLite table `goals`: class, status, priority, parent, predicate, metadata | `create`, `get`, `update`, lists, `approve`, `reject` | everybody; each call is one transaction, no lock or version is kept between calls |
| Metacycle tick (`metacycle/tick.py`) | a `TickState` in memory: focus, the goal object, trajectory, verdict | sense, attend, standing check, arbitration, recall, ReAct, verify, world update, store, reflect | goal repository, episodic memory, verifiers, ReAct |
| Standing goals (`metacycle/standing.py`) | goals of class `standing`, ACTIVE for good | two policies, open-child check, spawn, bootstrap | goal repository, the tick's focus |
| Operators (`operator/cli.py`, `webui/routers/api_goals.py`) | none; a request reads a goal and writes it back | enter, approve, reject, abandon, budget, bulk, bootstrap | goal repository, concurrently with ticks |
| Run loop (`operator/cli.py: run_loop`) | tick id, counters, pause flag, force flag | resume, drain, tick, snapshot, shutdown | commands, journal, tick |
| Console commands (`metacycle/commands.py`) | append-only command log with a consumed status | `issue`, `drain`, `mark_consumed`, `latest_pause_state` | console writes, loop reads and marks |
| Tick journal (`metacycle/journal.py`) | events, snapshots of the counters | `append`, `snapshot`, `latest_snapshot` | run loop, console |
| ReAct loop (`react/loop.py`) | trajectory, token count, rejections | thought, action, critique, execution, loop detection | language model, critic, tool registry |
| Critic (`react/critic.py`) | none | `critique_action` | language model |
| Tool registry and built-in tools (`tools/`) | tools and their retry policies; files | irreversibility, `invoke` with retries | file system, memory |
| Verifiers (`metacycle/verifiers.py`) | none | structural, judge, state change, composite, external | tools, language model, goal repository |
| Reflection (`metacycle/reflect.py`), skill registry (`skills/`) | skill YAML files with versions, git commits and tags, invocation rows | propose a new prompt version, propose an inquiry; save, commit, tag | tick, git, the console's edit form |
| Episodic memory (`memory/episodic.py`), recall (`memory/router.py`, `tools/builtin/recall.py`) | three LanceDB tables: trajectories, steps, step embeddings | `write_trajectory`, searches by vector and by terms, latest steps, recall | tick, ReAct (the recall tool), cost dashboard |
| Embeddings (`llm/embeddings.py`) | per process, the time until which the server counts as broken; a local model | `embed` | episodic memory, recall |
| World model, semantic memory (`memory/world.py`, `memory/semantic.py`) | remote graph and vector store | `add_episode`; thin adapters that fail open | tick |
| Language model client (`llm/`) | none | chat with retries | everybody who asks a model |
| Evaluation (`eval/`, `cli.py: run_eval, eval_compare`) | SQLite table `eval_runs` | attempts, metrics, `capture_skill_versions`, record, compare, cut a context into chunks | skills, ReAct, episodic memory |
| Console views (`webui/routers/`) | none | lists, search, dashboards, live feed | reads all stores, several times per page |

**What is hard.**  Ticks and operators share rows without locks and write whole
rows back (lost updates).  A tick holds its goal object through minutes of ReAct
(stale state).  A tick writes to two databases, and to three tables of one of them,
without a transaction around them (crashes in between).  More than one process may
tick (`run-tick` beside `run-loop`).  The loop must survive kills and Ctrl+C at every
point with its pause, its counters and its command log.  The ReAct loop has to bound
whatever a model answers.  Embeddings come from one of two models, whose vectors
cannot be compared.  A console page joins several reads while others write.
`PROJECT.json` lists these hazards at their lines, with the properties that watch over
each.

Real as well, but watched by no property: `enter-goal` and the console accept the class
`standing` (`cli.py:95`), and such a goal is executed and closed; `--max-ticks` is
compared with the absolute tick id that a resume restores (`cli.py:657`); a budget edit
writes back the status it read (`api_goals.py:351`), which may reopen a settled goal or
close an open one; two bootstraps at once both find a policy missing
(`standing.py:247`); `Tool.timeout_seconds` is enforced nowhere (`registry.py:182`);
reflection rewrites the version of the skill that it reads after the trajectory, not
the one that ran (`tick.py:280`); the chunk store of an evaluation compares vectors of
two models, cut to the shorter by `zip` (`multi_turn.py:98`).  The theorems of section 4
name the second bootstrap and the budget edit in their assumptions.

**What makes each component correct.**  Goals: no goal runs unapproved; none is
settled without a stored trajectory; each follows one life cycle; a pending one
waits for ever only if certain goals keep overtaking it.  Standing goals: at most one open child, at most
`max_diagnoses_per_target` diagnoses of one failure, one standing goal per policy.
Run loop: commands in order, exactly once; a pause survives; a trigger gets through;
counters agree with tick ids; bounded loss.  ReAct: destruction only after a passing
critique; bounded tokens, retries and repetition; a status that tells how it ended.
Verification: a verdict rests on evidence.  Skills: a number, a text and a tag go wrong
only where saves overlap.  Memory: tables agree row by row; what is missing has a reason;
a recall finds what it can reach.  Evaluation: recorded figures agree with each other and
with the versions they were measured with; unlike runs are not compared in silence; a
chunk holds every passage in one piece.  Views: what a page shows or leaves out has a
reason.

## 2. Modules

| module | models | notes |
|---|---|---|
| `GoalStore` | `goals/schema.py`, `goals/store.py` | the board as a sequence of rows; reads and writes as operators |
| `Metacycle` | `tick.py`, `standing.py`, the operators' handlers | any number of ticking processes (`Agents`) and requests (`Operators`) |
| `GoalLifecycle` | abstract: what each goal goes through | `Metacycle` implements it (`FollowsLifecycle`) |
| `MCMetacycle` | the boards TLC starts from | |
| `GoalQueue` | the pending goals of `tick.py`, `standing.py`, `reflect.py`, as a queue | one endlessly ticking process; ticks may spawn without end |
| `RunLoop` | `run_loop`, `commands.py`, `journal.py` | the tick returns or raises |
| `LoopControl` | abstract: what the command log promises the console | `RunLoop` implements it (`ObeysConsole`) |
| `ReactLoop` | `loop.py`, `critic.py`, `registry.py`, `write_file` | the model is the environment |
| `Verifiers` | `verifiers.py` | one verification, with whatever judge, tool and children answer |
| `SkillVersions` | `skills/store.py`, `reflect.py`, `api_skills.py` | one bundle, written by ticks and console |
| `EpisodicMemory`, `MCEpisodicMemory` | `episodic.py`, `embeddings.py`, `router.py`, `recall.py`, `world.py`, the joins of `api_cost.py` | any number of ticking processes on one memory |
| `EvalRuns`, `MCEvalRuns` | `harness.py`, `history.py`, `cli.py: run_eval, eval_compare` | evaluations beside each other and beside ticks that save skills |
| `Chunking` | `multi_turn.py: chunk_text` | runs before an evaluation, in `MCEvalRuns` |
| `ConsoleViews` | the pages and the feed that read more than once | the loop and the writers are reduced to what they append and write |
| `MetacycleProofs`, `RunLoopProofs`, `ReactLoopProofs`, `SkillVersionsProofs`, `EpisodicMemoryProofs`, `EvalProofs`, `ConsoleViewsProofs`, `VerifiersProofs` | theorems about the module of that name; `EvalProofs` is about `EvalRuns` and `Chunking` | TLAPS |

**Metacycle.**  `pc[a]` is the stage of a tick.  `held[a]` is its goal object: `PickGoal`
reads it, `Activate`, `Settle` write it back *whole* (`Update`), as
`GoalRepository.update` does.  `op[u]` is the goal object of an operator's request,
between `repo.get` (`ReadGoal`, with the handler's status check) and `repo.update`
(`WriteGoal`).  `boot[u]` is what a bootstrap has still to create.  Each action is one
transaction of the code or a stretch of code that touches no shared state;
`Execute` stands for recall, ReAct, verification and the world update, which write
no row of the board.  `DecideSpawn` merges the reads of one standing check (children,
failed goals): between them only other processes could write, and what they write
can only close children or add rows that the next check sees.  `TickAborts` is an
exception out of `run_tick`, or a killed process: both drop the `TickState` and leave
the stores as they are.  Not told apart: `maintenance` and `practice` from `task`,
PARTIAL from UNDETERMINED, the order of failed goals by time.  `gated`, `approved`
and `aborts` are history or bounds.  `Room` bounds the rows of the board, those that ticks
create included; what needs an unbounded number of them is asked of `GoalQueue`.

**GoalQueue.**  Arbitration takes the most important pending goal first (`tick.py:142`), and
ticks create goals of priority 1 (inquiries, `reflect.py`), 2 (diagnoses) and 3 (alert
children, `standing.py`) themselves, as long as they run.  A board of bounded size stops this
flow and with it the starvation, so the question who is served has a module of its own.
`waiting` is the queue of PENDING goals in row order, one of which is watched; `held` is the
goal at work.  A settled goal is forgotten, except for what the policies still ask about it:
whether a standing goal has an open child (`open`, in which a child left ACTIVE stays) and how
many diagnoses failed goals may still get (`due`).  The read and the write of arbitration are
one step (`TakeGoal`), since with one process a goal entered between them could as well have
come after.  Whatever an operator does to other goals is, for the watched one, an entry
(`EnterGoal`), a row pending again ahead of younger ones (`ReturnGoal`: an approve or a stale
copy), or a removal (`AbandonWaiting`, `AbandonOrphan`).

**RunLoop.**  `cmds`, `snap`, `noted`, `finished`, `began` are on disk; the rest is
memory, which `Killed` drops (a container stop sends SIGTERM: no `finally` block).
`Interrupted` is Ctrl+C or an exception of the command store, at any point of the
loop: the `finally` block still takes its snapshot.  A command takes effect
(`ApplyCommand`) before the log is told (`MarkCommand`), as in the code.  Not modelled:
the counters of self-spawned goals, the LOOP_STARTED/STOPPED events; processed and
idle ticks are one counter.  The journal's writes fail open (`journal.py:146`, `:185`): an event
of a command or a snapshot may be lost (`JournalFails`), and the loop goes on as if it were
written and marks the command ok (`cli.py:701`).  `lost` and `unwritten` are the history of that.

**ReactLoop.**  One call of `run_react`.  A call is a pair (tool, arguments).  `Always`
holds the calls of tools that are always irreversible, a skill's overrides
included; a call in `Conditional` (write_file) is irreversible once its target is in
`existing`, which running it brings about.  `Refused` calls fail validation.  `effects`
is a history of tool runs and of whether each could destroy something.
`with_critic` is TRUE, as in both CLI commands.  `Messages` is what
`_trajectory_as_messages` shows the model again: thoughts, actions and observations, no
critiques.  `Backoff` is the delay between a failed attempt and the next.

**Verifiers.**  One call of `verify`.  An object is a function on a set of keys, of depth
at most two; `Opinions` are the eight kinds of answers of a judge that the code tells
apart, or fails to.  The recursion of `_matches_expected` is unrolled to that depth
(`MatchesExpected`, `MatchesFlat`).  `ChildChanges` moves the children of a composite goal while the judge
thinks.  Composite and external predicates can be entered by neither CLI nor console:
library callers and the tests reach them.

**SkillVersions.**  One YAML bundle.  A version is the last number of `0.0.n`; a text
stands for everything else a save wrote, and each save writes a new one.  `copy[w]` is a
writer's `Skill` object from `get` (`Read`) to the end of its save.  `BeginSave` is the change
of the object and `open("w")`, which leaves the file `Empty`; `Flush` is the one write of a
bundle below the 8 KB buffer (`skills/general.yaml` has 846 bytes), after another writer's
flush possibly `Mixed`, taken to be unreadable; then `git add` and `diff`, `commit --only`, `tag`,
each its own process and so its own action.  The staging area is left out: every
commit takes the working tree.  The console has git off, because
`webui/deps.py:169` does not pass the flags.  The rest is history: the numbers given out
(`taken`, `reused`), the texts of agents (`byAgents`), the saves begun while another writer
was between its read and its end (`overlaps`), the bundles whose saves were under way
together (`overlapped`), and those whose save a fault ended (`cut`).

**EpisodicMemory.**  The tables are sequences in storage order, in which rows of two
processes may interleave by time; the clock is the number of steps ever made.  A tick
recalls (`StartTick` to `TakeRecent`), makes steps and may recall again as a tool
(`MakeStep`, `RecallTool`), tells the world model (`AddEpisode`, which may fail open), and
appends to trajectories, steps and embeddings (`WriteMeta`, `WriteSteps`, `WriteIndex`);
embedding and indexing fail soft (`EmbedSteps`, `IndexFails`).  A vector is the model that
made it and the topic of its text: vectors of one model compare by topic, those of two
models in any way (`Nearest`).  `LocalModels` says whether the local model fits the
dimension of the table; with another dimension both search and append fail.  `Dies` is a kill or
an exception at any stage; `broken[p]` is the module variable `_broken_until`.
`ReadFirst` and `ReadAndJoin` are the two queries of the cost dashboard.  `died`, `givenUp`
and `made` are history, as are the three sets in `ask[p]` of what was stored, in reach
of a keyword search and indexed when the recall began.

**EvalRuns and Chunking.**  An evaluation loads its skill once, attempts task after task,
captures the versions afterwards and records one row; until then it may die with all its
answers.  `rows` may begin with one row of a migrated database.  An answer counts up to case
and blanks; the benchmark's `verify` is membership in `Accepted`.  The hash of the task set
is the set.  Comparing is a predicate (`Warn`) over two rows, since rows never change: it
warns of another label, and of another task set where both rows know theirs
(`cli.py:1266`).
`Chunking` cuts any text over four kinds of characters, one chunk a step;
`MCEvalRuns` runs it first and hands the chunks over, as `load_hf_tasks` does.

**ConsoleViews.**  A page is a list of reads (`Reads`): status by status for the goal list
and the search, events and rows for the dashboards, and each read is one action.  The
loop appends its events after the tick has returned, each append may fail, and a raising or
killed tick loses the goals it spawned for the journal; `SpawnBeside` is `run-tick`, which has no
journal; `WriteStatus` moves a goal forward or, since a stale copy is written back whole, to any other
status (`Stale`).  `ScanOrder` is the order of `GoalStatus` (`schema.py:26`), in which
`pending` comes before `pending_approval`; nothing sets `suspended`.  The reflection explorer
takes its newest 500 events first and filters then (`SpawnLimit`, `Crowded`).  The time of an
event is its place in the journal, which is exact while one loop writes it.  The feed polls
newest first up to `FeedLimit` and yields between events.

Definitions such as `PickableUnapproved` beside `Pickable` are variants with a plausible
bug; nothing refers to them but the `mutants` of `PROJECT.json`, which show that each
property fails when the code is changed that way.

## 3. Runs

| run | configuration | properties | what it shows |
|---|---|---|---|
| `approval` | 1 agent, 2 operators, a gated and a plain goal, 1 crash, 1 edit per goal | `TypeOK`, `ApprovalGate`, `SettledHasTrajectory` | 1.4 million states: every interleaving of approve, reject, abandon and edit with a tick |
| `standing` | 1 agent, 1 operator (create, abandon, bootstrap), alerts, 4 rows, 1 crash | `OneOpenChild`, `DiagnosisBound`, `OneStandingPerPolicy`, `FollowsLifecycle` | 1.3 million states: spawning is bounded, and the board refines `GoalLifecycle` |
| `served` | `GoalQueue`: both policies, alerts, operators' priorities 0 and 2, entries while fewer than 2 goals wait | `PendingServed` | what may keep a pending goal waiting, and that nothing else does |
| `loop` | drain limit 1, snapshot every 2, 3 ticks, 2 commands, 2 faults: kills, interrupts, failing journal writes | `PauseSurvives`, `JournalMatchesLog`, `CountersMatchTicks`, `LossBound`, `ObeysConsole`, `CommandsServed`, `TriggersServed` | faults at every point; nothing issued is forgotten |
| `react` | calls recall (retried), write (conditional), one refused; 4 steps, window 1 | `CriticGuardsEffects`, `EffectsBounded`, `Conversation`, `BudgetBound`, `NoEndlessRepetition`, `StatusTellsHow`, `Finishes` | every answer of model, critic and tools |
| `verdicts` | atoms x and y, keys k and l, 3 children, every kind of predicate | `ContainsExpected`, `VerdictEarned` | no verdict without evidence |
| `skills` | 2 agents, 1 console request, git on, 3 saves, 2 faults | `NumbersReusedBound`, `AgentTextsKept`, `TagsTrue`, `ReadableAtRest` | what an unlocked read-change-write-commit may cost, and which saves pay it |
| `memory` | 2 processes, 1 reader, 2 topics, all limits 1, both local models, 2 ticks, 2 steps, 1 crash, 1 outage | `StoredInOrder`, `LossAccounted`, `RecallAnswers`, `CostAttributed` | 2.4 million states: ticks, recalls, deaths and outages beside each other |
| `evals` | 2 evaluations over 6 setups, 1 save; texts of up to 6 characters, chunks of 4, window and overlap 2 | `MetricsAgree`, `ComparedAlike`, `VersionsTold`, `ContextKept` | what is recorded and compared, and what chunking keeps |
| `console` | 2 goals, 2 ticks or writes, 1 fault, a feed of 2 events, a page limit of 1 | `GoalsShown`, `SpawnsTold`, `RateBounded`, `FeedTold` | what pages tell while others write |
| `abandoned` | one goal, one abandon | `AbandonIsFinal`, **violated** | `store_stage` overwrites the abandon of an ACTIVE goal |
| `orphan` | one goal | `UndeterminedRetried`, **violated** | an undetermined goal is never taken up again |

**Bounds.**  Every `Max...` constant and `StopAt` bound what is unbounded in the code; they
are guards of the actions that count.  Two operators and one agent give every race
between three writers of one row; a third operator adds only repetitions of the
same read-check-write.  Four rows hold a standing goal, a failed goal, its diagnosis
and one more child, the least with which both bounds of the policies can break.  A
drain limit of 1 with 2 commands makes every drain a partial one; `SnapshotEvery` 2
with 3 ticks has ticks on, before and after a snapshot.  A window of 1 lets loop
detection happen within 4 steps; a budget of 3 is reached and overrun in them.
Three saves by three writers make a lost update, a mixed file and a tag of another's
commit possible; no exception in the invariants of `SkillVersions` is idle: TLC finds the
invariant violated when any one term of its right side is dropped.  In the memory, limits
of 1 make every search drop something once two steps exist, two topics let it drop the
right one, and one outage gives both models a share of one table.  Two evaluations of one
or two tasks with one or two attempts each are the least for which a pass rate, a success rate
and a stability differ and two rows can be unlike in each of the compared columns.  A text
of 6 characters is cut up to three times.  A feed of 2 events overflows with the
events of one tick that spawns.  `MaxMoves` counts ticks
and writes together: pages that scan statuses read no journal, and the others depend on no status.
A page limit of 1 in the
reflection explorer (500 in the code) lets one standing spawn crowd out an inquiry.
`Metacycle!Room` keeps a place for a decided spawn, so that the bound never cuts
a creation that was decided on.  In `GoalQueue`, `MaxWaiting` bounds what waits when an operator or
reflection adds one more, and `MaxDue` the diagnoses due at a time; the number of goals ever
created has no bound, and the graph of states has the cycles on which goals starve.  TLC
finds `PendingServed` violated when any one of its exceptions is dropped.  Symmetry is used on processes, topics and accepted answers, in runs without
liveness only.

**Deadlock** is checked, except where the system may stop: `run_react` and a verification
return (`react`, `verdicts`); an unreadable bundle stops every writer (`skills`: `get`
raises); with their bounded ticks and evaluations done, memory and evaluation have nothing
left to do (`memory`, `evals`).

**Fairness.**  `Metacycle!Fairness` (run `orphan`) and `GoalQueue!FairSpec` (run `served`): a
process goes on taking the steps of its tick (`run-loop` is an endless loop; no fairness for
crashes, operators or raising policies).  That alone does not serve a goal, and
`PendingServed` says what may keep it waiting for ever: endlessly many alerts, if its priority
is below 3; endlessly many inquiries, which failing inquiries propose again, if it is 0; entries of
higher priority, rows returned ahead of it, or aborted ticks without end.  `RunLoop!FairSpec`: the process runs on, and
when it ends it is started again (`restart: unless-stopped` in
`docker-compose.yaml`); finitely many faults, failing journal writes among them.  `ReactLoop!FairSpec`: sequential code;
model calls have a timeout; tools are *taken* to return, since `timeout_seconds`
is not enforced by the registry.

## 4. Proofs

All theorems hold for every value of the constants that satisfies the named assumptions of
the modules; further assumptions stand in the theorem.

**`MetacycleProofs`**, for any number of agents, operators and goals:

* `TypeCorrect`, `OrderInvariant`, `ApprovalGateHolds`, `SettledHasTrajectoryHolds`;
* `DiagnosesBounded`: `Spec => []DiagnosisBound`, if there is an agent;
* `ChildrenBounded`: `Spec => []OneOpenChild`, if there is an agent and `Undisturbed`: nobody
  edits a budget, and policies' goals start active;
* `PoliciesNamedOnce`: `Spec => []OneStandingPerPolicy`, if there is an agent and
  `OneBootstrap`: one operator, and boards that name no policy twice;
* `LifecycleFollowed`: `Spec => FollowsLifecycle`, the refinement of `GoalLifecycle`, if
  `OneAtATime`: at most one agent, at most one operator, no budget edits.

The assumptions are the code's, not the proof's: a budget edit writes back the status it
read, which reopens children and unsettles goals (section 1); two bootstraps name a policy
twice; and with two agents or two operators a write from a stale copy takes a goal
back, which is what `AbandonIsFinal` fails by.

None of these properties is inductive: a write may restore an older copy of a row, so
the copies matter as much as the board.  `IInv` adds `HeldInOrder` (a tick's goal object
is PENDING while it is about to be created and ACTIVE from arbitration to settling,
and at settling its trajectory is already stored) and `RequestsInOrder` (a request's
copy is never of a settled goal, and of a goal that still waits for approval only an
approve() makes anything but PENDING_APPROVAL or ABANDONED).  `DiagnosesBounded` counts the
diagnoses of a failure together with the agents that have decided on one more: at most
`MaxDiagnoses` when the last of them counted, plus one for each of the others; a copy keeps
class, policy, parent and target of its row (`CopiesFit`), so no write changes what counts.
`ChildrenBounded` counts the open children, those that a tick at work may reopen by its
copy, and the ticks about to spawn: each tick stands for at most one of them, and a spawn is
only decided when there is none.  `PoliciesNamedOnce` says that what a bootstrap has still to
create is still missing (`StillMissing`).  `LifecycleFollowed` needs that what was not picked up has no
trajectory (`NothingStoredEarly`), that the goal at work is where the tick left it or was
abandoned meanwhile (`WorkInOrder`), and that a goal that a request is about to approve still
waits for it (`DecisionsInOrder`).

**`RunLoopProofs`**, for any drain limit, snapshot period, tick limit, number of
commands and number of faults (`LoopAssumption`: positive where the code divides or
drains by them):

* `LoopTypeCorrect`, `PauseIsKept`, `JournalIsTrue`, `NoTickLost`, `CountersAgree`;
* `LossIsBounded`: `Spec => []LossBound`;
* `ConsoleIsObeyed`: `Spec => ObeysConsole`, the refinement of `LoopControl`.

Three inductive invariants carry them.  `CommandInv` says that commands are consumed in
the order of issue and a batch is the oldest of the rest (`CommandsInOrder`, from
`DrainTakesOldest`); that of the commands not consumed only the oldest can be in the
journal, and only if applying it again will change something again (`NotedInOrder`);
and that between effect and mark memory says what the log is about to say
(`EffectIsOn`).  The effect of a command is thus a function of the log alone
(`Changes`, `PauseAfter`), which is why a loop that dies before the mark repeats it
with the same result.  A command that took effect while its event could not be
written is in `lost`; `JournalIsTrue` says that each command consumed as ok is in the journal or
in `lost`, one that was ignored is not in the journal, and none is there more often than faults
explain.  `TickInv` places tick id, counters and journal at each stage
(`TicksInOrder`): the counter is one ahead between the end of a tick and the next id,
and an interrupt there makes the lead permanent, which is where the slack of
`CountersMatchTicks` comes from.  `LossInv` counts in periods of `SnapshotEvery` ticks: the
periods between the snapshot and the tick that comes next are no more than the snapshots
missed, by a raising tick or a failed write (`PeriodsMissed`), since a tick id enters a new period exactly where a snapshot is
due; the bound in ticks follows by division with remainder.  The refinement needs one
conjunct more: between effect and mark of a trigger_tick the force flag is up
(`TriggerIsOn`).

**`ReactLoopProofs`**, for any tools, limits and answers:

* `ReactTypeCorrect`, `CriticGuards`, `ConversationHolds`, `StatusIsTrue`, `BudgetHolds`,
  all from `TrajectoryInvariant`: `Spec => []IInv`;
* `EffectsAreBounded`: `Spec => []EffectsBounded`, if no tool that is always irreversible is
  retried.

`ConversationHolds` is about the steps the model is shown again.  What is inductive is the order
of *all* steps, critiques included (`StepsInOrder`); `OrderIsConversation` then drops the
critiques: what was before a critique is an action, so a thought follows a rejected action
directly.
`IInv` adds what the trajectory ends with at each stage (`StageOK`): a call at the registry
was harmless when it was resolved, and still is, or was passed by the critique right before
it; what has been spent since the budget was looked at (`BudgetOK`); and that each run of a
tool is the only one of its attempt (`RunsOK`).  It rests on `RetryAssumption`, that no conditionally
irreversible tool has a retry policy, as in `tools/builtin/io.py:65` and `:118`: otherwise
the second attempt of a write_file would overwrite what its first has just created, without a
critique.

Two more conjuncts make `RepetitionEnds` (`Spec => []NoEndlessRepetition`) inductive (`LoopInv`): behind
each reversible action that has a successor lie fewer than `2 * Window` actions, or a
different call among the last `2 * Window` (`Varied`); and so behind the last action, once
the model is asked for the next (`MustVary`).  The property counts
actions from the end of the trajectory (`ActionsAfter`), so that appending to it moves every
count by the same one; `Least` and `Greatest` pick the actions by that count.

**`SkillVersionsProofs`**, for any writers, saves and faults: `SkillTypeCorrect`,
`NumbersReused` (`Spec => []NumbersReusedBound`), `FileReadable` (`Spec => []ReadableAtRest`),
`TextsAreKept` (`Spec => []AgentTextsKept`), `TagsAreTrue` (`Spec => []TagsTrue`).  The
numbers given out are `1..m`, and whoever still holds an older version `x`, or may read it,
has `reused + (m - x) <= overlaps` (`Paid`): a save without an overlap reuses nothing and
leaves nobody behind, one with an overlap pays for the one step by which others fall behind.
Texts and tags rest on `AloneInv`: a save that none has overlapped so far is the only one
under way, and finds the file, and later the HEAD, as it left them.  Every text of an
agent is therefore in a commit, on its way there alone, overlapped or cut short (`Kept`).  A
bound by *numbers* (no more texts lost than saves overlapped and faults happened) would not do: it
holds for two agents and a request, and TLC breaks it with three agents.

**`EpisodicMemoryProofs`**, for any processes, readers, topics, limits and failures:
`MemoryTypeCorrect`, `AppendsInOrder` (`Spec => []StoredInOrder`), `LossesAccounted`
(`Spec => []LossAccounted`), `CostsAttributed` (`Spec => []CostAttributed`).  The invariant says that a
running tick's trajectory is nobody else's and is stored from the first append on, its
steps from the second (`IdsOK`); that each step, episode and embedding is stored, in some
tick's hands, given up or died with its tick (`AllKept`); and that what a console request
holds has its trajectory stored already (`HeldOK`).

There too `RecallsAnswer` (`Spec => []RecallAnswers`).  Per process, what was stored,
scanned and indexed when the recall began still is (tables only grow at their end), and
who falls back to the latest steps has found nothing on the topic among the rows scanned
(`AskOK`).  The lemmas about the searches carry the rest: a cut of a non-empty set of rows is
not empty (`LatestThere`), and a nearest set that leaves out a hit on the topic holds only
such hits (`NearThere`, `VectorsAnswer`).

**`EvalProofs`**, for any setups, benchmarks, repeats, answers, evaluations and saves:
`EvalTypeCorrect`, `FiguresAgree` (`Spec => []MetricsAgree`), `VersionsAreTold`
(`Spec => []VersionsTold`), `ComparisonsAreAlike` (`Spec => []ComparedAlike`), all from
`EvaluationInvariant`: what an evaluation has answered is a sheet of its own setup with no more
attempts per task than it is to make, complete once it records (`SheetInv`); what it
believes of the skill was true when it loaded it, and still is unless a save has come in between
(`VersionInv`); every row is the row of a complete sheet (`RowInv`, `Figures`); and
evaluations and rows together are no more than the starts and one migrated row (`CountInv`).  `TimesMonotonic` and
`FiguresOfWholeRun` carry the cardinalities: of `k` answers to each task, `pass` tasks solved
once and `stable` ones answered alike, the successes lie between `pass` and `k * pass`, and are at least
`k` times the tasks that are both.  There too, for texts, `NothingCutApart` (`ChunkSpec => []ContextKept`), for any
`Overlap <= Window < MaxChars`.  `CutInv`: while the loop runs, a passage that no
chunk holds begins behind the start of the next one.  That start lies exactly an overlap before
the end of the last chunk, so what begins in front of it ends within that chunk.

**`ConsoleViewsProofs`**, for any goals, statuses, ticks, writes, faults and limit of the feed:

* `FeedIsTold`: `Spec => []FeedTold`.  What is still to be sent is the last stretch of what was
  read, in order, and what was sent lies before it (`BatchOK`); what is in neither was dropped
  by the limit of a poll, and counted there (`FeedInv`).
* `GoalsAreShown`: `Spec => []GoalsShown`.  `Rank` is the place of a status in the order of
  reads.  A goal is shown, was taken back by a stale write, was approved between the first read
  and the second, or its status is still to be read; the list has shown it no more often than it was written, and once more if its
  status has been read (`ShownOK`).  Any other forward
  write raises the rank.
* `SpawnsAreTold`: `Spec => []SpawnsTold`.  A spawned goal is told by exactly one event, is still
  to be told by its tick, or never will be (`SpawnInv`); what the first read of a dashboard
  took is what its window held then, less what its limit crowded out, however the journal
  grows (`DashInv`).
* `RateIsBounded`: `Spec => []RateBounded`, from `RateInv`, which says it of a window that begins
  *anywhere* in the journal: only in this form is it preserved when a tick starts.

**`VerifiersProofs`**, for any atoms, keys, children and predicates: `ExpectedIsContained`
(`Spec => []ContainsExpected`; matching an expected object is the same as leaving the payload
alone when the expected one is laid over it) and `VerdictIsEarned` (`Spec => []VerdictEarned`).

**What the proofs changed.**  Two attempts failed for a reason that was in the model.  `Warn` let
rows of different labels pass in silence when both had a task hash; the code warns.  And the
bounds of `SkillVersions` counted where they had to attribute (above).

**Only model-checked.**  Every invariant of a passing run, and the action properties
`FollowsLifecycle` and `ObeysConsole`, are stated by a theorem; the assumptions that four
theorems about `Metacycle` and one about `ReactLoop` make are met by the run that checks
the same property.  Left to TLC alone are `PendingServed`,
`CommandsServed`, `TriggersServed` and `Finishes`: liveness under fairness is out of reach of
the provers.  So is induction over data: an object of `Verifiers` is two deep, where the code
descends as far as the JSON goes.

## 5. Where code and texts disagree

* **Abandon is not final** (run `abandoned`).  `api_goals.py:247` promises that an active
  goal is stopped by hand; `store_stage` (`tick.py:246`) writes back the copy that the tick held
  through ReAct, and with it DONE, FAILED or ACTIVE.  (Arbitration's own update,
  `tick.py:142`, does the same to a goal abandoned while it was still PENDING; the property
  leaves that aside.)
* **Undetermined goals are orphans** (run `orphan`).  `tick.py:244` leaves them "ACTIVE for
  the next tick"; arbitration never lists ACTIVE goals.  A `state_change` goal entered
  by CLI or console names no tool and always ends so.

Stated in the modules as properties that TLC finds violated when it is given them, each with
the line that promises it:

* `SnapshotEveryNTicks` (`journal.py:12`): a raising tick skips its snapshot (`cli.py:753`).
* `CriticFailsOpen` (`critic.py:88`): JSON that is not an object raises `AttributeError`
  (`critic.py:148`).
* `RejectionShown` (`loop.py:344`): after a reject the next thought is to come with the critic
  in its context; `_trajectory_as_messages` (`loop.py:93`) drops critiques, and the model sees its
  action go unanswered.
* `JudgeErrorsUndetermined` (`verifiers.py:114`): so does a judge's.  The text `"false"`
  as its "success" counts as success.
* `UnindexedRecalled` (`episodic.py:10`): the fallback to keywords is only tried when the
  vectors find nothing (`router.py:108`), so that one indexed step hides all others.
* `RecentIsLatest` (`episodic.py:322`): the rows are cut in storage order, then sorted.
* `UnlikeTasksWarned` (`history.py:119`): a baseline from before the task hash is compared
  with anything (`cli.py:1270`).
* `EventsSentOnce` (`api_journal.py:61`): the feed asks for events *at or after* the last one
  (`journal.py:212`) and sends it again with every batch.

Read off the code: `loop.py` speaks of rejections *in a row* where the code counts all of
them, and stops only at one more than the parameter; `--max-ticks N` "stops after N
ticks" but compares the resumed absolute tick id; a goal of class `standing` entered by
CLI or console is executed and closed like any other, though `standing.py` says a
standing goal is never closed.  `agent_architecture.html:967` says that a refined skill's old
version is kept as `deprecated`; the code writes over it, and only git keeps it, which is off by
default (`config.py`) and always off in the console (a TODO at `api_skills.py:172` says so).
`_maybe_git_commit` "atomically" commits one file: the file of the moment, which may be another
process's.  Metrics per version are never recorded: nothing calls `record_invocation`, and nothing
appends the SKILL_VERSIONED events that the reflection page speaks of.  The goal list
may show a goal twice, under its old and its new status.

## 6. Not modelled

`PROJECT.json` lists every component.  Left out for good:

* the language model client (a remote call that returns or raises; retries are the vendor
  library's), prompts, and the parsing of answers beyond what the code branches on;
* the Qdrant store and the graph searches of the world model: thin adapters whose answers
  nothing in the loop branches on;
* console pages that make one read and render it (detail, replay, diff, model calls,
  memory volume, configuration), filters, charts, paging and authentication; the fixed limits of the
  modelled pages (500 to 50,000 events, 10,000 steps) are taken not to be reached, the
  reflection explorer's 500 events excepted;
* dataset adapters and reports (conversion and I/O), configuration, telemetry, scripts;
* the pending-verification table and the invocation rows: nothing in the source writes them.

Within modelled parts: files are not changed by anybody else while ReAct runs; the database and
LanceDB are taken to apply one call at a time; a failing goal store ends the tick (`TickAborts`)
and is not told apart from other exceptions.

## 7. Plan

Done: goals, ticks, standing goals and operators with their life cycle; the queue of pending
goals; the run loop with its
console; ReAct with critic and registry; verification; skill bundles; episodic memory,
embeddings and recall; evaluation and chunking; the console views of several reads; and the
theorems of section 4, which leave only the liveness properties to TLC alone.

What could still be added, in this order:

1. The weaker bounds that hold *with* budget edits and with several bootstraps, as functions of
   the number of edits and bootstraps, in place of the assumptions of section 4.
2. One module that composes `RunLoop` and `Metacycle`, once a property needs both: today the
   loop only sees that a tick returned or raised.
