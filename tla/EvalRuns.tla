------------------------------- MODULE EvalRuns -------------------------------
(***************************************************************************)
(* Evaluation: run-eval (operator/cli.py, eval/harness.py) attempts every   *)
(* task of a benchmark k times and records one row in the history           *)
(* (eval/history.py); eval-compare and the console compare two rows.        *)
(* Several evaluations and comparisons share the history, and ticks of      *)
(* other processes save new versions of the skills that are measured.       *)
(***************************************************************************)
EXTENDS Integers, Sequences, FiniteSets

CONSTANTS
  Evaluators,   \* processes of run-eval
  Setups,       \* what run-eval may be called with, see Setup
  Answers,      \* final answers up to case and surrounding blanks
  Accepted,     \* those that the benchmark accepts
  NoAnswer,     \* a trajectory without an answer, and an agent that raised
  MaxRuns,      \* bound: evaluations started
  MaxSaves      \* bound: versions of the skill saved meanwhile

Setup == [adapter : STRING, label : STRING, tasks : SUBSET Nat, k : Nat, heldOut : BOOLEAN]

ASSUME EvalAssumption ==
  /\ \A s \in Setups :
       /\ DOMAIN s = {"adapter", "label", "tasks", "k", "heldOut"}
       /\ s.tasks \subseteq Nat /\ IsFiniteSet(s.tasks) /\ s.tasks # {}
       /\ s.k \in Nat \ {0} /\ s.heldOut \in BOOLEAN
  /\ Accepted \subseteq Answers /\ NoAnswer \notin Answers
  /\ {MaxRuns, MaxSaves} \subseteq Nat

VARIABLES
  rows,      \* table eval_runs; the id of a row is its place
  skill,     \* version of the skill in the registry
  pc,        \* pc[e]: the stage of an evaluation
  run,       \* run[e]: its setup, the version it loaded, the one it captured
  answers,   \* answers[e]: for each task the answers of its attempts
  started, saves  \* histories: evaluations started, versions saved

vars == <<rows, skill, pc, run, answers, started, saves>>

NoHash == {}     \* eval_set_hash of a row written before the column existed
NoVersion == 0   \* capture_skill_versions failed, or a row without versions
NoRun == [setup |-> NoAnswer, used |-> NoVersion, captured |-> NoVersion, disturbed |-> FALSE]

(* A row of a database that was migrated: columns added later hold their   *)
(* defaults.                                                               *)
LegacyRow(s) ==
  [adapter |-> s.adapter, label |-> "", hash |-> NoHash, heldOut |-> FALSE, k |-> 1,
   total |-> Cardinality(s.tasks), successes |-> Cardinality(s.tasks), pass |-> 0, stable |-> 0,
   skills |-> NoVersion, tasks |-> s.tasks, used |-> NoVersion, disturbed |-> FALSE]

Init ==
  /\ rows \in {<<>>} \cup {<<LegacyRow(s)>> : s \in Setups}
  /\ skill = 1
  /\ pc = [e \in Evaluators |-> "idle"]
  /\ run = [e \in Evaluators |-> NoRun]
  /\ answers = [e \in Evaluators |-> <<>>]
  /\ started = 0 /\ saves = 0

Goto(e, stage) == pc' = [pc EXCEPT ![e] = stage]

-----------------------------------------------------------------------------
(* The metrics of a run, from the answers of the attempts of each task.     *)

IsAccepted(a) == a \in Accepted
RangeOf(s) == {s[i] : i \in DOMAIN s}
Attempts(res) == UNION {{<<t, i>> : i \in DOMAIN res[t]} : t \in DOMAIN res}

SuccessCount(res) == Cardinality({a \in Attempts(res) : IsAccepted(res[a[1]][a[2]])})

PassesAlwaysCount(res) == Cardinality({t \in DOMAIN res : RangeOf(res[t]) \subseteq Accepted})

PassCount(res) == Cardinality({t \in DOMAIN res : \E i \in DOMAIN res[t] : IsAccepted(res[t][i])})

StableCount(res, k) ==
  Cardinality({t \in DOMAIN res : k > 1 => Cardinality(RangeOf(res[t])) = 1})

RowOf(r, res) ==
  [adapter |-> r.setup.adapter, label |-> r.setup.label, hash |-> DOMAIN res,
   heldOut |-> r.setup.heldOut, k |-> r.setup.k,
   total |-> Cardinality(Attempts(res)), successes |-> SuccessCount(res),
   pass |-> PassCount(res), stable |-> StableCount(res, r.setup.k),
   skills |-> r.captured, tasks |-> r.setup.tasks, used |-> r.used, disturbed |-> r.disturbed]

-----------------------------------------------------------------------------
(* run-eval.  The skill is loaded once, before the first task.              *)

StartRun(e) ==
  /\ pc[e] = "idle" /\ started < MaxRuns
  /\ started' = started + 1
  /\ \E s \in Setups :
       /\ run' = [run EXCEPT ![e] = [NoRun EXCEPT !.setup = s, !.used = skill]]
       /\ answers' = [answers EXCEPT ![e] = [t \in s.tasks |-> <<>>]]
  /\ Goto(e, "running")
  /\ UNCHANGED <<rows, skill, saves>>

Unfinished(e) == {t \in DOMAIN answers[e] : Len(answers[e][t]) < run[e].setup.k}

IsNextTask(e, t) == t \in Unfinished(e) /\ \A o \in Unfinished(e) : t <= o

Attempt(e) ==
  /\ pc[e] = "running"
  /\ \E t \in Unfinished(e), a \in Answers \cup {NoAnswer} :
       /\ IsNextTask(e, t)
       /\ answers' = [answers EXCEPT ![e][t] = Append(@, a)]
  /\ UNCHANGED <<rows, skill, pc, run, started, saves>>

CapturedFromCache(e) == 1

Captured(e) == skill

(* All attempts are over: capture_skill_versions loads every skill, or     *)
(* fails and leaves the versions out.                                      *)
CaptureVersions(e) ==
  /\ pc[e] = "running" /\ Unfinished(e) = {}
  /\ \E v \in {Captured(e), NoVersion} : run' = [run EXCEPT ![e].captured = v]
  /\ Goto(e, "record")
  /\ UNCHANGED <<rows, skill, answers, started, saves>>

EndRun(e) ==
  /\ run' = [run EXCEPT ![e] = NoRun]
  /\ answers' = [answers EXCEPT ![e] = <<>>]
  /\ Goto(e, "idle")

Record(e) ==
  /\ pc[e] = "record"
  /\ rows' = Append(rows, RowOf(run[e], answers[e]))
  /\ EndRun(e)
  /\ UNCHANGED <<skill, started, saves>>

(* adapter.verify raises, Ctrl+C, a kill: the answers are gone.            *)
Dies(e) ==
  /\ pc[e] # "idle"
  /\ EndRun(e)
  /\ UNCHANGED <<rows, skill, started, saves>>

-----------------------------------------------------------------------------
(* A tick of another process reflects on a failure and saves a version.    *)
SaveSkill ==
  /\ saves < MaxSaves
  /\ saves' = saves + 1
  /\ skill' = skill + 1
  /\ run' = [e \in Evaluators |->
               [run[e] EXCEPT !.disturbed = @ \/ pc[e] = "running"]]
  /\ UNCHANGED <<rows, pc, answers, started>>

-----------------------------------------------------------------------------
(* eval-compare and the console's comparison, of a baseline b and a         *)
(* candidate c.  A row never changes, so that the time of the reads matters *)
(* only to the candidate taken by default, the latest at that time.         *)

WarnByLabel(b, c) ==
  b.adapter # c.adapter \/ b.label # c.label \/ b.k # c.k \/ b.heldOut # c.heldOut

Warn(b, c) ==
  \/ b.adapter # c.adapter
  \/ b.label # c.label
  \/ b.label # c.label
  \/ b.hash # NoHash /\ b.hash # c.hash
  \/ b.k # c.k
  \/ b.heldOut # c.heldOut

(* list_runs(limit=1), newest first.                                       *)
Listed(adapter, withHeldOut) ==
  {i \in DOMAIN rows : rows[i].adapter = adapter /\ (rows[i].heldOut => withHeldOut)}

Newest(ids) == {i \in ids : \A o \in ids : i >= o}

DefaultCandidates(i) == Newest(Listed(rows[i].adapter, FALSE)) \ {i}

Next ==
  \/ \E e \in Evaluators :
       StartRun(e) \/ Attempt(e) \/ CaptureVersions(e) \/ Record(e) \/ Dies(e)
  \/ SaveSkill

Spec == Init /\ [][Next]_vars

-----------------------------------------------------------------------------
(* Types, and bounds of the histories.                                     *)
TypeOK ==
  /\ Len(rows) <= MaxRuns + 1
  /\ \A i \in DOMAIN rows :
       /\ {rows[i].total, rows[i].successes, rows[i].pass, rows[i].stable} \subseteq Nat
       /\ rows[i].k \in Nat \ {0}
       /\ rows[i].skills \in 0..(MaxSaves + 1)
  /\ skill \in 1..(MaxSaves + 1)
  /\ pc \in [Evaluators -> {"idle", "running", "record"}]
  /\ \A e \in Evaluators :
       /\ run[e].setup \in Setups \cup {NoAnswer}
       /\ \A t \in DOMAIN answers[e] :
            answers[e][t] \in Seq(Answers \cup {NoAnswer}) /\ Len(answers[e][t]) <= run[e].setup.k
  /\ started \in 0..MaxRuns /\ saves \in 0..MaxSaves

IsLegacy(row) == row.hash = NoHash

(* The figures of a recorded run belong together: it is whole, whatever    *)
(* died; a task that passes does so in 1 to k of its attempts; and a task  *)
(* that passes with one and the same answer passes in all k.               *)
MetricsAgree ==
  \A i \in DOMAIN rows : LET r == rows[i] IN ~IsLegacy(r) =>
    /\ r.total = Cardinality(r.tasks) * r.k
    /\ r.pass <= r.successes /\ r.successes <= r.pass * r.k
    /\ r.successes >= r.k * (r.pass + r.stable - Cardinality(r.tasks))

(* A comparison without a warning compares the same benchmark: the same    *)
(* adapter, label, tasks, repeats and visibility.  Only a baseline from     *)
(* before the task hash may differ in its tasks (UnlikeTasksWarned is the  *)
(* promise without this exception).  A candidate taken by default is not a *)
(* held-out run, and is newer than the baseline unless that is held out.   *)
ComparedAlike ==
  \A i \in DOMAIN rows :
    /\ \A j \in DOMAIN rows : LET b == rows[i] c == rows[j] IN
         ~Warn(b, c) =>
           /\ b.adapter = c.adapter /\ b.label = c.label /\ b.k = c.k /\ b.heldOut = c.heldOut
           /\ IsLegacy(b) \/ b.tasks = c.tasks
    /\ \A j \in DefaultCandidates(i) :
         ~rows[j].heldOut /\ (rows[i].heldOut \/ j > i)

(* The row of a run tells the version it was measured with, or none,       *)
(* unless a version was saved while its tasks ran: the version is read     *)
(* when they are over.                                                     *)
VersionsTold ==
  \A i \in DOMAIN rows :
    \/ rows[i].disturbed
    \/ rows[i].skills \in {rows[i].used, NoVersion}

(* history.py:119: eval-compare complains when runs with different sets of *)
(* tasks are compared, even under one label.  Violated: a baseline without *)
(* a hash is compared with anything.                                       *)
UnlikeTasksWarned ==
  \A i, j \in DOMAIN rows : ~Warn(rows[i], rows[j]) => rows[i].tasks = rows[j].tasks
=============================================================================
