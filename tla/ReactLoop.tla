----------------------------- MODULE ReactLoop -----------------------------
(***************************************************************************)
(* react/loop.py, run_react: one trajectory of thoughts, actions,          *)
(* critiques and observations, with the critic of react/critic.py in front *)
(* of an irreversible action and the registry of tools/registry.py behind  *)
(* every action, which retries what a tool's policy calls retryable.       *)
(*                                                                         *)
(* The language model is the environment: it answers what it likes, or     *)
(* fails.  A tool call is a pair (tool, arguments), told apart from others *)
(* and nothing more.                                                       *)
(***************************************************************************)
EXTENDS Integers, Sequences, FiniteSets

CONSTANTS
  Calls,           \* the tool calls the model may answer with
  Always,          \* those whose tool, or the skill, says irreversible
  Conditional,     \* those irreversible only when their target exists
                   \* (write_file, write_file_overwrites_existing)
  Refused,         \* those the registry rejects before running anything:
                   \* unknown tools, and arguments that do not validate
  Outcomes,        \* what a tool that is run may come to
  Retried,         \* calls of tools with a retry policy (recall) ...
  Retryable,       \* ... the outcomes it calls retryable
  MaxRetries,      \* ... and its max_retries
  MaxSteps, BudgetTokens, MaxRejections, Window,
                   \* max_steps, budget_tokens, max_critic_rejections of
                   \* run_react, window of _detect_loop
  ThoughtTokens, ActionTokens, CritiqueTokens
                   \* the most that one answer of each kind costs

(* "error" stands for tool_error and permission_denied.                    *)
Outcome == {"success", "error", "schema_error", "timeout", "malformed_output"}
Finish == "finish"

ASSUME ReactAssumption ==
  /\ Always \subseteq Calls /\ Conditional \subseteq Calls \ Always
  /\ Refused \subseteq Calls /\ Retried \subseteq Calls /\ Finish \notin Calls
  /\ Retryable \subseteq Outcome
  /\ Outcomes \subseteq Outcome \ {"schema_error"} /\ Outcomes # {}
  /\ MaxRetries \in Nat /\ MaxSteps \in Nat /\ BudgetTokens \in Nat
  /\ MaxRejections \in Nat /\ Window \in Nat \ {0}
  /\ ThoughtTokens \in Nat /\ ActionTokens \in Nat /\ CritiqueTokens \in Nat

(* The one tool with a retry policy is recall; both file tools have none   *)
(* (tools/builtin/io.py), and only theirs ask whether the target exists.   *)
ASSUME RetryAssumption == Retried \cap Conditional = {}

VARIABLES
  pc,              \* "think", "act", "critic", "invoke"; "backoff" between two
                   \* attempts; "done" when run_react has returned, "raised"
                   \* when an exception left it
  steps,           \* trajectory.steps
  status,          \* trajectory.status, "none" before the end
  tokens,          \* total_tokens
  rejections,      \* critic_rejections
  iteration,       \* iterations begun
  attempt,         \* attempt of ToolRegistry.invoke
  existing,        \* the conditional calls whose target exists by now
  effects          \* history: the runs of tools: of the call of which step, in
                   \* which attempt, and whether that could destroy something

vars == <<pc, steps, status, tokens, rejections, iteration, attempt, existing, effects>>

(* "ok" stands for warning too: both let the action pass.                  *)
Verdict == {"ok", "reject"}
Thought == [type |-> "thought"]
Action(c, irr) == [type |-> "action", call |-> c, irreversible |-> irr]
Critique(v) == [type |-> "critique", verdict |-> v]
Observation(o) == [type |-> "observation", outcome |-> o]
Step == {Thought} \cup {Action(c, irr) : c \in Calls \cup {Finish}, irr \in BOOLEAN}
          \cup {Critique(v) : v \in Verdict} \cup {Observation(o) : o \in Outcome}

Init ==
  /\ pc = "think" /\ steps = <<>> /\ status = "none"
  /\ tokens = 0 /\ rejections = 0 /\ iteration = 0 /\ attempt = 0
  /\ existing \in SUBSET Conditional
  /\ effects = {}

LastOf(s) == s[Len(s)]

(* _trajectory_as_messages: the steps that the model is shown again, in    *)
(* their order.  Critiques are not among them.                             *)
Messages(s) == {i \in 1..Len(s) : s[i].type # "critique"}

IsAction(step) == step.type = "action"

(* The last action of the trajectory, and where it stands.                 *)
LastAction ==
  CHOOSE i \in 1..Len(steps) :
    /\ IsAction(steps[i])
    /\ \A j \in (i + 1)..Len(steps) : ~IsAction(steps[j])

EndWith(outcome) == pc' = "done" /\ status' = outcome

-----------------------------------------------------------------------------
(* Thought.                                                                *)

OverBudgetLate(t) == t > BudgetTokens

OverBudget(t) == t >= BudgetTokens

OutOfSteps ==
  /\ pc = "think" /\ iteration = MaxSteps
  /\ EndWith("failure")
  /\ UNCHANGED <<steps, tokens, rejections, iteration, attempt, existing, effects>>

OutOfBudget ==
  /\ pc = "think" /\ iteration < MaxSteps
  /\ OverBudget(tokens)
  /\ EndWith("budget_exceeded")
  /\ UNCHANGED <<steps, tokens, rejections, iteration, attempt, existing, effects>>

Think ==
  /\ pc = "think" /\ iteration < MaxSteps
  /\ ~OverBudget(tokens)
  /\ iteration' = iteration + 1
  /\ \E cost \in 0..ThoughtTokens : tokens' = tokens + cost
  /\ steps' = Append(steps, Thought)
  /\ pc' = "act"
  /\ UNCHANGED <<status, rejections, attempt, existing, effects>>

(* A model call that raises ends the trajectory.                           *)
ModelFails ==
  /\ \/ pc = "think" /\ iteration < MaxSteps /\ ~OverBudget(tokens)
     \/ pc = "act"
  /\ EndWith("failure")
  /\ UNCHANGED <<steps, tokens, rejections, iteration, attempt, existing, effects>>

-----------------------------------------------------------------------------
(* Action.                                                                 *)

(* No JSON object with a tool_id: noted, its tokens are not counted.       *)
Malformed ==
  /\ pc = "act"
  /\ steps' = Append(steps, Observation("malformed_output"))
  /\ pc' = "think"
  /\ UNCHANGED <<status, tokens, rejections, iteration, attempt, existing, effects>>

FinishCalled ==
  /\ pc = "act"
  /\ steps' = Append(steps, Action(Finish, FALSE))
  /\ \E cost \in 0..ActionTokens : tokens' = tokens + cost
  /\ EndWith("success")
  /\ UNCHANGED <<rejections, iteration, attempt, existing, effects>>

(* resolve_irreversibility().  Arguments that do not validate cannot be    *)
(* put to the predicate of the tool, and count as reversible.              *)
ResolvedOnce(c) ==
  /\ c \in Always \/ c \in existing \ Refused
  /\ \A i \in 1..Len(steps) : IsAction(steps[i]) => steps[i].call # c

ResolvedByTool(c) == c \in Always

Resolved(c) == c \in Always \/ c \in existing \ Refused

Act ==
  /\ pc = "act"
  /\ \E c \in Calls :
       /\ steps' = Append(steps, Action(c, Resolved(c)))
       /\ pc' = IF Resolved(c) THEN "critic" ELSE "invoke"
  /\ \E cost \in 0..ActionTokens : tokens' = tokens + cost
  /\ attempt' = 0
  /\ UNCHANGED <<status, rejections, iteration, existing, effects>>

(* The predicate looks at the file system; nothing catches what it raises. *)
PredicateRaises ==
  /\ pc = "act"
  /\ Conditional \ Refused # {}
  /\ pc' = "raised"
  /\ UNCHANGED <<steps, status, tokens, rejections, iteration, attempt, existing, effects>>

-----------------------------------------------------------------------------
(* Critic.                                                                 *)

(* An answer, or one that cannot be used and counts as ok: the call fails, *)
(* the text is no JSON, the verdict is unknown.                            *)
Critiqued(verdict) ==
  /\ pc = "critic"
  /\ steps' = Append(steps, Critique(verdict))
  /\ \E cost \in 0..CritiqueTokens : tokens' = tokens + cost
  /\ UNCHANGED <<iteration, attempt, existing, effects>>

CriticPasses ==
  /\ Critiqued("ok")
  /\ pc' = "invoke"
  /\ UNCHANGED <<status, rejections>>

NeverTooMany(n) == n > MaxSteps

TooManyRejections(n) == n > MaxRejections

CriticRejectsAndRuns ==
  /\ Critiqued("reject")
  /\ rejections' = rejections + 1
  /\ IF TooManyRejections(rejections')
       THEN EndWith("failure")
       ELSE pc' = "invoke" /\ UNCHANGED status

CriticRejects ==
  /\ Critiqued("reject")
  /\ rejections' = rejections + 1
  /\ IF TooManyRejections(rejections')
       THEN EndWith("failure")
       ELSE pc' = "think" /\ UNCHANGED status

(* JSON that is not an object: critique_action calls .get() on a list or a *)
(* string, and nothing catches what that raises.                           *)
CriticRaises ==
  /\ pc = "critic"
  /\ pc' = "raised"
  /\ UNCHANGED <<steps, status, tokens, rejections, iteration, attempt, existing, effects>>

-----------------------------------------------------------------------------
(* Tool registry.                                                          *)

(* What one attempt may come to.                                           *)
OutcomesOf(c) == IF c \in Refused THEN {"schema_error"} ELSE Outcomes

RetriesAnyTool(c, o, n) == o \in Retryable /\ n < MaxRetries

Retries(c, o, n) == c \in Retried /\ o \in Retryable /\ n < MaxRetries

(* The tool is run, unless its arguments are refused.  A conditional call  *)
(* that succeeds has made its target exist; one that fails may have.       *)
RunTool(c, o) ==
  IF c \in Refused
    THEN UNCHANGED <<existing, effects>>
    ELSE /\ effects' = effects \cup {[step |-> LastAction, attempt |-> attempt,
                                     destroys |-> c \in Always \cup existing]}
         /\ \/ existing' = existing \cup ({c} \cap Conditional)
            \/ o # "success" /\ UNCHANGED existing

AttemptKept(n) == n

NextAttempt(n) == n + 1

EffectsOf(c) == IF c \in Refused THEN {} ELSE {<<LastAction, attempt>>}

(* An attempt whose outcome is retried leaves no trace in the trajectory   *)
(* and makes way, after a delay, for the next one.                         *)
Retry ==
  /\ pc = "invoke"
  /\ LET c == steps[LastAction].call IN
       \E o \in OutcomesOf(c) : Retries(c, o, attempt) /\ RunTool(c, o)
  /\ pc' = "backoff"
  /\ UNCHANGED <<steps, status, tokens, rejections, iteration, attempt>>

Backoff ==
  /\ pc = "backoff"
  /\ attempt' = NextAttempt(attempt)
  /\ pc' = "invoke"
  /\ UNCHANGED <<steps, status, tokens, rejections, iteration, existing, effects>>

(* The actions of s, and how many of them came after its i-th step.        *)
ActionsIn(s) == {i \in 1..Len(s) : IsAction(s[i])}
ActionsAfter(s, i) == Cardinality({j \in ActionsIn(s) : j > i})

(* The last Window actions repeat those before them, one by one.           *)
WindowRepeats(s) ==
  \A i, j \in ActionsIn(s) :
    ActionsAfter(s, i) < Window /\ ActionsAfter(s, j) = ActionsAfter(s, i) + Window =>
      s[i].call = s[j].call

LongerLoopDetected(s) == Cardinality(ActionsIn(s)) > 2 * Window /\ WindowRepeats(s)

LoopDetected(s) == Cardinality(ActionsIn(s)) >= 2 * Window /\ WindowRepeats(s)

Observe ==
  /\ pc = "invoke"
  /\ LET c == steps[LastAction].call IN
       \E o \in OutcomesOf(c) :
         /\ ~Retries(c, o, attempt)
         /\ steps' = Append(steps, Observation(o))
         /\ RunTool(c, o)
  /\ IF LoopDetected(steps') THEN EndWith("failure") ELSE pc' = "think" /\ UNCHANGED status
  /\ UNCHANGED <<tokens, rejections, iteration, attempt>>

Next ==
  \/ OutOfSteps \/ OutOfBudget \/ Think \/ ModelFails
  \/ Malformed \/ FinishCalled \/ Act \/ PredicateRaises
  \/ CriticPasses \/ CriticRejects \/ CriticRaises
  \/ Retry \/ Backoff \/ Observe

Spec == Init /\ [][Next]_vars

(* run_react is sequential code.  A model call returns or raises, having a *)
(* timeout; a tool is taken to do so too, though nothing enforces its      *)
(* timeout_seconds.                                                        *)
FairSpec == Spec /\ WF_vars(Next)
-----------------------------------------------------------------------------
(* Properties.                                                             *)

TypeOK ==
  /\ pc \in {"think", "act", "critic", "invoke", "backoff", "done", "raised"}
  /\ steps \in Seq(Step)
  /\ status \in {"none", "success", "failure", "budget_exceeded"}
  /\ tokens \in Nat /\ rejections \in Nat
  /\ iteration \in 0..MaxSteps /\ attempt \in 0..MaxRetries
  /\ existing \subseteq Conditional
  /\ effects \subseteq [step : 1..Len(steps), attempt : 0..MaxRetries, destroys : BOOLEAN]

(* A tool run that can destroy something - an irreversible tool, or a file *)
(* that is overwritten, be it one the trajectory itself created - happens  *)
(* only when the critique that stands right behind its action lets it      *)
(* pass: not on the strength of an earlier one, and not after a reject.    *)
CriticGuardsEffects ==
  \A e \in effects :
    e.destroys =>
      /\ e.step < Len(steps) /\ steps[e.step + 1].type = "critique"
      /\ steps[e.step + 1].verdict # "reject"

(* The tool behind one action is run once, and again only if its policy    *)
(* has it retried.  Nothing that can destroy something is run twice.       *)
RunsOf(i) == {e \in effects : e.step = i}

EffectsBounded ==
  \A i \in 1..Len(steps) :
    /\ Cardinality(RunsOf(i)) <= 1 + MaxRetries
    /\ Cardinality(RunsOf(i)) > 1 => \A e \in RunsOf(i) : ~e.destroys

(* What the model is shown again in each iteration is a conversation: it   *)
(* begins with a thought, each thought is followed by an action or by the  *)
(* complaint that none could be read, and an action by its observation, if *)
(* the critic let it pass; by the next thought, with no answer, if and     *)
(* only if the critic rejected it.                                         *)
IsRejected(i) == i < Len(steps) /\ steps[i + 1] = Critique("reject")

Follows(i, j) ==
  CASE steps[j].type = "thought" ->
         steps[i].type = "observation" \/ (IsAction(steps[i]) /\ IsRejected(i))
    [] steps[j].type = "action" -> steps[i].type = "thought"
    [] steps[j].type = "observation" ->
         \/ IsAction(steps[i]) /\ steps[i].call # Finish /\ ~IsRejected(i)
         \/ steps[i].type = "thought" /\ steps[j].outcome = "malformed_output"

Conversation ==
  LET shown == Messages(steps) IN
    /\ \A j \in shown : (\A i \in shown : i >= j) => steps[j] = Thought
    /\ \A i, j \in shown :
         i < j /\ (\A k \in shown : k <= i \/ k >= j) => Follows(i, j)

(* The budget is checked once per iteration: it is overrun by what one     *)
(* iteration may cost, and no more.                                        *)
BudgetBound ==
  BudgetTokens > 0 =>
    tokens < BudgetTokens + ThoughtTokens + ActionTokens + CritiqueTokens

(* No call is made more than 2 * Window times in a row, critics' matters   *)
(* aside: an action that was rejected is not checked for a loop.           *)
NoEndlessRepetition ==
  \A i \in ActionsIn(steps) :
    steps[i].call \notin Always \cup Conditional /\ ActionsAfter(steps, i) >= 2 * Window =>
      \E j \in ActionsIn(steps) :
        /\ j > i /\ ActionsAfter(steps, i) - ActionsAfter(steps, j) <= 2 * Window
        /\ steps[j].call # steps[i].call

(* What the status says: a success finished by its own word, a trajectory  *)
(* cut by the budget had used it up, and only these and failures return.   *)
StatusTellsHow ==
  /\ pc = "done" <=> status # "none"
  /\ status = "success" <=> steps # <<>> /\ LastOf(steps) = Action(Finish, FALSE)
  /\ status = "budget_exceeded" => tokens >= BudgetTokens
  /\ rejections <= MaxRejections + 1
  /\ rejections = MaxRejections + 1 => status = "failure"

(* The trajectory ends, whatever the model answers.                        *)
Finishes == <>(pc \in {"done", "raised"})

-----------------------------------------------------------------------------
(* What the repository's texts say and the code does not do.               *)

(* critic.py, critique_action: whatever goes wrong in the critic's call or *)
(* in the parsing of its answer, the verdict is ok and the action is run.  *)
CriticFailsOpen == [][pc = "critic" => pc' # "raised"]_vars

(* run_react, after a reject: back to the next thought, with the critic in *)
(* the context.  The last step would then be shown to the model.           *)
RejectionShown == pc = "think" /\ steps # <<>> => Len(steps) \in Messages(steps)
=============================================================================
