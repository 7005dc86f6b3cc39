--------------------------- MODULE ReactLoopProofs ---------------------------
(***************************************************************************)
(* Proofs about one trajectory (ReactLoop), for any tools, limits and       *)
(* answers of the model: type correctness, the critic before every          *)
(* destructive run, the shape of the trajectory, what its status says, the  *)
(* overrun of the token budget, how often a tool is run, and how often the  *)
(* same call is made in a row.                                              *)
(***************************************************************************)
EXTENDS ReactLoop, SequenceTheorems, FiniteSetTheorems, WellFoundedInduction, TLAPS

(* What the trajectory ends with at each stage.  A call that is run without *)
(* a critique was harmless when it was resolved, and still is.             *)
Harmless(c) == c \notin Always /\ c \notin existing \ Refused

Plain ==
  /\ steps # <<>>
  /\ \E c \in Calls : LastOf(steps) = Action(c, FALSE) /\ Harmless(c)

Passed ==
  /\ Len(steps) > 1 /\ LastOf(steps) = Critique("ok")
  /\ \E c \in Calls : steps[Len(steps) - 1] = Action(c, TRUE)

ThinkOK ==
  \/ steps = <<>>
  \/ LastOf(steps).type = "observation"
  \/ LastOf(steps) = Critique("reject")

CriticOK ==
  /\ steps # <<>>
  /\ \E c \in Calls : LastOf(steps) = Action(c, TRUE)

StageOK ==
  /\ pc = "think" => ThinkOK
  /\ pc = "act" => steps # <<>> /\ LastOf(steps) = Thought
  /\ pc = "critic" => CriticOK
  /\ pc \in {"invoke", "backoff"} => Plain \/ Passed

(* What has been spent since the budget was checked.                       *)
BudgetOK ==
  BudgetTokens > 0 =>
    /\ tokens < BudgetTokens + ThoughtTokens + ActionTokens + CritiqueTokens
    /\ pc = "act" => tokens < BudgetTokens + ThoughtTokens
    /\ pc = "critic" => tokens < BudgetTokens + ThoughtTokens + ActionTokens

(* Where the action stands that is being judged or run.                    *)
Current == IF LastOf(steps).type = "critique" THEN Len(steps) - 1 ELSE Len(steps)

(* Each run of a tool is the only one of its attempt; an attempt after the  *)
(* first is of a tool that is retried.                                     *)
RunsOK ==
  /\ \A e, f \in effects : e.step = f.step /\ e.attempt = f.attempt => e = f
  /\ \A e \in effects :
       /\ IsAction(steps[e.step])
       /\ e.destroys => steps[e.step].call \in Always \cup Conditional
       /\ e.attempt > 0 => steps[e.step].call \in Retried
       /\ pc = "critic" => e.step < Len(steps)
       /\ pc = "invoke" => e.step # Current \/ e.attempt < attempt
       /\ pc = "backoff" => e.step # Current \/ e.attempt <= attempt
  /\ pc = "backoff" => attempt < MaxRetries /\ steps[Current].call \in Retried
  /\ pc = "critic" => attempt = 0
  /\ pc = "invoke" /\ attempt > 0 => steps[Current].call \in Retried

(* The trajectory itself, step by step, with its critiques.                 *)
Precedes(before, after) ==
  CASE after.type = "thought" ->
         \/ before.type = "observation"
         \/ before.type = "critique" /\ before.verdict = "reject"
    [] after.type = "action" -> before.type = "thought"
    [] after.type = "critique" ->
         before.type = "action" /\ before.irreversible /\ before.call # Finish
    [] after.type = "observation" ->
         \/ before.type = "action" /\ ~before.irreversible /\ before.call # Finish
         \/ before.type = "critique" /\ before.verdict # "reject"
         \/ before.type = "thought" /\ after.outcome = "malformed_output"

StepsInOrder ==
  /\ Len(steps) > 0 => steps[1] = Thought
  /\ \A i \in 2..Len(steps) : Precedes(steps[i - 1], steps[i])

IInv ==
  /\ TypeOK /\ StageOK /\ CriticGuardsEffects /\ StepsInOrder
  /\ StatusTellsHow /\ BudgetOK /\ RunsOK

-----------------------------------------------------------------------------
(* Trajectories.                                                           *)

LEMMA StepTypes ==
  /\ Thought \in Step
  /\ \A c \in Calls \cup {Finish}, irr \in BOOLEAN : Action(c, irr) \in Step
  /\ \A v \in Verdict : Critique(v) \in Step
  /\ \A o \in Outcome : Observation(o) \in Step
BY DEF Step


LEMMA Appended ==
  ASSUME NEW s \in Seq(Step), NEW e \in Step
  PROVE  /\ Append(s, e) \in Seq(Step)
         /\ Len(Append(s, e)) = Len(s) + 1
         /\ Len(s) \in Nat
         /\ \A i \in 1..Len(s) : Append(s, e)[i] = s[i]
         /\ Append(s, e)[Len(s) + 1] = e
         /\ Append(s, e) # <<>>
         /\ LastOf(Append(s, e)) = e
<1>1. /\ Append(s, e) \in Seq(Step) /\ Len(Append(s, e)) = Len(s) + 1 /\ Len(s) \in Nat
      /\ \A i \in 1..Len(s) : Append(s, e)[i] = s[i]
      /\ Append(s, e)[Len(s) + 1] = e
  OBVIOUS
<1>2. Append(s, e) # <<>>
  <2>1. Len(<<>>) = 0
    OBVIOUS
  <2> QED BY <1>1, <2>1
<1> QED BY <1>1, <1>2 DEF LastOf

LEMMA NotEmpty ==
  ASSUME NEW s \in Seq(Step), s # <<>>
  PROVE  Len(s) \in Nat /\ Len(s) >= 1 /\ LastOf(s) = s[Len(s)] /\ LastOf(s) \in Step
<1>1. Len(s) \in Nat /\ Len(s) # 0
  OBVIOUS
<1>2. s[Len(s)] \in Step
  BY <1>1, ElementOfSeq
<1> QED BY <1>1, <1>2 DEF LastOf

(* The action being run is the last one.                                   *)
LEMMA CurrentCall ==
  ASSUME TypeOK, Plain \/ Passed
  PROVE  /\ LastAction = Current /\ Current \in 1..Len(steps) /\ Len(steps) \in Nat
         /\ IsAction(steps[Current]) /\ steps[Current].call \in Calls
         /\ Passed => Current = Len(steps) - 1 /\ steps[Len(steps)] = Critique("ok")
         /\ ~Passed => Harmless(steps[Current].call) /\ Current = Len(steps)
<1>1. steps \in Seq(Step) /\ steps # <<>> /\ Len(steps) \in Nat /\ Len(steps) >= 1
  <2>1. steps \in Seq(Step)
    BY DEF TypeOK
  <2>2. steps # <<>>
    <3>1. Len(<<>>) = 0
      OBVIOUS
    <3>2. Passed => Len(steps) > 1
      BY DEF Passed
    <3>3. Plain => steps # <<>>
      BY DEF Plain
    <3> QED BY <3>1, <3>2, <3>3
  <2> QED BY <2>1, <2>2, NotEmpty
<1>2. CASE Passed
  <2>1. PICK c \in Calls : steps[Len(steps) - 1] = Action(c, TRUE)
    BY <1>2 DEF Passed
  <2>2. steps[Len(steps)] = Critique("ok") /\ Len(steps) > 1
    BY <1>2 DEF Passed, LastOf
  <2>3. Current = Len(steps) - 1
    BY <2>2 DEF Current, LastOf, Critique
  <2>4. IsAction(steps[Len(steps) - 1]) /\ ~IsAction(steps[Len(steps)])
    BY <2>1, <2>2 DEF IsAction, Action, Critique
  <2>5. LastAction = Len(steps) - 1
    <3> DEFINE L(i) == /\ IsAction(steps[i])
                       /\ \A j \in (i + 1)..Len(steps) : ~IsAction(steps[j])
    <3>1. L(Len(steps) - 1)
      <4>1. \A j \in ((Len(steps) - 1) + 1)..Len(steps) : j = Len(steps)
        BY <1>1
      <4> QED BY <2>4, <4>1
    <3>2. \A i \in 1..Len(steps) : L(i) => i = Len(steps) - 1
      BY <1>1, <2>2, <2>4
    <3>3. LastAction = CHOOSE i \in 1..Len(steps) : L(i)
      BY DEF LastAction
    <3>4. Len(steps) - 1 \in 1..Len(steps)
      BY <1>1, <2>2
    <3> HIDE DEF L
    <3> QED BY <3>1, <3>2, <3>3, <3>4
  <2>6. Current \in 1..Len(steps) /\ steps[Current].call = c
    BY <1>1, <2>1, <2>2, <2>3 DEF Action
  <2> QED BY <1>1, <1>2, <2>2, <2>3, <2>4, <2>5, <2>6
<1>3. CASE ~Passed
  <2>1. PICK c \in Calls : LastOf(steps) = Action(c, FALSE) /\ Harmless(c)
    BY <1>3 DEF Plain
  <2>2. steps[Len(steps)] = Action(c, FALSE)
    BY <2>1 DEF LastOf
  <2>3. Current = Len(steps)
    BY <2>1 DEF Current, Action
  <2>4. IsAction(steps[Len(steps)])
    BY <2>2 DEF IsAction, Action
  <2>5. LastAction = Len(steps)
    <3> DEFINE L(i) == /\ IsAction(steps[i])
                       /\ \A j \in (i + 1)..Len(steps) : ~IsAction(steps[j])
    <3>1. L(Len(steps))
      <4>1. \A j \in (Len(steps) + 1)..Len(steps) : FALSE
        BY <1>1
      <4> QED BY <2>4, <4>1
    <3>2. \A i \in 1..Len(steps) : L(i) => i = Len(steps)
      BY <1>1, <2>4
    <3>3. LastAction = CHOOSE i \in 1..Len(steps) : L(i)
      BY DEF LastAction
    <3>4. Len(steps) \in 1..Len(steps)
      BY <1>1
    <3> HIDE DEF L
    <3> QED BY <3>1, <3>2, <3>3, <3>4
  <2>6. Current \in 1..Len(steps) /\ steps[Current].call = c
    BY <1>1, <2>2, <2>3 DEF Action
  <2> QED BY <1>1, <1>3, <2>1, <2>3, <2>4, <2>5, <2>6
<1> QED BY <1>2, <1>3

-----------------------------------------------------------------------------
(* What an appended step leaves true.                                      *)

LEMMA GuardsStay ==
  ASSUME TypeOK, CriticGuardsEffects, UNCHANGED effects,
         UNCHANGED steps \/ \E e \in Step : steps' = Append(steps, e)
  PROVE  CriticGuardsEffects' /\ effects' \subseteq [step : 1..Len(steps'), attempt : 0..MaxRetries, destroys : BOOLEAN]
<1>1. steps \in Seq(Step) /\ effects \subseteq [step : 1..Len(steps), attempt : 0..MaxRetries, destroys : BOOLEAN]
  BY DEF TypeOK
<1>2. CASE UNCHANGED steps
  BY <1>1, <1>2 DEF CriticGuardsEffects
<1>3. ASSUME NEW e \in Step, steps' = Append(steps, e)
      PROVE  CriticGuardsEffects' /\ effects' \subseteq [step : 1..Len(steps'), attempt : 0..MaxRetries, destroys : BOOLEAN]
  <2>1. /\ Len(steps') = Len(steps) + 1 /\ Len(steps) \in Nat
        /\ \A i \in 1..Len(steps) : steps'[i] = steps[i]
    BY <1>1, <1>3, Appended
  <2>2. \A f \in effects : f.step \in 1..Len(steps) /\ (f.step < Len(steps) => f.step + 1 \in 1..Len(steps))
    BY <1>1, <2>1
  <2>3. CriticGuardsEffects'
    BY <2>1, <2>2 DEF CriticGuardsEffects
  <2>4. 1..Len(steps) \subseteq 1..Len(steps')
    BY <2>1
  <2> QED BY <1>1, <2>3, <2>4
<1> QED BY <1>2, <1>3

LEMMA StepsGoOn ==
  ASSUME TypeOK, StepsInOrder, NEW e \in Step, steps' = Append(steps, e),
         steps = <<>> => e = Thought,
         steps # <<>> => Precedes(LastOf(steps), e)
  PROVE  StepsInOrder'
<1>1. steps \in Seq(Step)
  BY DEF TypeOK
<1>2. /\ Len(steps') = Len(steps) + 1 /\ Len(steps) \in Nat
      /\ \A i \in 1..Len(steps) : steps'[i] = steps[i]
      /\ steps'[Len(steps) + 1] = e
  BY <1>1, Appended
<1> DEFINE Right(b, a) == Precedes(b, a)
<1>3. \A i \in 2..Len(steps) : Right(steps[i - 1], steps[i])
  BY DEF StepsInOrder
<1>4. steps'[1] = Thought
  <2>1. CASE steps = <<>>
    <3>1. Len(steps) = 0
      BY <2>1
    <3> QED BY <1>2, <2>1, <3>1
  <2>2. CASE steps # <<>>
    BY <1>1, <1>2, <2>2, NotEmpty DEF StepsInOrder
  <2> QED BY <2>1, <2>2
<1>5. \A i \in 2..Len(steps') : Right(steps'[i - 1], steps'[i])
  <2> SUFFICES ASSUME NEW i \in 2..Len(steps') PROVE Right(steps'[i - 1], steps'[i])
    OBVIOUS
  <2>1. CASE i \in 2..Len(steps)
    <3>1. i \in 1..Len(steps) /\ i - 1 \in 1..Len(steps)
      BY <2>1, <1>2
    <3>2. steps'[i] = steps[i] /\ steps'[i - 1] = steps[i - 1]
      BY <3>1, <1>2
    <3> HIDE DEF Right
    <3> QED BY <1>3, <2>1, <3>2
  <2>2. CASE i = Len(steps) + 1
    <3>1. Len(steps) >= 1 /\ i - 1 = Len(steps)
      BY <1>2, <2>2
    <3>2. steps # <<>>
      <4>1. Len(<<>>) = 0
        OBVIOUS
      <4> QED BY <3>1, <4>1
    <3>3. steps'[i] = e /\ steps'[i - 1] = LastOf(steps)
      BY <1>2, <2>2, <3>1 DEF LastOf
    <3>4. Right(LastOf(steps), e)
      BY <3>2
    <3> HIDE DEF Right
    <3> QED BY <3>3, <3>4
  <2> QED BY <1>2, <2>1, <2>2
<1> QED BY <1>4, <1>5 DEF StepsInOrder

(* Runs stay the only ones of their attempts while a step is appended: the  *)
(* stage that follows has to be compatible with them.                      *)
LEMMA RunsStay ==
  ASSUME TypeOK, RunsOK, UNCHANGED effects, NEW e \in Step, steps' = Append(steps, e),
         pc' # "backoff", pc' = "critic" => attempt' = 0,
         pc' = "invoke" => /\ attempt' = 0
                           /\ IF e.type = "critique"
                                THEN \A f \in effects : f.step < Len(steps)
                                ELSE TRUE
  PROVE  RunsOK'
<1>1. steps \in Seq(Step) /\ effects \subseteq [step : 1..Len(steps), attempt : 0..MaxRetries, destroys : BOOLEAN]
  BY DEF TypeOK
<1>2. /\ Len(steps') = Len(steps) + 1 /\ Len(steps) \in Nat
      /\ \A i \in 1..Len(steps) : steps'[i] = steps[i]
      /\ LastOf(steps') = e
  BY <1>1, Appended
<1>3. \A f \in effects : f.step \in 1..Len(steps) /\ steps'[f.step] = steps[f.step]
  BY <1>1, <1>2
<1>4. \A f \in effects : f.step < Len(steps')
  BY <1>2, <1>3
<1>5. pc' = "invoke" => \A f \in effects : f.step # Current'
  <2> SUFFICES ASSUME pc' = "invoke", NEW f \in effects PROVE f.step # Current'
    OBVIOUS
  <2>1. CASE e.type = "critique"
    <3>1. Current' = Len(steps') - 1
      BY <1>2, <2>1 DEF Current
    <3>2. f.step < Len(steps)
      BY <2>1
    <3> QED BY <1>2, <1>3, <3>1, <3>2
  <2>2. CASE e.type # "critique"
    <3>1. Current' = Len(steps')
      BY <1>2, <2>2 DEF Current
    <3> QED BY <1>2, <1>3, <3>1
  <2> QED BY <2>1, <2>2
<1>6. pc' = "invoke" => ~(attempt' > 0)
  OBVIOUS
<1>7. \A f \in effects :
        /\ IsAction(steps'[f.step])
        /\ f.destroys => steps'[f.step].call \in Always \cup Conditional
        /\ f.attempt > 0 => steps'[f.step].call \in Retried
  BY <1>3 DEF RunsOK
<1>8. \A f, g \in effects : f.step = g.step /\ f.attempt = g.attempt => f = g
  BY DEF RunsOK
<1> QED BY <1>4, <1>5, <1>6, <1>7, <1>8 DEF RunsOK

-----------------------------------------------------------------------------
(* The actions.                                                            *)

LEMMA Beginnings ==
  ASSUME Init
  PROVE  IInv
<1> USE ReactAssumption DEF Init
<1>1. Len(steps) = 0 /\ steps \in Seq(Step)
  OBVIOUS
<1>2. TypeOK
  BY <1>1 DEF TypeOK
<1>3. StageOK /\ CriticGuardsEffects /\ BudgetOK /\ RunsOK
  BY DEF StageOK, ThinkOK, CriticGuardsEffects, BudgetOK, RunsOK
<1>4. StepsInOrder
  BY <1>1 DEF StepsInOrder
<1>5. StatusTellsHow
  BY DEF StatusTellsHow
<1> QED BY <1>2, <1>3, <1>4, <1>5 DEF IInv

(* An end without a step: the limits, a model or a predicate that fails.    *)
LEMMA EndsHere ==
  ASSUME IInv, pc \notin {"done", "raised"},
         UNCHANGED <<steps, tokens, rejections, iteration, attempt, existing, effects>>,
         \/ pc' = "raised" /\ UNCHANGED status
         \/ pc' = "done" /\ status' = "failure"
         \/ pc' = "done" /\ status' = "budget_exceeded" /\ tokens >= BudgetTokens
  PROVE  IInv'
<1>1. TypeOK'
  BY DEF IInv, TypeOK
<1>2. StageOK'
  BY DEF StageOK
<1>3. CriticGuardsEffects' /\ StepsInOrder'
  BY DEF IInv, CriticGuardsEffects, StepsInOrder, Precedes
<1>4. StatusTellsHow'
  <2>1. status = "none" /\ rejections \in Nat /\ MaxRejections \in Nat
    BY ReactAssumption DEF IInv, StatusTellsHow, TypeOK
  <2>2. ~(steps # <<>> /\ LastOf(steps) = Action(Finish, FALSE)) /\ rejections <= MaxRejections + 1
        /\ rejections # MaxRejections + 1
    BY <2>1 DEF IInv, StatusTellsHow
  <2>3. ~(steps' # <<>> /\ LastOf(steps') = Action(Finish, FALSE))
    BY <2>2
  <2>4. rejections' <= MaxRejections + 1 /\ rejections' # MaxRejections + 1 /\ tokens' = tokens
    BY <2>2
  <2> QED BY <2>1, <2>3, <2>4 DEF StatusTellsHow
<1>5. BudgetOK'
  BY DEF IInv, BudgetOK
<1>6. RunsOK'
  BY DEF IInv, RunsOK
<1> QED BY <1>1, <1>2, <1>3, <1>4, <1>5, <1>6 DEF IInv

(* What every appended step has to show, the stage apart.                   *)
LEMMA StatusGoesOn ==
  ASSUME IInv, NEW e \in Step, steps' = Append(steps, e),
         pc \notin {"done", "raised"}, rejections' \in Nat,
         \/ /\ pc' \in {"think", "act", "critic", "invoke"} /\ UNCHANGED status
            /\ e # Action(Finish, FALSE) /\ rejections' <= MaxRejections
         \/ /\ pc' = "done" /\ status' = "success" /\ e = Action(Finish, FALSE)
            /\ rejections' <= MaxRejections
         \/ /\ pc' = "done" /\ status' = "failure" /\ e # Action(Finish, FALSE)
            /\ rejections' <= MaxRejections + 1
  PROVE  StatusTellsHow'
<1>1. status = "none" /\ MaxRejections \in Nat
  BY ReactAssumption DEF IInv, StatusTellsHow
<1>2. steps' # <<>> /\ LastOf(steps') = e
  BY Appended DEF IInv, TypeOK
<1>3. status' \in {"none", "success", "failure"} /\ (pc' = "done" <=> status' # "none")
  BY <1>1
<1>4. status' = "success" <=> e = Action(Finish, FALSE)
  BY <1>1
<1>5. /\ rejections' <= MaxRejections + 1
      /\ rejections' = MaxRejections + 1 => status' = "failure"
  <2>1. status' = "failure" \/ rejections' <= MaxRejections
    OBVIOUS
  <2>2. \A r \in Nat : r <= MaxRejections => r <= MaxRejections + 1 /\ r # MaxRejections + 1
    BY <1>1
  <2> QED BY <2>1, <2>2
<1> QED BY <1>2, <1>3, <1>4, <1>5 DEF StatusTellsHow

LEMMA NotTooMany ==
  ASSUME IInv, pc \notin {"done", "raised"}
  PROVE  /\ status = "none" /\ rejections \in Nat /\ MaxRejections \in Nat
         /\ rejections <= MaxRejections
<1>1. status = "none" /\ rejections \in Nat /\ MaxRejections \in Nat
  BY ReactAssumption DEF IInv, StatusTellsHow, TypeOK
<1>2. rejections <= MaxRejections + 1 /\ rejections # MaxRejections + 1
  BY <1>1 DEF IInv, StatusTellsHow
<1> QED BY <1>1, <1>2

(* One lemma per action that appends a step: the types, the stage, and what *)
(* the lemmas above ask for.                                               *)
LEMMA Thinks ==
  ASSUME IInv, Think
  PROVE  IInv'
<1> USE ReactAssumption DEF Think
<1>1. Thought \in Step /\ Thought # Action(Finish, FALSE) /\ Thought.type = "thought"
  BY StepTypes DEF Thought, Action
<1>2. CriticGuardsEffects' /\ effects' \subseteq [step : 1..Len(steps'), attempt : 0..MaxRetries, destroys : BOOLEAN]
  BY <1>1, GuardsStay DEF IInv
<1>3. steps' \in Seq(Step) /\ steps' # <<>> /\ LastOf(steps') = Thought
  BY <1>1, Appended DEF IInv, TypeOK
<1>4. TypeOK'
  BY <1>2, <1>3 DEF IInv, TypeOK
<1>5. StageOK'
  BY <1>3 DEF StageOK
<1>6. StepsInOrder'
  <2>1. ThinkOK
    BY DEF IInv, StageOK
  <2>2. steps # <<>> => LastOf(steps).type \in {"observation", "critique"}
                       /\ (LastOf(steps).type = "critique" => LastOf(steps).verdict = "reject")
    BY <2>1 DEF ThinkOK, Critique
  <2>3. steps # <<>> => Precedes(LastOf(steps), Thought)
    BY <1>1, <2>2 DEF Precedes
  <2> QED BY <1>1, <2>2, <2>3, StepsGoOn DEF IInv
<1>7. StatusTellsHow'
  BY <1>1, NotTooMany, StatusGoesOn
<1>8. BudgetOK'
  BY DEF IInv, BudgetOK, TypeOK, OverBudget
<1>9. RunsOK'
  BY <1>1, RunsStay DEF IInv
<1> QED BY <1>2, <1>4, <1>5, <1>6, <1>7, <1>8, <1>9 DEF IInv

LEMMA Malforms ==
  ASSUME IInv, Malformed
  PROVE  IInv'
<1> USE ReactAssumption DEF Malformed
<1> DEFINE e == Observation("malformed_output")
<1>1. e \in Step /\ e # Action(Finish, FALSE) /\ e.type = "observation" /\ e.outcome = "malformed_output"
  BY StepTypes DEF Observation, Action, Outcome
<1> HIDE DEF e
<1>2. steps' = Append(steps, e)
  BY DEF e
<1>3. CriticGuardsEffects' /\ effects' \subseteq [step : 1..Len(steps'), attempt : 0..MaxRetries, destroys : BOOLEAN]
  BY <1>1, <1>2, GuardsStay DEF IInv
<1>4. steps' \in Seq(Step) /\ LastOf(steps') = e
  BY <1>1, <1>2, Appended DEF IInv, TypeOK
<1>5. TypeOK'
  BY <1>3, <1>4 DEF IInv, TypeOK
<1>6. StageOK'
  BY <1>1, <1>4 DEF StageOK, ThinkOK
<1>7. StepsInOrder'
  <2>1. steps # <<>> /\ LastOf(steps).type = "thought"
    BY DEF IInv, StageOK, Thought
  <2>2. Precedes(LastOf(steps), e)
    BY <1>1, <2>1 DEF Precedes
  <2> QED BY <1>1, <1>2, <2>1, <2>2, StepsGoOn DEF IInv
<1>8. StatusTellsHow'
  BY <1>1, <1>2, NotTooMany, StatusGoesOn
<1>9. BudgetOK'
  BY DEF IInv, BudgetOK, TypeOK
<1>10. RunsOK'
  BY <1>1, <1>2, RunsStay DEF IInv
<1> QED BY <1>3, <1>5, <1>6, <1>7, <1>8, <1>9, <1>10 DEF IInv

LEMMA FinishesItself ==
  ASSUME IInv, FinishCalled
  PROVE  IInv'
<1> USE ReactAssumption
<1> DEFINE e == Action(Finish, FALSE)
<1>1. e \in Step /\ e.type = "action"
  <2>1. Finish \in Calls \cup {Finish} /\ FALSE \in BOOLEAN
    OBVIOUS
  <2>2. e \in Step
    BY <2>1, StepTypes
  <2> QED BY <2>2 DEF Action
<1>2. /\ pc = "act" /\ pc' = "done" /\ status' = "success" /\ steps' = Append(steps, e)
      /\ UNCHANGED <<rejections, iteration, attempt, existing, effects>>
  BY DEF FinishCalled, EndWith
<1>11. tokens' \in Nat /\ tokens' <= tokens + ActionTokens
  BY DEF FinishCalled, IInv, TypeOK
<1> HIDE DEF e
<1>3. CriticGuardsEffects' /\ effects' \subseteq [step : 1..Len(steps'), attempt : 0..MaxRetries, destroys : BOOLEAN]
  BY <1>1, <1>2, GuardsStay DEF IInv
<1>4. steps' \in Seq(Step)
  BY <1>1, <1>2, Appended DEF IInv, TypeOK
<1>5. TypeOK'
  BY <1>2, <1>3, <1>4, <1>11 DEF IInv, TypeOK
<1>6. StageOK'
  BY <1>2 DEF StageOK
<1>7. StepsInOrder'
  <2>1. steps # <<>> /\ LastOf(steps).type = "thought"
    BY <1>2 DEF IInv, StageOK, Thought
  <2>2. Precedes(LastOf(steps), e)
    BY <1>1, <2>1 DEF Precedes
  <2> QED BY <1>1, <1>2, <2>1, <2>2, StepsGoOn DEF IInv
<1>8. StatusTellsHow'
  BY <1>1, <1>2, NotTooMany, StatusGoesOn DEF e
<1>9. BudgetOK'
  BY <1>2, <1>11 DEF IInv, BudgetOK, TypeOK
<1>10. RunsOK'
  BY <1>1, <1>2, RunsStay DEF IInv
<1> QED BY <1>3, <1>5, <1>6, <1>7, <1>8, <1>9, <1>10 DEF IInv

LEMMA Acts ==
  ASSUME IInv, Act
  PROVE  IInv'
<1> USE ReactAssumption
<1>1. PICK c \in Calls : /\ steps' = Append(steps, Action(c, Resolved(c)))
                         /\ pc' = IF Resolved(c) THEN "critic" ELSE "invoke"
  BY DEF Act
<1> DEFINE e == Action(c, Resolved(c))
<1>2. Resolved(c) \in BOOLEAN
  BY DEF Resolved
<1>3. e \in Step /\ e.type = "action"
  BY <1>2, StepTypes DEF Action
<1>4. e # Action(Finish, FALSE)
  BY DEF Action
<1>5. steps' = Append(steps, e) /\ e = Action(c, Resolved(c))
  BY <1>1
<1> HIDE DEF e
<1>6. /\ pc = "act" /\ attempt' = 0
      /\ UNCHANGED <<status, rejections, iteration, existing, effects>>
      /\ \E cost \in 0..ActionTokens : tokens' = tokens + cost
  BY DEF Act
<1>7. CriticGuardsEffects' /\ effects' \subseteq [step : 1..Len(steps'), attempt : 0..MaxRetries, destroys : BOOLEAN]
  BY <1>3, <1>5, <1>6, GuardsStay DEF IInv
<1>8. steps' \in Seq(Step) /\ steps' # <<>> /\ LastOf(steps') = e
  BY <1>3, <1>5, Appended DEF IInv, TypeOK
<1>9. TypeOK'
  BY <1>1, <1>6, <1>7, <1>8 DEF IInv, TypeOK
<1>10. StageOK'
  <2>1. CASE Resolved(c)
    BY <1>1, <1>5, <1>8, <2>1 DEF StageOK, CriticOK
  <2>2. CASE ~Resolved(c)
    <3>1. Harmless(c)' /\ e = Action(c, FALSE)
      BY <1>5, <1>6, <2>2 DEF Harmless, Resolved
    <3>2. Plain'
      BY <1>8, <3>1 DEF Plain
    <3> QED BY <1>1, <2>2, <3>2 DEF StageOK
  <2> QED BY <2>1, <2>2
<1>11. StepsInOrder'
  <2>1. steps # <<>> /\ LastOf(steps).type = "thought"
    BY <1>6 DEF IInv, StageOK, Thought
  <2>2. Precedes(LastOf(steps), e)
    BY <1>3, <2>1 DEF Precedes
  <2> QED BY <1>3, <1>5, <2>1, <2>2, StepsGoOn DEF IInv
<1>12. StatusTellsHow'
  BY <1>1, <1>3, <1>4, <1>5, <1>6, NotTooMany, StatusGoesOn
<1>13. BudgetOK'
  BY <1>1, <1>6 DEF IInv, BudgetOK, TypeOK
<1>14. RunsOK'
  <2>1. pc' # "backoff"
    BY <1>1
  <2> QED BY <1>3, <1>5, <1>6, <2>1, RunsStay DEF IInv
<1> QED BY <1>7, <1>9, <1>10, <1>11, <1>12, <1>13, <1>14 DEF IInv

LEMMA Passes ==
  ASSUME IInv, CriticPasses
  PROVE  IInv'
<1> USE ReactAssumption
<1> DEFINE e == Critique("ok")
<1>1. e \in Step /\ e.type = "critique" /\ e.verdict = "ok" /\ e # Action(Finish, FALSE)
  BY StepTypes DEF Critique, Action, Verdict
<1>2. /\ pc = "critic" /\ pc' = "invoke" /\ steps' = Append(steps, e)
      /\ UNCHANGED <<status, rejections, iteration, attempt, existing, effects>>
  BY DEF CriticPasses, Critiqued
<1>3. tokens' \in Nat /\ tokens' <= tokens + CritiqueTokens
  BY DEF CriticPasses, Critiqued, IInv, TypeOK
<1>4. LastOf(steps') = e /\ e = Critique("ok")
  BY <1>1, <1>2, Appended DEF IInv, TypeOK
<1> HIDE DEF e
<1>5. CriticGuardsEffects' /\ effects' \subseteq [step : 1..Len(steps'), attempt : 0..MaxRetries, destroys : BOOLEAN]
  BY <1>1, <1>2, GuardsStay DEF IInv
<1>6. steps \in Seq(Step) /\ steps' \in Seq(Step)
  BY <1>1, <1>2, Appended DEF IInv, TypeOK
<1>7. TypeOK'
  BY <1>2, <1>3, <1>5, <1>6 DEF IInv, TypeOK
<1>8. CriticOK
  BY <1>2 DEF IInv, StageOK
<1>9. StageOK'
  <2>1. PICK c \in Calls : LastOf(steps) = Action(c, TRUE)
    BY <1>8 DEF CriticOK
  <2>2. Len(steps') > 1 /\ steps'[Len(steps') - 1] = LastOf(steps)
    <3>1. steps # <<>> /\ Len(steps) \in Nat /\ Len(steps) >= 1 /\ LastOf(steps) = steps[Len(steps)]
      BY <1>6, <1>8, NotEmpty DEF CriticOK
    <3>2. Len(steps') = Len(steps) + 1 /\ \A i \in 1..Len(steps) : steps'[i] = steps[i]
      BY <1>1, <1>2, <1>6, Appended
    <3>3. Len(steps') - 1 = Len(steps) /\ Len(steps) \in 1..Len(steps)
      BY <3>1, <3>2
    <3> QED BY <3>1, <3>2, <3>3
  <2>3. Passed'
    BY <1>4, <2>1, <2>2 DEF Passed
  <2> QED BY <1>2, <2>3 DEF StageOK
<1>10. StepsInOrder'
  <2>1. PICK c \in Calls : steps # <<>> /\ LastOf(steps) = Action(c, TRUE)
    BY <1>8 DEF CriticOK
  <2>2. LastOf(steps).type = "action" /\ LastOf(steps).irreversible
    BY <2>1 DEF Action
  <2>3. LastOf(steps).call # Finish
    BY <2>1 DEF Action
  <2>4. Precedes(LastOf(steps), e)
    BY <1>1, <2>2, <2>3 DEF Precedes
  <2> QED BY <1>1, <1>2, <2>1, <2>4, StepsGoOn DEF IInv
<1>11. StatusTellsHow'
  BY <1>1, <1>2, NotTooMany, StatusGoesOn
<1>12. BudgetOK'
  BY <1>2, <1>3 DEF IInv, BudgetOK, TypeOK
<1>13. RunsOK'
  <2>1. attempt = 0 /\ \A f \in effects : f.step < Len(steps)
    BY <1>2 DEF IInv, RunsOK
  <2> QED BY <1>1, <1>2, <2>1, RunsStay DEF IInv
<1> QED BY <1>5, <1>7, <1>9, <1>10, <1>11, <1>12, <1>13 DEF IInv

LEMMA Rejects ==
  ASSUME IInv, CriticRejects
  PROVE  IInv'
<1> USE ReactAssumption
<1> DEFINE e == Critique("reject")
<1>1. e \in Step /\ e.type = "critique" /\ e.verdict = "reject" /\ e # Action(Finish, FALSE)
  BY StepTypes DEF Critique, Action, Verdict
<1>2. /\ pc = "critic" /\ steps' = Append(steps, e) /\ rejections' = rejections + 1
      /\ UNCHANGED <<iteration, attempt, existing, effects>>
  BY DEF CriticRejects, Critiqued
<1>3. tokens' \in Nat /\ tokens' <= tokens + CritiqueTokens
  BY DEF CriticRejects, Critiqued, IInv, TypeOK
<1>4. \/ pc' = "done" /\ status' = "failure"
      \/ pc' = "think" /\ UNCHANGED status /\ rejections' <= MaxRejections
  <2>1. rejections' \in Nat
    BY <1>2 DEF IInv, TypeOK
  <2> QED BY <2>1 DEF CriticRejects, TooManyRejections, EndWith
<1>5. LastOf(steps') = e /\ e = Critique("reject")
  BY <1>1, <1>2, Appended DEF IInv, TypeOK
<1> HIDE DEF e
<1>6. CriticGuardsEffects' /\ effects' \subseteq [step : 1..Len(steps'), attempt : 0..MaxRetries, destroys : BOOLEAN]
  BY <1>1, <1>2, GuardsStay DEF IInv
<1>7. steps' \in Seq(Step)
  BY <1>1, <1>2, Appended DEF IInv, TypeOK
<1>8. TypeOK'
  BY <1>2, <1>3, <1>4, <1>6, <1>7 DEF IInv, TypeOK
<1>9. StageOK'
  BY <1>4, <1>5 DEF StageOK, ThinkOK
<1>10. StepsInOrder'
  <2>1. PICK c \in Calls : steps # <<>> /\ LastOf(steps) = Action(c, TRUE)
    BY <1>2 DEF IInv, StageOK, CriticOK
  <2>2. LastOf(steps).type = "action" /\ LastOf(steps).irreversible
    BY <2>1 DEF Action
  <2>3. LastOf(steps).call # Finish
    BY <2>1 DEF Action
  <2>4. Precedes(LastOf(steps), e)
    BY <1>1, <2>2, <2>3 DEF Precedes
  <2> QED BY <1>1, <1>2, <2>1, <2>4, StepsGoOn DEF IInv
<1>11. StatusTellsHow'
  <2>1. rejections' \in Nat /\ rejections' <= MaxRejections + 1
    BY <1>2, NotTooMany
  <2> QED BY <1>1, <1>2, <1>4, <2>1, StatusGoesOn
<1>12. BudgetOK'
  BY <1>2, <1>3, <1>4 DEF IInv, BudgetOK, TypeOK
<1>13. RunsOK'
  BY <1>1, <1>2, <1>4, RunsStay DEF IInv
<1> QED BY <1>6, <1>8, <1>9, <1>10, <1>11, <1>12, <1>13 DEF IInv

(* One run of the tool behind the current action: the critic has let it     *)
(* pass if it can destroy something, and no earlier run had its attempt.    *)
LEMMA ToolRuns ==
  ASSUME IInv, pc = "invoke", NEW o, RunTool(steps[LastAction].call, o)
  PROVE  /\ existing' \subseteq Conditional
         /\ steps[LastAction].call \in Retried => existing' = existing
         /\ effects' \subseteq [step : 1..Len(steps), attempt : 0..MaxRetries, destroys : BOOLEAN]
         /\ \A e \in effects' :
              e.destroys => /\ e.step < Len(steps) /\ steps[e.step + 1].type = "critique"
                            /\ steps[e.step + 1].verdict # "reject"
         /\ \A e, f \in effects' : e.step = f.step /\ e.attempt = f.attempt => e = f
         /\ \A e \in effects' :
              /\ IsAction(steps[e.step])
              /\ e.destroys => steps[e.step].call \in Always \cup Conditional
              /\ e.attempt > 0 => steps[e.step].call \in Retried
              /\ e.step # Current \/ e.attempt <= attempt
<1> DEFINE c == steps[LastAction].call
<1>1. TypeOK /\ (Plain \/ Passed) /\ CriticGuardsEffects /\ RunsOK
  BY DEF IInv, StageOK
<1>2. /\ LastAction = Current /\ Current \in 1..Len(steps) /\ Len(steps) \in Nat
      /\ IsAction(steps[Current]) /\ c = steps[Current].call
      /\ Passed => Current = Len(steps) - 1 /\ steps[Len(steps)] = Critique("ok")
      /\ ~Passed => Harmless(c)
  BY <1>1, CurrentCall
<1>3. attempt \in 0..MaxRetries /\ existing \subseteq Conditional
      /\ effects \subseteq [step : 1..Len(steps), attempt : 0..MaxRetries, destroys : BOOLEAN]
  BY <1>1 DEF TypeOK
<1>4. MaxRetries \in Nat /\ c \notin Retried \cap Conditional
  BY ReactAssumption, RetryAssumption
<1>5. \A e \in effects : e.step # Current \/ e.attempt < attempt
  BY <1>1 DEF RunsOK
<1>6. attempt > 0 => c \in Retried
  BY <1>1, <1>2 DEF RunsOK
<1>7. \A e \in effects : e.attempt \in Nat
  BY <1>3, <1>4
<1> HIDE DEF c
<1>8. RunTool(c, o)
  BY DEF c
<1>9. CASE c \in Refused
  <2>1. existing' = existing /\ effects' = effects
    BY <1>8, <1>9 DEF RunTool
  <2>2. \A e \in effects : e.step # Current \/ e.attempt <= attempt
    BY <1>3, <1>5, <1>7
  <2> QED BY <1>1, <1>3, <2>1, <2>2 DEF c, CriticGuardsEffects, RunsOK
<1>10. CASE c \notin Refused
  <2> DEFINE new == [step |-> LastAction, attempt |-> attempt, destroys |-> c \in Always \cup existing]
  <2>1. effects' = effects \cup {new}
    BY <1>8, <1>10 DEF RunTool
  <2>2. existing' = existing \/ existing' = existing \cup ({c} \cap Conditional)
    BY <1>8, <1>10 DEF RunTool
  <2>3. /\ new.step = Current /\ new.attempt = attempt /\ new.destroys = (c \in Always \cup existing)
        /\ new \in [step : 1..Len(steps), attempt : 0..MaxRetries, destroys : BOOLEAN]
    BY <1>2, <1>3
  <2> HIDE DEF new
  <2>4. existing' \subseteq Conditional /\ (c \in Retried => existing' = existing)
    BY <1>3, <1>4, <2>2
  <2>5. new.destroys => /\ new.step < Len(steps) /\ steps[new.step + 1].type = "critique"
                        /\ steps[new.step + 1].verdict # "reject"
    <3> SUFFICES ASSUME c \in Always \cup existing
                 PROVE  /\ Current < Len(steps) /\ steps[Current + 1].type = "critique"
                        /\ steps[Current + 1].verdict # "reject"
      BY <2>3
    <3>1. Passed
      BY <1>2, <1>10 DEF Harmless
    <3>2. Current < Len(steps) /\ steps[Current + 1] = Critique("ok")
      BY <1>2, <3>1
    <3> QED BY <3>2 DEF Critique
  <2>6. \A e \in effects : ~(e.step = new.step /\ e.attempt = new.attempt)
    BY <1>3, <1>5, <1>7, <2>3
  <2>7. \A e, f \in effects' : e.step = f.step /\ e.attempt = f.attempt => e = f
    BY <1>1, <2>1, <2>6 DEF RunsOK
  <2>8. /\ IsAction(steps[new.step])
        /\ new.destroys => steps[new.step].call \in Always \cup Conditional
        /\ new.attempt > 0 => steps[new.step].call \in Retried
        /\ new.step # Current \/ new.attempt <= attempt
    <3>1. new.attempt <= attempt
      BY <1>3, <1>4, <2>3
    <3> QED BY <1>2, <1>3, <1>6, <2>3, <3>1
  <2>9. \A e \in effects :
          /\ IsAction(steps[e.step])
          /\ e.destroys => steps[e.step].call \in Always \cup Conditional
          /\ e.attempt > 0 => steps[e.step].call \in Retried
          /\ e.step # Current \/ e.attempt <= attempt
    <3>1. \A e \in effects : e.step # Current \/ e.attempt <= attempt
      BY <1>3, <1>5, <1>7
    <3> QED BY <1>1, <3>1 DEF RunsOK
  <2>10. \A e \in effects :
           e.destroys => /\ e.step < Len(steps) /\ steps[e.step + 1].type = "critique"
                         /\ steps[e.step + 1].verdict # "reject"
    BY <1>1 DEF CriticGuardsEffects
  <2> QED BY <1>3, <2>1, <2>3, <2>4, <2>5, <2>7, <2>8, <2>9, <2>10 DEF c
<1> QED BY <1>9, <1>10

LEMMA RetriesIt ==
  ASSUME IInv, Retry
  PROVE  IInv'
<1> USE ReactAssumption
<1> DEFINE c == steps[LastAction].call
<1>1. PICK o \in OutcomesOf(c) : Retries(c, o, attempt) /\ RunTool(c, o)
  BY DEF Retry
<1>2. /\ pc = "invoke" /\ pc' = "backoff"
      /\ UNCHANGED <<steps, status, tokens, rejections, iteration, attempt>>
  BY DEF Retry
<1>3. c \in Retried /\ attempt < MaxRetries
  BY <1>1 DEF Retries
<1>4. /\ existing' = existing
      /\ effects' \subseteq [step : 1..Len(steps), attempt : 0..MaxRetries, destroys : BOOLEAN]
      /\ \A e \in effects' :
           e.destroys => /\ e.step < Len(steps) /\ steps[e.step + 1].type = "critique"
                         /\ steps[e.step + 1].verdict # "reject"
      /\ \A e, f \in effects' : e.step = f.step /\ e.attempt = f.attempt => e = f
      /\ \A e \in effects' :
           /\ IsAction(steps[e.step])
           /\ e.destroys => steps[e.step].call \in Always \cup Conditional
           /\ e.attempt > 0 => steps[e.step].call \in Retried
           /\ e.step # Current \/ e.attempt <= attempt
  BY <1>1, <1>2, <1>3, ToolRuns
<1>5. TypeOK /\ (Plain \/ Passed)
  BY <1>2 DEF IInv, StageOK
<1>6. c = steps[Current].call
  BY <1>5, CurrentCall
<1> HIDE DEF c
<1>7. attempt' \in 0..MaxRetries
  BY <1>2 DEF IInv, TypeOK
<1>8. TypeOK'
  BY <1>2, <1>4, <1>7 DEF IInv, TypeOK
<1>9. StageOK'
  <2>1. Plain => Plain'
    BY <1>2, <1>4 DEF Plain, Harmless
  <2>2. Passed => Passed'
    BY <1>2 DEF Passed
  <2> QED BY <1>2, <1>5, <2>1, <2>2 DEF StageOK
<1>10. CriticGuardsEffects'
  BY <1>2, <1>4 DEF CriticGuardsEffects
<1>11. StepsInOrder'
  BY <1>2 DEF IInv, StepsInOrder, Precedes
<1>12. StatusTellsHow'
  BY <1>2 DEF IInv, StatusTellsHow
<1>13. BudgetOK'
  BY <1>2 DEF IInv, BudgetOK
<1>14. RunsOK'
  <2>1. Current' = Current
    BY <1>2 DEF Current
  <2>2. \A e \in effects' : e.step # Current' \/ e.attempt <= attempt'
    BY <1>2, <1>4, <2>1
  <2>3. steps'[Current'].call \in Retried /\ attempt' < MaxRetries
    BY <1>2, <1>3, <1>6, <2>1
  <2>4. pc' = "backoff"
    BY <1>2
  <2> QED BY <1>2, <1>4, <2>2, <2>3, <2>4 DEF RunsOK
<1> QED BY <1>8, <1>9, <1>10, <1>11, <1>12, <1>13, <1>14 DEF IInv

LEMMA BacksOff ==
  ASSUME IInv, Backoff
  PROVE  IInv'
<1> USE ReactAssumption
<1>1. /\ pc = "backoff" /\ pc' = "invoke" /\ attempt' = attempt + 1
      /\ UNCHANGED <<steps, status, tokens, rejections, iteration, existing, effects>>
  BY DEF Backoff, NextAttempt
<1>2. TypeOK /\ (Plain \/ Passed) /\ RunsOK
  BY <1>1 DEF IInv, StageOK
<1>3. attempt < MaxRetries /\ steps[Current].call \in Retried
  BY <1>1, <1>2 DEF RunsOK
<1>4. attempt' \in 0..MaxRetries
  BY <1>1, <1>2, <1>3 DEF TypeOK
<1>5. TypeOK'
  BY <1>1, <1>2, <1>4 DEF TypeOK
<1>6. StageOK'
  <2>1. Plain => Plain'
    BY <1>1 DEF Plain, Harmless
  <2>2. Passed => Passed'
    BY <1>1 DEF Passed
  <2> QED BY <1>1, <1>2, <2>1, <2>2 DEF StageOK
<1>7. CriticGuardsEffects' /\ StepsInOrder'
  BY <1>1 DEF IInv, CriticGuardsEffects, StepsInOrder, Precedes
<1>8. StatusTellsHow' /\ BudgetOK'
  BY <1>1 DEF IInv, StatusTellsHow, BudgetOK
<1>9. RunsOK'
  <2>1. Current' = Current
    BY <1>1 DEF Current
  <2>2. \A e \in effects' : e.step # Current' \/ e.attempt < attempt'
    <3> SUFFICES ASSUME NEW e \in effects PROVE e.step # Current \/ e.attempt < attempt + 1
      BY <1>1, <2>1
    <3>1. e.attempt \in Nat /\ attempt \in Nat
      BY <1>2 DEF TypeOK
    <3>2. e.step # Current \/ e.attempt <= attempt
      BY <1>1, <1>2 DEF RunsOK
    <3> QED BY <3>1, <3>2
  <2>3. steps'[Current'].call \in Retried
    BY <1>1, <1>3, <2>1
  <2>4. \A e \in effects' :
          /\ IsAction(steps'[e.step])
          /\ e.destroys => steps'[e.step].call \in Always \cup Conditional
          /\ e.attempt > 0 => steps'[e.step].call \in Retried
    BY <1>1, <1>2 DEF RunsOK
  <2>5. \A e, f \in effects' : e.step = f.step /\ e.attempt = f.attempt => e = f
    BY <1>1, <1>2 DEF RunsOK
  <2> QED BY <1>1, <2>2, <2>3, <2>4, <2>5 DEF RunsOK
<1> QED BY <1>5, <1>6, <1>7, <1>8, <1>9 DEF IInv

LEMMA Observes ==
  ASSUME IInv, Observe
  PROVE  IInv'
<1> USE ReactAssumption
<1> DEFINE c == steps[LastAction].call
<1>1. PICK o \in OutcomesOf(c) : steps' = Append(steps, Observation(o)) /\ RunTool(c, o)
  BY DEF Observe
<1>2. /\ pc = "invoke" /\ UNCHANGED <<tokens, rejections, iteration, attempt>>
      /\ \/ pc' = "done" /\ status' = "failure"
         \/ pc' = "think" /\ UNCHANGED status
  BY DEF Observe, EndWith
<1> DEFINE e == Observation(o)
<1>3. o \in Outcome
  BY DEF OutcomesOf, Outcome
<1>4. e \in Step /\ e.type = "observation" /\ e # Action(Finish, FALSE)
  BY <1>3, StepTypes DEF Observation, Action
<1>5. steps' = Append(steps, e)
  BY <1>1
<1> HIDE DEF e
<1>6. /\ existing' \subseteq Conditional
      /\ effects' \subseteq [step : 1..Len(steps), attempt : 0..MaxRetries, destroys : BOOLEAN]
      /\ \A f \in effects' :
           f.destroys => /\ f.step < Len(steps) /\ steps[f.step + 1].type = "critique"
                         /\ steps[f.step + 1].verdict # "reject"
      /\ \A f, g \in effects' : f.step = g.step /\ f.attempt = g.attempt => f = g
      /\ \A f \in effects' :
           /\ IsAction(steps[f.step])
           /\ f.destroys => steps[f.step].call \in Always \cup Conditional
           /\ f.attempt > 0 => steps[f.step].call \in Retried
  BY <1>1, <1>2, ToolRuns
<1>7. /\ steps \in Seq(Step) /\ steps' \in Seq(Step) /\ LastOf(steps') = e
      /\ Len(steps') = Len(steps) + 1 /\ Len(steps) \in Nat
      /\ \A i \in 1..Len(steps) : steps'[i] = steps[i]
  BY <1>4, <1>5, Appended DEF IInv, TypeOK
<1>8. \A f \in effects' : /\ f.step \in 1..Len(steps)
                          /\ f.step < Len(steps) => f.step + 1 \in 1..Len(steps) /\ f.step < Len(steps')
  BY <1>6, <1>7
<1>9. TypeOK'
  <2>1. 1..Len(steps) \subseteq 1..Len(steps')
    BY <1>7
  <2>2. effects' \subseteq [step : 1..Len(steps'), attempt : 0..MaxRetries, destroys : BOOLEAN]
    BY <1>6, <2>1
  <2> QED BY <1>2, <1>6, <1>7, <2>2 DEF IInv, TypeOK
<1>10. StageOK'
  BY <1>2, <1>4, <1>7 DEF StageOK, ThinkOK
<1>11. CriticGuardsEffects'
  BY <1>6, <1>7, <1>8 DEF CriticGuardsEffects
<1>12. StepsInOrder'
  <2>1. CASE Passed
    <3>1. LastOf(steps).type = "critique" /\ LastOf(steps).verdict # "reject" /\ steps # <<>>
      <4>1. Len(<<>>) = 0
        OBVIOUS
      <4>2. steps # <<>>
        BY <2>1, <4>1 DEF Passed
      <4> QED BY <2>1, <4>2 DEF Passed, Critique
    <3>2. Precedes(LastOf(steps), e)
      BY <1>4, <3>1 DEF Precedes
    <3> QED BY <1>4, <1>5, <3>1, <3>2, StepsGoOn DEF IInv
  <2>2. CASE Plain
    <3>1. PICK d \in Calls : steps # <<>> /\ LastOf(steps) = Action(d, FALSE)
      BY <2>2 DEF Plain
    <3>2. LastOf(steps).type = "action" /\ ~LastOf(steps).irreversible /\ LastOf(steps).call # Finish
      BY <3>1 DEF Action
    <3>3. Precedes(LastOf(steps), e)
      BY <1>4, <3>2 DEF Precedes
    <3> QED BY <1>4, <1>5, <3>1, <3>3, StepsGoOn DEF IInv
  <2> QED BY <1>2, <2>1, <2>2 DEF IInv, StageOK
<1>13. StatusTellsHow'
  <2>1. rejections' \in Nat /\ rejections' <= MaxRejections /\ rejections' <= MaxRejections + 1
    BY <1>2, NotTooMany
  <2> QED BY <1>2, <1>4, <1>5, <2>1, StatusGoesOn
<1>14. BudgetOK'
  BY <1>2 DEF IInv, BudgetOK
<1>15. RunsOK'
  BY <1>2, <1>6, <1>7, <1>8 DEF RunsOK
<1> QED BY <1>9, <1>10, <1>11, <1>12, <1>13, <1>14, <1>15 DEF IInv

-----------------------------------------------------------------------------
(* The invariant is inductive.                                             *)
LEMMA OneStep ==
  ASSUME IInv, [Next]_vars
  PROVE  IInv'
<1>1. CASE OutOfSteps
  BY <1>1, EndsHere DEF OutOfSteps, EndWith
<1>2. CASE OutOfBudget
  BY <1>2, EndsHere DEF OutOfBudget, EndWith, OverBudget
<1>3. CASE Think
  BY <1>3, Thinks
<1>4. CASE ModelFails
  BY <1>4, EndsHere DEF ModelFails, EndWith
<1>5. CASE Malformed
  BY <1>5, Malforms
<1>6. CASE FinishCalled
  BY <1>6, FinishesItself
<1>7. CASE Act
  BY <1>7, Acts
<1>8. CASE PredicateRaises
  BY <1>8, EndsHere DEF PredicateRaises
<1>9. CASE CriticPasses
  BY <1>9, Passes
<1>10. CASE CriticRejects
  BY <1>10, Rejects
<1>11. CASE CriticRaises
  BY <1>11, EndsHere DEF CriticRaises
<1>12. CASE Retry
  BY <1>12, RetriesIt
<1>13. CASE Observe
  BY <1>13, Observes
<1>14. CASE Backoff
  BY <1>14, BacksOff
<1>15. CASE UNCHANGED vars
  <2> USE <1>15 DEF vars
  <2>1. TypeOK' /\ CriticGuardsEffects'
    BY DEF IInv, TypeOK, CriticGuardsEffects, Harmless
  <2>3. StageOK'
    BY DEF IInv, StageOK, ThinkOK, CriticOK, Plain, Passed, Harmless
  <2>4. StepsInOrder'
    BY DEF IInv, StepsInOrder, Precedes
  <2>2. StatusTellsHow' /\ BudgetOK' /\ RunsOK'
    BY DEF IInv, StatusTellsHow, BudgetOK, RunsOK, Current
  <2> QED BY <2>1, <2>2, <2>3, <2>4 DEF IInv
<1> QED BY <1>1, <1>2, <1>3, <1>4, <1>5, <1>6, <1>7, <1>8, <1>9, <1>10, <1>11,
           <1>12, <1>13, <1>14, <1>15 DEF Next

(* Whatever stands right before a step in the trajectory precedes it.       *)
LEMMA StepBehind ==
  ASSUME TypeOK, StepsInOrder, NEW i \in 1..Len(steps), i + 1 <= Len(steps)
  PROVE  Precedes(steps[i], steps[i + 1])
<1>1. Len(steps) \in Nat
  BY DEF TypeOK
<1>2. i + 1 \in 2..Len(steps) /\ (i + 1) - 1 = i
  BY <1>1
<1> QED BY <1>2 DEF StepsInOrder

(* A step is of one of four types, and what it says goes with its type.     *)
LEMMA StepKinds ==
  ASSUME TypeOK, NEW i \in 1..Len(steps)
  PROVE  /\ steps[i].type \in {"thought", "action", "critique", "observation"}
         /\ steps[i].type = "critique" =>
              steps[i].verdict \in Verdict /\ steps[i] = Critique(steps[i].verdict)
         /\ steps[i].type = "thought" => steps[i] = Thought
<1>1. Len(steps) \in Nat /\ steps[i] \in Step
  BY ElementOfSeq DEF TypeOK
<1> QED BY <1>1 DEF Step, Thought, Action, Critique, Observation

(* A trajectory in order is a conversation once the critiques are left out. *)
LEMMA OrderIsConversation ==
  ASSUME TypeOK, StepsInOrder
  PROVE  Conversation
<1>1. Len(steps) \in Nat
  BY DEF TypeOK
<1>2. ASSUME NEW j \in Messages(steps), \A i \in Messages(steps) : i >= j
      PROVE  steps[j] = Thought
  <2>1. 1 \in 1..Len(steps) /\ j \in 1..Len(steps) /\ steps[1] = Thought
    BY <1>1 DEF Messages, StepsInOrder
  <2>2. 1 \in Messages(steps)
    BY <2>1 DEF Messages, Thought
  <2>3. j = 1
    BY <1>1, <1>2, <2>1, <2>2
  <2> QED BY <2>1, <2>3
<1>3. ASSUME NEW i \in Messages(steps), NEW j \in Messages(steps), i < j,
             \A k \in Messages(steps) : k <= i \/ k >= j
      PROVE  Follows(i, j)
  <2>1. /\ i \in 1..Len(steps) /\ j \in 1..Len(steps) /\ i + 1 <= Len(steps)
        /\ i + 1 \in 1..Len(steps)
        /\ steps[i].type # "critique" /\ steps[j].type # "critique"
    BY <1>1, <1>3 DEF Messages
  <2>2. Precedes(steps[i], steps[i + 1])
    BY <2>1, StepBehind
  <2>3. CASE steps[i + 1].type # "critique"
    <3>1. i + 1 \in Messages(steps)
      BY <2>1, <2>3 DEF Messages
    <3>2. j = i + 1
      BY <1>1, <1>3, <2>1, <3>1
    <3>3. ~IsRejected(i)
      BY <2>3 DEF IsRejected, Critique
    <3>4. steps[j].type \in {"thought", "action", "observation"}
      BY <2>1, StepKinds
    <3>5. Precedes(steps[i], steps[j])
      BY <2>2, <3>2
    <3> QED BY <2>1, <3>3, <3>4, <3>5 DEF Follows, Precedes, IsAction
  <2>4. CASE steps[i + 1].type = "critique"
    <3>1. /\ steps[i].type = "action" /\ steps[i].call # Finish
          /\ steps[i + 1] = Critique(steps[i + 1].verdict)
      <4>1. steps[i].type = "action" /\ steps[i].call # Finish
        BY <2>2, <2>4 DEF Precedes
      <4> QED BY <2>1, <2>4, <4>1, StepKinds
    <3>2. j # i + 1
      BY <2>1, <2>4
    <3>3. (i + 1) + 1 <= Len(steps) /\ (i + 1) + 1 \in 1..Len(steps)
      BY <1>1, <1>3, <2>1, <3>2
    <3>4. Precedes(steps[i + 1], steps[(i + 1) + 1])
      BY <2>1, <3>3, StepBehind
    <3>5. steps[(i + 1) + 1].type \in {"thought", "observation"}
      <4>1. steps[(i + 1) + 1].type \in {"thought", "action", "critique", "observation"}
        BY <3>3, StepKinds
      <4> QED BY <2>4, <3>4, <4>1 DEF Precedes
    <3>6. (i + 1) + 1 \in Messages(steps)
      BY <3>3, <3>5 DEF Messages
    <3>7. j = (i + 1) + 1
      BY <1>1, <1>3, <2>1, <3>2, <3>6
    <3>8. CASE steps[j].type = "thought"
      <4>1. steps[i + 1].verdict = "reject"
        BY <2>4, <3>4, <3>7, <3>8 DEF Precedes
      <4>2. IsRejected(i)
        BY <1>1, <2>1, <3>1, <4>1 DEF IsRejected
      <4> QED BY <3>1, <3>8, <4>2 DEF Follows, IsAction
    <3>9. CASE steps[j].type = "observation"
      <4>1. steps[i + 1].verdict # "reject"
        BY <2>4, <3>4, <3>7, <3>9 DEF Precedes
      <4>2. ~IsRejected(i)
        BY <4>1 DEF IsRejected, Critique
      <4> QED BY <3>1, <3>9, <4>2 DEF Follows, IsAction
    <3> QED BY <3>5, <3>7, <3>8, <3>9
  <2> QED BY <2>3, <2>4
<1> QED BY <1>2, <1>3 DEF Conversation

(* Whatever the model, the critic and the tools answer, IInv holds.         *)
THEOREM TrajectoryInvariant == Spec => []IInv
<1>1. Init => IInv
  BY Beginnings
<1>2. IInv /\ [Next]_vars => IInv'
  BY OneStep
<1> QED BY <1>1, <1>2, PTL DEF Spec

(* What run_react keeps is what TypeOK says: types, counters in bounds.     *)
THEOREM ReactTypeCorrect == Spec => []TypeOK
<1>1. IInv => TypeOK
  BY DEF IInv
<1> QED BY <1>1, TrajectoryInvariant, PTL

(* run_react and critique_action: nothing that can destroy something is run *)
(* but behind a critique of just this action that lets it pass.            *)
THEOREM CriticGuards == Spec => []CriticGuardsEffects
<1>1. IInv => CriticGuardsEffects
  BY DEF IInv
<1> QED BY <1>1, TrajectoryInvariant, PTL

(* run_react: what the model is shown again, which leaves out the critiques, *)
(* is a conversation: an action has no answer exactly if it was rejected.   *)
THEOREM ConversationHolds == Spec => []Conversation
<1>1. IInv => Conversation
  BY OrderIsConversation DEF IInv
<1> QED BY <1>1, TrajectoryInvariant, PTL

(* run_react: the status tells how the trajectory ended.                    *)
THEOREM StatusIsTrue == Spec => []StatusTellsHow
<1>1. IInv => StatusTellsHow
  BY DEF IInv
<1> QED BY <1>1, TrajectoryInvariant, PTL

(* run_react: the budget is overrun by less than one iteration may cost.    *)
THEOREM BudgetHolds == Spec => []BudgetBound
<1>1. IInv => BudgetBound
  BY DEF IInv, BudgetOK, BudgetBound
<1> QED BY <1>1, TrajectoryInvariant, PTL

-----------------------------------------------------------------------------
(* How often a tool is run.                                                *)

LEMMA RunsCounted ==
  ASSUME IInv, NEW i
  PROVE  IsFiniteSet(RunsOf(i)) /\ Cardinality(RunsOf(i)) <= 1 + MaxRetries
<1>1. /\ effects \subseteq [step : 1..Len(steps), attempt : 0..MaxRetries, destroys : BOOLEAN]
      /\ \A e, f \in effects : e.step = f.step /\ e.attempt = f.attempt => e = f
  BY DEF IInv, TypeOK, RunsOK
<1> DEFINE nth == [e \in RunsOf(i) |-> e.attempt]
<1>2. nth \in [RunsOf(i) -> 0..MaxRetries]
  BY <1>1 DEF RunsOf
<1>3. \A e, f \in RunsOf(i) : nth[e] = nth[f] => e = f
  BY <1>1 DEF RunsOf
<1>4. nth \in Injection(RunsOf(i), 0..MaxRetries)
  <2> HIDE DEF nth
  <2>1. IsInjective(nth)
    BY <1>2, <1>3 DEF IsInjective
  <2> QED BY <1>2, <2>1 DEF Injection
<1> HIDE DEF nth
<1>5. MaxRetries \in Nat
  BY ReactAssumption
<1>6. IsFiniteSet(0..MaxRetries) /\ Cardinality(0..MaxRetries) = MaxRetries + 1
  BY <1>5, FS_Interval
<1>7. IsFiniteSet(RunsOf(i)) /\ Cardinality(RunsOf(i)) <= Cardinality(0..MaxRetries)
  BY <1>4, <1>6, FS_Injection
<1>8. Cardinality(RunsOf(i)) \in Nat
  BY <1>7, FS_CardinalityType
<1> QED BY <1>5, <1>6, <1>7, <1>8

LEMMA DestructionOnce ==
  ASSUME IInv, Retried \cap Always = {}, NEW i, Cardinality(RunsOf(i)) > 1,
         NEW e \in RunsOf(i), e.destroys
  PROVE  FALSE
<1>1. e \in effects /\ e.step = i /\ \A f \in RunsOf(i) : f \in effects /\ f.step = i
  BY DEF RunsOf
<1>2. steps[i].call \notin Retried
  BY <1>1, RetryAssumption DEF IInv, RunsOK
<1>3. \A f \in effects : f.attempt \in Nat /\ (f.attempt > 0 => steps[f.step].call \in Retried)
  BY ReactAssumption DEF IInv, RunsOK, TypeOK
<1>4. \A f \in RunsOf(i) : f.attempt = 0
  BY <1>1, <1>2, <1>3
<1>5. \A f \in RunsOf(i) : f = e
  BY <1>1, <1>4 DEF IInv, RunsOK
<1>6. RunsOf(i) = {e}
  BY <1>5
<1>7. Cardinality(RunsOf(i)) = 1
  BY <1>6, FS_Singleton
<1> QED BY <1>7

(* ToolRegistry.invoke: an action's tool is run at most once more than its  *)
(* retries, and a destructive one once - as long as no skill declares a     *)
(* tool with a retry policy irreversible.                                  *)
THEOREM EffectsAreBounded ==
  ASSUME Retried \cap Always = {}
  PROVE  Spec => []EffectsBounded
<1>1. IInv => EffectsBounded
  BY RunsCounted, DestructionOnce DEF EffectsBounded
<1> QED BY <1>1, TrajectoryInvariant, PTL

-----------------------------------------------------------------------------
(* Endless repetition.  A reversible call is run and checked for a loop     *)
(* before there is another action, so that behind each reversible action    *)
(* that has a successor there is variety: too few actions before it, or a   *)
(* different one among the last 2 * Window.                                *)
Varied(s, p) ==
  \/ Cardinality(ActionsIn(s)) - ActionsAfter(s, p) < 2 * Window
  \/ \E k \in ActionsIn(s) :
       /\ k <= p /\ ActionsAfter(s, k) - ActionsAfter(s, p) < 2 * Window
       /\ s[k].call # s[p].call

MustVary(p) ==
  /\ steps[p].call \notin Always \cup Conditional
  /\ ActionsAfter(steps, p) > 0 \/ pc \in {"think", "act"}

LoopInv ==
  \A p \in ActionsIn(steps) :
    /\ steps[p].irreversible => steps[p].call \in Always \cup Conditional
    /\ MustVary(p) => Varied(steps, p)

(* Sets of numbers have a first and, when bounded, a last element.         *)
LEMMA Least ==
  ASSUME NEW T \in SUBSET Nat, T # {}
  PROVE  \E x \in T : \A y \in T : x <= y
<1> DEFINE R == OpToRel(<, Nat)
<1>1. IsWellFoundedOn(R, Nat)
  BY NatLessThanWellFounded
<1>2. \A x, y \in Nat : y < x => <<y, x>> \in R
  BY DEF OpToRel
<1> HIDE DEF R
<1>3. PICK x \in T : \A y \in T : ~(<<y, x>> \in R)
  BY <1>1, WFMin
<1>4. \A y \in T : ~(y < x)
  BY <1>2, <1>3
<1> QED BY <1>4

LEMMA Greatest ==
  ASSUME NEW n \in Nat, NEW T \in SUBSET (0..n), T # {}
  PROVE  \E x \in T : \A y \in T : y <= x
<1> DEFINE U == {n - y : y \in T}
<1>1. \A y \in T : y \in Nat /\ n - y \in Nat
  OBVIOUS
<1>2. U \in SUBSET Nat /\ U # {} /\ \A y \in T : n - y \in U
  BY <1>1, Zenon
<1> HIDE DEF U
<1>3. PICK u \in U : \A v \in U : u <= v
  BY <1>2, Least
<1>4. PICK x \in T : u = n - x
  BY <1>3 DEF U
<1>5. \A y \in T : n - x <= n - y
  BY <1>2, <1>3, <1>4
<1> QED BY <1>1, <1>4, <1>5

(* The actions are numbered from the last one, which has none after it.    *)
LEMMA AfterCounts ==
  ASSUME NEW s \in Seq(Step)
  PROVE  /\ Len(s) \in Nat /\ ActionsIn(s) \subseteq 1..Len(s)
         /\ IsFiniteSet(ActionsIn(s)) /\ Cardinality(ActionsIn(s)) \in Nat
         /\ \A k \in ActionsIn(s) : k \in Nat
         /\ \A i : /\ IsFiniteSet({k \in ActionsIn(s) : k > i})
                   /\ ActionsAfter(s, i) \in Nat
                   /\ ActionsAfter(s, i) = Cardinality({k \in ActionsIn(s) : k > i})
<1>1. Len(s) \in Nat /\ ActionsIn(s) \subseteq 1..Len(s)
  BY DEF ActionsIn
<1>2. IsFiniteSet(ActionsIn(s)) /\ Cardinality(ActionsIn(s)) \in Nat
  <2>1. IsFiniteSet(1..Len(s))
    BY <1>1, FS_Interval
  <2>2. IsFiniteSet(ActionsIn(s))
    BY <1>1, <2>1, FS_Subset
  <2> QED BY <2>2, FS_CardinalityType
<1>3. ASSUME NEW i
      PROVE  /\ IsFiniteSet({k \in ActionsIn(s) : k > i})
             /\ ActionsAfter(s, i) \in Nat
             /\ ActionsAfter(s, i) = Cardinality({k \in ActionsIn(s) : k > i})
  <2> DEFINE T == {k \in ActionsIn(s) : k > i}
  <2>1. T \subseteq ActionsIn(s)
    OBVIOUS
  <2>2. ActionsAfter(s, i) = Cardinality(T)
    BY DEF ActionsAfter
  <2> HIDE DEF T
  <2>3. IsFiniteSet(T) /\ Cardinality(T) \in Nat
    BY <1>2, <2>1, FS_Subset, FS_CardinalityType
  <2> QED BY <2>2, <2>3 DEF T
<1> QED BY <1>1, <1>2, <1>3

LEMMA AfterDecreases ==
  ASSUME NEW s \in Seq(Step), NEW i \in ActionsIn(s), NEW j \in ActionsIn(s), i < j
  PROVE  ActionsAfter(s, j) < ActionsAfter(s, i)
<1> DEFINE T == {k \in ActionsIn(s) : k > i}
           U == {k \in ActionsIn(s) : k > j}
<1>1. i \in Nat /\ j \in Nat /\ \A k \in ActionsIn(s) : k \in Nat
  BY AfterCounts
<1>2. U \subseteq T \ {j} /\ j \in T
  <2>1. \A k \in ActionsIn(s) : k > j => k > i /\ k # j
    BY <1>1
  <2> QED BY <2>1
<1>3. /\ IsFiniteSet(T) /\ ActionsAfter(s, i) = Cardinality(T) /\ ActionsAfter(s, i) \in Nat
      /\ ActionsAfter(s, j) = Cardinality(U) /\ ActionsAfter(s, j) \in Nat
  BY AfterCounts
<1> HIDE DEF T, U
<1>4. IsFiniteSet(T \ {j}) /\ Cardinality(T \ {j}) = Cardinality(T) - 1
  BY <1>2, <1>3, FS_RemoveElement
<1>5. Cardinality(U) <= Cardinality(T \ {j})
  BY <1>2, <1>4, FS_Subset
<1> QED BY <1>3, <1>4, <1>5

LEMMA AfterBound ==
  ASSUME NEW s \in Seq(Step), NEW i \in ActionsIn(s)
  PROVE  ActionsAfter(s, i) + 1 <= Cardinality(ActionsIn(s))
<1> DEFINE T == {k \in ActionsIn(s) : k > i}
           A == ActionsIn(s)
<1>1. i \in Nat /\ IsFiniteSet(A) /\ Cardinality(A) \in Nat
  BY AfterCounts
<1>2. T \subseteq A \ {i} /\ i \in A
  BY <1>1
<1>3. ActionsAfter(s, i) = Cardinality(T) /\ ActionsAfter(s, i) \in Nat
  BY AfterCounts
<1> HIDE DEF T, A
<1>4. IsFiniteSet(A \ {i}) /\ Cardinality(A \ {i}) = Cardinality(A) - 1
  BY <1>1, <1>2, FS_RemoveElement
<1>5. Cardinality(T) <= Cardinality(A \ {i})
  BY <1>2, <1>4, FS_Subset
<1> QED BY <1>1, <1>3, <1>4, <1>5 DEF A

(* No number is left out.                                                  *)
LEMMA AfterReaches ==
  ASSUME NEW s \in Seq(Step), NEW i \in ActionsIn(s), NEW m \in Nat, m <= ActionsAfter(s, i)
  PROVE  \E p \in ActionsIn(s) : ActionsAfter(s, p) = m
<1> DEFINE A == ActionsIn(s)
           X == {k \in A : ActionsAfter(s, k) >= m}
<1>1. Len(s) \in Nat /\ A \subseteq 1..Len(s) /\ \A k \in A : k \in Nat
  BY AfterCounts
<1>2. X \in SUBSET (0..Len(s)) /\ X # {}
  BY <1>1
<1>3. PICK q \in X : \A k \in X : k <= q
  <2> HIDE DEF X
  <2> QED BY <1>1, <1>2, Greatest
<1>4. q \in A /\ q \in Nat /\ ActionsAfter(s, q) >= m /\ ActionsAfter(s, q) \in Nat
  BY <1>1, <1>3, AfterCounts
<1>5. ASSUME ActionsAfter(s, q) > m PROVE FALSE
  <2> DEFINE T == {k \in ActionsIn(s) : k > q}
  <2>1. IsFiniteSet(T) /\ ActionsAfter(s, q) = Cardinality(T)
    BY AfterCounts
  <2>2. T \in SUBSET Nat
    BY <1>1
  <2>3. T # {}
    <3> HIDE DEF T
    <3> QED BY <1>4, <1>5, <2>1, FS_EmptySet
  <2>4. PICK p \in T : \A k \in T : p <= k
    <3> HIDE DEF T
    <3> QED BY <2>2, <2>3, Least
  <2>5. p \in A /\ p > q /\ p \in Nat
    BY <2>4, <1>1
  <2> DEFINE U == {k \in ActionsIn(s) : k > p}
  <2>6. U = T \ {p}
    BY <1>1, <1>4, <2>4, <2>5
  <2>7. ActionsAfter(s, p) = Cardinality(U)
    BY AfterCounts
  <2> HIDE DEF T, U
  <2>8. Cardinality(U) = ActionsAfter(s, q) - 1
    BY <2>1, <2>4, <2>6, FS_RemoveElement
  <2>9. p \in X
    BY <1>4, <1>5, <2>5, <2>7, <2>8
  <2> QED BY <1>3, <1>4, <2>5, <2>9
<1> QED BY <1>4, <1>5

(* What an appended step changes.                                          *)
LEMMA AfterOther ==
  ASSUME NEW s \in Seq(Step), NEW e \in Step, ~IsAction(e)
  PROVE  LET t == Append(s, e) IN
           /\ ActionsIn(t) = ActionsIn(s)
           /\ \A p \in ActionsIn(s) : t[p] = s[p] /\ ActionsAfter(t, p) = ActionsAfter(s, p)
           /\ \A p \in ActionsIn(s) : Varied(s, p) => Varied(t, p)
<1> DEFINE t == Append(s, e)
<1>1. /\ Len(t) = Len(s) + 1 /\ Len(s) \in Nat /\ t[Len(s) + 1] = e
      /\ \A i \in 1..Len(s) : t[i] = s[i]
  BY Appended
<1> HIDE DEF t
<1>2. ActionsIn(t) = ActionsIn(s)
  BY <1>1 DEF ActionsIn
<1>3. \A p \in ActionsIn(s) : t[p] = s[p]
  BY <1>1 DEF ActionsIn
<1>4. \A p : ActionsAfter(t, p) = ActionsAfter(s, p)
  BY <1>2 DEF ActionsAfter
<1>5. \A p \in ActionsIn(s) : Varied(s, p) => Varied(t, p)
  BY <1>2, <1>3, <1>4 DEF Varied
<1> QED BY <1>2, <1>3, <1>4, <1>5 DEF t

LEMMA AfterAction ==
  ASSUME NEW s \in Seq(Step), NEW e \in Step, IsAction(e)
  PROVE  LET t == Append(s, e) IN
           /\ ActionsIn(t) = ActionsIn(s) \cup {Len(s) + 1}
           /\ t[Len(s) + 1] = e /\ ActionsAfter(t, Len(s) + 1) = 0
           /\ \A p \in ActionsIn(s) : t[p] = s[p]
           /\ \A p \in ActionsIn(s) : Varied(s, p) => Varied(t, p)
<1> DEFINE t == Append(s, e)
           n == Len(s) + 1
           A == ActionsIn(s)
<1>1. /\ Len(t) = n /\ Len(s) \in Nat /\ t[n] = e /\ t \in Seq(Step)
      /\ \A i \in 1..Len(s) : t[i] = s[i]
  BY Appended
<1> HIDE DEF t
<1>2. /\ A \subseteq 1..Len(s) /\ n \notin A /\ IsFiniteSet(A) /\ Cardinality(A) \in Nat
      /\ \A p \in A : p \in Nat /\ p < n
  BY <1>1, AfterCounts
<1>3. ActionsIn(t) = A \cup {n}
  BY <1>1 DEF ActionsIn
<1>4. \A p \in A : t[p] = s[p]
  BY <1>1, <1>2
<1>5. ActionsAfter(t, n) = 0
  <2> DEFINE U == {k \in ActionsIn(t) : k > n}
  <2>1. U = {}
    BY <1>1, <1>2, <1>3
  <2>2. ActionsAfter(t, n) = Cardinality(U)
    BY <1>1, AfterCounts
  <2> QED BY <2>1, <2>2, FS_EmptySet
<1>6. ASSUME NEW p \in A PROVE ActionsAfter(t, p) = ActionsAfter(s, p) + 1
  <2> DEFINE T == {k \in ActionsIn(s) : k > p}
             U == {k \in ActionsIn(t) : k > p}
  <2>1. U = T \cup {n} /\ n \notin T
    BY <1>1, <1>2, <1>3
  <2>2. /\ IsFiniteSet(T) /\ ActionsAfter(s, p) = Cardinality(T)
        /\ ActionsAfter(t, p) = Cardinality(U)
    BY <1>1, AfterCounts
  <2> HIDE DEF T, U
  <2> QED BY <2>1, <2>2, FS_AddElement
<1>7. Cardinality(ActionsIn(t)) = Cardinality(A) + 1
  BY <1>2, <1>3, FS_AddElement
<1>8. \A p \in A : ActionsAfter(s, p) \in Nat
  BY AfterCounts
<1>9. ASSUME NEW p \in A, Varied(s, p) PROVE Varied(t, p)
  <2>1. CASE Cardinality(A) - ActionsAfter(s, p) < 2 * Window
    <3>1. Cardinality(ActionsIn(t)) - ActionsAfter(t, p) = Cardinality(A) - ActionsAfter(s, p)
      BY <1>2, <1>6, <1>7, <1>8
    <3> QED BY <2>1, <3>1 DEF Varied
  <2>2. ASSUME NEW k \in A, k <= p, ActionsAfter(s, k) - ActionsAfter(s, p) < 2 * Window,
               s[k].call # s[p].call
        PROVE  Varied(t, p)
    <3>1. ActionsAfter(t, k) - ActionsAfter(t, p) = ActionsAfter(s, k) - ActionsAfter(s, p)
      BY <1>6, <1>8
    <3>2. k \in ActionsIn(t) /\ t[k].call # t[p].call
      BY <1>3, <1>4, <2>2
    <3> QED BY <2>2, <3>1, <3>2 DEF Varied
  <2> QED BY <1>9, <2>1, <2>2 DEF Varied
<1> HIDE DEF A, n
<1>10. /\ ActionsIn(t) = ActionsIn(s) \cup {n} /\ t[n] = e /\ ActionsAfter(t, n) = 0
       /\ \A p \in ActionsIn(s) : t[p] = s[p] /\ (Varied(s, p) => Varied(t, p))
  BY <1>1, <1>3, <1>4, <1>5, <1>9 DEF A
<1> QED BY <1>10 DEF n, t

(* _detect_loop, when it finds none.                                       *)
LEMMA NoLoopVaried ==
  ASSUME NEW s \in Seq(Step), NEW p \in ActionsIn(s), ActionsAfter(s, p) = 0, ~LoopDetected(s)
  PROVE  Varied(s, p)
<1>1. Window \in Nat \ {0} /\ Cardinality(ActionsIn(s)) \in Nat
  BY ReactAssumption, AfterCounts
<1>2. \A k \in ActionsIn(s) : k <= p /\ ActionsAfter(s, k) \in Nat
  <2> SUFFICES ASSUME NEW k \in ActionsIn(s) PROVE k <= p /\ ActionsAfter(s, k) \in Nat
    OBVIOUS
  <2>1. ActionsAfter(s, k) \in Nat /\ k \in Nat /\ p \in Nat
    BY AfterCounts
  <2>2. p < k => ActionsAfter(s, k) < ActionsAfter(s, p)
    BY AfterDecreases
  <2> QED BY <2>1, <2>2
<1>3. CASE Cardinality(ActionsIn(s)) < 2 * Window
  <2>1. Cardinality(ActionsIn(s)) - ActionsAfter(s, p) < 2 * Window
    BY <1>1, <1>3
  <2> QED BY <2>1 DEF Varied
<1>4. CASE ~WindowRepeats(s)
  <2>1. PICK i, j \in ActionsIn(s) :
          /\ ActionsAfter(s, i) < Window /\ ActionsAfter(s, j) = ActionsAfter(s, i) + Window
          /\ s[i].call # s[j].call
    BY <1>4 DEF WindowRepeats
  <2>2. PICK k \in {i, j} : s[k].call # s[p].call
    BY <2>1
  <2>3. ActionsAfter(s, k) < 2 * Window
    BY <1>1, <1>2, <2>1
  <2>4. ActionsAfter(s, k) - ActionsAfter(s, p) < 2 * Window
    BY <1>2, <2>3
  <2> QED BY <1>2, <2>2, <2>4 DEF Varied
<1> QED BY <1>1, <1>3, <1>4 DEF LoopDetected

-----------------------------------------------------------------------------
(* A step other than an action disturbs LoopInv only where the last action  *)
(* is reversible and a new iteration begins.                                *)
LEMMA LoopInvOther ==
  ASSUME IInv, LoopInv, NEW e \in Step, ~IsAction(e), steps' = Append(steps, e),
         \A p \in ActionsIn(steps) :
           /\ ActionsAfter(steps, p) = 0 /\ pc' \in {"think", "act"}
           /\ steps[p].call \notin Always \cup Conditional
           => Varied(steps, p) \/ Varied(steps', p)
  PROVE  LoopInv'
<1>1. steps \in Seq(Step)
  BY DEF IInv, TypeOK
<1> DEFINE t == Append(steps, e)
<1>2. /\ ActionsIn(t) = ActionsIn(steps)
      /\ \A p \in ActionsIn(steps) : t[p] = steps[p] /\ ActionsAfter(t, p) = ActionsAfter(steps, p)
      /\ \A p \in ActionsIn(steps) : Varied(steps, p) => Varied(t, p)
  BY <1>1, AfterOther
<1>3. t = steps'
  OBVIOUS
<1> HIDE DEF t
<1>4. SUFFICES ASSUME NEW p \in ActionsIn(steps)
               PROVE  /\ steps'[p].irreversible => steps'[p].call \in Always \cup Conditional
                      /\ MustVary(p)' => Varied(steps', p)
  BY <1>2, <1>3 DEF LoopInv
<1>5. steps'[p] = steps[p] /\ ActionsAfter(steps', p) = ActionsAfter(steps, p) /\ ActionsAfter(steps, p) \in Nat
  BY <1>1, <1>2, <1>3, AfterCounts
<1>6. ASSUME MustVary(p)' PROVE Varied(steps', p)
  <2>1. steps[p].call \notin Always \cup Conditional
        /\ (ActionsAfter(steps, p) > 0 \/ pc' \in {"think", "act"})
    BY <1>5, <1>6 DEF MustVary
  <2>2. CASE ActionsAfter(steps, p) > 0
    <3>1. Varied(steps, p)
      BY <2>1, <2>2 DEF LoopInv, MustVary
    <3> QED BY <1>2, <1>3, <3>1
  <2>3. CASE ActionsAfter(steps, p) = 0
    <3>1. Varied(steps, p) \/ Varied(steps', p)
      BY <2>1, <2>3, <1>5
    <3> QED BY <1>2, <1>3, <3>1
  <2> QED BY <1>5, <2>2, <2>3
<1> QED BY <1>5, <1>6 DEF LoopInv

LEMMA LoopInvAction ==
  ASSUME IInv, LoopInv, pc = "act", NEW e \in Step, IsAction(e), steps' = Append(steps, e),
         e.irreversible => e.call \in Always \cup Conditional,
         pc' \notin {"think", "act"}
  PROVE  LoopInv'
<1> DEFINE t == Append(steps, e)
<1>1. steps \in Seq(Step)
  BY DEF IInv, TypeOK
<1>n. PICK n \in Nat : n = Len(steps) + 1
  BY <1>1
<1>2. /\ ActionsIn(t) = ActionsIn(steps) \cup {n}
      /\ t[n] = e /\ ActionsAfter(t, n) = 0
      /\ \A p \in ActionsIn(steps) : t[p] = steps[p]
      /\ \A p \in ActionsIn(steps) : Varied(steps, p) => Varied(t, p)
  BY <1>1, <1>n, AfterAction
<1>3. t = steps'
  OBVIOUS
<1> HIDE DEF t
<1>4. ASSUME NEW p \in ActionsIn(steps)
      PROVE  /\ t[p].irreversible => t[p].call \in Always \cup Conditional
             /\ t[p].call \notin Always \cup Conditional => Varied(t, p)
  <2>1. t[p] = steps[p] /\ (Varied(steps, p) => Varied(t, p))
    BY <1>2
  <2>2. steps[p].call \notin Always \cup Conditional => Varied(steps, p)
    BY DEF LoopInv, MustVary
  <2> QED BY <2>1, <2>2 DEF LoopInv
<1>5. ~MustVary(n)'
  BY <1>2, <1>3 DEF MustVary
<1>6. ASSUME NEW p \in ActionsIn(t)
      PROVE  /\ t[p].irreversible => t[p].call \in Always \cup Conditional
             /\ MustVary(p)' => Varied(t, p)
  <2>1. CASE p = n
    BY <1>2, <1>5, <2>1
  <2>2. CASE p \in ActionsIn(steps)
    <3>1. MustVary(p)' => t[p].call \notin Always \cup Conditional
      BY <1>3 DEF MustVary
    <3> QED BY <1>4, <2>2, <3>1
  <2> QED BY <1>2, <2>1, <2>2
<1> QED BY <1>3, <1>6 DEF LoopInv

LEMMA LoopInvStays ==
  ASSUME LoopInv, steps' = steps, pc' = pc \/ pc' \notin {"think", "act"}
  PROVE  LoopInv'
BY DEF LoopInv, MustVary, Varied

LEMMA LoopInvStep ==
  ASSUME IInv, LoopInv, [Next]_vars
  PROVE  LoopInv'
<1> USE ReactAssumption
<1>t. steps \in Seq(Step) /\ existing \subseteq Conditional
  BY DEF IInv, TypeOK
<1>1. CASE OutOfSteps \/ OutOfBudget \/ ModelFails \/ PredicateRaises \/ CriticRaises \/ Retry \/ Backoff \/ UNCHANGED vars
  <2>1. steps' = steps /\ (pc' = pc \/ pc' \notin {"think", "act"})
    BY <1>1 DEF OutOfSteps, OutOfBudget, ModelFails, PredicateRaises, CriticRaises, Retry, Backoff, vars, EndWith
  <2> QED BY <2>1, LoopInvStays
<1>2. CASE Think \/ Malformed
  <2>1. pc \in {"think", "act"}
    BY <1>2 DEF Think, Malformed
  <2>2. \E e \in Step : ~IsAction(e) /\ steps' = Append(steps, e)
    <3>1. Thought \in Step /\ ~IsAction(Thought)
      BY StepTypes DEF Thought, IsAction
    <3>2. Observation("malformed_output") \in Step /\ ~IsAction(Observation("malformed_output"))
      BY StepTypes DEF Outcome, Observation, IsAction
    <3> QED BY <1>2, <3>1, <3>2 DEF Think, Malformed
  <2>3. \A p \in ActionsIn(steps) : steps[p].call \notin Always \cup Conditional => Varied(steps, p)
    BY <2>1 DEF LoopInv, MustVary
  <2> QED BY <2>2, <2>3, LoopInvOther
<1>3. CASE FinishCalled
  <2> DEFINE e == Action(Finish, FALSE)
  <2>1. e \in Step /\ IsAction(e) /\ e.irreversible = FALSE
    BY StepTypes DEF Action, IsAction
  <2>2. pc = "act" /\ steps' = Append(steps, e) /\ pc' = "done"
    BY <1>3 DEF FinishCalled, EndWith
  <2> HIDE DEF e
  <2> QED BY <2>1, <2>2, LoopInvAction
<1>4. CASE Act
  <2>1. PICK c \in Calls : /\ steps' = Append(steps, Action(c, Resolved(c)))
                           /\ pc' = IF Resolved(c) THEN "critic" ELSE "invoke"
    BY <1>4 DEF Act
  <2> DEFINE irr == Resolved(c)
             e == Action(c, irr)
  <2>2. irr \in BOOLEAN /\ (irr => c \in Always \cup Conditional)
    BY <1>t DEF Resolved
  <2>3. pc = "act" /\ pc' \notin {"think", "act"} /\ steps' = Append(steps, e)
    BY <1>4, <2>1 DEF Act
  <2> HIDE DEF irr
  <2>4. e \in Step /\ IsAction(e) /\ e.irreversible = irr /\ e.call = c
    BY <2>2, StepTypes DEF Action, IsAction
  <2> HIDE DEF e
  <2> QED BY <2>2, <2>3, <2>4, LoopInvAction
<1>5. CASE CriticPasses \/ CriticRejects
  <2>1. PICK v \in Verdict : steps' = Append(steps, Critique(v))
    BY <1>5 DEF CriticPasses, CriticRejects, Critiqued, Verdict
  <2>2. Critique(v) \in Step /\ ~IsAction(Critique(v))
    BY StepTypes DEF Critique, IsAction
  <2>3. PICK c \in Calls : steps # <<>> /\ LastOf(steps) = Action(c, TRUE)
    BY <1>5 DEF IInv, StageOK, CriticOK, CriticPasses, CriticRejects, Critiqued
  <2> DEFINE n == Len(steps)
  <2>4. n \in ActionsIn(steps) /\ steps[n].irreversible = TRUE /\ n \in Nat
    <3>1. n \in Nat /\ n \in 1..Len(steps) /\ steps[n] = Action(c, TRUE)
      <4>1. Len(steps) \in Nat /\ Len(steps) >= 1 /\ LastOf(steps) = steps[Len(steps)]
        BY <1>t, <2>3, NotEmpty
      <4>2. steps[n] = Action(c, TRUE)
        BY <2>3, <4>1, Zenon
      <4>3. n \in Nat /\ n \in 1..n
        BY <4>1
      <4> QED BY <4>2, <4>3
    <3> HIDE DEF n
    <3>2. IsAction(steps[n]) /\ steps[n].irreversible = TRUE
      BY <3>1 DEF Action, IsAction
    <3> QED BY <3>1, <3>2 DEF ActionsIn
  <2>5. ASSUME NEW p \in ActionsIn(steps), ActionsAfter(steps, p) = 0 PROVE p = n
    <3>1. p \in Nat /\ p <= n /\ ActionsAfter(steps, n) \in Nat
      <4>1. ActionsAfter(steps, n) \in Nat
        BY <1>t, AfterCounts
      <4>2. p \in 1..Len(steps)
        BY <2>5 DEF ActionsIn
      <4> QED BY <2>4, <4>1, <4>2
    <3>2. ~(p < n)
      BY <1>t, <2>4, <2>5, <3>1, AfterDecreases
    <3> QED BY <2>4, <3>1, <3>2
  <2>6. steps[n].call \in Always \cup Conditional
    BY <2>4 DEF LoopInv
  <2> HIDE DEF n
  <2> QED BY <2>1, <2>2, <2>5, <2>6, LoopInvOther
<1>6. CASE Observe
  <2>1. PICK o \in OutcomesOf(steps[LastAction].call) : steps' = Append(steps, Observation(o))
    BY <1>6 DEF Observe
  <2>2. Observation(o) \in Step /\ ~IsAction(Observation(o))
    BY <2>1, StepTypes DEF OutcomesOf, Outcome, Observation, IsAction
  <2>3. LoopDetected(steps') \/ ~LoopDetected(steps')
    OBVIOUS
  <2>4. CASE LoopDetected(steps')
    <3>1. pc' = "done"
      BY <1>6, <2>4 DEF Observe, EndWith
    <3> QED BY <2>1, <2>2, <3>1, LoopInvOther
  <2>5. CASE ~LoopDetected(steps')
    <3>1. ASSUME NEW p \in ActionsIn(steps), ActionsAfter(steps, p) = 0
          PROVE  Varied(steps', p)
      <4>1. steps' \in Seq(Step)
        BY <1>t, <2>1, <2>2, Appended
      <4>2. p \in ActionsIn(steps') /\ ActionsAfter(steps', p) = 0
        BY <1>t, <2>1, <2>2, <3>1, AfterOther
      <4> QED BY <2>5, <4>1, <4>2, NoLoopVaried
    <3> QED BY <2>1, <2>2, <3>1, LoopInvOther
  <2> QED BY <2>4, <2>5
<1> QED BY <1>1, <1>2, <1>3, <1>4, <1>5, <1>6 DEF Next

(* Where every reversible action with a successor has variety behind it,    *)
(* none is followed by 2 * Window others of the same call.                  *)
LEMMA VariedEnough ==
  ASSUME IInv, LoopInv
  PROVE  NoEndlessRepetition
<1> DEFINE A == ActionsIn(steps)
           R(i) == ActionsAfter(steps, i)
<1>1. steps \in Seq(Step) /\ Window \in Nat \ {0}
  BY ReactAssumption DEF IInv, TypeOK
<1>2. \A i \in A : R(i) \in Nat /\ i \in Nat /\ R(i) + 1 <= Cardinality(A)
  <2>1. \A i \in A : R(i) \in Nat /\ i \in Nat
    BY <1>1, AfterCounts
  <2>2. \A i \in A : R(i) + 1 <= Cardinality(A)
    BY <1>1, AfterBound
  <2> QED BY <2>1, <2>2
<1>3. \A i, j \in A : i < j => R(j) < R(i)
  BY <1>1, AfterDecreases
<1>4. SUFFICES ASSUME NEW i \in A, steps[i].call \notin Always \cup Conditional, R(i) >= 2 * Window,
                      \A j \in A : j > i /\ R(i) - R(j) <= 2 * Window => steps[j].call = steps[i].call
               PROVE  FALSE
  BY DEF NoEndlessRepetition
<1> DEFINE m == R(i) - (2 * Window - 1)
<1>5. m \in Nat /\ m <= R(i) /\ m > 0 /\ m < R(i)
  BY <1>1, <1>2, <1>4
<1>6. PICK p \in A : R(p) = m
  <2> HIDE DEF m
  <2> QED BY <1>1, <1>5, AfterReaches
<1>c. Cardinality(A) \in Nat
  BY <1>1, AfterCounts
<1> HIDE DEF A, R
<1>7. p > i
  <2>1. ~(p < i) /\ p # i
    <3>1. p < i => R(i) < R(p)
      BY <1>3, <1>6
    <3> QED BY <1>2, <1>5, <1>6, <3>1
  <2> QED BY <1>2, <1>6, <2>1
<1>8. R(i) - R(p) = 2 * Window - 1
  BY <1>1, <1>2, <1>6
<1>9. steps[p].call = steps[i].call
  BY <1>1, <1>4, <1>7, <1>8
<1>10. Varied(steps, p)
  BY <1>4, <1>5, <1>6, <1>9 DEF LoopInv, MustVary, A, R
<1>11. ~(Cardinality(A) - R(p) < 2 * Window)
  BY <1>1, <1>2, <1>8, <1>c
<1>12. PICK k \in A : k <= p /\ R(k) - R(p) < 2 * Window /\ steps[k].call # steps[p].call
  BY <1>10, <1>11 DEF Varied, A, R
<1>13. R(k) \in Nat /\ R(p) \in Nat /\ R(i) \in Nat /\ k \in Nat /\ i \in Nat /\ p \in Nat
  BY <1>2, <1>6, <1>12
<1>14. R(k) <= R(i)
  BY <1>1, <1>8, <1>12, <1>13
<1>15. ~(k < i)
  BY <1>3, <1>12, <1>13, <1>14
<1>16. k # i
  BY <1>9, <1>12
<1>17. R(p) <= R(k)
  BY <1>3, <1>6, <1>12, <1>13
<1>18. k > i /\ R(i) - R(k) <= 2 * Window
  BY <1>1, <1>8, <1>13, <1>15, <1>16, <1>17
<1> QED BY <1>4, <1>9, <1>12, <1>18

(* _detect_loop, checked behind each run: no reversible call is made more   *)
(* than 2 * Window times in a row.                                          *)
THEOREM RepetitionEnds == Spec => []NoEndlessRepetition
<1>1. Init => IInv /\ LoopInv
  <2>1. Init => LoopInv
    BY DEF Init, LoopInv, ActionsIn
  <2> QED BY <2>1, Beginnings
<1>2. (IInv /\ LoopInv) /\ [Next]_vars => (IInv /\ LoopInv)'
  BY OneStep, LoopInvStep
<1>3. IInv /\ LoopInv => NoEndlessRepetition
  BY VariedEnough
<1> QED BY <1>1, <1>2, <1>3, PTL DEF Spec
=============================================================================
