------------------------------ MODULE Verifiers ------------------------------
(***************************************************************************)
(* Verification (metacycle/verifiers.py): the verdict on a trajectory, by   *)
(* the kind of the goal's predicate.  A judge is asked, a check tool is     *)
(* invoked, children are read; what each may answer is nondeterministic,    *)
(* and children change their status and are created while a judge thinks.  *)
(* An exception that verify() lets through ends the tick without a verdict. *)
(***************************************************************************)
EXTENDS Naturals, FiniteSets

CONSTANTS
  Atoms,      \* JSON values that are not objects
  Keys,       \* keys of JSON objects
  Children,   \* goals that may become children of the verified one
  Kinds       \* kinds of predicates, a composite one with its aggregation

ASSUME VerifierAssumption ==
  Kinds \subseteq {"structural", "judge", "state_change", "all", "custom", "external"}

(* JSON objects of depth at most two, as functions on sets of keys.         *)
ObjectsOver(values) == UNION {[S -> values] : S \in SUBSET Keys}
Objects == ObjectsOver(Atoms \cup ObjectsOver(Atoms))
EmptyObject == [k \in {} |-> {}]
IsObject(v) == v \notin Atoms

Status == {"pending_approval", "pending", "active", "done", "failed", "abandoned"}
Terminal == {"done", "failed", "abandoned"}

VARIABLES
  kind,      \* the kind of the predicate
  expected,  \* expected_outcome of a state_change predicate
  final,     \* the trajectory has a final_state
  status,    \* status[c] of a child, or "absent"
  pc,        \* "start", "judge", "children judge", "end"
  read,      \* the children as list_children returned them
  checked,   \* what the check tool returned: its outcome and payload
  opinion,   \* what the judge answered
  verdict    \* "none" until the end, "raised" for an exception

vars == <<kind, expected, final, status, pc, read, checked, opinion, verdict>>
input == <<kind, expected, final>>

Unchecked == [outcome |-> "none", payload |-> EmptyObject]
NotRead == [c \in {} |-> "absent"]

Init ==
  /\ kind \in Kinds
  /\ expected \in IF kind = "state_change" THEN Objects ELSE {EmptyObject}
  /\ final \in BOOLEAN
  /\ status \in [Children -> IF kind \in {"all", "custom"} THEN Status \cup {"absent"} ELSE {"absent"}]
  /\ pc = "start" /\ read = NotRead /\ checked = Unchecked /\ opinion = "none"
  /\ verdict = "none"

Decide(v) == verdict' = v /\ pc' = "end"

-----------------------------------------------------------------------------
VerifyStructural ==
  /\ pc = "start" /\ kind = "structural"
  /\ Decide(IF final THEN "success" ELSE "fail")
  /\ UNCHANGED <<input, status, read, checked, opinion>>

VerifyExternal ==
  /\ pc = "start" /\ kind = "external"
  /\ Decide("undetermined")
  /\ UNCHANGED <<input, status, read, checked, opinion>>

-----------------------------------------------------------------------------
(* The judge raises, answers with something that is no JSON, with JSON that *)
(* is no object, or with an object whose "success" is true, false, absent,  *)
(* or another value that Python takes for true (the text "false") or for    *)
(* false.                                                                   *)

Opinions == {"raises", "no json", "no object", "true", "truthy", "false", "falsy", "absent"}

VerdictOf(o) ==
  CASE o \in {"raises", "no json"} -> "undetermined"
    [] o = "no object" -> "raised"
    [] o \in {"true", "truthy"} -> "success"
    [] o \in {"false", "falsy", "absent"} -> "fail"

AskJudge ==
  /\ pc = "start" /\ kind = "judge"
  /\ pc' = "judge"
  /\ UNCHANGED <<input, status, read, checked, opinion, verdict>>

JudgeAnswers ==
  /\ pc \in {"judge", "children judge"}
  /\ opinion' \in Opinions
  /\ Decide(VerdictOf(opinion'))
  /\ UNCHANGED <<input, status, read, checked>>

-----------------------------------------------------------------------------
(* state_change: a check tool is invoked, and what it returns is compared   *)
(* with the subset of it that is expected.                                  *)

MatchesFlat(payload, exp) ==
  \A k \in DOMAIN exp : k \in DOMAIN payload /\ payload[k] = exp[k]

(* Two objects under one key are walked in turn, anything else is equal or  *)
(* not.  The objects here are two deep, and so is the walk.                 *)
MatchesBy(walk(_, _), payload, exp) ==
  \A k \in DOMAIN exp :
    /\ k \in DOMAIN payload
    /\ IF IsObject(exp[k]) /\ IsObject(payload[k])
       THEN walk(payload[k], exp[k])
       ELSE payload[k] = exp[k]

MatchesExpected(payload, exp) == MatchesBy(MatchesFlat, payload, exp)

(* The tool is not registered, it fails, times out or is refused, or it     *)
(* succeeds with a payload; no payload counts as an empty one.              *)
InvokeCheckTool ==
  /\ pc = "start" /\ kind = "state_change"
  /\ \E o \in {"missing", "failure", "success"} :
       \E p \in IF o = "success" THEN Objects ELSE {EmptyObject} :
         /\ checked' = [outcome |-> o, payload |-> p]
         /\ Decide(CASE o = "missing" -> "undetermined"
                     [] o = "failure" -> "fail"
                     [] o = "success" -> IF MatchesExpected(p, expected) THEN "success" ELSE "fail")
  /\ UNCHANGED <<input, status, read, opinion>>

-----------------------------------------------------------------------------
(* composite: the children are read once.                                   *)

Present == {c \in Children : status[c] # "absent"}
In(statuses, set) == {c \in DOMAIN statuses : statuses[c] \in set}

OpenPendingOnly(statuses) == In(statuses, {"pending", "active"})

OpenChildren(statuses) == In(statuses, Status \ Terminal)

VerifyComposite ==
  /\ pc = "start" /\ kind \in {"all", "custom"}
  /\ read' = [c \in Present |-> status[c]]
  /\ IF Present = {} \/ OpenChildren(read') # {}
     THEN Decide("undetermined")
     ELSE IF kind = "all"
     THEN Decide(IF In(read', {"done"}) = Present THEN "success" ELSE "fail")
     ELSE pc' = "children judge" /\ UNCHANGED verdict
  /\ UNCHANGED <<input, status, checked, opinion>>

(* Meanwhile, goals are created below the verified one, worked on and       *)
(* written by operators, whose writes may bring an earlier status back.     *)
ChildChanges ==
  /\ pc # "end" /\ kind \in {"all", "custom"}
  /\ \E c \in Children, s \in Status : status' = [status EXCEPT ![c] = s] /\ status' # status
  /\ UNCHANGED <<input, pc, read, checked, opinion, verdict>>

Next ==
  \/ VerifyStructural \/ VerifyExternal \/ AskJudge \/ JudgeAnswers
  \/ InvokeCheckTool \/ VerifyComposite \/ ChildChanges

Spec == Init /\ [][Next]_vars

-----------------------------------------------------------------------------
(* What state_change compares, said without a walk over both objects: the   *)
(* payload stays as it is when what is expected is laid over it.            *)
OverlayFlat(payload, exp) ==
  [k \in DOMAIN payload \cup DOMAIN exp |-> IF k \in DOMAIN exp THEN exp[k] ELSE payload[k]]

Overlay(payload, exp) ==
  [k \in DOMAIN payload \cup DOMAIN exp |->
     IF k \notin DOMAIN exp THEN payload[k]
     ELSE IF k \in DOMAIN payload /\ IsObject(payload[k]) /\ IsObject(exp[k])
     THEN OverlayFlat(payload[k], exp[k])
     ELSE exp[k]]

Contains(payload, exp) == Overlay(payload, exp) = payload

(* A state_change goal succeeds exactly if the check tool succeeded with a  *)
(* payload that contains what is expected, at every depth.                  *)
ContainsExpected ==
  kind = "state_change" /\ pc = "end" =>
    (verdict = "success" <=>
       checked.outcome = "success" /\ Contains(checked.payload, expected))

(* A goal is settled on evidence only.  A composite goal's verdict rests on *)
(* at least one child, none of them open when they were read, whatever      *)
(* became of them while the judge thought, and without a judge it is fail   *)
(* exactly if a child had not succeeded; a judge that cannot be reached or  *)
(* understood settles nothing, and neither does one that is not asked.      *)
Settles == verdict \in {"success", "fail"}

VerdictEarned ==
  /\ kind \in {"all", "custom"} /\ Settles =>
       /\ DOMAIN read # {}
       /\ \A c \in DOMAIN read : read[c] \in Terminal
  /\ kind = "all" /\ Settles =>
       (verdict = "fail") = (\E c \in DOMAIN read : read[c] \in {"failed", "abandoned"})
  /\ opinion \in {"raises", "no json", "no object"} => ~Settles
  /\ kind \in {"judge", "custom"} /\ Settles => opinion # "none"

(* verifiers.py:114: any error of the call or of the parsing gives          *)
(* UNDETERMINED.  Violated: JSON that is no object raises.                  *)
JudgeErrorsUndetermined ==
  opinion \in {"raises", "no json", "no object"} => verdict = "undetermined"
=============================================================================
