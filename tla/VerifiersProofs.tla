---------------------------- MODULE VerifiersProofs ----------------------------
(***************************************************************************)
(* Proofs about Verifiers, for any atoms, keys, children and kinds of       *)
(* predicates: a verdict of success or fail rests on evidence.              *)
(***************************************************************************)
EXTENDS Verifiers, TLAPS

-----------------------------------------------------------------------------
(* The comparison of a payload with what is expected.                      *)
LEMMA FlatContains ==
  ASSUME NEW S \in SUBSET Keys, NEW T \in SUBSET Keys,
         NEW p \in [S -> Atoms], NEW e \in [T -> Atoms]
  PROVE  MatchesFlat(p, e) <=> OverlayFlat(p, e) = p
<1>1. DOMAIN p = S /\ DOMAIN e = T
  OBVIOUS
<1>2. ASSUME MatchesFlat(p, e) PROVE OverlayFlat(p, e) = p
  <2>1. T \subseteq S /\ \A k \in T : p[k] = e[k]
    BY <1>1, <1>2 DEF MatchesFlat
  <2>2. OverlayFlat(p, e) = [k \in S |-> p[k]]
    BY <1>1, <2>1 DEF OverlayFlat
  <2> QED BY <2>2
<1>3. ASSUME OverlayFlat(p, e) = p PROVE MatchesFlat(p, e)
  <2>1. DOMAIN OverlayFlat(p, e) = S \cup T
    BY <1>1 DEF OverlayFlat
  <2>2. T \subseteq S
    BY <1>1, <1>3, <2>1
  <2>3. \A k \in T : OverlayFlat(p, e)[k] = e[k]
    BY <1>1 DEF OverlayFlat
  <2> QED BY <1>1, <1>3, <2>2, <2>3 DEF MatchesFlat
<1> QED BY <1>2, <1>3

LEMMA ObjectShape ==
  ASSUME NEW p \in Objects
  PROVE  /\ p = [k \in DOMAIN p |-> p[k]]
         /\ \A k \in DOMAIN p : IsObject(p[k]) =>
              \E S \in SUBSET Keys : p[k] \in [S -> Atoms]
<1>1. PICK S \in SUBSET Keys : p \in [S -> Atoms \cup ObjectsOver(Atoms)]
  BY DEF Objects, ObjectsOver
<1>2. \A k \in S : p[k] \in Atoms \/ p[k] \in ObjectsOver(Atoms)
  BY <1>1
<1>3. DOMAIN p = S /\ p = [k \in DOMAIN p |-> p[k]]
  BY <1>1
<1>4. \A o \in ObjectsOver(Atoms) : \E R \in SUBSET Keys : o \in [R -> Atoms]
  BY DEF ObjectsOver
<1> QED BY <1>2, <1>3, <1>4 DEF IsObject

LEMMA MatchesContains ==
  ASSUME NEW p \in Objects, NEW e \in Objects
  PROVE  MatchesExpected(p, e) <=> Contains(p, e)
<1>1. p = [k \in DOMAIN p |-> p[k]]
  BY ObjectShape
<1>2. ASSUME NEW k, k \in DOMAIN p, k \in DOMAIN e, IsObject(p[k]), IsObject(e[k])
      PROVE  MatchesFlat(p[k], e[k]) <=> OverlayFlat(p[k], e[k]) = p[k]
  <2>1. PICK S \in SUBSET Keys : p[k] \in [S -> Atoms]
    BY <1>2, ObjectShape
  <2>2. PICK T \in SUBSET Keys : e[k] \in [T -> Atoms]
    BY <1>2, ObjectShape
  <2> QED BY <2>1, <2>2, FlatContains
<1> DEFINE laid(k) == IF k \notin DOMAIN e THEN p[k]
                      ELSE IF k \in DOMAIN p /\ IsObject(p[k]) /\ IsObject(e[k])
                      THEN OverlayFlat(p[k], e[k])
                      ELSE e[k]
<1>3. Overlay(p, e) = [k \in DOMAIN p \cup DOMAIN e |-> laid(k)]
  BY DEF Overlay
<1>4. ASSUME MatchesExpected(p, e) PROVE Contains(p, e)
  <2>1. \A k \in DOMAIN e :
          /\ k \in DOMAIN p
          /\ IF IsObject(e[k]) /\ IsObject(p[k]) THEN MatchesFlat(p[k], e[k]) ELSE p[k] = e[k]
    BY <1>4 DEF MatchesExpected, MatchesBy
  <2>2. DOMAIN p \cup DOMAIN e = DOMAIN p
    BY <2>1
  <2>3. ASSUME NEW k \in DOMAIN p PROVE laid(k) = p[k]
    BY <1>2, <2>1
  <2> HIDE DEF laid
  <2>4. Overlay(p, e) = [k \in DOMAIN p |-> p[k]]
    BY <1>3, <2>2, <2>3
  <2> QED BY <1>1, <2>4 DEF Contains
<1>5. ASSUME Contains(p, e) PROVE MatchesExpected(p, e)
  <2>1. Overlay(p, e) = p
    BY <1>5 DEF Contains
  <2> HIDE DEF laid
  <2>2. DOMAIN p = DOMAIN p \cup DOMAIN e
    BY <1>3, <2>1
  <2>3. ASSUME NEW k \in DOMAIN e
        PROVE  /\ k \in DOMAIN p
               /\ IF IsObject(e[k]) /\ IsObject(p[k]) THEN MatchesFlat(p[k], e[k]) ELSE p[k] = e[k]
    <3>1. k \in DOMAIN p
      BY <2>2
    <3>2. p[k] = laid(k)
      BY <1>3, <2>1, <2>2, <3>1
    <3> QED BY <1>2, <3>1, <3>2 DEF laid
  <2> QED BY <2>3 DEF MatchesExpected, MatchesBy
<1> QED BY <1>4, <1>5

(* What a check tool returned has been compared once the verifier ends.     *)
CheckInv ==
  kind = "state_change" =>
    /\ expected \in Objects /\ checked.payload \in Objects
    /\ pc \in {"start", "end"}
    /\ pc = "end" =>
         (verdict = "success" <=>
            checked.outcome = "success" /\ MatchesExpected(checked.payload, expected))

LEMMA EmptyIsObject == EmptyObject \in Objects
  BY ZenonT(60) DEF EmptyObject, Objects, ObjectsOver

(* A state_change goal succeeds exactly if the check tool succeeded with a  *)
(* payload that contains what is expected, two levels down.                 *)
THEOREM ExpectedIsContained == Spec => []ContainsExpected
<1>1. Init => CheckInv
  BY EmptyIsObject DEF Init, CheckInv, Unchecked
<1>2. CheckInv /\ [Next]_vars => CheckInv'
  <2> SUFFICES ASSUME CheckInv, [Next]_vars, kind = "state_change" PROVE CheckInv'
    BY DEF Next, vars, input, CheckInv, VerifyStructural, VerifyExternal, AskJudge, JudgeAnswers,
           InvokeCheckTool, VerifyComposite, ChildChanges
  <2>1. CASE InvokeCheckTool
    <3>1. PICK o \in {"missing", "failure", "success"} :
            \E p \in IF o = "success" THEN Objects ELSE {EmptyObject} :
              /\ checked' = [outcome |-> o, payload |-> p]
              /\ Decide(CASE o = "missing" -> "undetermined"
                          [] o = "failure" -> "fail"
                          [] o = "success" -> IF MatchesExpected(p, expected) THEN "success" ELSE "fail")
      BY <2>1 DEF InvokeCheckTool
    <3>2. PICK p \in IF o = "success" THEN Objects ELSE {EmptyObject} :
            /\ checked' = [outcome |-> o, payload |-> p]
            /\ Decide(CASE o = "missing" -> "undetermined"
                        [] o = "failure" -> "fail"
                        [] o = "success" -> IF MatchesExpected(p, expected) THEN "success" ELSE "fail")
      BY <3>1
    <3>3. /\ p \in Objects /\ checked'.payload = p /\ checked'.outcome = o /\ pc' = "end"
          /\ verdict' = "success" <=> o = "success" /\ MatchesExpected(p, expected)
      BY <3>2, EmptyIsObject DEF Decide
    <3>4. expected' = expected /\ kind' = kind /\ expected \in Objects
      BY <2>1 DEF InvokeCheckTool, input, CheckInv
    <3>5. MatchesExpected(checked.payload, expected)' <=> MatchesExpected(p, expected)
      BY <3>3, <3>4 DEF MatchesExpected, MatchesBy, MatchesFlat
    <3> QED BY <3>3, <3>4, <3>5 DEF CheckInv
  <2>2. CASE UNCHANGED vars
    BY <2>2 DEF vars, CheckInv, MatchesExpected, MatchesBy, MatchesFlat
  <2>3. ~(VerifyStructural \/ VerifyExternal \/ AskJudge \/ JudgeAnswers \/ VerifyComposite \/ ChildChanges)
    BY DEF CheckInv, VerifyStructural, VerifyExternal, AskJudge, JudgeAnswers, VerifyComposite, ChildChanges
  <2> QED BY <2>1, <2>2, <2>3 DEF Next
<1>3. CheckInv => ContainsExpected
  BY MatchesContains DEF CheckInv, ContainsExpected
<1> QED BY <1>1, <1>2, <1>3, PTL DEF Spec

-----------------------------------------------------------------------------
(* Whoever thinks about the children has read that they are over.           *)
Over == DOMAIN read # {} /\ \A c \in DOMAIN read : read[c] \in Terminal

EvidenceInv ==
  /\ status \in [Children -> Status \cup {"absent"}]
  /\ pc \in {"start", "judge", "children judge", "end"}
  /\ pc # "end" => verdict = "none" /\ opinion = "none"
  /\ pc = "judge" => kind = "judge"
  /\ pc = "children judge" => kind = "custom" /\ Over
  /\ VerdictEarned

LEMMA CompositeEarns ==
  ASSUME EvidenceInv, VerifyComposite
  PROVE  EvidenceInv'
<1>1. /\ pc = "start" /\ kind \in {"all", "custom"} /\ kind' = kind /\ status' = status
      /\ opinion' = opinion /\ opinion = "none" /\ verdict = "none"
      /\ read' = [c \in Present |-> status[c]]
      /\ status \in [Children -> Status \cup {"absent"}]
  BY DEF VerifyComposite, EvidenceInv, input
<1>2. DOMAIN read' = Present /\ \A c \in Present : read'[c] = status[c] /\ read'[c] \in Status
  BY <1>1 DEF Present
<1>3. OpenChildren(read') = {c \in Present : read'[c] \in Status \ Terminal}
      /\ In(read', {"done"}) = {c \in Present : read'[c] = "done"}
  BY <1>2 DEF OpenChildren, In
<1>4. CASE Present = {} \/ OpenChildren(read') # {}
  <2>1. verdict' = "undetermined" /\ pc' = "end"
    BY <1>4 DEF VerifyComposite, Decide
  <2> QED BY <1>1, <2>1 DEF EvidenceInv, VerdictEarned, Settles
<1>5. CASE ~(Present = {} \/ OpenChildren(read') # {})
  <2>1. Over'
    BY <1>2, <1>3, <1>5 DEF Over
  <2>2. CASE kind = "all"
    <3>1. pc' = "end" /\ verdict' = IF In(read', {"done"}) = Present THEN "success" ELSE "fail"
      BY <1>5, <2>2 DEF VerifyComposite, Decide
    <3>2. In(read', {"done"}) = Present <=> ~\E c \in Present : read'[c] \in {"failed", "abandoned"}
      BY <1>2, <1>3, <2>1 DEF Over, Terminal
    <3>3. (verdict' = "fail") = (\E c \in DOMAIN read' : read'[c] \in {"failed", "abandoned"})
      BY <1>2, <3>1, <3>2
    <3> QED BY <1>1, <2>1, <2>2, <3>1, <3>3 DEF EvidenceInv, VerdictEarned, Over
  <2>3. CASE kind = "custom"
    <3>1. pc' = "children judge" /\ verdict' = verdict
      BY <1>5, <2>3 DEF VerifyComposite
    <3> QED BY <1>1, <2>1, <2>3, <3>1 DEF EvidenceInv, VerdictEarned, Settles
  <2> QED BY <1>1, <2>2, <2>3
<1> QED BY <1>4, <1>5

(* A goal is settled on evidence only: by children that were over when they *)
(* were read, by a judge that was asked and understood.                     *)
THEOREM VerdictIsEarned == Spec => []VerdictEarned
<1>1. Init => EvidenceInv
  BY DEF Init, EvidenceInv, VerdictEarned, Settles
<1>2. EvidenceInv /\ [Next]_vars => EvidenceInv'
  <2> SUFFICES ASSUME EvidenceInv, [Next]_vars PROVE EvidenceInv'
    OBVIOUS
  <2>1. CASE VerifyStructural \/ VerifyExternal \/ InvokeCheckTool
    <3>1. /\ pc = "start" /\ kind \in {"structural", "external", "state_change"} /\ kind' = kind
          /\ status' = status /\ opinion' = opinion /\ pc' = "end" /\ read' = read
      BY <2>1 DEF VerifyStructural, VerifyExternal, InvokeCheckTool, Decide, input
    <3> QED BY <3>1 DEF EvidenceInv, VerdictEarned, Settles, Over
  <2>2. CASE AskJudge
    BY <2>2 DEF AskJudge, input, EvidenceInv, VerdictEarned, Settles, Over
  <2>3. CASE JudgeAnswers
    <3>1. /\ pc \in {"judge", "children judge"} /\ opinion' \in Opinions /\ pc' = "end"
          /\ verdict' = VerdictOf(opinion') /\ kind' = kind /\ read' = read /\ status' = status
      BY <2>3 DEF JudgeAnswers, Decide, input
    <3>2. opinion' # "none" /\ (opinion' \in {"raises", "no json", "no object"} =>
                                  verdict' \notin {"success", "fail"})
      BY <3>1 DEF Opinions, VerdictOf
    <3> QED BY <3>1, <3>2 DEF EvidenceInv, VerdictEarned, Settles, Over
  <2>4. CASE VerifyComposite
    BY <2>4, CompositeEarns
  <2>5. CASE ChildChanges
    BY <2>5 DEF ChildChanges, input, EvidenceInv, VerdictEarned, Settles, Over
  <2>6. CASE UNCHANGED vars
    BY <2>6 DEF vars, EvidenceInv, VerdictEarned, Settles, Over
  <2> QED BY <2>1, <2>2, <2>3, <2>4, <2>5, <2>6 DEF Next
<1>3. EvidenceInv => VerdictEarned
  BY DEF EvidenceInv
<1> QED BY <1>1, <1>2, <1>3, PTL DEF Spec
=============================================================================
