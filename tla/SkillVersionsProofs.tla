------------------------- MODULE SkillVersionsProofs -------------------------
(***************************************************************************)
(* Proofs about the bundle of one skill (SkillVersions), for any agents,    *)
(* console requests, saves and faults: type correctness, how often a        *)
(* version number may be given out again, when the file is unreadable, and  *)
(* whose texts are lost and whose tags are false.                           *)
(***************************************************************************)
EXTENDS SkillVersions, TLAPS

(* Who may give a number out next: a reader or writer whose Skill object    *)
(* has version x, or the next reader of the file.  Such a one is behind the *)
(* last number m by what overlapping saves have not yet paid for.           *)
Paid(x, m) == x <= m /\ reused + (m - x) <= overlaps

Holding(w) == pc[w] \in {"read", "write"}

NumbersUpTo(m) ==
  /\ taken = 1..m /\ m <= saves + 1
  /\ reused <= overlaps
  /\ file \in Bundle => Paid(file.version, m)
  /\ \A w \in Writers : Holding(w) => Paid(copy[w].version, m)

NumbersInv == \E m \in Nat : NumbersUpTo(m)

(* As long as no save overlapped and nothing failed, a truncated file is    *)
(* that of the only writer at work.                                        *)
FileInv ==
  faults + overlaps = 0 =>
    /\ \A w \in Writers : pc[w] = "write" => AtWork = {w} /\ file = Empty
    /\ file \in Unreadable => \E w \in Writers : pc[w] = "write"

IInv == TypeOK /\ NumbersInv /\ FileInv

-----------------------------------------------------------------------------
LEMMA BundleReadable == Bundle \cap Unreadable = {} /\ Content = Bundle \cup Unreadable
<1>1. \A b \in Bundle : b.version \in 1..(MaxSaves + 1)
  BY DEF Bundle, Version
<1>2. \A b \in Unreadable : b.version = 0
  BY DEF Unreadable, Empty, Mixed
<1>3. \A b \in Bundle : b.version # 0
  BY <1>1, SkillAssumption
<1> QED BY <1>2, <1>3 DEF Content

LEMMA Beginnings ==
  ASSUME Init
  PROVE  IInv
<1> USE SkillAssumption DEF Init
<1>1. First \in Bundle /\ First.version = 1
  BY DEF First, Bundle, Version, Text
<1>2. TypeOK
  BY <1>1 DEF TypeOK, Content, Version
<1>3. NumbersUpTo(1)
  <2>1. Paid(1, 1)
    BY DEF Paid
  <2>2. \A w \in Writers : ~Holding(w)
    BY DEF Holding
  <2>3. taken = 1..1
    OBVIOUS
  <2> QED BY <1>1, <2>1, <2>2, <2>3 DEF NumbersUpTo
<1>4. FileInv
  BY <1>1, BundleReadable DEF FileInv
<1> QED BY <1>2, <1>3, <1>4 DEF IInv, NumbersInv

(* An action that gives no number out and leaves every holder holding what  *)
(* it held, or what the file held.                                         *)
LEMMA NumbersStay ==
  ASSUME TypeOK, NumbersInv, UNCHANGED countVars,
         file' \in Bundle =>
           \/ file' = file
           \/ \E w \in Writers : Holding(w) /\ file' = copy[w],
         \A w \in Writers : Holding(w)' =>
           \/ Holding(w) /\ copy'[w] = copy[w]
           \/ file \in Bundle /\ copy'[w] = file
  PROVE  NumbersInv'
<1>1. PICK m \in Nat : NumbersUpTo(m)
  BY DEF NumbersInv
<1>2. \A x : Paid(x, m) => Paid(x, m)'
  BY DEF Paid, countVars
<1>3. NumbersUpTo(m)'
  <2>1. taken' = 1..m /\ m <= saves' + 1 /\ reused' <= overlaps'
    BY <1>1 DEF NumbersUpTo, countVars
  <2>2. file' \in Bundle => Paid(file'.version, m)
    BY <1>1 DEF NumbersUpTo
  <2>3. \A w \in Writers : Holding(w)' => Paid(copy'[w].version, m)
    BY <1>1 DEF NumbersUpTo
  <2>4. file' \in Bundle => Paid(file.version, m)'
    BY <1>2, <2>2 DEF Paid, countVars
  <2>5. \A w \in Writers : Holding(w)' => Paid(copy[w].version, m)'
    BY <1>2, <2>3 DEF Paid, countVars
  <2> QED BY <2>1, <2>4, <2>5 DEF NumbersUpTo
<1> QED BY <1>3 DEF NumbersInv

(* An action that touches neither the file nor any save.                    *)
LEMMA FileStays ==
  ASSUME FileInv, UNCHANGED <<file, overlaps>>, faults' = faults,
         \A w \in Writers : (pc'[w] = "write") = (pc[w] = "write"),
         \/ \A w \in Writers : pc[w] # "write"
         \/ AtWork' \subseteq AtWork
         \/ file \notin Unreadable
  PROVE  FileInv'
<1> SUFFICES ASSUME faults + overlaps = 0
             PROVE  /\ \A w \in Writers : pc'[w] = "write" => AtWork' = {w} /\ file = Empty
                    /\ file \in Unreadable => \E w \in Writers : pc'[w] = "write"
  BY DEF FileInv
<1>1. \A w \in Writers : pc[w] = "write" => AtWork = {w} /\ file = Empty
  BY DEF FileInv
<1>2. ASSUME NEW w \in Writers, pc'[w] = "write"
      PROVE  AtWork' = {w} /\ file = Empty
  <2>1. pc[w] = "write" /\ AtWork = {w} /\ file = Empty
    BY <1>1, <1>2
  <2>2. AtWork' \subseteq {w}
    BY <2>1 DEF Unreadable
  <2>3. w \in AtWork'
    BY <1>2 DEF AtWork
  <2> QED BY <2>1, <2>2, <2>3
<1>3. file \in Unreadable => \E w \in Writers : pc'[w] = "write"
  BY DEF FileInv
<1> QED BY <1>2, <1>3

-----------------------------------------------------------------------------
(* The actions.                                                            *)

LEMMA Reads ==
  ASSUME IInv, NEW w \in Writers, Read(w)
  PROVE  IInv'
<1> USE DEF Read, GoTo
<1>1. TypeOK'
  BY BundleReadable DEF IInv, TypeOK, countVars, gitVars, faultVars
<1>2. NumbersInv'
  <2>1. file \in Bundle
    BY BundleReadable DEF IInv, TypeOK
  <2>2. \A v \in Writers : v # w => copy'[v] = copy[v] /\ pc'[v] = pc[v]
    BY DEF IInv, TypeOK
  <2>3. copy'[w] = file
    BY DEF IInv, TypeOK
  <2>4. \A v \in Writers :
          Holding(v)' => \/ Holding(v) /\ copy'[v] = copy[v]
                         \/ file \in Bundle /\ copy'[v] = file
    BY <2>1, <2>2, <2>3 DEF Holding
  <2> QED BY <2>4, NumbersStay DEF IInv
<1>3. FileInv'
  <2>1. \A v \in Writers : (pc'[v] = "write") = (pc[v] = "write")
    BY DEF IInv, TypeOK
  <2> QED BY <2>1, FileStays DEF IInv, countVars, faultVars
<1> QED BY <1>1, <1>2, <1>3 DEF IInv

(* A writer without a file to flush moves on or gives up.                   *)
LEMMA MovesOn ==
  ASSUME IInv, NEW w \in Writers, pc[w] \notin {"idle", "write"},
         NEW stage \in {"idle", "commit", "tag"}, pc' = [pc EXCEPT ![w] = stage],
         UNCHANGED <<file, copy, countVars, byAgents, faultVars>>,
         head' \in Content, commits' \subseteq Content,
         tags' \subseteq [name : Version, content : Content]
  PROVE  IInv'
<1>1. TypeOK'
  BY DEF IInv, TypeOK, countVars, faultVars
<1>2. \A v \in Writers : /\ pc'[v] = "write" <=> pc[v] = "write"
                         /\ Holding(v)' => Holding(v)
                         /\ pc'[v] # "idle" => pc[v] # "idle"
  BY DEF IInv, TypeOK, Holding
<1>3. NumbersInv'
  BY <1>2, NumbersStay DEF IInv
<1>4. FileInv'
  <2>1. AtWork' \subseteq AtWork
    BY <1>2 DEF AtWork
  <2>2. \A v \in Writers : (pc'[v] = "write") = (pc[v] = "write")
    BY <1>2
  <2> QED BY <2>1, <2>2, FileStays DEF IInv, countVars, faultVars
<1> QED BY <1>1, <1>3, <1>4 DEF IInv

(* A fault: whatever it leaves behind, FileInv no longer speaks of it.      *)
LEMMA Fails ==
  ASSUME IInv, NEW w \in Writers, faults < MaxFaults, faults' = faults + 1,
         pc' = [pc EXCEPT ![w] = "idle"], cut' \subseteq cut \cup {copy[w]},
         UNCHANGED <<file, gitVars, copy, countVars, byAgents>>
  PROVE  IInv'
<1>1. TypeOK'
  BY SkillAssumption DEF IInv, TypeOK, countVars, gitVars, faultVars
<1>2. \A v \in Writers : Holding(v)' => Holding(v)
  BY DEF IInv, TypeOK, Holding
<1>3. NumbersInv'
  BY <1>2, NumbersStay DEF IInv
<1>4. FileInv'
  <2>1. faults \in Nat /\ overlaps \in Nat /\ overlaps' = overlaps
    BY SkillAssumption DEF IInv, TypeOK, countVars, faultVars
  <2>2. faults' + overlaps' # 0
    BY <2>1
  <2> QED BY <2>2 DEF FileInv
<1> QED BY <1>1, <1>3, <1>4 DEF IInv

LEMMA Flushes ==
  ASSUME IInv, NEW w \in Writers, Flush(w)
  PROVE  IInv'
<1>1. PICK stage \in {"idle", "add"} : pc' = [pc EXCEPT ![w] = stage]
  BY DEF Flush, GoTo
<1>2. /\ pc[w] = "write" /\ file' \in {copy[w], Mixed}
      /\ file = Empty => file' = copy[w]
      /\ UNCHANGED <<gitVars, copy, countVars, faultVars>>
      /\ byAgents' \subseteq byAgents \cup {copy[w].text}
  BY DEF Flush, FlushResults
<1>3. copy[w] \in Bundle
  BY DEF IInv, TypeOK
<1>4. TypeOK'
  <2>1. copy[w].text \in Text
    BY <1>3 DEF Bundle
  <2>2. file' \in Content
    BY <1>2, <1>3 DEF Content, Unreadable
  <2> QED BY <1>1, <1>2, <2>1, <2>2 DEF IInv, TypeOK, countVars, gitVars, faultVars
<1>5. \A v \in Writers : /\ Holding(v)' => Holding(v)
                         /\ pc'[v] = "write" => v # w /\ pc[v] = "write"
  BY <1>1 DEF IInv, TypeOK, Holding
<1>6. NumbersInv'
  <2>1. Holding(w)
    BY <1>2 DEF Holding
  <2>2. Mixed \notin Bundle
    BY BundleReadable DEF Unreadable
  <2> QED BY <1>2, <1>5, <2>1, <2>2, NumbersStay DEF IInv
<1>7. FileInv'
  <2> SUFFICES ASSUME faults + overlaps = 0
               PROVE  file' \notin Unreadable /\ \A v \in Writers : pc'[v] # "write"
    BY <1>2 DEF FileInv, countVars, faultVars
  <2>1. AtWork = {w} /\ file = Empty
    BY <1>2 DEF IInv, FileInv
  <2>2. file' = copy[w]
    BY <1>2, <2>1
  <2>3. \A v \in Writers : pc'[v] # "write"
    BY <1>5, <2>1 DEF AtWork
  <2> QED BY <1>3, <2>2, <2>3, BundleReadable
<1> QED BY <1>4, <1>6, <1>7 DEF IInv

(* Decline, and the git commands.                                          *)
LEMMA Declines ==
  ASSUME IInv, NEW w \in Writers, Decline(w)
  PROVE  IInv'
BY MovesOn DEF Decline, GoTo, gitVars, IInv, TypeOK

LEMMA Adds ==
  ASSUME IInv, NEW a \in Writers, Add(a)
  PROVE  IInv'
BY MovesOn DEF Add, GoTo, gitVars, IInv, TypeOK

LEMMA Commits ==
  ASSUME IInv, NEW a \in Writers, Commit(a)
  PROVE  IInv'
<1>1. PICK stage \in {"idle", "tag"} : pc' = [pc EXCEPT ![a] = stage]
  BY DEF Commit, GoTo
<1>2. head' \in Content /\ commits' \subseteq Content
  BY DEF Commit, IInv, TypeOK
<1> QED BY <1>1, <1>2, MovesOn DEF Commit, IInv, TypeOK

LEMMA Tags ==
  ASSUME IInv, NEW a \in Writers, Tag(a)
  PROVE  IInv'
<1>1. copy[a].version \in Version /\ head \in Content
  BY DEF IInv, TypeOK, Bundle
<1>2. tags' \subseteq [name : Version, content : Content]
  BY <1>1 DEF Tag, TagName, IInv, TypeOK
<1> QED BY <1>2, MovesOn DEF Tag, GoTo, IInv, TypeOK

(* A save gives a number out again only if its writer was behind; an        *)
(* overlapping one pays for the others being one further behind.            *)
LEMMA Saves ==
  ASSUME IInv, NEW w \in Writers, BeginSave(w)
  PROVE  IInv'
<1>1. PICK bump \in BOOLEAN :
        LET version == IF bump THEN Bumped(copy[w].version) ELSE copy[w].version IN
          /\ copy' = [copy EXCEPT ![w] = [version |-> version, text |-> saves + 2]]
          /\ taken' = taken \cup {version}
          /\ reused' = IF bump /\ version \in taken THEN reused + 1 ELSE reused
  BY DEF BeginSave
<1>2. PICK c : c = copy[w].version
  OBVIOUS
<1>3. PICK version : version = IF bump THEN c + 1 ELSE c
  OBVIOUS
<1>4. /\ copy' = [copy EXCEPT ![w] = [version |-> version, text |-> saves + 2]]
      /\ taken' = taken \cup {version}
      /\ reused' = IF bump /\ version \in taken THEN reused + 1 ELSE reused
  BY <1>1, <1>2, <1>3 DEF Bumped
<1>5. /\ pc[w] = "read" /\ saves < MaxSaves /\ saves' = saves + 1
      /\ file' = Empty /\ pc' = [pc EXCEPT ![w] = "write"]
      /\ overlaps' = IF AtWork = {w} THEN overlaps ELSE overlaps + 1
      /\ UNCHANGED <<gitVars, faultVars, byAgents>>
  BY DEF BeginSave, GoTo
<1>6. PICK m \in Nat : NumbersUpTo(m)
  BY DEF IInv, NumbersInv
<1>7. c \in 1..(MaxSaves + 1) /\ MaxSaves \in Nat /\ saves \in 0..MaxSaves /\ overlaps \in Nat
      /\ reused \in Nat /\ overlaps <= saves
  BY <1>2, SkillAssumption DEF IInv, TypeOK, Bundle, Version
<1>8. taken = 1..m /\ m <= saves + 1 /\ reused <= overlaps /\ c <= m /\ reused + (m - c) <= overlaps
  <2>1. Holding(w)
    BY <1>5 DEF Holding
  <2> QED BY <1>6, <1>2, <2>1 DEF NumbersUpTo, Paid
<1>9. PICK n : n = IF version <= m THEN m ELSE m + 1
  OBVIOUS
<1>10. version \in 1..n /\ n \in Nat /\ m <= n /\ n <= m + 1 /\ n <= saves' + 1
  BY <1>5, <1>7, <1>8, <1>3, <1>9
<1>11. taken' = 1..n
  <2>1. CASE version <= m
    BY <1>4, <1>7, <1>8, <1>10, <1>9, <2>1
  <2>2. CASE version = m + 1
    <3>1. 1..(m + 1) = (1..m) \cup {m + 1}
      OBVIOUS
    <3>2. n = m + 1
      BY <1>9, <2>2
    <3> QED BY <1>4, <1>8, <2>2, <3>1, <3>2
  <2> QED BY <1>7, <1>8, <1>3, <2>1, <2>2
<1>12. reused' \in Nat /\ reused' + (n - version) <= overlaps /\ reused' + n <= reused + m + 1
  <2>1. version \in taken <=> version <= m
    BY <1>7, <1>8, <1>10
  <2>2. CASE ~bump
    <3>1. version = c /\ reused' = reused /\ n = m
      BY <1>4, <1>8, <1>3, <1>9, <2>2
    <3> QED BY <1>7, <1>8, <3>1
  <2>3. CASE bump /\ c + 1 <= m
    <3>1. version = c + 1 /\ reused' = reused + 1 /\ n = m
      BY <1>4, <1>3, <1>9, <2>1, <2>3
    <3> QED BY <1>7, <1>8, <3>1
  <2>4. CASE bump /\ c = m
    <3>1. version = m + 1 /\ reused' = reused /\ n = m + 1
      BY <1>4, <1>8, <1>3, <1>9, <2>1, <2>4
    <3> QED BY <1>7, <1>8, <3>1
  <2> QED BY <1>7, <1>8, <2>2, <2>3, <2>4
<1>13. overlaps' = overlaps \/ overlaps' = overlaps + 1
  BY <1>5
<1>14. AtWork # {w} => overlaps' = overlaps + 1
  BY <1>5
<1>15. overlaps' \in Nat /\ overlaps <= overlaps' /\ overlaps' <= saves'
  <2>1. saves' = saves + 1
    BY <1>5
  <2> QED BY <1>7, <1>13, <2>1
<1>16. copy'[w].version = version /\ copy'[w] \in Bundle /\ copy' \in [Writers -> Bundle]
       /\ \A v \in Writers : v # w => copy'[v] = copy[v] /\ pc'[v] = pc[v]
  <2>1. version \in Version /\ saves + 2 \in Text
    BY <1>5, <1>7, <1>10 DEF Version, Text
  <2>2. copy \in [Writers -> Bundle] /\ pc \in [Writers -> {"idle", "read", "write", "add", "commit", "tag"}]
    BY DEF IInv, TypeOK
  <2> QED BY <1>4, <1>5, <2>1, <2>2 DEF Bundle
<1>17. NumbersInv'
  <2>1. Empty \notin Bundle
    BY BundleReadable DEF Unreadable
  <2>2. ASSUME NEW v \in Writers, Holding(v)'
        PROVE  Paid(copy[v].version, n)'
    <3>1. CASE v = w
      <4>1. version <= n /\ reused' + (n - version) <= overlaps'
        <5>1. n - version \in Nat /\ version <= n
          BY <1>10
        <5> QED BY <1>7, <1>12, <1>15, <5>1
      <4> QED BY <1>16, <3>1, <4>1 DEF Paid
    <3>2. CASE v # w
      <4>1. Holding(v) /\ copy'[v] = copy[v] /\ AtWork # {w}
        BY <1>16, <2>2, <3>2 DEF Holding, AtWork
      <4>2. copy[v].version <= m /\ reused + (m - copy[v].version) <= overlaps
        BY <1>6, <4>1 DEF NumbersUpTo, Paid
      <4>3. copy[v].version \in Nat
        BY SkillAssumption DEF IInv, TypeOK, Bundle, Version
      <4>4. overlaps' = overlaps + 1
        BY <1>14, <4>1
      <4>5. copy[v].version <= n /\ reused' + (n - copy[v].version) <= overlaps'
        BY <1>7, <1>10, <1>12, <4>2, <4>3, <4>4
      <4> QED BY <4>1, <4>5 DEF Paid
    <3> QED BY <3>1, <3>2
  <2>3. reused' <= overlaps'
    <3>1. n - version \in Nat
      BY <1>10
    <3> QED BY <1>7, <1>12, <1>15, <3>1
  <2>4. NumbersUpTo(n)'
    BY <1>5, <1>10, <1>11, <2>1, <2>2, <2>3 DEF NumbersUpTo
  <2> QED BY <1>10, <2>4 DEF NumbersInv
<1>18. TypeOK'
  <2>1. taken' \subseteq Version
    BY <1>5, <1>7, <1>10, <1>11 DEF Version
  <2>2. reused' \in 0..saves'
    <3>1. n - version >= 0 /\ n - version \in Nat
      BY <1>10
    <3>2. saves' \in Nat
      BY <1>5, <1>7
    <3> QED BY <1>7, <1>12, <1>15, <3>1, <3>2
  <2>3. overlaps' \in 0..saves' /\ saves' \in 0..MaxSaves
    BY <1>5, <1>7, <1>15
  <2>4. file' \in Content
    BY <1>5 DEF Content, Unreadable
  <2>5. overlapped' \subseteq Bundle
    <3>1. \A v \in Saving \cup {w} : copy'[v] \in Bundle
      BY <1>16 DEF Saving
    <3>2. overlapped' \subseteq overlapped \cup {copy'[v] : v \in Saving \cup {w}}
      BY DEF BeginSave
    <3> QED BY <3>1, <3>2 DEF IInv, TypeOK
  <2> QED BY <1>5, <1>16, <2>1, <2>2, <2>3, <2>4, <2>5 DEF IInv, TypeOK, gitVars, faultVars
<1>19. FileInv'
  <2> SUFFICES ASSUME faults' + overlaps' = 0
               PROVE  /\ \A v \in Writers : pc'[v] = "write" => AtWork' = {v} /\ file' = Empty
                      /\ \E v \in Writers : pc'[v] = "write"
    BY DEF FileInv
  <2>1. pc'[w] = "write"
    BY <1>5 DEF IInv, TypeOK
  <2>2. AtWork = {w}
    <3>1. faults' \in Nat
      BY <1>5, SkillAssumption DEF IInv, TypeOK, faultVars
    <3>2. overlaps' # overlaps + 1
      BY <1>7, <3>1
    <3> QED BY <1>14, <3>2
  <2>3. \A v \in Writers : v # w => pc'[v] = "idle"
    BY <1>16, <2>2 DEF AtWork
  <2>4. AtWork' = {w}
    BY <2>1, <2>3 DEF AtWork
  <2> QED BY <1>5, <2>1, <2>3, <2>4
<1> QED BY <1>17, <1>18, <1>19 DEF IInv

-----------------------------------------------------------------------------
(* The invariant is inductive.                                             *)
LEMMA OneStep ==
  ASSUME IInv, [Next]_vars
  PROVE  IInv'
<1>1. ASSUME NEW w \in Writers, Read(w) \/ Decline(w) \/ BeginSave(w) \/ Flush(w) \/ Crash(w)
      PROVE  IInv'
  <2>1. CASE Crash(w)
    BY <2>1, Fails DEF Crash, GoTo
  <2> QED BY <1>1, <2>1, Reads, Declines, Saves, Flushes
<1>2. ASSUME NEW a \in Agents, Add(a) \/ Commit(a) \/ Tag(a) \/ GitFails(a)
      PROVE  IInv'
  <2>1. a \in Writers
    BY DEF Writers
  <2>2. CASE GitFails(a)
    BY <2>1, <2>2, Fails DEF GitFails, GoTo
  <2> QED BY <1>2, <2>1, <2>2, Adds, Commits, Tags
<1>3. CASE UNCHANGED vars
  <2> USE <1>3 DEF vars, gitVars, countVars, faultVars
  <2>1. TypeOK'
    BY DEF IInv, TypeOK
  <2>2. NumbersInv'
    BY NumbersStay DEF IInv, Holding
  <2>3. FileInv'
    BY DEF IInv, FileInv, AtWork
  <2> QED BY <2>1, <2>2, <2>3 DEF IInv
<1> QED BY <1>1, <1>2, <1>3 DEF Next

LEMMA Invariant == Spec => []IInv
<1>1. Init => IInv
  BY Beginnings
<1>2. IInv /\ [Next]_vars => IInv'
  BY OneStep
<1> QED BY <1>1, <1>2, PTL DEF Spec

(* The file, its commits and tags, and each writer's Skill object are of    *)
(* their types, and no number beyond one per save is given out.             *)
THEOREM SkillTypeCorrect == Spec => []TypeOK
<1>1. IInv => TypeOK
  BY DEF IInv
<1> QED BY <1>1, Invariant, PTL

(* Reflection and the edit form: for every version number that is given out *)
(* a second time there was a save beside which another writer was at work.  *)
THEOREM NumbersReused == Spec => []NumbersReusedBound
<1>1. IInv => NumbersReusedBound
  BY DEF IInv, NumbersInv, NumbersUpTo, NumbersReusedBound
<1> QED BY <1>1, Invariant, PTL

(* SkillRegistry.save: without crashes and overlapping saves, nobody finds  *)
(* the file truncated or mixed when no save is under way.                   *)
THEOREM FileReadable == Spec => []ReadableAtRest
<1>1. IInv => ReadableAtRest
  <2> SUFFICES ASSUME IInv, \A w \in Writers : pc[w] # "write", file \in Unreadable
               PROVE  faults + overlaps > 0
    BY DEF ReadableAtRest
  <2>1. faults \in Nat /\ overlaps \in Nat
    BY SkillAssumption DEF IInv, TypeOK
  <2>2. faults + overlaps # 0
    BY DEF IInv, FileInv
  <2> QED BY <2>1, <2>2
<1> QED BY <1>1, Invariant, PTL

-----------------------------------------------------------------------------
(* Texts and tags.  A save that no other overlapped is the only one under   *)
(* way, and finds at each stage what it left there at the last.  A text of  *)
(* an agent is therefore in git, or its save is on its way there alone, or  *)
(* it was overlapped or cut short.                                         *)
Alone(w) == w \in Saving /\ copy[w] \notin overlapped

AloneInv ==
  \A w \in Writers : Alone(w) =>
    /\ Saving = {w}
    /\ pc[w] = "write" => file = Empty
    /\ pc[w] \in {"add", "commit"} => file = copy[w]
    /\ pc[w] = "tag" => head.version = copy[w].version

Kept(x) ==
  \/ \E b \in overlapped \cup cut : b.text = x
  \/ \E c \in commits : c.text = x
  \/ \E a \in Agents : Alone(a) /\ pc[a] \in {"add", "commit"} /\ copy[a].text = x

TagInv == \A t \in tags :
  t.content.version = t.name \/ \E b \in overlapped : b.version = t.name

KeepInv ==
  /\ AloneInv /\ TagInv /\ head \in commits
  /\ AutoCommit => \A x \in byAgents : Kept(x)

LEMMA KeepBegins == Init => KeepInv
BY DEF Init, KeepInv, AloneInv, TagInv, Alone, Saving

(* A step that neither saves nor ends a save.                               *)
LEMMA KeepStays ==
  ASSUME KeepInv, UNCHANGED <<file, gitVars, overlapped, byAgents>>, cut \subseteq cut',
         \A w \in Writers : w \in Saving \/ w \in Saving' => pc'[w] = pc[w] /\ copy'[w] = copy[w]
  PROVE  KeepInv'
<1>1. Saving' = Saving
  BY DEF Saving
<1>2. \A w \in Writers : Alone(w)' <=> Alone(w)
  BY <1>1 DEF Alone
<1>3. \A w \in Saving : w \in Writers /\ pc'[w] = pc[w] /\ copy'[w] = copy[w]
  BY DEF Saving
<1>4. AloneInv'
  BY <1>1, <1>2, <1>3 DEF AloneInv, KeepInv, Alone, gitVars
<1>5. TagInv' /\ head' \in commits'
  BY DEF TagInv, KeepInv, gitVars
<1>6. ASSUME NEW x, Kept(x) PROVE Kept(x)'
  BY <1>2, <1>3, <1>6 DEF Kept, Alone, gitVars, Writers
<1> QED BY <1>4, <1>5, <1>6 DEF KeepInv

(* A save ends for one reason or another: nothing is left to keep of it, or *)
(* it was cut short.                                                       *)
LEMMA KeepEnds ==
  ASSUME IInv, KeepInv, NEW w \in Writers, pc' = [pc EXCEPT ![w] = "idle"],
         UNCHANGED <<file, head, commits, copy, overlapped, byAgents>>, cut \subseteq cut',
         w \in Saving => \/ copy[w] \in cut'
                         \/ copy[w] \in commits \/ copy[w] \in overlapped
                         \/ pc[w] = "tag",
         TagInv'
  PROVE  KeepInv'
<1>1. /\ pc \in [Writers -> {"idle", "read", "write", "add", "commit", "tag"}]
      /\ pc'[w] = "idle" /\ \A v \in Writers : v # w => pc'[v] = pc[v]
  BY DEF IInv, TypeOK
<1>2. Saving' = Saving \ {w}
  BY <1>1 DEF Saving
<1>3. \A v \in Writers : Alone(v)' => Alone(v) /\ v # w
  BY <1>2 DEF Alone
<1>4. AloneInv'
  <2> SUFFICES ASSUME NEW v \in Writers, Alone(v)'
               PROVE  /\ Saving' = {v}
                      /\ pc'[v] = "write" => file = Empty
                      /\ pc'[v] \in {"add", "commit"} => file = copy[v]
                      /\ pc'[v] = "tag" => head.version = copy[v].version
    BY DEF AloneInv
  <2>1. Alone(v) /\ v # w /\ pc'[v] = pc[v]
    BY <1>1, <1>3
  <2>2. Saving = {v}
    BY <2>1 DEF KeepInv, AloneInv
  <2>3. Saving' = {v}
    BY <1>2, <2>1, <2>2
  <2> QED BY <2>1, <2>3 DEF KeepInv, AloneInv
<1>5. ASSUME NEW x, Kept(x) PROVE Kept(x)'
  <2>1. CASE \E b \in overlapped \cup cut : b.text = x
    BY <2>1 DEF Kept
  <2>2. CASE \E c \in commits : c.text = x
    BY <2>2 DEF Kept
  <2>3. ASSUME NEW a \in Agents, Alone(a), pc[a] \in {"add", "commit"}, copy[a].text = x
        PROVE  Kept(x)'
    <3>1. CASE a = w
      <4>1. copy[a] \in cut' \/ copy[a] \in commits
        BY <2>3, <3>1 DEF Alone
      <4> QED BY <2>3, <4>1 DEF Kept
    <3>2. CASE a # w
      <4>1. a \in Writers /\ pc'[a] = pc[a]
        BY <1>1, <3>2 DEF Writers
      <4>2. Alone(a)'
        BY <1>2, <2>3, <3>2 DEF Alone
      <4> QED BY <2>3, <4>1, <4>2 DEF Kept
    <3> QED BY <3>1, <3>2
  <2> QED BY <1>5, <2>1, <2>2, <2>3 DEF Kept
<1> QED BY <1>4, <1>5 DEF KeepInv

LEMMA KeepSaves ==
  ASSUME IInv, KeepInv, NEW w \in Writers, BeginSave(w)
  PROVE  KeepInv'
<1>1. PICK new \in Bundle : copy' = [copy EXCEPT ![w] = new]
  <2>1. copy' \in [Writers -> Bundle]
    BY Saves DEF IInv, TypeOK
  <2>2. \E new : copy' = [copy EXCEPT ![w] = new]
    BY DEF BeginSave
  <2> QED BY <2>1, <2>2 DEF IInv, TypeOK
<1>2. /\ pc[w] = "read" /\ pc' = [pc EXCEPT ![w] = "write"] /\ file' = Empty
      /\ UNCHANGED <<gitVars, faultVars, byAgents>>
      /\ overlapped' = IF Saving = {} THEN overlapped
                       ELSE overlapped \cup {copy'[v] : v \in Saving \cup {w}}
  BY DEF BeginSave, GoTo
<1>3. /\ w \notin Saving /\ pc'[w] = "write"
      /\ \A v \in Writers : v # w => pc'[v] = pc[v] /\ copy'[v] = copy[v]
  BY <1>1, <1>2 DEF IInv, TypeOK, Saving
<1>4. Saving' = Saving \cup {w}
  BY <1>3 DEF Saving
<1>5. overlapped \subseteq overlapped'
  BY <1>2
<1>6. ASSUME NEW v \in Saving PROVE copy[v] \in overlapped' /\ copy'[v] = copy[v]
  <2>1. v \in Writers /\ v # w
    BY <1>3 DEF Saving
  <2>2. copy'[v] \in overlapped'
    BY <1>2
  <2> QED BY <1>3, <2>1, <2>2
<1>7. AloneInv'
  <2> SUFFICES ASSUME NEW v \in Writers, Alone(v)'
               PROVE  /\ Saving' = {v} /\ v = w
    BY <1>2, <1>3 DEF AloneInv
  <2>1. v \in Saving' /\ copy'[v] \notin overlapped'
    BY DEF Alone
  <2>2. v \notin Saving
    BY <1>6, <2>1
  <2>3. v = w
    BY <1>4, <2>1, <2>2
  <2>4. Saving = {}
    BY <1>2, <2>1, <2>3
  <2> QED BY <1>4, <2>3, <2>4
<1>8. TagInv' /\ head' \in commits'
  BY <1>2, <1>5 DEF KeepInv, TagInv, gitVars
<1>9. ASSUME NEW x, Kept(x) PROVE Kept(x)'
  <2>1. CASE \E b \in overlapped \cup cut : b.text = x
    BY <1>2, <1>5, <2>1 DEF Kept, faultVars
  <2>2. CASE \E c \in commits : c.text = x
    BY <1>2, <2>2 DEF Kept, gitVars
  <2>3. ASSUME NEW a \in Agents, Alone(a), copy[a].text = x
        PROVE  Kept(x)'
    <3>1. copy[a] \in overlapped'
      BY <1>6, <2>3 DEF Alone
    <3> QED BY <2>3, <3>1 DEF Kept
  <2> QED BY <1>9, <2>1, <2>2, <2>3 DEF Kept
<1> QED BY <1>2, <1>7, <1>8, <1>9 DEF KeepInv

LEMMA KeepFlushes ==
  ASSUME IInv, KeepInv, NEW w \in Writers, Flush(w)
  PROVE  KeepInv'
<1>1. /\ pc[w] = "write" /\ file' \in {copy[w], Mixed} /\ (file = Empty => file' = copy[w])
      /\ pc' = [pc EXCEPT ![w] = IF w \in Agents /\ AutoCommit THEN "add" ELSE "idle"]
      /\ byAgents' = IF w \in Agents THEN byAgents \cup {copy[w].text} ELSE byAgents
      /\ UNCHANGED <<gitVars, copy, countVars, faultVars>>
  BY DEF Flush, FlushResults, GoTo
<1>2. /\ pc \in [Writers -> {"idle", "read", "write", "add", "commit", "tag"}]
      /\ \A v \in Writers : v # w => pc'[v] = pc[v]
      /\ pc'[w] \in {"add", "idle"} /\ (w \in Agents /\ AutoCommit => pc'[w] = "add")
      /\ w \in Saving
  BY <1>1 DEF IInv, TypeOK, Saving
<1>3. Saving' \subseteq Saving /\ (pc'[w] = "add" => Saving' = Saving) /\ (pc'[w] = "idle" => w \notin Saving')
  BY <1>2 DEF Saving
<1>4. UNCHANGED <<head, commits, tags, copy, overlapped, cut>>
  BY <1>1 DEF gitVars, countVars, faultVars
<1>5. ASSUME NEW v \in Writers, Alone(v)
      PROVE  v = w /\ Saving = {w} /\ file' = copy[w]
  <2>1. Saving = {v}
    BY <1>5 DEF KeepInv, AloneInv
  <2>2. v = w
    BY <1>2, <2>1
  <2>3. file = Empty
    BY <1>1, <1>5, <2>2 DEF KeepInv, AloneInv
  <2> QED BY <1>1, <2>1, <2>2, <2>3
<1>6. \A v \in Writers : Alone(v)' => Alone(v)
  BY <1>3, <1>4 DEF Alone
<1>7. AloneInv'
  <2> SUFFICES ASSUME NEW v \in Writers, Alone(v)'
               PROVE  v = w /\ Saving' = {w} /\ pc'[w] = "add" /\ file' = copy[w]
    BY <1>4 DEF AloneInv
  <2>1. v = w /\ Saving = {w} /\ file' = copy[w]
    BY <1>5, <1>6
  <2>2. v \in Saving'
    BY DEF Alone
  <2> QED BY <1>2, <1>3, <2>1, <2>2
<1>8. TagInv' /\ head' \in commits'
  BY <1>4 DEF KeepInv, TagInv
<1>9. ASSUME NEW x, Kept(x) PROVE Kept(x)'
  <2>1. ASSUME NEW a \in Agents, Alone(a), pc[a] \in {"add", "commit"} PROVE FALSE
    <3>1. a = w
      BY <1>5, <2>1 DEF Writers
    <3> QED BY <1>1, <2>1, <3>1
  <2> QED BY <1>4, <1>9, <2>1 DEF Kept
<1>10. ASSUME AutoCommit, w \in Agents, NEW x, x = copy[w].text PROVE Kept(x)'
  <2>1. CASE copy[w] \in overlapped
    BY <1>4, <1>10, <2>1 DEF Kept
  <2>2. CASE copy[w] \notin overlapped
    <3>1. pc'[w] = "add" /\ Saving' = Saving
      BY <1>2, <1>3, <1>10
    <3>2. Alone(w)'
      BY <1>2, <1>4, <2>2, <3>1 DEF Alone
    <3> QED BY <1>4, <1>10, <3>1, <3>2 DEF Kept
  <2> QED BY <2>1, <2>2
<1>11. AutoCommit => \A x \in byAgents' : Kept(x)'
  <2> SUFFICES ASSUME AutoCommit, NEW x \in byAgents' PROVE Kept(x)'
    OBVIOUS
  <2>1. CASE x \in byAgents
    <3>1. Kept(x)
      BY <2>1 DEF KeepInv
    <3> QED BY <1>9, <3>1
  <2>2. CASE w \in Agents /\ x = copy[w].text
    BY <1>10, <2>2
  <2> QED BY <1>1, <2>1, <2>2
<1> QED BY <1>7, <1>8, <1>11 DEF KeepInv

(* git add, when it finds something to commit.                              *)
LEMMA KeepGoesOn ==
  ASSUME IInv, KeepInv, NEW a \in Agents, pc[a] = "add", pc' = [pc EXCEPT ![a] = "commit"],
         UNCHANGED <<file, gitVars, copy, countVars, faultVars, byAgents>>
  PROVE  KeepInv'
<1>1. /\ a \in Writers /\ pc'[a] = "commit" /\ \A v \in Writers : v # a => pc'[v] = pc[v]
  BY DEF IInv, TypeOK, Writers
<1>2. Saving' = Saving
  BY <1>1 DEF Saving
<1>3. UNCHANGED <<head, commits, tags, overlapped, cut>>
  BY DEF gitVars, countVars, faultVars
<1>4. \A v \in Writers : Alone(v)' <=> Alone(v)
  BY <1>2, <1>3 DEF Alone
<1>5. AloneInv'
  <2> SUFFICES ASSUME NEW v \in Writers, Alone(v)
               PROVE  /\ Saving = {v}
                      /\ pc'[v] = "write" => file = Empty
                      /\ pc'[v] \in {"add", "commit"} => file = copy[v]
                      /\ pc'[v] = "tag" => head.version = copy[v].version
    BY <1>2, <1>3, <1>4 DEF AloneInv
  <2>1. CASE v = a
    BY <1>1, <2>1 DEF KeepInv, AloneInv
  <2>2. CASE v # a
    BY <1>1, <2>2 DEF KeepInv, AloneInv
  <2> QED BY <2>1, <2>2
<1>6. TagInv' /\ head' \in commits'
  BY <1>3 DEF KeepInv, TagInv
<1>7. ASSUME NEW x, Kept(x) PROVE Kept(x)'
  <2>1. ASSUME NEW b \in Agents, Alone(b), pc[b] \in {"add", "commit"}, copy[b].text = x
        PROVE  Kept(x)'
    <3>1. b \in Writers /\ pc'[b] \in {"add", "commit"} /\ Alone(b)'
      BY <1>1, <1>4, <2>1 DEF Writers
    <3> QED BY <2>1, <3>1 DEF Kept
  <2> QED BY <1>3, <1>7, <2>1 DEF Kept
<1> QED BY <1>5, <1>6, <1>7 DEF KeepInv

(* git commit, when there is something to commit.                           *)
LEMMA KeepCommits ==
  ASSUME IInv, KeepInv, NEW a \in Agents, pc[a] = "commit",
         NEW stage \in {"tag", "idle"}, pc' = [pc EXCEPT ![a] = stage],
         head' = file, commits' = commits \cup {file},
         UNCHANGED <<file, tags, copy, countVars, faultVars, byAgents>>
  PROVE  KeepInv'
<1>1. /\ a \in Writers /\ pc'[a] = stage /\ \A v \in Writers : v # a => pc'[v] = pc[v]
  BY DEF IInv, TypeOK, Writers
<1>2. a \in Saving /\ Saving' \subseteq Saving /\ (a \in Saving' => stage = "tag" /\ Saving' = Saving)
  BY <1>1 DEF Saving
<1>3. UNCHANGED <<tags, overlapped, cut>>
  BY DEF countVars, faultVars
<1>4. ASSUME NEW v \in Writers, Alone(v)
      PROVE  v = a /\ Saving = {a} /\ file = copy[a]
  <2>1. Saving = {v}
    BY <1>4 DEF KeepInv, AloneInv
  <2>2. v = a
    BY <1>2, <2>1
  <2> QED BY <1>4, <2>1, <2>2 DEF KeepInv, AloneInv
<1>5. AloneInv'
  <2> SUFFICES ASSUME NEW v \in Writers, Alone(v)'
               PROVE  v = a /\ Saving' = {a} /\ pc'[a] = "tag" /\ head'.version = copy[a].version
    BY DEF AloneInv
  <2>1. v \in Saving' /\ copy[v] \notin overlapped
    BY <1>3 DEF Alone
  <2>2. Alone(v)
    BY <1>2, <2>1 DEF Alone
  <2> QED BY <1>1, <1>2, <1>4, <2>1, <2>2
<1>6. TagInv' /\ head' \in commits'
  BY <1>3 DEF KeepInv, TagInv
<1>7. ASSUME NEW x, Kept(x) PROVE Kept(x)'
  <2>1. ASSUME NEW b \in Agents, Alone(b), copy[b].text = x
        PROVE  Kept(x)'
    <3>1. file.text = x /\ file \in commits'
      BY <1>4, <2>1 DEF Writers
    <3> QED BY <3>1 DEF Kept
  <2> QED BY <1>3, <1>7, <2>1 DEF Kept
<1> QED BY <1>5, <1>6, <1>7 DEF KeepInv

LEMMA KeepTags ==
  ASSUME IInv, KeepInv, NEW a \in Agents, Tag(a)
  PROVE  KeepInv'
<1>1. /\ a \in Writers /\ pc[a] = "tag" /\ pc' = [pc EXCEPT ![a] = "idle"]
      /\ tags' \subseteq tags \cup {[name |-> copy[a].version, content |-> head]}
      /\ UNCHANGED <<file, head, commits, copy, countVars, faultVars, byAgents>>
  BY DEF Tag, TagName, GoTo, Writers
<1>2. UNCHANGED <<overlapped, cut>>
  BY <1>1 DEF countVars, faultVars
<1>3. a \in Saving
  BY <1>1 DEF Saving
<1>4. head.version = copy[a].version \/ copy[a] \in overlapped
  BY <1>1, <1>3 DEF KeepInv, AloneInv, Alone
<1>5. TagInv'
  <2> SUFFICES ASSUME NEW t \in tags'
               PROVE  t.content.version = t.name \/ \E b \in overlapped : b.version = t.name
    BY <1>2 DEF TagInv
  <2>1. CASE t \in tags
    BY <2>1 DEF KeepInv, TagInv
  <2>2. CASE t = [name |-> copy[a].version, content |-> head]
    <3>1. t.name = copy[a].version /\ t.content = head
      BY <2>2
    <3> QED BY <1>4, <3>1
  <2> QED BY <1>1, <2>1, <2>2
<1> QED BY <1>1, <1>2, <1>5, KeepEnds

LEMMA KeepStep ==
  ASSUME IInv, KeepInv, [Next]_vars
  PROVE  KeepInv'
<1>t. pc \in [Writers -> {"idle", "read", "write", "add", "commit", "tag"}]
      /\ copy \in [Writers -> Bundle]
  BY DEF IInv, TypeOK
<1>i. IInv'
  BY OneStep
<1>1. ASSUME NEW w \in Writers, Read(w) \/ Decline(w) PROVE KeepInv'
  <2>1. UNCHANGED <<file, gitVars, overlapped, byAgents, cut>>
    BY <1>1 DEF Read, Decline, countVars, faultVars
  <2>2. pc[w] \in {"idle", "read"} /\ pc'[w] \in {"idle", "read"}
        /\ \A v \in Writers : v # w => pc'[v] = pc[v] /\ copy'[v] = copy[v]
    BY <1>1, <1>t DEF Read, Decline, GoTo
  <2>3. \A v \in Writers : v \in Saving \/ v \in Saving' => pc'[v] = pc[v] /\ copy'[v] = copy[v]
    BY <2>2 DEF Saving
  <2> QED BY <2>1, <2>3, KeepStays
<1>2. ASSUME NEW w \in Writers, Crash(w) PROVE KeepInv'
  <2>1. /\ pc' = [pc EXCEPT ![w] = "idle"] /\ UNCHANGED <<file, head, commits, tags, copy, overlapped, byAgents>>
        /\ cut \subseteq cut' /\ (w \in Saving => copy[w] \in cut')
    BY <1>2 DEF Crash, GoTo, countVars, gitVars
  <2>2. TagInv'
    BY <2>1 DEF KeepInv, TagInv
  <2> QED BY <2>1, <2>2, KeepEnds
<1>3. ASSUME NEW a \in Agents, GitFails(a) PROVE KeepInv'
  <2>1. /\ pc' = [pc EXCEPT ![a] = "idle"] /\ UNCHANGED <<file, head, commits, tags, copy, overlapped, byAgents>>
        /\ cut \subseteq cut' /\ copy[a] \in cut'
    BY <1>3 DEF GitFails, GoTo, countVars, gitVars
  <2>2. TagInv'
    BY <2>1 DEF KeepInv, TagInv
  <2> QED BY <2>1, <2>2, KeepEnds DEF Writers
<1>4. ASSUME NEW a \in Agents, pc[a] \in {"add", "commit"}, pc' = [pc EXCEPT ![a] = "idle"], file = head,
             UNCHANGED <<file, gitVars, copy, countVars, faultVars, byAgents>>
      PROVE  KeepInv'
  <2>1. UNCHANGED <<head, commits, tags, overlapped, cut>>
    BY <1>4 DEF gitVars, countVars, faultVars
  <2>2. TagInv'
    BY <2>1 DEF KeepInv, TagInv
  <2>3. a \in Saving => copy[a] \in commits \/ copy[a] \in overlapped
    BY <1>4 DEF KeepInv, AloneInv, Alone, Writers
  <2> QED BY <1>4, <2>1, <2>2, <2>3, KeepEnds DEF Writers
<1>5. ASSUME NEW a \in Agents, Add(a) PROVE KeepInv'
  <2>1. CASE MayBeUnchanged /\ pc' = [pc EXCEPT ![a] = "idle"]
    BY <1>4, <1>5, <2>1 DEF Add, MayBeUnchanged
  <2>2. CASE pc' = [pc EXCEPT ![a] = "commit"]
    BY <1>5, <2>2, KeepGoesOn DEF Add
  <2> QED BY <1>5, <2>1, <2>2 DEF Add, GoTo
<1>6. ASSUME NEW a \in Agents, Commit(a) PROVE KeepInv'
  <2>1. CASE MayBeUnchanged /\ pc' = [pc EXCEPT ![a] = "idle"] /\ UNCHANGED <<head, commits>>
    BY <1>4, <1>6, <2>1 DEF Commit, MayBeUnchanged, gitVars
  <2>2. CASE /\ head' = file /\ commits' = commits \cup {file}
             /\ pc' = [pc EXCEPT ![a] = IF AutoTag THEN "tag" ELSE "idle"]
    <3>1. PICK stage \in {"tag", "idle"} : pc' = [pc EXCEPT ![a] = stage]
      BY <2>2
    <3> QED BY <1>6, <2>2, <3>1, KeepCommits DEF Commit
  <2> QED BY <1>6, <2>1, <2>2 DEF Commit, GoTo
<1>7. CASE UNCHANGED vars
  <2>1. UNCHANGED <<file, gitVars, overlapped, byAgents, cut, pc, copy>>
    BY <1>7 DEF vars, gitVars
  <2> QED BY <2>1, KeepStays
<1> QED BY <1>1, <1>2, <1>3, <1>5, <1>6, <1>7, KeepSaves, KeepFlushes, KeepTags DEF Next

LEMMA Keeping == Spec => [](IInv /\ KeepInv)
<1>1. Init => IInv /\ KeepInv
  BY Beginnings, KeepBegins
<1>2. (IInv /\ KeepInv) /\ [Next]_vars => (IInv /\ KeepInv)'
  BY OneStep, KeepStep
<1> QED BY <1>1, <1>2, PTL DEF Spec

(* SkillRegistry.save with git_auto_commit: what an agent wrote is in the   *)
(* file or in git, unless its own save overlapped another or was cut short. *)
THEOREM TextsAreKept == Spec => []AgentTextsKept
<1>1. IInv /\ KeepInv => AgentTextsKept
  <2> SUFFICES ASSUME KeepInv, AutoCommit, NEW x \in LostTexts
               PROVE  \E b \in overlapped \cup cut : b.text = x
    BY DEF AgentTextsKept
  <2>1. Kept(x) /\ file.text # x /\ \A c \in commits : c.text # x
    BY DEF KeepInv, LostTexts
  <2>2. ASSUME NEW a \in Agents, Alone(a), pc[a] \in {"add", "commit"}, copy[a].text = x
        PROVE  FALSE
    <3>1. file = copy[a]
      BY <2>2 DEF KeepInv, AloneInv, Writers
    <3> QED BY <2>1, <2>2, <3>1
  <2> QED BY <2>1, <2>2 DEF Kept
<1> QED BY <1>1, Keeping, PTL

(* _maybe_git_commit: a tag names the version it holds, unless the save     *)
(* that set it overlapped another.                                         *)
THEOREM TagsAreTrue == Spec => []TagsTrue
<1>1. KeepInv => TagsTrue
  BY DEF KeepInv, TagInv, TagsTrue, FalseTags
<1> QED BY <1>1, Keeping, PTL
=============================================================================
