------------------------------ MODULE EvalProofs ------------------------------
(***************************************************************************)
(* Proofs about evaluation: what a passage of a context needs to stay in    *)
(* one piece (Chunking), for every text and any max_chars and overlap that  *)
(* satisfy ChunkAssumption; and what the history tells of the runs          *)
(* (EvalRuns), for any evaluators, benchmarks, answers and bounds.          *)
(***************************************************************************)
EXTENDS EvalRuns, Chunking, FiniteSetTheorems, SequenceTheorems, WellFoundedInduction, TLAPS

(* Sets of numbers have a first and, when bounded, a last element.         *)
LEMMA FirstOf ==
  ASSUME NEW T \in SUBSET Nat, T # {}
  PROVE  \E x \in T : \A y \in T : x <= y
<1> DEFINE R == OpToRel(<, Nat)
<1>1. IsWellFoundedOn(R, Nat)
  BY NatLessThanWellFounded
<1>2. \A x, y \in Nat : y < x => <<y, x>> \in R
  BY DEF OpToRel
<1> HIDE DEF R
<1>3. PICK x \in T : \A y \in T : ~(<<y, x>> \in R)
  BY <1>1, WFMin
<1>4. \A y \in T : ~(y < x)
  BY <1>2, <1>3
<1> QED BY <1>4

LEMMA LastOf ==
  ASSUME NEW n \in Nat, NEW T \in SUBSET (0..n), T # {}
  PROVE  \E x \in T : \A y \in T : y <= x
<1> DEFINE U == {n - y : y \in T}
<1>1. \A y \in T : y \in Nat /\ n - y \in Nat
  OBVIOUS
<1>2. U \in SUBSET Nat /\ U # {} /\ \A y \in T : n - y \in U
  BY <1>1, Zenon
<1> HIDE DEF U
<1>3. PICK u \in U : \A v \in U : u <= v
  BY <1>2, FirstOf
<1>4. PICK x \in T : u = n - x
  BY <1>3 DEF U
<1>5. \A y \in T : n - x <= n - y
  BY <1>2, <1>3, <1>4
<1> QED BY <1>1, <1>4, <1>5

-----------------------------------------------------------------------------
(* Boundaries lie between the window and the end.                          *)
LEMMA RFindIn ==
  ASSUME NEW from \in Nat, NEW to \in Nat, NEW sep, Len(sep) \in Nat
  PROVE  RFind(sep, from, to) = -1 \/ RFind(sep, from, to) \in from..(to - Len(sep))
<1> DEFINE S == Finds(sep, from, to)
<1>1. S \subseteq from..(to - Len(sep))
  BY DEF Finds
<1>2. CASE S = {}
  BY <1>2 DEF RFind
<1>3. CASE S # {}
  <2>1. to - Len(sep) \in Nat /\ S \subseteq 0..(to - Len(sep))
    BY <1>1, <1>3
  <2> HIDE DEF S
  <2>2. \E i \in S : \A o \in S : o <= i
    BY <2>1, <1>3, LastOf
  <2>3. (CHOOSE i \in S : \A o \in S : o <= i) \in S
    BY <2>2
  <2>4. RFind(sep, from, to) = CHOOSE i \in S : \A o \in S : o <= i
    BY <1>3 DEF RFind, S
  <2> QED BY <2>3, <2>4, <1>1
<1> QED BY <1>2, <1>3

LEMMA AfterIn ==
  ASSUME NEW from \in Nat, NEW to \in Nat, NEW sep, Len(sep) \in Nat \ {0},
         NEW best, best = -1 \/ best \in (from + 1)..to
  PROVE  After(sep, best, from, to) = -1 \/ After(sep, best, from, to) \in (from + 1)..to
<1>1. RFind(sep, from, to) = -1 \/ RFind(sep, from, to) \in from..(to - Len(sep))
  BY RFindIn
<1> HIDE DEF RFind
<1> QED BY <1>1 DEF After

LEMMA BestIn ==
  ASSUME NEW from \in Nat, NEW to \in Nat
  PROVE  Best(from, to) = -1 \/ Best(from, to) \in (from + 1)..to
<1> DEFINE In(b) == b = -1 \/ b \in (from + 1)..to
<1>1. /\ Len(Paragraph) \in Nat \ {0} /\ Len(Line) \in Nat \ {0}
      /\ Len(Sentence) \in Nat \ {0} /\ Len(Word) \in Nat \ {0}
  BY DEF Paragraph, Line, Sentence, Word
<1>2. In(-1)
  OBVIOUS
<1>3. In(After(Paragraph, -1, from, to))
  BY <1>1, <1>2, AfterIn
<1>4. In(After(Line, After(Paragraph, -1, from, to), from, to))
  BY <1>1, <1>3, AfterIn
<1>5. In(After(Sentence, -1, from, to))
  BY <1>1, <1>2, AfterIn
<1>6. In(After(Word, After(Sentence, -1, from, to), from, to))
  BY <1>1, <1>5, AfterIn
<1> HIDE DEF In
<1>7. In(Best(from, to))
  BY <1>3, <1>4, <1>6, Zenon DEF Best
<1> QED BY <1>7 DEF In

(* A chunk is not empty, not too long, and longer than the window unless it *)
(* is the last.                                                             *)
LEMMA EndIn ==
  ASSUME NEW s \in Nat, Len(text) \in Nat, s < Len(text)
  PROVE  /\ EndOfChunk(s) \in Nat /\ s < EndOfChunk(s)
         /\ EndOfChunk(s) <= Len(text) /\ EndOfChunk(s) <= s + MaxChars
         /\ EndOfChunk(s) = Len(text) \/ s + Window < EndOfChunk(s)
<1> USE ChunkAssumption
<1>1. CASE s + MaxChars >= Len(text)
  BY <1>1 DEF EndOfChunk
<1>2. CASE ~(s + MaxChars >= Len(text))
  <2> DEFINE best == Best(s + Window, s + MaxChars)
  <2>1. best = -1 \/ best \in (s + Window + 1)..(s + MaxChars)
    BY BestIn
  <2>2. EndOfChunk(s) = IF best > s THEN best ELSE s + MaxChars
    BY <1>2 DEF EndOfChunk
  <2> HIDE DEF best
  <2> QED BY <1>2, <2>1, <2>2
<1> QED BY <1>1, <1>2

(* strip() takes no passage apart.                                         *)
LEMMA StripKeeps ==
  ASSUME NEW s \in Nat, NEW e \in Nat, Len(text) \in Nat, NEW p \in Passages,
         s < p.first, p.last <= e
  PROVE  \E c \in Stripped(s, e) : HoldsPassage(c, p)
<1> DEFINE solid == {i \in (s + 1)..e : ~IsBlank(text[i])}
<1>1. p.first \in Nat /\ p.last \in Nat /\ p.first <= p.last /\ ~IsBlank(text[p.first]) /\ ~IsBlank(text[p.last])
  BY DEF Passages
<1>2. p.first \in solid /\ p.last \in solid /\ solid \subseteq 0..e /\ solid \subseteq Nat
  BY <1>1
<1>3. Stripped(s, e) = {[from |-> i - 1, to |-> j] : i \in {k \in solid : \A o \in solid : k <= o},
                                                 j \in {k \in solid : \A o \in solid : k >= o}}
  BY DEF Stripped
<1> HIDE DEF solid
<1>4. PICK i \in solid : \A o \in solid : i <= o
  BY <1>2, FirstOf
<1>5. PICK j \in solid : \A o \in solid : o <= j
  BY <1>2, LastOf
<1>6. \A o \in solid : j >= o
  BY <1>2, <1>5
<1>7. [from |-> i - 1, to |-> j] \in Stripped(s, e)
  BY <1>3, <1>4, <1>6
<1>8. i - 1 < p.first /\ p.last <= j
  BY <1>1, <1>2, <1>4, <1>5
<1> QED BY <1>7, <1>8 DEF HoldsPassage

LEMMA StripFits ==
  ASSUME NEW s \in Nat, NEW e \in Nat, NEW c \in Stripped(s, e)
  PROVE  c.from \in Nat /\ c.to \in Nat /\ s <= c.from /\ c.from < c.to /\ c.to <= e
<1> DEFINE solid == {i \in (s + 1)..e : ~IsBlank(text[i])}
<1>1. PICK i \in solid, j \in solid : c = [from |-> i - 1, to |-> j] /\ \A o \in solid : i <= o
  BY DEF Stripped
<1>2. i \in (s + 1)..e /\ j \in (s + 1)..e /\ i <= j
  BY <1>1
<1> QED BY <1>1, <1>2

-----------------------------------------------------------------------------
(* While the loop runs, a passage that no chunk holds begins after start.   *)
ChunkFits(c) ==
  /\ c.from \in Nat /\ c.to \in Nat
  /\ c.from < c.to /\ c.to <= Len(text) /\ c.to - c.from <= MaxChars

CutInv ==
  /\ text \in Seq(Char) /\ start \in Nat /\ cutting \in BOOLEAN
  /\ cutting /\ Len(text) > MaxChars => start < Len(text)
  /\ \A c \in chunks : ChunkFits(c)
  /\ \A p \in Passages :
       \/ \E c \in chunks : HoldsPassage(c, p)
       \/ cutting /\ start < p.first

LEMMA PassageType ==
  ASSUME Len(text) \in Nat, NEW p \in Passages
  PROVE  /\ p.first \in 1..Len(text) /\ p.last \in 1..Len(text)
         /\ p.first <= p.last /\ p.last - p.first <= Overlap
BY DEF Passages

LEMMA InitCutInv ==
  ASSUME ChunkInit
  PROVE  CutInv
<1>1. text \in Seq(Char) /\ Len(text) \in Nat
  BY ChunkAssumption DEF ChunkInit
<1>2. \A p \in Passages : start < p.first
  BY <1>1, PassageType DEF ChunkInit
<1> QED BY <1>1, <1>2, ChunkAssumption DEF ChunkInit, CutInv

LEMMA WholeKeeps ==
  ASSUME CutInv, ReturnWhole
  PROVE  CutInv'
<1> USE ChunkAssumption
<1>1. Len(text) \in Nat /\ text' = text /\ start' = start /\ cutting' = FALSE /\ Passages' = Passages
  BY DEF CutInv, ReturnWhole, Passages
<1>2. CASE text = <<>>
  <2>1. Passages = {} /\ chunks' = {}
    BY <1>1, <1>2, PassageType DEF ReturnWhole
  <2> QED BY <1>1, <2>1 DEF CutInv
<1>3. CASE text # <<>>
  <2>1. chunks' = {[from |-> 0, to |-> Len(text)]} /\ Len(text) > 0 /\ Len(text) <= MaxChars
    BY <1>1, <1>3 DEF ReturnWhole, CutInv
  <2>2. \A p \in Passages : HoldsPassage([from |-> 0, to |-> Len(text)], p)
    BY <1>1, PassageType DEF HoldsPassage
  <2>3. \A c \in chunks' : ChunkFits(c)'
    BY <1>1, <2>1 DEF ChunkFits
  <2>4. \A p \in Passages' : \E c \in chunks' : HoldsPassage(c, p)
    BY <1>1, <2>1, <2>2
  <2> QED BY <1>1, <2>3, <2>4 DEF CutInv
<1> QED BY <1>2, <1>3

LEMMA CutKeeps ==
  ASSUME CutInv, Cut
  PROVE  CutInv'
<1> USE ChunkAssumption
<1> DEFINE end == EndOfChunk(start)
<1>1. /\ Len(text) \in Nat /\ start \in Nat /\ start < Len(text) /\ text' = text
      /\ Passages' = Passages /\ cutting
  BY DEF CutInv, Cut, Passages
<1>2. /\ end \in Nat /\ start < end /\ end <= Len(text) /\ end <= start + MaxChars
      /\ end = Len(text) \/ start + Window < end
  BY <1>1, EndIn
<1>3. /\ chunks' = chunks \cup Stripped(start, end)
      /\ cutting' = (end < Len(text))
      /\ start' = IF end < Len(text) THEN NextStart(start, end) ELSE start
  BY DEF Cut
<1> HIDE DEF end
<1>4. ASSUME end < Len(text)
      PROVE  cutting' /\ start' = end - Overlap /\ start' \in Nat /\ start' < Len(text)
  <2>1. cutting' /\ start' = NextStart(start, end)
    BY <1>3, <1>4
  <2>2. end - Overlap >= start + 1
    BY <1>1, <1>2, <1>4
  <2>3. NextStart(start, end) = end - Overlap
    BY <1>1, <1>2, <2>2 DEF NextStart
  <2>4. end - Overlap \in Nat /\ end - Overlap < Len(text)
    BY <1>1, <1>2, <1>4, <2>2
  <2> QED BY <2>1, <2>3, <2>4, Zenon
<1>5. \A c \in chunks' : ChunkFits(c)'
  <2>1. ASSUME NEW c \in chunks PROVE ChunkFits(c)'
    BY <1>1 DEF CutInv, ChunkFits
  <2>2. ASSUME NEW c \in Stripped(start, end) PROVE ChunkFits(c)'
    <3>1. c.from \in Nat /\ c.to \in Nat /\ start <= c.from /\ c.from < c.to /\ c.to <= end
      BY <1>1, <1>2, StripFits
    <3> QED BY <1>1, <1>2, <3>1 DEF ChunkFits
  <2> QED BY <1>3, <2>1, <2>2
<1>6. ASSUME NEW p \in Passages
      PROVE  \/ \E c \in chunks' : HoldsPassage(c, p)
             \/ cutting' /\ start' < p.first
  <2>1. CASE \E c \in chunks : HoldsPassage(c, p)
    BY <1>3, <2>1
  <2>2. CASE start < p.first /\ p.last <= end
    BY <1>1, <1>2, <1>3, <2>2, StripKeeps
  <2>3. CASE start < p.first /\ ~(p.last <= end)
    <3>1. /\ p.first \in 1..Len(text) /\ p.last \in 1..Len(text)
          /\ p.first <= p.last /\ p.last - p.first <= Overlap
      BY <1>1, PassageType
    <3>2. end < Len(text)
      BY <1>1, <1>2, <2>3, <3>1
    <3> QED BY <1>1, <1>2, <1>4, <2>3, <3>1, <3>2
  <2> QED BY <2>1, <2>2, <2>3 DEF CutInv
<1> QED BY <1>1, <1>2, <1>3, <1>4, <1>5, <1>6 DEF CutInv

(* Wherever the boundaries fall, no passage of at most overlap + 1          *)
(* characters is lost between two chunks of chunk_text, and no chunk is      *)
(* empty or longer than max_chars.                                          *)
THEOREM NothingCutApart == ChunkSpec => []ContextKept
<1>1. CutInv /\ [ChunkNext]_chunkVars => CutInv'
  <2> SUFFICES ASSUME CutInv, [ChunkNext]_chunkVars PROVE CutInv'
    OBVIOUS
  <2>1. CASE UNCHANGED chunkVars
    BY <2>1 DEF CutInv, chunkVars, Passages, ChunkFits
  <2> QED BY <2>1, WholeKeeps, CutKeeps DEF ChunkNext
<1>2. CutInv => ContextKept
  <2> SUFFICES ASSUME CutInv PROVE ContextKept
    OBVIOUS
  <2>1. \A c \in chunks : 0 <= c.from /\ c.from < c.to /\ c.to <= Len(text) /\ c.to - c.from <= MaxChars
    BY DEF CutInv, ChunkFits
  <2>2. ~cutting => \A p \in Passages : \E c \in chunks : HoldsPassage(c, p)
    BY DEF CutInv
  <2> QED BY <2>1, <2>2 DEF ContextKept
<1> QED BY InitCutInv, <1>1, <1>2, PTL DEF ChunkSpec
-----------------------------------------------------------------------------
(* The figures of a row, from the answers of a whole run: each task was     *)
(* attempted k times.                                                       *)
Outcomes == Answers \cup {NoAnswer}

LEMMA SetupTypes ==
  ASSUME NEW s \in Setups
  PROVE  /\ s.tasks \subseteq Nat /\ IsFiniteSet(s.tasks) /\ s.tasks # {}
         /\ s.k \in Nat \ {0} /\ s.heldOut \in BOOLEAN
         /\ Cardinality(s.tasks) \in Nat
BY EvalAssumption, FS_CardinalityType

LEMMA TimesMonotonic ==
  ASSUME NEW k \in Nat, NEW d \in Int, NEW b \in Int, d <= b
  PROVE  k * d <= b * k
<1>1. k * (b - d) >= 0
  <2> DEFINE x == b - d
  <2>1. x \in Nat
    OBVIOUS
  <2> HIDE DEF x
  <2>2. k * x >= 0
    BY <2>1
  <2> QED BY <2>2 DEF x
<1>2. k * (b - d) = b * k - k * d
  OBVIOUS
<1> QED BY <1>1, <1>2

LEMMA FiguresOfWholeRun ==
  ASSUME NEW s \in Setups, NEW res \in [s.tasks -> Seq(Outcomes)],
         \A t \in s.tasks : Len(res[t]) = s.k
  PROVE  LET n == Cardinality(s.tasks) IN
           /\ Cardinality(Attempts(res)) = n * s.k
           /\ {SuccessCount(res), PassCount(res), StableCount(res, s.k)} \subseteq Nat
           /\ PassCount(res) <= SuccessCount(res)
           /\ SuccessCount(res) <= PassCount(res) * s.k
           /\ SuccessCount(res) >= s.k * (PassCount(res) + StableCount(res, s.k) - n)
<1> DEFINE T == s.tasks
           k == s.k
           A == T \X (1..k)
           S == {a \in A : IsAccepted(res[a[1]][a[2]])}
           P == {t \in T : \E i \in 1..k : IsAccepted(res[t][i])}
           St == {t \in T : k > 1 => Cardinality(RangeOf(res[t])) = 1}
<1>1. /\ IsFiniteSet(T) /\ k \in Nat \ {0}
      /\ IsFiniteSet(1..k) /\ Cardinality(1..k) = k
  BY SetupTypes, FS_Interval, SMTT(30)
<1>2. DOMAIN res = T /\ \A t \in T : DOMAIN res[t] = 1..k
  OBVIOUS
<1> HIDE DEF T, k
<1>3. Attempts(res) = A
  <2>1. \A x : x \in Attempts(res) <=> \E t \in DOMAIN res : x \in {<<t, i>> : i \in DOMAIN res[t]}
    BY ZenonT(60) DEF Attempts
  <2>2. \A x : x \in Attempts(res) <=> \E t \in T, i \in 1..k : x = <<t, i>>
    <3>1. ASSUME NEW x, x \in Attempts(res) PROVE \E t \in T, i \in 1..k : x = <<t, i>>
      <4>1. PICK t \in DOMAIN res : x \in {<<t, i>> : i \in DOMAIN res[t]}
        BY <2>1, <3>1
      <4>2. PICK i \in DOMAIN res[t] : x = <<t, i>>
        BY <4>1
      <4> QED BY <4>1, <4>2, <1>2
    <3>2. ASSUME NEW t \in T, NEW i \in 1..k PROVE <<t, i>> \in Attempts(res)
      <4>1. t \in DOMAIN res /\ i \in DOMAIN res[t]
        BY <1>2
      <4>2. <<t, i>> \in {<<t, j>> : j \in DOMAIN res[t]}
        BY <4>1
      <4> QED BY <2>1, <4>1, <4>2
    <3> QED BY <3>1, <3>2
  <2> QED BY <2>2
<1>4. IsFiniteSet(A) /\ Cardinality(A) = Cardinality(T) * k
  BY <1>1, FS_Product
<1>5. SuccessCount(res) = Cardinality(S)
  BY <1>3 DEF SuccessCount
<1>6. PassCount(res) = Cardinality(P)
  <2>1. P = {t \in DOMAIN res : \E i \in DOMAIN res[t] : IsAccepted(res[t][i])}
    BY <1>2
  <2> QED BY <2>1 DEF PassCount
<1>7. StableCount(res, k) = Cardinality(St)
  <2>1. DOMAIN res = T
    BY <1>2
  <2> QED BY <2>1 DEF StableCount
<1>8. /\ S \subseteq A /\ P \subseteq T /\ St \subseteq T
      /\ IsFiniteSet(S) /\ IsFiniteSet(P) /\ IsFiniteSet(St)
  BY <1>1, <1>4, FS_Subset
<1>9. Cardinality(S) \in Nat /\ Cardinality(P) \in Nat /\ Cardinality(St) \in Nat
  BY <1>8, FS_CardinalityType
<1>10. Cardinality(P) <= Cardinality(S)
  <2> DEFINE f == [a \in S |-> a[1]]
  <2>1. f \in [S -> P]
    OBVIOUS
  <2>2. ASSUME NEW t \in P PROVE \E a \in S : f[a] = t
    <3>1. PICK i \in 1..k : IsAccepted(res[t][i])
      OBVIOUS
    <3>2. <<t, i>> \in S
      BY <3>1
    <3> QED BY <3>2
  <2>3. f \in Surjection(S, P)
    BY <2>1, <2>2 DEF Surjection
  <2> QED BY <2>3, <1>8, FS_Surjection
<1>11. Cardinality(S) <= Cardinality(P) * k
  <2>1. S \subseteq P \X (1..k)
    OBVIOUS
  <2>2. IsFiniteSet(P \X (1..k)) /\ Cardinality(P \X (1..k)) = Cardinality(P) * k
    BY <1>1, <1>8, FS_Product
  <2> QED BY <2>1, <2>2, FS_Subset
<1>12. Cardinality(S) >= k * (Cardinality(P) + Cardinality(St) - Cardinality(T))
  <2> DEFINE B == P \cap St
  <2>1. IsFiniteSet(B) /\ Cardinality(B) \in Nat
    BY <1>8, FS_Subset, FS_CardinalityType
  <2>2. ASSUME NEW t \in B, NEW i \in 1..k PROVE <<t, i>> \in S
    <3>1. PICK j \in 1..k : IsAccepted(res[t][j])
      OBVIOUS
    <3>2. CASE k = 1
      BY <3>1, <3>2
    <3>3. CASE k > 1
      <4> DEFINE R == RangeOf(res[t])
                 g == [m \in 1..k |-> res[t][m]]
      <4>1. R = {res[t][m] : m \in 1..k}
        BY <1>2 DEF RangeOf
      <4>2. g \in Surjection(1..k, R)
        BY <4>1 DEF Surjection
      <4>3. Cardinality(R) = 1
        BY <3>3
      <4>4. res[t][i] \in R /\ res[t][j] \in R
        BY <4>1
      <4> HIDE DEF R, g
      <4>5. IsFiniteSet(R)
        BY <4>2, <1>1, FS_Surjection
      <4>6. PICK x : R = {x}
        BY <4>3, <4>5, FS_Singleton
      <4>7. res[t][i] = res[t][j]
        BY <4>4, <4>6
      <4> QED BY <4>7, <3>1
    <3> QED BY <3>2, <3>3, <1>1
  <2>3. B \X (1..k) \subseteq S
    BY <2>2
  <2>4. IsFiniteSet(B \X (1..k)) /\ Cardinality(B \X (1..k)) = Cardinality(B) * k
    BY <1>1, <2>1, FS_Product
  <2>5. Cardinality(B) * k <= Cardinality(S)
    BY <2>3, <2>4, <1>8, FS_Subset
  <2>6. Cardinality(P \cup St) = Cardinality(P) + Cardinality(St) - Cardinality(B)
    BY <1>8, FS_Union
  <2>7. Cardinality(P \cup St) <= Cardinality(T) /\ Cardinality(T) \in Nat
    BY <1>1, <1>8, FS_Subset, FS_CardinalityType
  <2> HIDE DEF B, P, St, S
  <2>8. Cardinality(P) + Cardinality(St) - Cardinality(T) <= Cardinality(B)
    BY <2>1, <2>6, <2>7, <1>9
  <2>9. k * (Cardinality(P) + Cardinality(St) - Cardinality(T)) <= Cardinality(B) * k
    BY <2>1, <2>7, <2>8, <1>1, <1>9, TimesMonotonic
  <2> DEFINE x == k * (Cardinality(P) + Cardinality(St) - Cardinality(T))
             y == Cardinality(B) * k
  <2>10. x \in Int /\ y \in Int
    BY <1>1, <1>9, <2>1, <2>7
  <2>11. x <= y /\ y <= Cardinality(S)
    BY <2>5, <2>9
  <2> HIDE DEF x, y
  <2>12. x <= Cardinality(S)
    BY <2>10, <2>11, <1>9
  <2> QED BY <2>12, <2>10, <1>9 DEF x
<1> HIDE DEF S, P, St, A
<1>13. Cardinality(Attempts(res)) = Cardinality(T) * k
  BY <1>3, <1>4
<1> QED BY <1>5, <1>6, <1>7, <1>9, <1>10, <1>11, <1>12, <1>13 DEF T, k

-----------------------------------------------------------------------------
(* The inductive invariant of the evaluations.  An evaluation under way     *)
(* holds the sheet of its tasks, filled to at most k answers each, and to   *)
(* exactly k once it goes to its row; what it knows of the skill is what    *)
(* the registry held, unless a version was saved while its tasks ran.       *)
Sheets == {<<>>} \cup UNION {[s.tasks -> Seq(Outcomes)] : s \in Setups}

Runs == [setup : Setups \cup {NoAnswer}, used : 0..(MaxSaves + 1),
         captured : 0..(MaxSaves + 1), disturbed : BOOLEAN]

RowSet == [adapter : {s.adapter : s \in Setups}, label : {s.label : s \in Setups} \cup {""},
           hash : SUBSET Nat, heldOut : BOOLEAN, k : Nat \ {0}, total : Nat, successes : Nat,
           pass : Nat, stable : Nat, skills : 0..(MaxSaves + 1), tasks : SUBSET Nat,
           used : 0..(MaxSaves + 1), disturbed : BOOLEAN]

Underway == {e \in Evaluators : pc[e] # "idle"}

EvalTyped ==
  /\ rows \in Seq(RowSet)
  /\ started \in 0..MaxRuns /\ saves \in 0..MaxSaves /\ skill = saves + 1
  /\ pc \in [Evaluators -> {"idle", "running", "record"}]
  /\ run \in [Evaluators -> Runs]
  /\ answers \in [Evaluators -> Sheets]

SheetInv(e) ==
  /\ pc[e] = "idle" => answers[e] = <<>>
  /\ pc[e] # "idle" =>
       /\ run[e].setup \in Setups
       /\ answers[e] \in [run[e].setup.tasks -> Seq(Outcomes)]
       /\ \A t \in run[e].setup.tasks : Len(answers[e][t]) <= run[e].setup.k
  /\ pc[e] = "record" => \A t \in run[e].setup.tasks : Len(answers[e][t]) = run[e].setup.k

VersionInv(e) ==
  /\ pc[e] = "running" => run[e].disturbed \/ run[e].used = skill
  /\ pc[e] = "record" => run[e].disturbed \/ run[e].captured \in {run[e].used, NoVersion}

Figures(r) ==
  /\ r.total = Cardinality(r.tasks) * r.k
  /\ r.pass <= r.successes /\ r.successes <= r.pass * r.k
  /\ r.successes >= r.k * (r.pass + r.stable - Cardinality(r.tasks))

RowInv(r) ==
  /\ ~IsLegacy(r) => r.hash = r.tasks /\ Figures(r)
  /\ r.disturbed \/ r.skills \in {r.used, NoVersion}

CountInv ==
  /\ IsFiniteSet(Underway)
  /\ Len(rows) + Cardinality(Underway) <= started + 1

EvalInv ==
  /\ EvalTyped
  /\ \A e \in Evaluators : SheetInv(e) /\ VersionInv(e)
  /\ \A i \in DOMAIN rows : RowInv(rows[i])
  /\ CountInv

LEMMA NoRunTyped == NoRun \in Runs
BY EvalAssumption DEF NoRun, Runs, NoVersion

LEMMA StartedRunTyped ==
  ASSUME NEW s \in Setups, NEW v \in 0..(MaxSaves + 1)
  PROVE  LET r == [NoRun EXCEPT !.setup = s, !.used = v] IN
           r \in Runs /\ r.setup = s /\ r.used = v
<1> DEFINE r0 == [NoRun EXCEPT !.setup = s]
           r == [r0 EXCEPT !.used = v]
<1>1. r0 \in Runs /\ r0.setup = s
  BY NoRunTyped DEF Runs
<1> HIDE DEF r0
<1>2. r \in Runs /\ r.setup = s /\ r.used = v
  BY <1>1 DEF Runs
<1> QED BY <1>2 DEF r0

LEMMA LegacyRowGood ==
  ASSUME NEW s \in Setups
  PROVE  LegacyRow(s) \in RowSet /\ RowInv(LegacyRow(s))
<1>1. s.tasks \subseteq Nat /\ Cardinality(s.tasks) \in Nat /\ MaxSaves \in Nat
  BY SetupTypes, EvalAssumption
<1>2. s.adapter \in {o.adapter : o \in Setups}
  OBVIOUS
<1>3. LegacyRow(s) \in RowSet
  BY <1>1, <1>2 DEF LegacyRow, RowSet, NoHash, NoVersion
<1>4. RowInv(LegacyRow(s))
  BY DEF RowInv, IsLegacy, LegacyRow, NoHash, NoVersion
<1> QED BY <1>3, <1>4

LEMMA WholeRowGood ==
  ASSUME NEW r \in Runs, r.setup \in Setups, NEW res \in [r.setup.tasks -> Seq(Outcomes)],
         \A t \in r.setup.tasks : Len(res[t]) = r.setup.k,
         r.disturbed \/ r.captured \in {r.used, NoVersion}
  PROVE  RowOf(r, res) \in RowSet /\ RowInv(RowOf(r, res))
<1> DEFINE s == r.setup
           total == Cardinality(Attempts(res))
           successes == SuccessCount(res)
           pass == PassCount(res)
           stable == StableCount(res, s.k)
           n == Cardinality(s.tasks)
           row == RowOf(r, res)
<1>1. /\ total = n * s.k /\ {successes, pass, stable} \subseteq Nat
      /\ pass <= successes /\ successes <= pass * s.k
      /\ successes >= s.k * (pass + stable - n)
  BY FiguresOfWholeRun
<1>2. /\ s \in Setups /\ s.tasks \subseteq Nat /\ n \in Nat /\ s.k \in Nat \ {0} /\ s.heldOut \in BOOLEAN
      /\ DOMAIN res = s.tasks
  BY SetupTypes
<1>3. total \in Nat
  BY <1>1, <1>2
<1>4. /\ s.adapter \in {o.adapter : o \in Setups}
      /\ s.label \in {o.label : o \in Setups} \cup {""}
  BY <1>2
<1>5. row = [adapter |-> s.adapter, label |-> s.label, hash |-> s.tasks,
             heldOut |-> s.heldOut, k |-> s.k, total |-> total, successes |-> successes,
             pass |-> pass, stable |-> stable,
             skills |-> r.captured, tasks |-> s.tasks, used |-> r.used, disturbed |-> r.disturbed]
  BY <1>2 DEF RowOf
<1>6. /\ r.captured \in 0..(MaxSaves + 1) /\ r.used \in 0..(MaxSaves + 1) /\ r.disturbed \in BOOLEAN
  BY DEF Runs
<1>n. n = Cardinality(s.tasks)
  OBVIOUS
<1> HIDE DEF s, total, successes, pass, stable, n, row
<1>7. row \in RowSet
  BY <1>1, <1>2, <1>3, <1>4, <1>5, <1>6 DEF RowSet
<1>8. RowInv(row)
  <2>1. /\ row.hash = s.tasks /\ row.tasks = s.tasks /\ row.total = total /\ row.k = s.k
        /\ row.pass = pass /\ row.successes = successes /\ row.stable = stable
        /\ row.skills = r.captured /\ row.used = r.used /\ row.disturbed = r.disturbed
    BY <1>5
  <2>2. Figures(row)
    BY <2>1, <1>1, <1>n DEF Figures
  <2> QED BY <2>1, <2>2 DEF RowInv
<1> QED BY <1>7, <1>8 DEF row

LEMMA InitEvalInv == Init => EvalInv
<1> SUFFICES ASSUME Init PROVE EvalInv
  OBVIOUS
<1> USE DEF Init
<1>1. rows \in Seq(RowSet) /\ Len(rows) <= 1 /\ \A i \in DOMAIN rows : RowInv(rows[i])
  <2>1. CASE rows = <<>>
    BY <2>1
  <2>2. ASSUME NEW s \in Setups, rows = <<LegacyRow(s)>>
        PROVE  rows \in Seq(RowSet) /\ Len(rows) <= 1 /\ \A i \in DOMAIN rows : RowInv(rows[i])
    <3> DEFINE row == LegacyRow(s)
    <3>1. row \in RowSet /\ RowInv(row) /\ rows = <<row>>
      BY <2>2, LegacyRowGood
    <3> HIDE DEF row
    <3> QED BY <3>1
  <2> QED BY <2>1, <2>2
<1>2. MaxRuns \in Nat /\ MaxSaves \in Nat
  BY EvalAssumption
<1>3. <<>> \in Sheets
  BY DEF Sheets
<1>4. EvalTyped
  BY <1>1, <1>2, <1>3, NoRunTyped DEF EvalTyped
<1>5. \A e \in Evaluators : SheetInv(e) /\ VersionInv(e)
  BY DEF SheetInv, VersionInv
<1>6. CountInv
  <2>1. Underway = {}
    BY DEF Underway
  <2> QED BY <2>1, <1>1, FS_EmptySet DEF CountInv
<1> QED BY <1>1, <1>4, <1>5, <1>6 DEF EvalInv

(* Steps of one evaluation leave the others alone.                          *)
LEMMA StartRunKeeps ==
  ASSUME EvalInv, NEW e \in Evaluators, StartRun(e)
  PROVE  EvalInv'
<1> USE DEF EvalInv
<1>1. PICK s \in Setups :
        /\ run' = [run EXCEPT ![e] = [NoRun EXCEPT !.setup = s, !.used = skill]]
        /\ answers' = [answers EXCEPT ![e] = [t \in s.tasks |-> <<>>]]
  BY DEF StartRun
<1>2. /\ pc' = [pc EXCEPT ![e] = "running"] /\ pc[e] = "idle" /\ started < MaxRuns /\ started' = started + 1
      /\ UNCHANGED <<rows, skill, saves>>
  BY DEF StartRun, Goto
<1> DEFINE r == [NoRun EXCEPT !.setup = s, !.used = skill]
           sheet == [t \in s.tasks |-> <<>>]
<1>3. r.setup = s /\ r.used = skill /\ r \in Runs
  <2>1. skill \in 0..(MaxSaves + 1)
    BY EvalAssumption DEF EvalTyped
  <2> QED BY <2>1, <1>1, StartedRunTyped
<1>4. sheet \in [s.tasks -> Seq(Outcomes)] /\ sheet \in Sheets /\ \A t \in s.tasks : Len(sheet[t]) = 0
  <2>1. sheet \in [s.tasks -> Seq(Outcomes)] /\ \A t \in s.tasks : Len(sheet[t]) = 0
    OBVIOUS
  <2>2. [s.tasks -> Seq(Outcomes)] \subseteq Sheets
    BY <1>1 DEF Sheets
  <2> QED BY <2>1, <2>2
<1> HIDE DEF r, sheet
<1>5. run' = [run EXCEPT ![e] = r] /\ answers' = [answers EXCEPT ![e] = sheet]
  BY <1>1 DEF r, sheet
<1>6. EvalTyped'
  BY <1>2, <1>3, <1>4, <1>5, EvalAssumption DEF EvalTyped
<1>7. ASSUME NEW o \in Evaluators PROVE SheetInv(o)' /\ VersionInv(o)'
  <2>1. CASE o = e
    <3>1. pc'[o] = "running" /\ run'[o] = r /\ answers'[o] = sheet /\ skill' = skill
      BY <2>1, <1>2, <1>5 DEF EvalTyped
    <3>2. s.k \in Nat
      BY <1>1, SetupTypes
    <3> QED BY <3>1, <3>2, <1>3, <1>4 DEF SheetInv, VersionInv
  <2>2. CASE o # e
    <3>1. pc'[o] = pc[o] /\ run'[o] = run[o] /\ answers'[o] = answers[o] /\ skill' = skill
      BY <2>2, <1>2, <1>5 DEF EvalTyped
    <3> QED BY <3>1 DEF SheetInv, VersionInv
  <2> QED BY <2>1, <2>2
<1>8. CountInv'
  <2>1. Underway' = Underway \cup {e} /\ e \notin Underway
    BY <1>2 DEF Underway, EvalTyped
  <2>2. IsFiniteSet(Underway)
    BY DEF CountInv
  <2> DEFINE U == Underway  U2 == Underway'
  <2>3. IsFiniteSet(U2) /\ Cardinality(U2) = Cardinality(U) + 1
    BY <2>1, <2>2, FS_AddElement
  <2>4. Cardinality(U) \in Nat /\ Len(rows) \in Nat /\ started \in Nat
    BY <2>2, FS_CardinalityType DEF EvalTyped
  <2> HIDE DEF U, U2
  <2>5. Len(rows) + Cardinality(U) <= started + 1
    BY DEF CountInv, U
  <2>6. Len(rows)' + Cardinality(U2) <= started' + 1
    BY <2>3, <2>4, <2>5, <1>2
  <2> QED BY <2>3, <2>6 DEF CountInv, U2
<1> QED BY <1>2, <1>6, <1>7, <1>8

LEMMA AttemptKeeps ==
  ASSUME EvalInv, NEW e \in Evaluators, Attempt(e)
  PROVE  EvalInv'
<1> USE DEF EvalInv
<1>1. PICK t \in Unfinished(e), a \in Outcomes : answers' = [answers EXCEPT ![e][t] = Append(@, a)]
  BY DEF Attempt, Outcomes
<1>2. pc[e] = "running" /\ UNCHANGED <<rows, skill, pc, run, started, saves>>
  BY DEF Attempt
<1> DEFINE s == run[e].setup
           old == answers[e]
           sheet == [old EXCEPT ![t] = Append(@, a)]
<1>3. s \in Setups /\ old \in [s.tasks -> Seq(Outcomes)] /\ \A q \in s.tasks : Len(old[q]) <= s.k
  BY <1>2 DEF SheetInv
<1>4. t \in s.tasks /\ Len(old[t]) < s.k
  BY <1>1, <1>3 DEF Unfinished
<1>5. answers' = [answers EXCEPT ![e] = sheet]
  BY <1>1 DEF EvalTyped
<1>k. s.k \in Nat
  BY <1>3, SetupTypes
<1> HIDE DEF s, old
<1>6. sheet \in [s.tasks -> Seq(Outcomes)] /\ \A q \in s.tasks : Len(sheet[q]) <= s.k
  BY <1>1, <1>3, <1>4, <1>k
<1>7. sheet \in Sheets
  BY <1>3, <1>6 DEF Sheets
<1> HIDE DEF sheet
<1>8. EvalTyped'
  BY <1>2, <1>5, <1>7 DEF EvalTyped
<1>9. ASSUME NEW o \in Evaluators PROVE SheetInv(o)' /\ VersionInv(o)'
  <2>1. CASE o = e
    <3>1. pc'[o] = "running" /\ run'[o] = run[o] /\ answers'[o] = sheet /\ skill' = skill
      BY <2>1, <1>2, <1>5 DEF EvalTyped
    <3> QED BY <3>1, <2>1, <1>2, <1>3, <1>6 DEF SheetInv, VersionInv, s
  <2>2. CASE o # e
    <3>1. pc'[o] = pc[o] /\ run'[o] = run[o] /\ answers'[o] = answers[o] /\ skill' = skill
      BY <2>2, <1>2, <1>5 DEF EvalTyped
    <3> QED BY <3>1 DEF SheetInv, VersionInv
  <2> QED BY <2>1, <2>2
<1>10. CountInv'
  BY <1>2 DEF CountInv, Underway
<1> QED BY <1>2, <1>8, <1>9, <1>10

LEMMA CaptureVersionsKeeps ==
  ASSUME EvalInv, NEW e \in Evaluators, CaptureVersions(e)
  PROVE  EvalInv'
<1> USE DEF EvalInv
<1>1. PICK v \in {skill, NoVersion} : run' = [run EXCEPT ![e].captured = v]
  BY DEF CaptureVersions, Captured
<1>2. /\ pc[e] = "running" /\ pc' = [pc EXCEPT ![e] = "record"] /\ Unfinished(e) = {}
      /\ UNCHANGED <<rows, skill, answers, started, saves>>
  BY DEF CaptureVersions, Goto
<1> DEFINE r == [run[e] EXCEPT !.captured = v]
<1>3. run[e] \in Runs /\ v \in 0..(MaxSaves + 1)
  BY <1>1, EvalAssumption DEF EvalTyped, NoVersion
<1>4. r \in Runs /\ r.setup = run[e].setup /\ r.used = run[e].used /\ r.captured = v /\ r.disturbed = run[e].disturbed
  BY <1>3 DEF Runs
<1>5. run' = [run EXCEPT ![e] = r]
  BY <1>1 DEF EvalTyped
<1> HIDE DEF r
<1>6. EvalTyped'
  BY <1>2, <1>4, <1>5 DEF EvalTyped
<1>7. ASSUME NEW o \in Evaluators PROVE SheetInv(o)' /\ VersionInv(o)'
  <2>1. CASE o = e
    <3>1. pc'[o] = "record" /\ run'[o] = r /\ answers'[o] = answers[o] /\ skill' = skill
      BY <2>1, <1>2, <1>5 DEF EvalTyped
    <3>2. /\ r.setup \in Setups /\ answers[e] \in [r.setup.tasks -> Seq(Outcomes)]
          /\ \A t \in r.setup.tasks : Len(answers[e][t]) <= r.setup.k
      BY <1>2, <1>4 DEF SheetInv
    <3>3. r.setup.k \in Nat
      BY <3>2, SetupTypes
    <3>4. \A t \in r.setup.tasks : Len(answers[e][t]) = r.setup.k
      BY <1>2, <1>4, <3>2, <3>3 DEF Unfinished
    <3>5. r.disturbed \/ r.used = skill
      BY <1>2, <1>4 DEF VersionInv
    <3> QED BY <3>1, <3>2, <3>4, <3>5, <2>1, <1>1, <1>4 DEF SheetInv, VersionInv
  <2>2. CASE o # e
    <3>1. pc'[o] = pc[o] /\ run'[o] = run[o] /\ answers'[o] = answers[o] /\ skill' = skill
      BY <2>2, <1>2, <1>5 DEF EvalTyped
    <3> QED BY <3>1 DEF SheetInv, VersionInv
  <2> QED BY <2>1, <2>2
<1>8. CountInv'
  <2>1. Underway' = Underway
    BY <1>2 DEF Underway, EvalTyped
  <2> QED BY <2>1, <1>2 DEF CountInv
<1> QED BY <1>2, <1>6, <1>7, <1>8

(* An evaluation that ends leaves nothing behind but, perhaps, its row.     *)
LEMMA EndRunKeeps ==
  ASSUME EvalInv, NEW e \in Evaluators, pc[e] # "idle", EndRun(e), UNCHANGED <<skill, started, saves>>,
         \/ rows' = rows
         \/ \E row \in RowSet : RowInv(row) /\ rows' = Append(rows, row)
  PROVE  EvalInv'
<1> USE DEF EvalInv
<1>1. /\ pc' = [pc EXCEPT ![e] = "idle"] /\ run' = [run EXCEPT ![e] = NoRun]
      /\ answers' = [answers EXCEPT ![e] = <<>>]
  BY DEF EndRun, Goto
<1>2. <<>> \in Sheets
  BY DEF Sheets
<1>3. /\ rows' \in Seq(RowSet) /\ Len(rows') \in Nat /\ Len(rows') <= Len(rows) + 1
      /\ \A i \in DOMAIN rows' : RowInv(rows'[i])
  <2>1. ASSUME NEW row \in RowSet, RowInv(row), rows' = Append(rows, row)
        PROVE  /\ rows' \in Seq(RowSet) /\ Len(rows') \in Nat /\ Len(rows') <= Len(rows) + 1
               /\ \A i \in DOMAIN rows' : RowInv(rows'[i])
    <3>1. /\ rows' \in Seq(RowSet) /\ Len(rows') = Len(rows) + 1 /\ Len(rows) \in Nat
          /\ rows'[Len(rows) + 1] = row /\ \A i \in 1..Len(rows) : rows'[i] = rows[i]
      BY <2>1 DEF EvalTyped
    <3>2. \A i \in DOMAIN rows' : i = Len(rows) + 1 \/ i \in 1..Len(rows)
      BY <3>1
    <3> QED BY <2>1, <3>1, <3>2
  <2>2. CASE rows' = rows
    BY <2>2 DEF EvalTyped
  <2> QED BY <2>1, <2>2
<1>4. EvalTyped'
  BY <1>1, <1>2, <1>3, NoRunTyped DEF EvalTyped
<1>5. ASSUME NEW o \in Evaluators PROVE SheetInv(o)' /\ VersionInv(o)'
  <2>1. CASE o = e
    <3>1. pc'[o] = "idle" /\ answers'[o] = <<>>
      BY <2>1, <1>1 DEF EvalTyped
    <3> QED BY <3>1 DEF SheetInv, VersionInv
  <2>2. CASE o # e
    <3>1. pc'[o] = pc[o] /\ run'[o] = run[o] /\ answers'[o] = answers[o] /\ skill' = skill
      BY <2>2, <1>1 DEF EvalTyped
    <3> QED BY <3>1 DEF SheetInv, VersionInv
  <2> QED BY <2>1, <2>2
<1>6. CountInv'
  <2>1. Underway' = Underway \ {e} /\ e \in Underway
    BY <1>1 DEF Underway, EvalTyped
  <2>2. IsFiniteSet(Underway)
    BY DEF CountInv
  <2> DEFINE U == Underway  U2 == Underway'
  <2>3. IsFiniteSet(U2) /\ Cardinality(U2) = Cardinality(U) - 1
    BY <2>1, <2>2, FS_RemoveElement
  <2>4. Cardinality(U) \in Nat /\ Len(rows) \in Nat /\ started \in Nat
    BY <2>2, FS_CardinalityType DEF EvalTyped
  <2> HIDE DEF U, U2
  <2>5. Len(rows) + Cardinality(U) <= started + 1
    BY DEF CountInv, U
  <2>6. Len(rows)' + Cardinality(U2) <= started' + 1
    BY <2>3, <2>4, <2>5, <1>3
  <2> QED BY <2>3, <2>6 DEF CountInv, U2
<1> QED BY <1>3, <1>4, <1>5, <1>6

LEMMA RecordKeeps ==
  ASSUME EvalInv, NEW e \in Evaluators, Record(e)
  PROVE  EvalInv'
<1>1. run[e] \in Runs /\ pc[e] = "record" /\ rows' = Append(rows, RowOf(run[e], answers[e]))
  BY DEF EvalInv, EvalTyped, Record
<1>2. /\ run[e].setup \in Setups /\ answers[e] \in [run[e].setup.tasks -> Seq(Outcomes)]
      /\ \A t \in run[e].setup.tasks : Len(answers[e][t]) = run[e].setup.k
  BY <1>1 DEF EvalInv, SheetInv
<1>3. run[e].disturbed \/ run[e].captured \in {run[e].used, NoVersion}
  BY <1>1 DEF EvalInv, VersionInv
<1>4. RowOf(run[e], answers[e]) \in RowSet /\ RowInv(RowOf(run[e], answers[e]))
  BY <1>1, <1>2, <1>3, WholeRowGood
<1> QED BY <1>1, <1>4, EndRunKeeps DEF Record

LEMMA DiesKeeps ==
  ASSUME EvalInv, NEW e \in Evaluators, Dies(e)
  PROVE  EvalInv'
BY EndRunKeeps DEF Dies

LEMMA SaveSkillKeeps ==
  ASSUME EvalInv, SaveSkill
  PROVE  EvalInv'
<1> USE DEF EvalInv
<1>1. /\ saves < MaxSaves /\ saves' = saves + 1 /\ skill' = skill + 1
      /\ run' = [e \in Evaluators |-> [run[e] EXCEPT !.disturbed = @ \/ pc[e] = "running"]]
      /\ UNCHANGED <<rows, pc, answers, started>>
  BY DEF SaveSkill
<1>2. ASSUME NEW e \in Evaluators
      PROVE  /\ run'[e] \in Runs /\ run'[e].setup = run[e].setup /\ run'[e].used = run[e].used
             /\ run'[e].captured = run[e].captured
             /\ run'[e].disturbed <=> run[e].disturbed \/ pc[e] = "running"
  <2> DEFINE d == run[e].disturbed \/ pc[e] = "running"
  <2>1. run[e] \in Runs /\ run'[e] = [run[e] EXCEPT !.disturbed = d]
    BY <1>1 DEF EvalTyped
  <2>2. d \in BOOLEAN
    OBVIOUS
  <2>3. d <=> run[e].disturbed \/ pc[e] = "running"
    OBVIOUS
  <2> HIDE DEF d
  <2>4. /\ run'[e] \in Runs /\ run'[e].setup = run[e].setup /\ run'[e].used = run[e].used
        /\ run'[e].captured = run[e].captured /\ run'[e].disturbed = d
    BY <2>1, <2>2 DEF Runs
  <2> QED BY <2>3, <2>4
<1>3. run' \in [Evaluators -> Runs]
  BY <1>1, <1>2
<1>4. EvalTyped'
  BY <1>1, <1>3, EvalAssumption DEF EvalTyped
<1>5. ASSUME NEW e \in Evaluators PROVE SheetInv(e)' /\ VersionInv(e)'
  <2>1. pc'[e] = pc[e] /\ answers'[e] = answers[e]
    BY <1>1
  <2>2. SheetInv(e) /\ VersionInv(e)
    OBVIOUS
  <2> QED BY <2>1, <2>2, <1>2 DEF SheetInv, VersionInv
<1>6. CountInv'
  BY <1>1 DEF CountInv, Underway
<1> QED BY <1>1, <1>4, <1>5, <1>6

(* The invariant holds at every step.                                       *)
THEOREM EvaluationInvariant == Spec => []EvalInv
<1>1. EvalInv /\ [Next]_vars => EvalInv'
  <2> SUFFICES ASSUME EvalInv, [Next]_vars PROVE EvalInv'
    OBVIOUS
  <2>1. CASE UNCHANGED vars
    BY <2>1 DEF vars, EvalInv, EvalTyped, SheetInv, VersionInv, CountInv, Underway
  <2> QED BY <2>1, StartRunKeeps, AttemptKeeps, CaptureVersionsKeeps, RecordKeeps, DiesKeeps, SaveSkillKeeps DEF Next
<1> QED BY InitEvalInv, <1>1, PTL DEF Spec

(* The type invariant, and that each evaluation leaves at most one row:     *)
(* run_eval_cmd writes to the history once.                                 *)
THEOREM EvalTypeCorrect == Spec => []TypeOK
<1>1. EvalInv => TypeOK
  <2> SUFFICES ASSUME EvalInv PROVE TypeOK
    OBVIOUS
  <2>1. Len(rows) <= MaxRuns + 1
    <3>1. IsFiniteSet(Underway) /\ Len(rows) + Cardinality(Underway) <= started + 1
      BY DEF EvalInv, CountInv
    <3>2. Cardinality(Underway) \in Nat
      BY <3>1, FS_CardinalityType
    <3> QED BY <3>1, <3>2, EvalAssumption DEF EvalInv, EvalTyped
  <2>2. \A i \in DOMAIN rows : rows[i] \in RowSet
    BY DEF EvalInv, EvalTyped
  <2>3. \A e \in Evaluators : \A t \in DOMAIN answers[e] :
          answers[e][t] \in Seq(Outcomes) /\ Len(answers[e][t]) <= run[e].setup.k
    <3> TAKE e \in Evaluators
    <3>1. CASE pc[e] = "idle"
      BY <3>1 DEF EvalInv, SheetInv
    <3>2. CASE pc[e] # "idle"
      BY <3>2 DEF EvalInv, SheetInv
    <3> QED BY <3>1, <3>2
  <2>4. \A i \in DOMAIN rows :
          /\ {rows[i].total, rows[i].successes, rows[i].pass, rows[i].stable} \subseteq Nat
          /\ rows[i].k \in Nat \ {0}
          /\ rows[i].skills \in 0..(MaxSaves + 1)
    BY <2>2 DEF RowSet
  <2>5. skill \in 1..(MaxSaves + 1)
    BY EvalAssumption DEF EvalInv, EvalTyped
  <2>6. \A e \in Evaluators : run[e].setup \in Setups \cup {NoAnswer}
    BY DEF EvalInv, EvalTyped, Runs
  <2> QED BY <2>1, <2>3, <2>4, <2>5, <2>6 DEF EvalInv, EvalTyped, TypeOK, Outcomes
<1> QED BY <1>1, EvaluationInvariant, PTL

(* Whatever died, a row that compute_reliability_metrics filled is of a     *)
(* whole run, and its success count, pass@k and stable@k fit together.      *)
THEOREM FiguresAgree == Spec => []MetricsAgree
<1>1. EvalInv => MetricsAgree
  BY DEF EvalInv, RowInv, Figures, MetricsAgree
<1> QED BY <1>1, EvaluationInvariant, PTL

(* The versions that capture_skill_versions puts into a row are those that  *)
(* were measured, unless one was saved while the tasks ran.                 *)
THEOREM VersionsAreTold == Spec => []VersionsTold
<1>1. EvalInv => VersionsTold
  BY DEF EvalInv, RowInv, VersionsTold
<1> QED BY <1>1, EvaluationInvariant, PTL

(* eval_compare_cmd is silent only about two rows that measured the same    *)
(* benchmark, and the candidate it takes by default is a later visible one. *)
THEOREM ComparisonsAreAlike == Spec => []ComparedAlike
<1>1. EvalInv => ComparedAlike
  <2> SUFFICES ASSUME EvalInv, NEW i \in DOMAIN rows
               PROVE  /\ \A j \in DOMAIN rows : LET b == rows[i] c == rows[j] IN
                           ~Warn(b, c) =>
                             /\ b.adapter = c.adapter /\ b.label = c.label /\ b.k = c.k /\ b.heldOut = c.heldOut
                             /\ IsLegacy(b) \/ b.tasks = c.tasks
                      /\ \A j \in DefaultCandidates(i) :
                           ~rows[j].heldOut /\ (rows[i].heldOut \/ j > i)
    BY DEF ComparedAlike
  <2>1. ASSUME NEW j \in DOMAIN rows, ~Warn(rows[i], rows[j])
        PROVE  /\ rows[i].adapter = rows[j].adapter /\ rows[i].label = rows[j].label
               /\ rows[i].k = rows[j].k /\ rows[i].heldOut = rows[j].heldOut
               /\ IsLegacy(rows[i]) \/ rows[i].tasks = rows[j].tasks
    <3>1. /\ rows[i].adapter = rows[j].adapter /\ rows[i].label = rows[j].label
          /\ rows[i].k = rows[j].k /\ rows[i].heldOut = rows[j].heldOut
          /\ rows[i].hash = NoHash \/ rows[i].hash = rows[j].hash
      BY <2>1 DEF Warn
    <3>2. ASSUME ~IsLegacy(rows[i]) PROVE rows[i].tasks = rows[j].tasks
      <4>1. rows[i].hash = rows[j].hash /\ ~IsLegacy(rows[j])
        BY <3>1, <3>2 DEF IsLegacy
      <4> QED BY <4>1, <3>2 DEF EvalInv, RowInv
    <3> QED BY <3>1, <3>2
  <2>2. ASSUME NEW j \in DefaultCandidates(i)
        PROVE  ~rows[j].heldOut /\ (rows[i].heldOut \/ j > i)
    <3> DEFINE L == Listed(rows[i].adapter, FALSE)
    <3>1. j \in L /\ j # i /\ \A o \in L : j >= o
      BY DEF DefaultCandidates, Newest
    <3>2. j \in DOMAIN rows /\ ~rows[j].heldOut
      BY <3>1 DEF Listed
    <3>3. rows[i].heldOut \/ i \in L
      BY DEF Listed
    <3> HIDE DEF L
    <3>4. i \in Nat /\ j \in Nat
      BY <3>2 DEF EvalInv, EvalTyped
    <3>5. i \in L => j > i
      BY <3>1, <3>4
    <3> QED BY <3>2, <3>3, <3>5, Zenon
  <2> QED BY <2>1, <2>2
<1> QED BY <1>1, EvaluationInvariant, PTL
=============================================================================
